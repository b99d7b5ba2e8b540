------------------------------ MODULE BlockTree ------------------------------
(***************************************************************************)
(* The tree that Kore::data::Block and Kore::data::Library keep: each      *)
(* Library has the list of its blocks, each Block a pointer to its Library *)
(* and its position there.  An operation on a Library updates both sides   *)
(* through calls that go back and forth between the two objects; here each *)
(* of these calls is a function from a tree to a tree, so an operation is  *)
(* written as the code nests its calls.                                    *)
(*                                                                         *)
(* Destruction goes step by step: destroying a library destroys its blocks *)
(* one by one, and the signals emitted on the way call slots that may use  *)
(* the rest of the tree, or destroy other blocks, before it goes on.       *)
(***************************************************************************)
EXTENDS Integers, SequencesExt

CONSTANTS
    Blocks,     \* all the blocks of the program
    Libraries,  \* those that are libraries
    Deletable,  \* those with the Allocated or the System flag
    NoLibrary,  \* K_NULL
    Classes,
    ClassOf,    \* the class of each block
    SuperClass, \* the super class of each class, if it has one
    Reparent    \* the calls that the program uses on a block that still
                \* belongs to another library

ASSUME BlocksAssumption ==
    /\ IsFiniteSet(Blocks)
    /\ Libraries \subseteq Blocks
    /\ Deletable \subseteq Blocks
    /\ NoLibrary \notin Blocks
    /\ Reparent \subseteq {"addBlock", "insertBlock"}
    /\ ClassOf \in [Blocks -> Classes]
    /\ SuperClass \in [Classes -> Classes \cup {NoLibrary}]

VARIABLES
    tree,    \* the tree, and what the objects connected to its signals know
    dying,   \* the blocks with the IsBeingDeleted flag
    deleted, \* the blocks that were deleted
    stack    \* the calls of destroy and clear in progress, innermost first

vars == <<tree, dying, deleted, stack>>

\* kids: Library::_blocks; parent: Block::_library; index: Block::_index.
\* seen: the last index each block announced with indexChanged.
\* placed: blockInserted (TRUE) or blockRemoved (FALSE) came last.
\* mirror: what a view of each library shows, that was built from its signals.
\* wild: a list was read outside of its bounds.
Tree == [kids   : [Libraries -> Seq(Blocks)],
         parent : [Blocks -> Libraries \cup {NoLibrary}],
         index  : [Blocks -> Nat \cup {-1}],
         seen   : [Blocks -> Nat \cup {-1}],
         placed : [Blocks -> BOOLEAN],
         mirror : [Libraries -> Seq(Blocks)],
         wild   : BOOLEAN]

\* Only a library is cleared.
Frame == {f \in [call : {"destroy", "clear"}, block : Blocks,
                 at : {"clearing", "notify", "detach"}] :
              f.at = "clearing" => f.block \in Libraries}

-----------------------------------------------------------------------------
(* QList                                                                   *)

IndexOf(s, b) == SelectInSeq(s, LAMBDA x : x = b) - 1

MoveItem(s, from, to) == InsertAt(RemoveAt(s, from + 1), to + 1, s[from + 1])

SwapItems(s, i, j) == [s EXCEPT ![i + 1] = s[j + 1], ![j + 1] = s[i + 1]]

-----------------------------------------------------------------------------
(* Block::index and Library::indexBlocks                                   *)

\* The objects connected to indexChanged hear of it when the index differs.
SetIndexSilentlyToNone(t, b, i) ==
    [t EXCEPT !.index[b] = i,
              !.seen[b] = IF i \notin {t.index[b], -1} THEN i ELSE @]

SetIndex(t, b, i) ==
    [t EXCEPT !.index[b] = i,
              !.seen[b] = IF t.index[b] # i THEN i ELSE @]

IndexBlocks(t, lib, startOffset) ==
    LET new(b) == IF IndexOf(t.kids[lib], b) >= startOffset
                  THEN IndexOf(t.kids[lib], b)
                  ELSE t.index[b]
    IN  [t EXCEPT !.index = [b \in Blocks |-> new(b)],
                  !.seen = [b \in Blocks |->
                                IF new(b) # t.index[b] THEN new(b) ELSE @[b]]]

-----------------------------------------------------------------------------
(* Library::removeBlock, with Block::library(K_NULL) at its end.           *)

\* The index tells a block that its library lets it go.
Release(t, b) ==
    LET unindexed == SetIndex(t, b, -1)
    IN  [unindexed EXCEPT !.parent[b] = NoLibrary, !.placed[b] = FALSE]

\* blockRemoved reports the position that was looked up, not the block's own.
ReportBlockIndex(t, b, i) == t.index[b]
RemovedIndex(t, b, i) == i

RemoveBlock(t, lib, b) ==
    LET i == IndexOf(t.kids[lib], b)
        taken == IndexBlocks([t EXCEPT !.kids[lib] = RemoveAt(@, i + 1)], lib, i)
        free == IF taken.index[b] = i THEN Release(taken, b) ELSE taken
        gone == RemovedIndex(t, b, i) + 1
    IN  IF i = -1
        THEN [t EXCEPT !.wild = TRUE]
        ELSE [free EXCEPT !.mirror[lib] = RemoveAt(@, gone)]

-----------------------------------------------------------------------------
(* Block::library( lib ) for a library.  A block that still has another    *)
(* one takes itself out of it: it forgets its index first, which tells the *)
(* old library so.                                                         *)

LeaveKeepingIndex(t, b) == RemoveBlock(t, t.parent[b], b)
Leave(t, b) == RemoveBlock([t EXCEPT !.index[b] = -1], t.parent[b], b)

SetLibrary(t, b, lib) ==
    LET left == IF t.parent[b] = NoLibrary THEN [t EXCEPT !.placed[b] = TRUE]
                ELSE IF t.index[b] # -1 THEN Leave(t, b)
                ELSE t
    IN  [left EXCEPT !.parent[b] = lib]

(* Library::addBlock, insertBlock, swapBlocks and moveBlock.               *)

AddBlock(t, lib, b) ==
    LET i == Len(t.kids[lib])
        added == SetIndex([t EXCEPT !.kids[lib] = Append(@, b)], b, i)
        owned == SetLibrary(added, b, lib)
    IN  [owned EXCEPT !.mirror[lib] = InsertAt(@, i + 1, b)]

InsertBlockFromNext(t, lib, b, i) ==
    LET added == SetIndex([t EXCEPT !.kids[lib] = InsertAt(@, i + 1, b)], b, i)
        owned == IndexBlocks(SetLibrary(added, b, lib), lib, i + 1)
    IN  [owned EXCEPT !.mirror[lib] = InsertAt(@, i + 1, b)]

InsertBlock(t, lib, b, i) ==
    LET added == SetIndex([t EXCEPT !.kids[lib] = InsertAt(@, i + 1, b)], b, i)
        owned == IndexBlocks(SetLibrary(added, b, lib), lib, i)
    IN  [owned EXCEPT !.mirror[lib] = InsertAt(@, i + 1, b)]

SwapBlocks(t, lib, a, b) ==
    LET i == t.index[a]
        j == t.index[b]
        swapped == [t EXCEPT !.kids[lib] = SwapItems(@, i, j),
                             !.mirror[lib] = SwapItems(@, i, j)]
    IN  IF -1 \in {i, j}
        THEN [t EXCEPT !.wild = TRUE]
        ELSE SetIndex(SetIndex(swapped, a, j), b, i)

MoveBlock(t, lib, b, to) ==
    LET from == IF t.index[b] = -1 THEN IndexOf(t.kids[lib], b) ELSE t.index[b]
        first == IF from < to THEN from ELSE to
        moved == [t EXCEPT !.kids[lib] = MoveItem(@, from, to),
                           !.mirror[lib] = MoveItem(@, from, to)]
    IN  IF from = to THEN t ELSE IndexBlocks(moved, lib, first)

-----------------------------------------------------------------------------
(* What is asked of a tree: Block::fastInherits, and Library::findChildren *)
(* and totalSize, which go down the lists.                                 *)

FastInherits(b, class) ==
    LET from[mo \in Classes \cup {NoLibrary}] ==
            mo # NoLibrary /\ (mo = class \/ from[SuperClass[mo]])
    IN  from[ClassOf[b]]

Found(b, class) == IF FastInherits(b, class) THEN <<b>> ELSE <<>>

\* A library counts as found at its own depth; any negative depth means all.
FindChildrenTooDeep(t, lib, class, maxDepth) ==
    LET find[at \in Libraries \X Int] ==
            FoldLeft(LAMBDA found, b :
                         found \o IF b \in Libraries THEN find[<<b, at[2] - 1>>] ELSE Found(b, class),
                     Found(at[1], class), t.kids[at[1]])
    IN  find[<<lib, maxDepth>>]

FindChildren(t, lib, class, maxDepth) ==
    LET find[at \in Libraries \X Int] ==
            FoldLeft(LAMBDA found, b :
                         found \o IF b \in Libraries THEN find[<<b, at[2] - 1>>] ELSE Found(b, class),
                     Found(at[1], class), IF at[2] = 0 THEN <<>> ELSE t.kids[at[1]])
    IN  find[<<lib, maxDepth>>]

TotalSize(t, lib) ==
    LET size[l \in Libraries] ==
            FoldLeft(LAMBDA n, b : IF b \in Libraries THEN n + size[b] ELSE n,
                     Len(t.kids[l]), t.kids[l])
    IN  size[lib]

-----------------------------------------------------------------------------
Init ==
    /\ tree = [kids   |-> [l \in Libraries |-> <<>>],
               parent |-> [b \in Blocks |-> NoLibrary],
               index  |-> [b \in Blocks |-> -1],
               seen   |-> [b \in Blocks |-> -1],
               placed |-> [b \in Blocks |-> FALSE],
               mirror |-> [l \in Libraries |-> <<>>],
               wild   |-> FALSE]
    /\ dying = {} /\ deleted = {} /\ stack = <<>>

\* A block, its library, the library of that one and so on.
Above(b) ==
    LET up[n \in Nat] ==
            IF n = 0 THEN {b}
            ELSE up[n - 1] \cup {tree.parent[x] : x \in up[n - 1] \ {NoLibrary}}
    IN  up[Cardinality(Libraries)]

\* What the program may do with the tree, at any time and from any slot: it
\* uses no block that is being deleted, it makes no cycle, and it meets the
\* assertions of the code.
Usable(b) == b \notin dying \cup deleted
Holds(lib, b) == Contains(tree.kids[lib], b)
MayEnter(b, lib, call) ==
    /\ Usable(lib) /\ Usable(b)
    /\ ~Holds(lib, b) /\ b \notin Above(lib)
    /\ tree.parent[b] = NoLibrary \/ call \in Reparent

Update(t) ==
    /\ ~tree.wild
    /\ tree' = t
    /\ UNCHANGED <<dying, deleted, stack>>

Add(lib, b) ==
    /\ MayEnter(b, lib, "addBlock")
    /\ Update(AddBlock(tree, lib, b))

Insert(lib, b, i) ==
    /\ MayEnter(b, lib, "insertBlock") /\ i <= Len(tree.kids[lib])
    /\ Update(InsertBlock(tree, lib, b, i))

RemoveFrom(lib, b) ==
    /\ Usable(lib) /\ Usable(b) /\ Holds(lib, b)
    /\ Update(RemoveBlock(tree, lib, b))

Swap(lib, a, b) ==
    /\ Usable(lib) /\ Usable(a) /\ Usable(b) /\ a # b
    /\ Holds(lib, a) /\ Holds(lib, b)
    /\ Update(SwapBlocks(tree, lib, a, b))

Move(lib, b, to) ==
    /\ Usable(lib) /\ Usable(b) /\ Holds(lib, b) /\ to < Len(tree.kids[lib])
    /\ Update(MoveBlock(tree, lib, b, to))

-----------------------------------------------------------------------------
(* Block::destroy, Library::destroy and Library::clear                     *)

Top == Head(stack)
At(point) == stack # <<>> /\ ~tree.wild /\ Top.at = point
Goto(point) == stack' = <<[Top EXCEPT !.at = point]>> \o Tail(stack)

CallAsLibrary(call, b) ==
    <<[call |-> call, block |-> b, at |-> "clearing"]>> \o stack
Call(call, b) ==
    <<[call |-> call, block |-> b,
       at |-> IF b \in Libraries THEN "clearing" ELSE "notify"]>> \o stack

StartDestroy(b) ==
    /\ stack' = Call("destroy", b)
    /\ dying' = dying \cup {b}
    /\ UNCHANGED <<tree, deleted>>

\* A slot destroys nothing that contains what is being destroyed or cleared.
IsFree(b) == \A i \in DOMAIN stack : b \notin Above(stack[i].block)

Destroy(b) ==
    /\ Usable(b) /\ IsFree(b) /\ ~tree.wild
    /\ StartDestroy(b)

\* Slots do not call clear: one that did so each time would never let the
\* destruction around it go on.
Clear(lib) ==
    /\ Usable(lib) /\ stack = <<>> /\ ~tree.wild
    /\ tree.kids[lib] # <<>>
    /\ stack' = Call("clear", lib)
    /\ UNCHANGED <<tree, dying, deleted>>

\* The loop of clear: the last block goes first.
DestroyLast ==
    /\ At("clearing") /\ tree.kids[Top.block] # <<>>
    /\ StartDestroy(Last(tree.kids[Top.block]))

Cleared ==
    /\ At("clearing") /\ tree.kids[Top.block] = <<>>
    /\ IF Top.call = "clear" THEN stack' = Tail(stack) ELSE Goto("notify")
    /\ UNCHANGED <<tree, dying, deleted>>

\* emit blockDeleted()
NotifyDeleted ==
    /\ At("notify")
    /\ Goto("detach")
    /\ UNCHANGED <<tree, dying, deleted>>

\* Deleting a QObject deletes its children in the sense of Qt, too.
WithQtChildren(t, b) ==
    {x \in Blocks : x = b \/ t.parent[x] = b}

LeavesIfDeletable(b) == tree.parent[b] # NoLibrary /\ b \in Deletable
LeavesUnlessDying(b) == tree.parent[b] \notin dying \cup {NoLibrary}
LeavesItsLibrary(b) == tree.parent[b] # NoLibrary

Detach ==
    /\ At("detach")
    /\ LET b == Top.block
           t == IF LeavesItsLibrary(b) THEN RemoveBlock(tree, tree.parent[b], b)
                ELSE tree
       IN  /\ tree' = t
           /\ deleted' = deleted \cup (IF b \in Deletable THEN WithQtChildren(t, b)
                                       ELSE {})
    /\ stack' = Tail(stack)
    /\ UNCHANGED dying

Destruction == DestroyLast \/ Cleared \/ NotifyDeleted \/ Detach

Program ==
    \/ \E lib \in Libraries, b \in Blocks :
        \/ Add(lib, b) \/ RemoveFrom(lib, b)
        \/ \E i \in 0 .. Cardinality(Blocks) : Insert(lib, b, i) \/ Move(lib, b, i)
        \/ \E a \in Blocks : Swap(lib, a, b)
    \/ \E b \in Blocks : Destroy(b)
    \/ \E lib \in Libraries : Clear(lib)

Next == Program \/ Destruction

Spec == Init /\ [][Next]_vars

\* A destruction in progress goes on whenever the slots return.
FairSpec == Spec /\ WF_vars(Destruction)

-----------------------------------------------------------------------------
(* Properties.                                                             *)

TypeOK ==
    /\ tree \in Tree
    /\ dying \subseteq Blocks
    /\ deleted \subseteq Blocks
    /\ stack \in Seq(Frame)

\* Block.hpp: the index is the position of the block in its parent library.
IndexIsPosition ==
    \A b \in Blocks :
        LET lib == tree.parent[b]
        IN  IF lib = NoLibrary
            THEN tree.index[b] = -1
            ELSE /\ tree.index[b] + 1 \in DOMAIN tree.kids[lib]
                 /\ tree.kids[lib][tree.index[b] + 1] = b

\* The lists and the pointers agree: what a library lists is its own, at the
\* index it says, so a block is listed at most once in the whole program.  It
\* holds after every call, also between the steps of a destruction.
ListsAgree ==
    \A lib \in Libraries : \A i \in DOMAIN tree.kids[lib] :
        /\ tree.parent[tree.kids[lib][i]] = lib
        /\ tree.index[tree.kids[lib][i]] = i - 1

TreeIsConsistent == IndexIsPosition /\ ListsAgree

\* Block.cpp: an object that follows indexChanged keeps an accurate record of
\* the indices, also of those that a block changed by itself on its way from
\* one library to another.
WatchersAreAccurate == tree.seen = tree.index

\* A view that applies blockAdded, blockRemoved, blocksSwapped and blockMoved
\* to its own copy of a library shows what the library holds.
MirrorIsAccurate == tree.mirror = tree.kids

\* Whatever a library lists, findChildren finds the blocks of the class that have the
\* library above them, at most that deep, and each once; and totalSize counts them
\* all: both go down the lists, which agree with the way up, also between the steps
\* of a destruction.
LevelsUp(b, lib) ==
    LET up[n \in Nat] == IF n = 0 THEN b
                         ELSE IF up[n - 1] = NoLibrary THEN NoLibrary ELSE tree.parent[up[n - 1]]
    IN  {n \in 0 .. Cardinality(Libraries) : up[n] = lib}

QueriesAreExact ==
    \A lib \in Libraries :
        /\ TotalSize(tree, lib) = Cardinality({b \in Blocks \ {lib} : LevelsUp(b, lib) # {}})
        /\ \A class \in Classes, maxDepth \in {-1, 0, 1} :
            LET found == FindChildren(tree, lib, class, maxDepth)
            IN  /\ IsInjective(found)
                /\ ToSet(found) = {b \in Blocks : FastInherits(b, class) /\
                        \E n \in LevelsUp(b, lib) : maxDepth = -1 \/ n <= maxDepth}

\* A block that said blockInserted last has a library, one that said
\* blockRemoved last (or nothing yet) has none.
InsertionIsAnnounced ==
    \A b \in Blocks : tree.placed[b] <=> tree.parent[b] # NoLibrary

\* The assertions of ~Block, and nothing is left behind: a deleted block was
\* being deleted and had left its library, and no block or list refers to it.
DeletedIsForgotten ==
    \A b \in deleted :
        /\ b \in dying
        /\ tree.parent[b] = NoLibrary
        /\ \A x \in Blocks : tree.parent[x] # b
        /\ b \in Libraries => tree.kids[b] = <<>>

\* Every destruction comes to its end, also one of a library that holds blocks
\* which cannot be deleted.
DestructionEnds == stack # <<>> ~> stack = <<>>
=============================================================================
