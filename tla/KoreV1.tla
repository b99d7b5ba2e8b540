------------------------------- MODULE KoreV1 -------------------------------
(***************************************************************************)
(* Kore::serialization::KoreV1: a tree of blocks is dumped to a device     *)
(* (deflate) and loaded again (inflate).                                   *)
(*                                                                         *)
(* Both are recursive, and ask a ProgressCallback before each block whether*)
(* to continue; the answer is up to the application, each time.  A block   *)
(* is dumped as a record with the number of its children, and the records  *)
(* of the children follow: nothing else says where a block ends, so a      *)
(* missing record moves all those behind it to another place in the tree.  *)
(* The device may have lost its end in between, and inflate never asks the *)
(* streams it reads from whether they had anything left.  KoreFile composes*)
(* this module with the header of the file.                                *)
(***************************************************************************)
EXTENDS Integers, SequencesExt

CONSTANTS
    Size,     \* the number of blocks in the tree that is dumped
    Owning,   \* the classes with a stored property of their own
    NoBlock   \* K_NULL

\* Block 0 is the root.  Every block is of a class of its own, which the
\* record of the block names.
Blocks == 0 .. Size - 1

ASSUME SizeAssumption ==
    Size \in Nat \ {0} /\ NoBlock \notin Blocks /\ Owning \subseteq Blocks

VARIABLES
    parent,        \* the tree that is dumped; siblings are in ascending order
    serializable,  \* the blocks with the Serializable flag
    trouble,       \* what goes wrong with each class when it is loaded
    phase,         \* "dump", "load", "done" or "crashed"
    device,        \* the records on the device
    position,      \* how many of them were read
    stack,         \* the calls of deflate or inflate in progress, innermost first
    returned,      \* what the call that just returned has returned
    built,         \* the blocks that were created, with their children
    kept,          \* those whose stored property has the value that was dumped
    stopped,       \* the callback has asked to stop
    whole,         \* the device has its end
    cut            \* the block within whose record it was cut, if any

source == <<parent, serializable, trouble>>
vars == <<source, phase, device, position, stack, returned, built, kept, stopped, whole, cut>>

Result == {"Failed", "Canceled", "Skipped", "Success"}
Nothing == [result |-> "none", block |-> NoBlock]

\* A call asks the callback first ("enter"), then handles its children: left
\* is how many of them inflate has still to read.
Call(b) == [block |-> b, at |-> "enter", left |-> 0]
Top == Head(stack)
At(point) == stack # <<>> /\ Top.at = point /\ returned = Nothing

Ascending(S) ==
    LET places == 1 .. Cardinality(S)
    IN  CHOOSE s \in [places -> S] : \A i, j \in places : i < j => s[i] < s[j]

ChildrenOf(b) == {c \in Blocks \ {0} : parent[c] = b}
Children(b) == Ascending(ChildrenOf(b))

-----------------------------------------------------------------------------
(* MetaBlock: the hashes of the properties of a class.  Those of QObject,  *)
(* before propertyOffset, have no hash: just objectName.                   *)

Hash == [objectName |-> 0, blockName |-> 1, own |-> 2]
PropertyOffset == 1

\* Block does not store blockName.
PropertiesCache(names) ==
    [i \in DOMAIN names |-> IF i <= PropertyOffset THEN 0 ELSE Hash[names[i]]]
PropertyNames(b) ==
    IF b \in Owning THEN <<"objectName", "blockName", "own">> ELSE <<"objectName", "blockName">>
IsStored(hash) == hash # Hash["blockName"]

\* QVector::indexOf counts from 0, and finds no unknown hash.
PropertyIndex(cache, hash) ==
    IF hash \in ToSet(cache) THEN (CHOOSE i \in DOMAIN cache : cache[i] = hash) - 1 ELSE -1

-----------------------------------------------------------------------------
\* Any tree with Size blocks, any of which are to be dumped.  When it is
\* loaded, at most one class is not registered, or has changed its property.
Init ==
    /\ parent \in {p \in [Blocks \ {0} -> Blocks] : \A b \in Blocks \ {0} : p[b] < b}
    /\ serializable \in SUBSET Blocks
    /\ trouble \in {t \in [Blocks -> {"none", "unknown", "dropped", "refused"}] :
                       /\ \A a, b \in Blocks : t[a] # "none" /\ t[b] # "none" => a = b
                       /\ \A b \in Blocks \ Owning : t[b] \in {"none", "unknown"}}
    /\ phase = "dump"
    /\ device = <<>> /\ position = 0
    /\ stack = <<Call(0)>> /\ returned = Nothing
    /\ built = <<>> /\ kept = {}
    /\ stopped = FALSE
    /\ whole = TRUE /\ cut = NoBlock

\* The innermost call returns result, and for inflate, a block.
Return(result, block) ==
    /\ stack' = Tail(stack)
    /\ returned' = [result |-> result, block |-> block]

-----------------------------------------------------------------------------
(* deflate                                                                 *)

Dumping == phase = "dump" /\ UNCHANGED <<source, phase, position, built, kept, whole, cut>>

DeflateCanceled ==
    /\ Dumping /\ At("enter")
    /\ stopped' = TRUE
    /\ Return("Canceled", NoBlock)
    /\ UNCHANGED device

DeflateSkipped ==
    /\ Dumping /\ At("enter") /\ Top.block \notin serializable
    /\ Return("Skipped", NoBlock)
    /\ UNCHANGED <<device, stopped>>

CountAll(b) == Cardinality(ChildrenOf(b))
CountToWrite(b) == Cardinality(ChildrenOf(b) \cap serializable)

StoredProperties(b) ==
    LET names == PropertyNames(b)
    IN  {hash \in {PropertiesCache(names)[i] : i \in PropertyOffset + 1 .. Len(names)} : IsStored(hash)}

\* A record, as inflate reads it; its properties are hashes, in any order, and value tells
\* whether the value of the last one is whole.  It tells how many children will follow,
\* before they are visited.
Record(b) == [type |-> b, properties |-> StoredProperties(b), value |-> TRUE,
              childrenNb |-> CountToWrite(b)]

DeflateBlock ==
    /\ Dumping /\ At("enter") /\ Top.block \in serializable
    /\ device' = Append(device, Record(Top.block))
    /\ stack' = <<[Top EXCEPT !.at = "children"]>> \o Tail(stack)
    /\ UNCHANGED <<returned, stopped>>

\* The number of children visited is counted down like in inflate.
DeflateChild ==
    /\ Dumping /\ At("children") /\ Top.left < CountAll(Top.block)
    /\ stack' = <<Call(Children(Top.block)[Top.left + 1]),
                  [Top EXCEPT !.left = @ + 1]>> \o Tail(stack)
    /\ UNCHANGED <<device, returned, stopped>>

\* What the call for a child returns is not looked at.
DeflateNext ==
    /\ Dumping /\ stack # <<>> /\ returned # Nothing
    /\ returned' = Nothing
    /\ UNCHANGED <<device, stack, stopped>>

DeflateDone ==
    /\ Dumping /\ At("children") /\ Top.left = CountAll(Top.block)
    /\ Return("Success", NoBlock)
    /\ UNCHANGED <<device, stopped>>

\* What is left of a record when the device ends in it, as inflate reads it: a number
\* that is not there is 0.  Without the type there is as good as no record.
Cut(r, place) ==
    CASE place = "after type"          -> [r EXCEPT !.properties = {}, !.childrenNb = 0]
      [] place = "after propertiesNb"  -> [r EXCEPT !.properties = {0 : hash \in @}, !.value = FALSE,
                                                    !.childrenNb = 0]
      [] place = "in property"         -> [r EXCEPT !.properties = {0 : hash \in @}, !.value = FALSE]
      [] place = "in value"            -> [r EXCEPT !.value = FALSE]

CutPlaces(r) ==
    {"after type", "after propertiesNb"} \cup
        IF r.properties = {} THEN {} ELSE {"in property", "in value"}

\* The application loads what was dumped, whatever deflate returned, or the
\* beginning of it.
StartLoading ==
    /\ phase = "dump" /\ stack = <<>>
    /\ phase' = "load"
    /\ stack' = <<Call(NoBlock)>> /\ returned' = Nothing
    /\ \/ UNCHANGED <<device, whole, cut>>
       \/ /\ whole' = FALSE
          /\ \E n \in 0 .. Len(device) - 1 :
              \/ device' = SubSeq(device, 1, n) /\ cut' = cut
              \/ \E place \in CutPlaces(device[n + 1]) :
                  /\ device' = Append(SubSeq(device, 1, n), Cut(device[n + 1], place))
                  /\ cut' = device[n + 1].type
    /\ UNCHANGED <<source, position, built, kept, stopped>>

-----------------------------------------------------------------------------
(* inflate                                                                 *)

Loading == phase = "load" /\ UNCHANGED <<source, device, whole, cut>>

InflateCanceled ==
    /\ Loading /\ At("enter")
    /\ stopped' = TRUE
    /\ Return("Canceled", NoBlock)
    /\ UNCHANGED <<phase, position, built, kept>>

\* Behind the last record there is the end of the device, or the file header
\* that the Dumper repeats there: neither holds the ID of a class.
More == position < Len(device)
Header == device[position + 1]

ReadOne == IF More THEN position + 1 ELSE position

InflateUnknown ==
    /\ Loading /\ At("enter")
    /\ More => trouble[Header.type] = "unknown"
    /\ position' = ReadOne
    /\ Return("Failed", NoBlock)
    /\ UNCHANGED <<phase, built, kept, stopped>>

\* The class may have changed since: its property was dropped, or refuses the value.
\* What is left of a value that was cut may be accepted all the same; objectName
\* accepts no value that is not there.
Writes(r, hash) ==
    LET names == IF trouble[r.type] = "dropped" THEN <<"objectName", "blockName">>
                 ELSE PropertyNames(r.type)
        index == PropertyIndex(PropertiesCache(names), hash)
    IN  IF index \in {-1, 0} \/ trouble[r.type] = "refused" THEN {FALSE}
        ELSE {TRUE, r.value}

\* The block is created; then its properties are read, until one is not written.
InflateBlock ==
    /\ Loading /\ At("enter") /\ More /\ trouble[Header.type] # "unknown"
    /\ position' = ReadOne
    /\ built' = [b \in DOMAIN built \cup {Header.type} |->
                    IF b = Header.type THEN <<>> ELSE built[b]]
    /\ \E write \in [Header.properties -> BOOLEAN] :
        /\ \A hash \in DOMAIN write : write[hash] \in Writes(Header, hash)
        /\ IF \E hash \in DOMAIN write : ~ write[hash]
           THEN Return("Failed", Header.type) /\ UNCHANGED kept
           ELSE /\ stack' = <<[block |-> Header.type, at |-> "children",
                               left |-> Header.childrenNb]>> \o Tail(stack)
                /\ kept' = IF Header.properties # {} /\ Header.value
                            THEN kept \cup {Header.type} ELSE kept
                /\ UNCHANGED returned
    /\ UNCHANGED <<phase, stopped>>

InflateChild ==
    /\ Loading /\ At("children") /\ Top.left > 0
    /\ stack' = <<Call(NoBlock), [Top EXCEPT !.left = @ - 1]>> \o Tail(stack)
    /\ UNCHANGED <<phase, position, returned, built, kept, stopped>>

\* A block and all that is below it: the smallest set that has the block, if it was
\* created, and the children of each block that it has.
Below(b) ==
    {x \in DOMAIN built : \A S \in SUBSET DOMAIN built :
        (/\ b \in DOMAIN built => b \in S
         /\ \A y \in S : ToSet(built[y]) \subseteq S)
        => x \in S}

\* The child that failed is destroyed, if it was created.
KeepChild(b) == {}
DropChild(b) == Below(b)

ChildFailedIgnored ==
    /\ Loading /\ stack # <<>> /\ returned.result = "Failed"
    /\ built' = Restrict(built, DOMAIN built \ DropChild(returned.block))
    /\ returned' = Nothing
    /\ UNCHANGED <<phase, position, stack, kept, stopped>>

ChildFailed ==
    /\ Loading /\ stack # <<>> /\ returned.result = "Failed"
    /\ built' = Restrict(built, DOMAIN built \ DropChild(returned.block))
    /\ Return("Failed", Top.block)
    /\ UNCHANGED <<phase, position, kept, stopped>>

\* Any other result means to add the child.
ChildDone ==
    /\ Loading /\ stack # <<>> /\ returned.result \in Result \ {"Failed"}
    /\ IF returned.block = NoBlock
       THEN phase' = "crashed" /\ UNCHANGED built
       ELSE /\ built' = [built EXCEPT ![Top.block] = Append(@, returned.block)]
            /\ UNCHANGED phase
    /\ returned' = Nothing
    /\ UNCHANGED <<position, stack, kept, stopped>>

InflateDone ==
    /\ Loading /\ At("children") /\ Top.left = 0
    /\ Return("Success", Top.block)
    /\ UNCHANGED <<phase, position, built, kept, stopped>>

Finish ==
    /\ Loading /\ stack = <<>>
    /\ phase' = "done"
    /\ UNCHANGED <<position, stack, returned, built, kept, stopped>>

-----------------------------------------------------------------------------
Deflate == \/ DeflateCanceled \/ DeflateSkipped \/ DeflateBlock
           \/ DeflateChild \/ DeflateNext \/ DeflateDone

Inflate == \/ InflateCanceled \/ InflateUnknown \/ InflateBlock
           \/ InflateChild \/ ChildFailed \/ ChildDone \/ InflateDone

-----------------------------------------------------------------------------
(* Properties.                                                             *)

\* The blocks that deflate should dump: those whose ancestors all are
\* serializable, as they are.
Dumped ==
    {b \in Blocks : \A S \in SUBSET Blocks :
        (/\ 0 \in serializable => 0 \in S
         /\ \A c \in serializable \ {0} : parent[c] \in S => c \in S)
        => b \in S}
DumpedChildren(b) == Ascending(ChildrenOf(b) \cap Dumped)

\* All that is below the block that was cut, in the tree that was dumped.
Lost ==
    {b \in Blocks : \A S \in SUBSET Blocks :
        (\A c \in Blocks \ {0} : parent[c] = cut \/ parent[c] \in S => c \in S) => b \in S}

\* deflate ignores that the dump of a child was canceled and returns Success, and
\* inflate does not see where the device ends.  Even so, when inflate returns Success
\* the tree it built is the tree that was to be dumped, with each block in its place
\* and each value, up to the block whose record was cut: that one may lack its values
\* and all that was below it.  A dump with gaps is never taken for another tree.
SuccessMeansWhole ==
    phase = "done" /\ returned.result = "Success" =>
        LET tree == [b \in Dumped |-> DumpedChildren(b)]
        IN  \/ built = tree /\ (Owning \cap Dumped) \ {cut} \subseteq kept
            \/ /\ ~ whole
               /\ built = [b \in Dumped \ Lost |-> IF b = cut THEN <<>> ELSE tree[b]]
               /\ (Owning \cap DOMAIN built) \ {cut} \subseteq kept

\* If the callback never stops anything, and each class is known and accepts
\* its properties, what was dumped can be loaded, and loading it never crashes.
CompleteDumpLoads ==
    ~ stopped =>
        /\ phase # "crashed"
        /\ phase = "done" /\ whole /\ 0 \in serializable
                          /\ (\A b \in Dumped : trouble[b] = "none")
            => returned.result = "Success"

\* A block that inflate created is never lost: it is in the hands of a call in
\* progress or of the caller, or below one that is.
NothingIsLost ==
    LET held == {returned.block} \cup {stack[i].block : i \in DOMAIN stack}
    IN  phase # "dump" => DOMAIN built = UNION {Below(b) : b \in held}
=============================================================================
