---------------------------- MODULE AlignedMemory ----------------------------
(***************************************************************************)
(* Kore::memory::SimpleMemoryManager: memory, and aligned memory, on top   *)
(* of malloc, realloc and free.  A plain block is a chunk of the C         *)
(* library; an aligned block lies in a larger one, and the word before it  *)
(* keeps the address of the chunk.                                         *)
(*                                                                         *)
(* A memory cell is one byte of the program, held as what was written      *)
(* there: part k of a chunk's address, or byte k of a user's data.         *)
(***************************************************************************)
EXTENDS Integers, FiniteSetsExt

CONSTANTS
    Users,        \* the parts of the program that hold an aligned block
    Sizes,        \* the sizes they ask for
    Alignments,   \* and the alignments
    PtrSize,      \* sizeof(void*)
    MallocAlign,  \* the alignment of what malloc returns
    HeapSize,     \* the heap is the cells 1 .. HeapSize
    Width,        \* bits of a ksize
    NoBlock       \* of a user without one

ASSUME MemoryAssumption ==
    /\ Sizes \subseteq Nat \ {0}
    /\ PtrSize \in Nat \ {0} /\ MallocAlign \in Nat \ {0}
    /\ HeapSize \in Nat /\ Width \in Nat
    /\ NoBlock \notin [ptr : Int, size : Sizes, align : Alignments \cup {0},
                       written : Nat, kept : BOOLEAN]

\* The manager rounds with bit masks, which takes powers of two; and it adds to
\* the size that is asked for, which must not overflow.  (That powers of two are
\* natural numbers is said for the provers.)
ASSUME RequestAssumption ==
    /\ Alignments \subseteq Nat \ {0} /\ 2^Width \in Nat
    /\ \A a \in Alignments : \E n \in 0 .. Width : a = 2^n
    /\ \A s \in Sizes, a \in Alignments : s + a + PtrSize < 2^Width

VARIABLES
    chunks,  \* the chunks that malloc has given out and that were not freed
    memory,  \* what the cells hold
    held,    \* the block of each user: where, how large, how aligned (plain: 0),
             \* how much of it was written, and whether reallocation had to keep
             \* what was written
    wild     \* the C library was called with an address that is not a chunk

vars == <<chunks, memory, held, wild>>

Cells == 1 .. HeapSize
Area(base, size) == base .. base + size - 1

Garbage == <<"garbage">>

ChunkAddress(base) == [k \in 0 .. PtrSize - 1 |-> <<"address", base, k>>]
Data(u, size) == [k \in 0 .. size - 1 |-> <<"data", u, k>>]

\* The cells from p on take the values of part.
Write(mem, p, part) ==
    [a \in Cells |-> IF a - p \in DOMAIN part THEN part[a - p] ELSE mem[a]]

-----------------------------------------------------------------------------
(* malloc, realloc and free                                                *)

\* Any place that is aligned well enough and overlaps no other chunk.
Places(size, others) ==
    {b \in Cells :
        /\ b % MallocAlign = 0
        /\ b + size - 1 <= HeapSize
        /\ \A c \in others : Area(b, size) \cap Area(c.base, c.size) = {}}

\* realloc leaves the chunk where it is, or copies what fits to another place.
NewPlaces(c, size) == Places(size, chunks) \cup (Places(size, chunks \ {c}) \cap {c.base})

Forget(c) == [a \in Cells |-> IF a \in Area(c.base, c.size) THEN Garbage ELSE memory[a]]

CopyChunk(c, base, size) ==
    Write(Forget(c), base, [k \in 0 .. Min({c.size, size}) - 1 |-> memory[c.base + k]])

-----------------------------------------------------------------------------
(* Where the block lies in its chunk.                                      *)

\* _K_NEXT_ALIGNED_VALUE: (v + (a - 1)) & ~(a - 1)
NextAligned(v, a) == (v + a - 1) - ((v + a - 1) % a)

PlaceBlock(base, align) == NextAligned(base + PtrSize, align)

ChunkSizeNoPtr(size, align) == (size + align) % 2^Width
ChunkSize(size, align) == (size + align + PtrSize) % 2^Width

\* ptr[-1]
SaveChunkNot(mem, p, base) == mem
SaveChunk(mem, p, base) == Write(mem, p - PtrSize, ChunkAddress(base))
SavedChunk(p) ==
    {c \in chunks : \A k \in 0 .. PtrSize - 1 :
                        /\ p - PtrSize + k \in Cells
                        /\ memory[p - PtrSize + k] = ChunkAddress(c.base)[k]}

-----------------------------------------------------------------------------
Init ==
    /\ chunks = {}
    /\ memory = [a \in Cells |-> Garbage]
    /\ held = [u \in Users |-> NoBlock]
    /\ wild = FALSE

\* mAlloc; the user writes its data at once.
PlainAlloc(u, size) ==
    /\ held[u] = NoBlock
    /\ \E base \in Places(size, chunks) :
        /\ chunks' = chunks \cup {[base |-> base, size |-> size]}
        /\ memory' = Write(memory, base, Data(u, size))
        /\ held' = [held EXCEPT ![u] = [ptr |-> base, size |-> size, align |-> 0,
                                        written |-> size, kept |-> TRUE]]
    /\ UNCHANGED wild

\* mReAlloc and mFree, of a block that mAlloc or mReAlloc gave.
Plain(u) == held[u] # NoBlock /\ held[u].align = 0
Aligned(u) == held[u] # NoBlock /\ held[u].align # 0

ChunkAt(p) == {c \in chunks : c.base = p}

PlainReAlloc(u, size) ==
    /\ Plain(u)
    /\ \E c \in ChunkAt(held[u].ptr) :
        \E base \in NewPlaces(c, size) :
            /\ chunks' = (chunks \ {c}) \cup {[base |-> base, size |-> size]}
            /\ memory' = CopyChunk(c, base, size)
            /\ held' = [held EXCEPT ![u].ptr = base, ![u].size = size,
                                    ![u].written = Min({@, size})]
    /\ UNCHANGED wild

\* free, of what should be the address of a chunk.
Release(u, found) ==
    /\ IF found = {}
       THEN wild' = TRUE /\ UNCHANGED <<chunks, memory>>
       ELSE /\ chunks' = chunks \ found
            /\ \E c \in found : memory' = Forget(c)
            /\ UNCHANGED wild
    /\ held' = [held EXCEPT ![u] = NoBlock]

PlainFree(u) == Plain(u) /\ Release(u, ChunkAt(held[u].ptr))

\* mAlloc_a; the user writes its data at once.
Alloc(u, size, align) ==
    /\ held[u] = NoBlock
    /\ \E base \in Places(ChunkSize(size, align), chunks) :
        LET p == PlaceBlock(base, align)
        IN  /\ chunks' = chunks \cup {[base |-> base, size |-> ChunkSize(size, align)]}
            /\ memory' = Write(SaveChunk(memory, p, base), p, Data(u, size))
            /\ held' = [held EXCEPT ![u] = [ptr |-> p, size |-> size, align |-> align,
                                            written |-> size, kept |-> TRUE]]
    /\ UNCHANGED wild

\* mReAlloc_a: realloc copies the chunk, whose block may then lie elsewhere in it.
MovedBlockUnrounded(base, align) == base + align + PtrSize
MovedBlock(base, align) == PlaceBlock(base, align)

SameOffset(u, align) == held[u].align = align /\ MallocAlign % align = 0

ReAlloc(u, size, align) ==
    /\ Aligned(u)
    /\ \E c \in SavedChunk(held[u].ptr) :
        \E base \in NewPlaces(c, ChunkSize(size, align)) :
            LET p == MovedBlock(base, align)
                new == ChunkSize(size, align)
            IN  /\ chunks' = (chunks \ {c}) \cup {[base |-> base, size |-> new]}
                /\ memory' = SaveChunk(CopyChunk(c, base, new), p, base)
                /\ held' = [held EXCEPT ![u] =
                               [ptr |-> p, size |-> size, align |-> align,
                                written |-> Min({@.written, size}),
                                kept |-> @.kept /\ SameOffset(u, align)]]
    /\ UNCHANGED wild

\* mFree_a
Free(u) == Aligned(u) /\ Release(u, SavedChunk(held[u].ptr))

\* The user writes all of its block again.
Fill(u) ==
    /\ held[u] # NoBlock
    /\ memory' = Write(memory, held[u].ptr, Data(u, held[u].size))
    /\ held' = [held EXCEPT ![u].written = held[u].size, ![u].kept = TRUE]
    /\ UNCHANGED <<chunks, wild>>

Next ==
    \E u \in Users :
        \/ \E size \in Sizes, align \in Alignments :
               Alloc(u, size, align) \/ ReAlloc(u, size, align)
        \/ \E size \in Sizes : PlainAlloc(u, size) \/ PlainReAlloc(u, size)
        \/ Free(u) \/ PlainFree(u)
        \/ Fill(u)

Spec == Init /\ [][Next]_vars

-----------------------------------------------------------------------------
(* Properties.                                                             *)

Holders == {u \in Users : held[u] # NoBlock}

\* What a user may not share: its block and, before an aligned one, the word.
Own(u) ==
    LET word == IF Aligned(u) THEN PtrSize ELSE 0
    IN  Area(held[u].ptr - word, word + held[u].size)

\* SimpleMemoryManager.cpp asserts the alignment.  Besides, a block and the word
\* before it lie in one chunk, wherever malloc or realloc put that, and no two
\* users share a chunk: writing a block never touches another, or its address.
BlocksAreApart ==
    /\ \A u \in Holders :
        /\ Aligned(u) => held[u].ptr % held[u].align = 0
        /\ \E c \in chunks : Own(u) \subseteq Area(c.base, c.size)
    /\ \A u, v \in Holders : u # v => Own(u) \cap Own(v) = {}

\* What the word before a block says is the chunk of the block, so free and
\* realloc get what malloc gave; and there are no more chunks than blocks.
ChunksAreFound ==
    /\ ~wild
    /\ \A u \in Holders :
        \E c \in IF Aligned(u) THEN SavedChunk(held[u].ptr) ELSE ChunkAt(held[u].ptr) :
            held[u].ptr \in Area(c.base, c.size)
    /\ Cardinality(chunks) = Cardinality(Holders)

\* Reallocation keeps the data, as long as the alignment stays the same and is
\* one that all chunks have anyway.  With a larger one the code does not: the
\* block may lie at another distance from the start of the new chunk.
DataIsKept ==
    \A u \in Holders : held[u].kept =>
        \A k \in 0 .. held[u].written - 1 : memory[held[u].ptr + k] = <<"data", u, k>>
=============================================================================
