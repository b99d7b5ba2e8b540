--------------------------- MODULE UtilitiesProofs ---------------------------
(***************************************************************************)
(* The parts of the library that use no other.  The blocks of              *)
(* SimpleMemoryManager keep apart, their chunks are found again and their  *)
(* data is kept, for any users, sizes and alignments, any heap and any     *)
(* sizes of a pointer and of a ksize.  The hash of a string is its CRC,    *)
(* for any string.  What CPU reports is what the processor has.  Plug-ins  *)
(* are deleted once, for any directory in which no two entries lead to the *)
(* same plug-in, and any number of managers one after another.  Errors are *)
(* heard once, for any number of threads and errors.                       *)
(***************************************************************************)
EXTENDS AlignedMemory, CRC32, CPU, Errors, Plugins, RecursionLemmas, FiniteSetTheorems, TLAPS

(* Memory: SimpleMemoryManager.                                            *)

(* Rounding up to a multiple.                                              *)
LEMMA ModRange ==
    ASSUME NEW x \in Int, NEW a \in Nat \ {0}
    PROVE  x % a \in 0 .. a - 1
OBVIOUS

LEMMA ModQuotient ==
    ASSUME NEW x \in Int, NEW a \in Nat \ {0}
    PROVE  x \div a \in Int /\ x = a * (x \div a) + (x % a)
OBVIOUS

LEMMA ModUnique ==
    ASSUME NEW a \in Nat \ {0}, NEW q \in Int, NEW r \in 0 .. a - 1
    PROVE  (a * q + r) % a = r
OBVIOUS

LEMMA ModSmall ==
    ASSUME NEW a \in Nat \ {0}, NEW x \in 0 .. a - 1
    PROVE  x % a = x
OBVIOUS

LEMMA Divides ==
    ASSUME NEW a \in Nat \ {0}, NEW x \in Int, x % a = 0
    PROVE  \E q \in Int : x = a * q
<1>1. x \div a \in Int /\ x = a * (x \div a) + (x % a)
  BY ModQuotient
<1>2. PICK q \in Int : q = x \div a
  BY <1>1
<1>3. x = a * q + 0
  BY <1>1, <1>2
<1>4. QED
  BY <1>3

LEMMA ModOfSum ==
    ASSUME NEW a \in Nat \ {0}, NEW x \in Int, NEW y \in Int, x % a = 0
    PROVE  (x + y) % a = y % a
<1>1. PICK q \in Int : x = a * q
  BY Divides
<1>2. PICK r \in Int : y = a * r + (y % a)
  BY ModQuotient
<1>3. y % a \in 0 .. a - 1
  BY ModRange
<1>4. a * q + a * r = a * (q + r)
  OBVIOUS
<1>5. \E s \in Int : x + y = a * s + (y % a)
  <2>1. PICK m \in Int, n \in Int : m = a * q /\ n = a * r
    OBVIOUS
  <2>2. PICK o \in Int : o = y % a
    BY <1>3
  <2>3. x = m /\ y = n + o
    BY <1>1, <1>2, <2>1, <2>2
  <2>4. a * (q + r) = m + n
    BY <1>4, <2>1
  <2>5. q + r \in Int
    OBVIOUS
  <2>6. x + y = (m + n) + o
    BY <2>3
  <2>7. QED
    BY <2>2, <2>4, <2>5, <2>6
<1>6. QED
  BY <1>3, <1>5, ModUnique

LEMMA ModTransitive ==
    ASSUME NEW a \in Nat \ {0}, NEW b \in Nat \ {0}, NEW x \in Int, x % b = 0, b % a = 0
    PROVE  x % a = 0
<1>1. PICK q \in Int : x = b * q
  BY Divides
<1>2. PICK r \in Int : b = a * r
  BY Divides
<1>3. x = a * (r * q) + 0 /\ r * q \in Int /\ 0 \in 0 .. a - 1
  BY <1>1, <1>2
<1>4. QED
  BY <1>3, ModUnique

LEMMA NextAlignedRounds ==
    ASSUME NEW v \in Int, NEW a \in Nat \ {0}
    PROVE  /\ NextAligned(v, a) \in Int
           /\ v <= NextAligned(v, a) /\ NextAligned(v, a) < v + a
           /\ NextAligned(v, a) % a = 0
<1> DEFINE w == v + a - 1
<1>1. w \in Int /\ w % a \in 0 .. a - 1
  BY ModRange
<1>2. PICK q \in Int : w = a * q + (w % a)
  BY <1>1, ModQuotient
<1>3. w - (w % a) = a * q + 0 /\ 0 \in 0 .. a - 1
  BY <1>1, <1>2
<1>4. (w - (w % a)) % a = 0
  BY <1>3, ModUnique
<1>5. QED
  BY <1>1, <1>4 DEF NextAligned

(* In chunks that are aligned themselves, blocks lie at the same distance. *)
LEMMA SameDistance ==
    ASSUME NEW b \in Int, NEW c \in Int, NEW a \in Nat \ {0}, b % a = 0, c % a = 0
    PROVE  PlaceBlock(b, a) - b = PlaceBlock(c, a) - c
<1> DEFINE o == PtrSize + a - 1
<1>1. o \in Int /\ b + PtrSize + a - 1 = b + o /\ c + PtrSize + a - 1 = c + o
  BY MemoryAssumption
<1>2. (b + o) % a = o % a /\ (c + o) % a = o % a
  BY <1>1, ModOfSum
<1>3. o % a \in Int
  BY <1>1, ModRange
<1> HIDE DEF o
<1>4. PlaceBlock(b, a) = (b + o) - (o % a) /\ PlaceBlock(c, a) = (c + o) - (o % a)
  BY <1>1, <1>2 DEF PlaceBlock, NextAligned
<1>5. QED
  BY <1>1, <1>3, <1>4

LEMMA MinOfTwo ==
    ASSUME NEW a \in Int, NEW b \in Int
    PROVE  /\ Min({a, b}) \in {a, b}
           /\ Min({a, b}) <= a /\ Min({a, b}) <= b
<1>1. \E x \in {a, b} : \A y \in {a, b} : x <= y
  OBVIOUS
<1>2. QED
  BY <1>1 DEF Min

-----------------------------------------------------------------------------
(* The invariant.                                                          *)

Blocks == [ptr : Int, size : Sizes, align : Alignments \cup {0},
           written : Nat, kept : BOOLEAN]

IsChunk(c) ==
    /\ c \in [base : Int, size : Nat \ {0}]
    /\ c.base % MallocAlign = 0
    /\ Area(c.base, c.size) \subseteq Cells

(* Block h lies in chunk c, and the word before an aligned one says so.    *)
LiesIn(mem, h, c) ==
    IF h.align = 0
    THEN h.ptr = c.base /\ h.size = c.size
    ELSE /\ h.ptr = PlaceBlock(c.base, h.align)
         /\ c.size = h.size + h.align + PtrSize
         /\ \A k \in 0 .. PtrSize - 1 :
               mem[h.ptr - PtrSize + k] = <<"address", c.base, k>>

(* What u wrote is still in its block h.                                   *)
Keeps(mem, u, h) ==
    /\ h.written <= h.size
    /\ h.kept => \A k \in 0 .. h.written - 1 : mem[h.ptr + k] = <<"data", u, k>>

Apart(c, d) == Area(c.base, c.size) \cap Area(d.base, d.size) = {}

ChunksTyped ==
    /\ IsFiniteSet(chunks)
    /\ \A c \in chunks : IsChunk(c)
    /\ \A c, d \in chunks : c # d => Apart(c, d)

(* Each block has a chunk of its own, and each chunk a block.              *)
OneToOne ==
    /\ \A u \in Users : held[u] # NoBlock => \E c \in chunks : LiesIn(memory, held[u], c)
    /\ \A u, v \in Users : \A c \in chunks :
          /\ held[u] # NoBlock /\ LiesIn(memory, held[u], c)
          /\ held[v] # NoBlock /\ LiesIn(memory, held[v], c)
          => u = v
    /\ \A c \in chunks : \E u \in Users : held[u] # NoBlock /\ LiesIn(memory, held[u], c)

MemoryInv ==
    /\ wild = FALSE
    /\ held \in [Users -> Blocks \cup {NoBlock}]
    /\ ChunksTyped
    /\ OneToOne
    /\ \A u \in Users : held[u] # NoBlock => Keeps(memory, u, held[u])

LEMMA BlockFields ==
    ASSUME NEW h \in Blocks
    PROVE  /\ h # NoBlock
           /\ h.ptr \in Int /\ h.size \in Nat \ {0} /\ h.written \in Nat /\ h.kept \in BOOLEAN
           /\ h.align # 0 => h.align \in Alignments /\ h.align \in Nat \ {0}
BY MemoryAssumption, RequestAssumption DEF Blocks

LEMMA ChunkFields ==
    ASSUME NEW c, IsChunk(c)
    PROVE  /\ c.base \in Int /\ c.size \in Nat \ {0}
           /\ c = [base |-> c.base, size |-> c.size]
           /\ c.base \in Area(c.base, c.size)
BY DEF IsChunk, Area

(* A block, and the word before an aligned one, are inside of the chunk.   *)
LEMMA InsideOfChunk ==
    ASSUME NEW mem, NEW h \in Blocks, NEW c, IsChunk(c), LiesIn(mem, h, c)
    PROVE  /\ \A k \in 0 .. h.size - 1 : h.ptr + k \in Area(c.base, c.size)
           /\ h.align # 0 => /\ h.ptr % h.align = 0
                             /\ h.ptr - PtrSize >= c.base
                             /\ \A k \in 0 .. PtrSize - 1 :
                                   h.ptr - PtrSize + k \in Area(c.base, c.size)
<1>1. /\ c.base \in Int /\ c.size \in Nat \ {0} /\ h.ptr \in Int /\ h.size \in Nat \ {0}
      /\ PtrSize \in Nat \ {0}
  BY BlockFields, ChunkFields, MemoryAssumption
<1>2. CASE h.align = 0
  BY <1>1, <1>2 DEF LiesIn, Area
<1>3. CASE h.align # 0
  <2>1. h.align \in Nat \ {0}
    BY <1>3, BlockFields
  <2>2. h.ptr = NextAligned(c.base + PtrSize, h.align) /\ c.size = h.size + h.align + PtrSize
    BY <1>3 DEF LiesIn, PlaceBlock
  <2>. c.base + PtrSize \in Int
    BY <1>1
  <2>3. /\ c.base + PtrSize <= h.ptr /\ h.ptr < c.base + PtrSize + h.align
        /\ h.ptr % h.align = 0
    BY <1>1, <2>1, <2>2, NextAlignedRounds
  <2>4. QED
    BY <1>1, <2>1, <2>2, <2>3 DEF Area
<1>4. QED
  BY <1>2, <1>3

(* A block lies in one chunk only.                                         *)
LEMMA OneChunk ==
    ASSUME NEW mem, NEW h \in Blocks,
           NEW c, IsChunk(c), LiesIn(mem, h, c),
           NEW d, IsChunk(d), LiesIn(mem, h, d)
    PROVE  c = d
<1>1. c.base = d.base /\ c.size = d.size
  <2>1. CASE h.align = 0
    BY <2>1 DEF LiesIn
  <2>2. CASE h.align # 0
    <3>1. 0 \in 0 .. PtrSize - 1
      BY MemoryAssumption
    <3>2. <<"address", c.base, 0>> = <<"address", d.base, 0>>
      BY <2>2, <3>1 DEF LiesIn
    <3>3. c.base = d.base
      BY <3>2
    <3>4. QED
      BY <2>2, <3>3 DEF LiesIn
  <2>3. QED
    BY <2>1, <2>2
<1>2. QED
  BY <1>1, ChunkFields

(* A change outside of the chunk leaves the block and its data alone.      *)
LEMMA Untouched ==
    ASSUME NEW mem, NEW new, NEW u, NEW h \in Blocks, NEW c, IsChunk(c), LiesIn(mem, h, c),
           \A a \in Area(c.base, c.size) : new[a] = mem[a]
    PROVE  /\ LiesIn(new, h, c)
           /\ Keeps(mem, u, h) => Keeps(new, u, h)
<1>1. LiesIn(new, h, c)
  <2>1. CASE h.align = 0
    BY <2>1 DEF LiesIn
  <2>2. CASE h.align # 0
    <3>1. \A k \in 0 .. PtrSize - 1 : new[h.ptr - PtrSize + k] = mem[h.ptr - PtrSize + k]
      BY <2>2, InsideOfChunk
    <3>2. QED
      BY <2>2, <3>1 DEF LiesIn
  <2>3. QED
    BY <2>1, <2>2
<1>2. ASSUME Keeps(mem, u, h)
      PROVE  Keeps(new, u, h)
  <2>1. h.written <= h.size /\ h.written \in Nat /\ h.size \in Nat
    BY <1>2, BlockFields DEF Keeps
  <2>2. \A k \in 0 .. h.written - 1 : k \in 0 .. h.size - 1
    BY <2>1
  <2>3. \A k \in 0 .. h.written - 1 : new[h.ptr + k] = mem[h.ptr + k]
    BY <2>2, InsideOfChunk
  <2>4. QED
    BY <1>2, <2>3 DEF Keeps
<1>3. QED
  BY <1>1, <1>2

-----------------------------------------------------------------------------
(* Every operation takes the chunks old of a user for the chunks new, of   *)
(* its block h, and leaves the memory of the other chunks alone.           *)
LEMMA ReplacePreserves ==
    ASSUME MemoryInv,
           NEW u \in Users, NEW old \in SUBSET chunks, NEW new, NEW h \in Blocks \cup {NoBlock},
           \A c \in old : held[u] # NoBlock /\ LiesIn(memory, held[u], c),
           held[u] # NoBlock => \E c \in old : LiesIn(memory, held[u], c),
           h = NoBlock => new = {},
           h # NoBlock => /\ \E c : new = {c} /\ IsChunk(c) /\ LiesIn(memory', h, c)
                          /\ Keeps(memory', u, h),
           \A c \in new : \A d \in chunks \ old : Apart(c, d),
           \A c \in chunks \ old : \A a \in Area(c.base, c.size) : memory'[a] = memory[a],
           chunks' = (chunks \ old) \cup new,
           held' = [held EXCEPT ![u] = h],
           wild' = wild
    PROVE  MemoryInv'
<1>1. /\ held' \in [Users -> Blocks \cup {NoBlock}]
      /\ held'[u] = h
      /\ \A v \in Users : v # u => held'[v] = held[v]
      /\ \A v \in Users : held[v] # NoBlock => held[v] \in Blocks
      /\ \A v \in Users : held'[v] # NoBlock => held'[v] \in Blocks
  BY DEF MemoryInv
<1>2. /\ \A c \in new : h # NoBlock /\ h \in Blocks /\ IsChunk(c) /\ LiesIn(memory', h, c)
      /\ \A c, d \in new : c = d
      /\ h # NoBlock => \E c \in new : LiesIn(memory', h, c)
      /\ IsFiniteSet(new)
  BY FS_EmptySet, FS_Singleton
<1>3. /\ IsFiniteSet(chunks) /\ \A c \in chunks : IsChunk(c)
      /\ \A c, d \in chunks : c # d => Apart(c, d)
  BY DEF MemoryInv, ChunksTyped
<1>4. \A c \in chunks' : IsChunk(c)
  BY <1>2, <1>3
<1>5. \A c, d \in chunks' : c # d => Apart(c, d)
  <2>1. \A c, d : Apart(c, d) <=> Apart(d, c)
    BY DEF Apart
  <2>2. QED
    BY <1>2, <1>3, <2>1
<1>6. IsFiniteSet(chunks')
  BY <1>2, <1>3, FS_Subset, FS_Union
<1>7. ChunksTyped'
  BY <1>4, <1>5, <1>6 DEF ChunksTyped
<1>8. ASSUME NEW v \in Users, v # u, held[v] # NoBlock
      PROVE  /\ \E c \in chunks \ old : LiesIn(memory, held[v], c) /\ LiesIn(memory', held[v], c)
             /\ Keeps(memory', v, held[v])
  <2>1. PICK c \in chunks : LiesIn(memory, held[v], c)
    BY <1>8 DEF MemoryInv, OneToOne
  <2>2. c \notin old
    BY <1>8, <2>1 DEF MemoryInv, OneToOne
  <2>3. Keeps(memory, v, held[v]) /\ held[v] \in Blocks /\ IsChunk(c)
    BY <1>1, <1>3, <1>8 DEF MemoryInv
  <2>4. \A a \in Area(c.base, c.size) : memory'[a] = memory[a]
    BY <2>2
  <2>5. LiesIn(memory', held[v], c) /\ Keeps(memory', v, held[v])
    BY <2>1, <2>3, <2>4, Untouched
  <2>6. QED
    BY <2>1, <2>2, <2>5
<1>9. ASSUME NEW v \in Users, v # u, held[v] # NoBlock,
             NEW c \in chunks', LiesIn(memory', held[v], c)
      PROVE  c \in chunks \ old /\ LiesIn(memory, held[v], c)
  <2>1. PICK d \in chunks \ old : LiesIn(memory, held[v], d) /\ LiesIn(memory', held[v], d)
    BY <1>8, <1>9
  <2>2. held[v] \in Blocks /\ IsChunk(c) /\ IsChunk(d)
    BY <1>1, <1>3, <1>4, <1>9
  <2>3. c = d
    BY <1>9, <2>1, <2>2, OneChunk
  <2>4. QED
    BY <2>1, <2>3
<1>10. ASSUME NEW c \in chunks', held'[u] # NoBlock, LiesIn(memory', held'[u], c)
       PROVE  c \in new
  <2>1. PICK d \in new : LiesIn(memory', h, d) /\ IsChunk(d) /\ h \in Blocks
    BY <1>1, <1>2, <1>10
  <2>2. c = d
    BY <1>1, <1>4, <1>10, <2>1, OneChunk
  <2>3. QED
    BY <2>1, <2>2
<1>11. \A c \in new : c \notin chunks \ old
  <2>1. SUFFICES ASSUME NEW c \in new, c \in chunks \ old
                 PROVE  FALSE
    OBVIOUS
  <2>2. Apart(c, c) /\ IsChunk(c)
    BY <1>2, <2>1
  <2>3. QED
    BY <2>2, ChunkFields DEF Apart
<1>12. ASSUME NEW v \in Users, held'[v] # NoBlock
       PROVE  \E c \in chunks' : LiesIn(memory', held'[v], c)
  <2>1. CASE v = u
    BY <1>1, <1>2, <1>12, <2>1
  <2>2. CASE v # u
    BY <1>1, <1>8, <1>12, <2>2
  <2>3. QED
    BY <2>1, <2>2
<1>13. ASSUME NEW v \in Users, NEW w \in Users, NEW c \in chunks',
              held'[v] # NoBlock, LiesIn(memory', held'[v], c),
              held'[w] # NoBlock, LiesIn(memory', held'[w], c)
       PROVE  v = w
  <2>1. CASE v = u /\ w # u
    BY <1>1, <1>9, <1>10, <1>11, <1>13, <2>1
  <2>2. CASE v # u /\ w = u
    BY <1>1, <1>9, <1>10, <1>11, <1>13, <2>2
  <2>3. CASE v # u /\ w # u
    <3>1. /\ held[v] # NoBlock /\ LiesIn(memory, held[v], c) /\ c \in chunks
          /\ held[w] # NoBlock /\ LiesIn(memory, held[w], c)
      BY <1>1, <1>9, <1>13, <2>3
    <3>2. QED
      BY <3>1 DEF MemoryInv, OneToOne
  <2>4. QED
    BY <2>1, <2>2, <2>3
<1>14. ASSUME NEW c \in chunks'
       PROVE  \E v \in Users : held'[v] # NoBlock /\ LiesIn(memory', held'[v], c)
  <2>1. CASE c \in new
    BY <1>1, <1>2, <2>1
  <2>2. CASE c \in chunks \ old
    <3>1. PICK v \in Users : held[v] # NoBlock /\ LiesIn(memory, held[v], c)
      BY <2>2 DEF MemoryInv, OneToOne
    <3>2. v # u
      <4>1. SUFFICES ASSUME v = u PROVE FALSE
        OBVIOUS
      <4>2. PICK d \in old : LiesIn(memory, held[u], d)
        BY <3>1, <4>1
      <4>3. c = d
        BY <1>1, <1>3, <2>2, <3>1, <4>1, <4>2, OneChunk
      <4>4. QED
        BY <2>2, <4>2, <4>3
    <3>3. PICK d \in chunks \ old : LiesIn(memory, held[v], d) /\ LiesIn(memory', held[v], d)
      BY <1>8, <3>1, <3>2
    <3>4. c = d
      BY <1>1, <1>3, <2>2, <3>1, <3>3, OneChunk
    <3>5. QED
      BY <1>1, <3>1, <3>2, <3>3, <3>4
  <2>3. QED
    BY <1>14, <2>1, <2>2
<1>15. OneToOne'
  BY <1>12, <1>13, <1>14 DEF OneToOne
<1>16. \A v \in Users : held'[v] # NoBlock => Keeps(memory', v, held'[v])
  BY <1>1, <1>8
<1>17. QED
  BY <1>1, <1>7, <1>15, <1>16 DEF MemoryInv

-----------------------------------------------------------------------------
(* What the operations read and write.                                     *)

LEMMA SavedAt ==
    ASSUME NEW mem, NEW p \in Int, NEW base, NEW a \in Cells
    PROVE  SaveChunk(mem, p, base)[a] =
               IF a - (p - PtrSize) \in 0 .. PtrSize - 1
               THEN <<"address", base, a - (p - PtrSize)>> ELSE mem[a]
BY DEF SaveChunk, Write, ChunkAddress

LEMMA DataAt ==
    ASSUME NEW mem, NEW p \in Int, NEW u, NEW n \in Int, NEW a \in Cells
    PROVE  Write(mem, p, Data(u, n))[a] =
               IF a - p \in 0 .. n - 1 THEN <<"data", u, a - p>> ELSE mem[a]
BY DEF Write, Data

(* The chunk of a block is found again.                                    *)
LEMMA ChunkIsFound ==
    ASSUME MemoryInv, NEW u \in Users, held[u] # NoBlock,
           NEW c \in chunks, LiesIn(memory, held[u], c)
    PROVE  /\ Plain(u) => ChunkAt(held[u].ptr) = {c}
           /\ Aligned(u) => SavedChunk(held[u].ptr) = {c}
<1>1. /\ held[u] \in Blocks /\ \A d \in chunks : IsChunk(d)
      /\ \A d, e \in chunks : d # e => Apart(d, e)
  BY DEF MemoryInv, ChunksTyped
<1>2. \A d \in chunks : d.base = c.base => d = c
  BY <1>1, ChunkFields DEF Apart
<1>3. ASSUME Plain(u)
      PROVE  ChunkAt(held[u].ptr) = {c}
  BY <1>2, <1>3 DEF Plain, LiesIn, ChunkAt
<1>4. ASSUME Aligned(u)
      PROVE  SavedChunk(held[u].ptr) = {c}
  <2>1. 0 \in 0 .. PtrSize - 1 /\ held[u].align # 0
    BY <1>4, MemoryAssumption DEF Aligned
  <2>2. \A k \in 0 .. PtrSize - 1 :
           /\ held[u].ptr - PtrSize + k \in Cells
           /\ memory[held[u].ptr - PtrSize + k] = <<"address", c.base, k>>
    <3>1. \A k \in 0 .. PtrSize - 1 : held[u].ptr - PtrSize + k \in Area(c.base, c.size)
      BY <1>1, <2>1, InsideOfChunk
    <3>2. Area(c.base, c.size) \subseteq Cells
      BY <1>1 DEF IsChunk
    <3>3. QED
      BY <2>1, <3>1, <3>2 DEF LiesIn
  <2>3. \A d : \A k \in 0 .. PtrSize - 1 : ChunkAddress(d)[k] = <<"address", d, k>>
    BY DEF ChunkAddress
  <2>4. c \in SavedChunk(held[u].ptr)
    BY <2>2, <2>3 DEF SavedChunk
  <2>5. ASSUME NEW d \in SavedChunk(held[u].ptr)
        PROVE  d = c
    <3>1. d \in chunks /\ memory[held[u].ptr - PtrSize + 0] = ChunkAddress(d.base)[0]
      BY <2>1, <2>5 DEF SavedChunk
    <3>2. <<"address", d.base, 0>> = <<"address", c.base, 0>>
      BY <2>1, <2>2, <2>3, <3>1
    <3>3. d.base = c.base
      BY <3>2
    <3>4. QED
      BY <1>2, <3>1, <3>3
  <2>6. QED
    BY <2>4, <2>5
<1>5. QED
  BY <1>3, <1>4

(* Where malloc and realloc put a chunk.                                   *)
LEMMA Placed ==
    ASSUME NEW others, NEW size \in Nat \ {0}, NEW base \in Places(size, others)
    PROVE  /\ IsChunk([base |-> base, size |-> size])
           /\ \A d \in others : Apart([base |-> base, size |-> size], d)
<1>1. base \in Int /\ 1 <= base /\ base + size - 1 <= HeapSize /\ base % MallocAlign = 0
  BY MemoryAssumption DEF Places, Cells
<1>2. Area(base, size) \subseteq Cells
  BY <1>1, MemoryAssumption DEF Area, Cells
<1>3. QED
  BY <1>1, <1>2 DEF IsChunk, Apart, Places

LEMMA PlacedAgain ==
    ASSUME NEW c \in chunks, NEW size \in Nat \ {0}, NEW base \in NewPlaces(c, size)
    PROVE  /\ IsChunk([base |-> base, size |-> size])
           /\ \A d \in chunks \ {c} : Apart([base |-> base, size |-> size], d)
<1>1. CASE base \in Places(size, chunks)
  BY <1>1, Placed
<1>2. CASE base \in Places(size, chunks \ {c})
  BY <1>2, Placed
<1>3. QED
  BY <1>1, <1>2 DEF NewPlaces

(* realloc copies what fits, and touches no other chunk.                   *)
LEMMA CopiedAt ==
    ASSUME NEW c, IsChunk(c), NEW size \in Nat \ {0}, NEW base,
           IsChunk([base |-> base, size |-> size])
    PROVE  /\ \A k \in Int : /\ 0 <= k /\ k < c.size /\ k < size
                             => CopyChunk(c, base, size)[base + k] = memory[c.base + k]
           /\ \A a \in Cells : /\ a \notin Area(base, size) /\ a \notin Area(c.base, c.size)
                               => CopyChunk(c, base, size)[a] = memory[a]
<1> DEFINE m == Min({c.size, size})
           part == [k \in 0 .. m - 1 |-> memory[c.base + k]]
           copy == CopyChunk(c, base, size)
<1>1. c.size \in Nat /\ base \in Int /\ Area(base, size) \subseteq Cells
  BY DEF IsChunk
<1>. m \in Int /\ m <= size /\ m <= c.size /\ m \in {c.size, size}
  <2>1. c.size \in Int /\ size \in Int
    BY <1>1
  <2>2. m \in {c.size, size} /\ m <= size /\ m <= c.size
    BY <2>1, MinOfTwo
  <2>3. QED
    BY <2>1, <2>2
<1>2. \A a \in Cells : copy[a] = IF a - base \in 0 .. m - 1
                                 THEN memory[c.base + (a - base)] ELSE Forget(c)[a]
  BY DEF CopyChunk, Write
<1> HIDE DEF copy, m
<1>3. ASSUME NEW k \in Int, 0 <= k, k < c.size, k < size
      PROVE  copy[base + k] = memory[c.base + k]
  <2>1. base + k \in Cells /\ (base + k) - base = k /\ k \in 0 .. m - 1
    BY <1>1, <1>3 DEF Area
  <2>2. QED
    BY <1>2, <2>1
<1>4. ASSUME NEW a \in Cells, a \notin Area(base, size), a \notin Area(c.base, c.size)
      PROVE  copy[a] = memory[a]
  <2>1. a - base \notin 0 .. m - 1
    BY <1>1, <1>4 DEF Area, Cells
  <2>2. QED
    BY <1>2, <1>4, <2>1 DEF Forget
<1>5. QED
  BY <1>3, <1>4 DEF copy

(* Saving the address of the chunk leaves the block alone, and writing the *)
(* block leaves the address alone.                                         *)
LEMMA SavedIn ==
    ASSUME NEW mem, NEW c, IsChunk(c), NEW h \in Blocks, h.align # 0,
           h.ptr = PlaceBlock(c.base, h.align), c.size = h.size + h.align + PtrSize
    PROVE  /\ LiesIn(SaveChunk(mem, h.ptr, c.base), h, c)
           /\ \A k \in 0 .. h.size - 1 :
                 SaveChunk(mem, h.ptr, c.base)[h.ptr + k] = mem[h.ptr + k]
           /\ \A a \in Cells : a \notin Area(c.base, c.size)
                               => SaveChunk(mem, h.ptr, c.base)[a] = mem[a]
<1> DEFINE new == SaveChunk(mem, h.ptr, c.base)
<1>1. /\ c.base \in Int /\ h.ptr \in Int /\ h.size \in Nat \ {0} /\ PtrSize \in Nat \ {0}
      /\ h.align \in Nat \ {0} /\ c.base + PtrSize \in Int
      /\ \A a \in Area(c.base, c.size) : a \in Cells /\ a \in Int
  BY BlockFields, ChunkFields, MemoryAssumption DEF IsChunk, Cells
<1>2. c.base + PtrSize <= h.ptr /\ h.ptr < c.base + PtrSize + h.align
  BY <1>1, NextAlignedRounds DEF PlaceBlock
<1>3. \A a \in Cells : new[a] = IF a - (h.ptr - PtrSize) \in 0 .. PtrSize - 1
                                THEN <<"address", c.base, a - (h.ptr - PtrSize)>> ELSE mem[a]
  BY <1>1, SavedAt
<1> HIDE DEF new
<1>4. ASSUME NEW k \in 0 .. PtrSize - 1
      PROVE  new[h.ptr - PtrSize + k] = <<"address", c.base, k>>
  <2>1. h.ptr - PtrSize + k \in Cells /\ (h.ptr - PtrSize + k) - (h.ptr - PtrSize) = k
    BY <1>1, <1>2 DEF Area
  <2>2. QED
    BY <1>3, <2>1
<1>5. ASSUME NEW k \in 0 .. h.size - 1
      PROVE  new[h.ptr + k] = mem[h.ptr + k]
  <2>1. h.ptr + k \in Cells /\ (h.ptr + k) - (h.ptr - PtrSize) \notin 0 .. PtrSize - 1
    BY <1>1, <1>2 DEF Area
  <2>2. QED
    BY <1>3, <2>1
<1>6. ASSUME NEW a \in Cells, a \notin Area(c.base, c.size)
      PROVE  new[a] = mem[a]
  <2>1. a - (h.ptr - PtrSize) \notin 0 .. PtrSize - 1
    BY <1>1, <1>2, <1>6 DEF Area, Cells
  <2>2. QED
    BY <1>3, <2>1
<1>7. LiesIn(new, h, c)
  BY <1>4 DEF LiesIn
<1>8. QED
  BY <1>5, <1>6, <1>7 DEF new

LEMMA FilledIn ==
    ASSUME NEW mem, NEW c, IsChunk(c), NEW h \in Blocks, LiesIn(mem, h, c),
           h.written <= h.size, NEW u
    PROVE  /\ LiesIn(Write(mem, h.ptr, Data(u, h.size)), h, c)
           /\ Keeps(Write(mem, h.ptr, Data(u, h.size)), u, h)
           /\ \A a \in Cells : a \notin Area(c.base, c.size)
                               => Write(mem, h.ptr, Data(u, h.size))[a] = mem[a]
<1> DEFINE new == Write(mem, h.ptr, Data(u, h.size))
<1>1. /\ h.ptr \in Int /\ h.size \in Nat \ {0} /\ PtrSize \in Nat \ {0} /\ h.written \in Nat
      /\ \A a \in Area(c.base, c.size) : a \in Cells /\ a \in Int
  BY BlockFields, MemoryAssumption DEF IsChunk, Cells
<1>2. \A a \in Cells : new[a] = IF a - h.ptr \in 0 .. h.size - 1
                                THEN <<"data", u, a - h.ptr>> ELSE mem[a]
  BY <1>1, DataAt
<1> HIDE DEF new
<1>3. \A k \in 0 .. h.size - 1 : h.ptr + k \in Area(c.base, c.size)
  BY InsideOfChunk
<1>4. ASSUME NEW k \in 0 .. h.written - 1
      PROVE  new[h.ptr + k] = <<"data", u, k>>
  <2>1. h.ptr + k \in Cells /\ (h.ptr + k) - h.ptr = k /\ k \in 0 .. h.size - 1
    BY <1>1, <1>3
  <2>2. QED
    BY <1>2, <2>1
<1>5. ASSUME NEW a \in Cells, a \notin Area(c.base, c.size)
      PROVE  new[a] = mem[a]
  <2>1. ASSUME a - h.ptr \in 0 .. h.size - 1
        PROVE  FALSE
    <3>1. h.ptr + (a - h.ptr) = a
      BY <1>1, <1>5 DEF Cells
    <3>2. QED
      BY <1>3, <1>5, <2>1, <3>1
  <2>2. QED
    BY <1>2, <2>1
<1>6. LiesIn(new, h, c)
  <2>1. CASE h.align = 0
    BY <2>1 DEF LiesIn
  <2>2. CASE h.align # 0
    <3>1. ASSUME NEW k \in 0 .. PtrSize - 1
          PROVE  new[h.ptr - PtrSize + k] = mem[h.ptr - PtrSize + k]
      <4>1. h.ptr - PtrSize + k \in Cells
        BY <1>1, <2>2, InsideOfChunk
      <4>2. (h.ptr - PtrSize + k) - h.ptr \notin 0 .. h.size - 1
        BY <1>1
      <4>3. QED
        BY <1>2, <4>1, <4>2
    <3>2. QED
      BY <2>2, <3>1 DEF LiesIn
  <2>3. QED
    BY <2>1, <2>2
<1>7. QED
  BY <1>4, <1>5, <1>6 DEF new, Keeps

-----------------------------------------------------------------------------
(* The operations keep the invariant.                                      *)

LEMMA ChunkSizeIs ==
    ASSUME NEW size \in Sizes, NEW align \in Alignments
    PROVE  /\ size \in Nat \ {0} /\ align \in Nat \ {0}
           /\ ChunkSize(size, align) = size + align + PtrSize
           /\ ChunkSize(size, align) \in Nat \ {0}
<1>1. /\ size \in Nat \ {0} /\ align \in Nat \ {0} /\ PtrSize \in Nat \ {0}
      /\ size + align + PtrSize < 2^Width /\ 2^Width \in Nat
  BY MemoryAssumption, RequestAssumption
<1>2. PICK n \in Nat : n = 2^Width
  BY <1>1
<1>3. /\ n \in Nat \ {0} /\ size + align + PtrSize \in 0 .. n - 1
  BY <1>1, <1>2
<1>4. (size + align + PtrSize) % n = size + align + PtrSize
  BY <1>3, ModSmall
<1>5. QED
  BY <1>1, <1>2, <1>4 DEF ChunkSize

LEMMA ApartMemory ==
    ASSUME NEW c, NEW d, IsChunk(d), Apart(c, d), NEW new, NEW mem,
           \A a \in Cells : a \notin Area(c.base, c.size) => new[a] = mem[a]
    PROVE  \A a \in Area(d.base, d.size) : new[a] = mem[a]
BY DEF IsChunk, Apart

(* A new chunk for a user without one, another chunk for the one a user    *)
(* has, and none any more.                                                 *)
LEMMA AddPreserves ==
    ASSUME MemoryInv, NEW u \in Users, held[u] = NoBlock,
           NEW c, IsChunk(c), NEW h \in Blocks,
           LiesIn(memory', h, c), Keeps(memory', u, h),
           \A d \in chunks : Apart(c, d),
           \A d \in chunks : \A a \in Area(d.base, d.size) : memory'[a] = memory[a],
           chunks' = chunks \cup {c}, held' = [held EXCEPT ![u] = h], wild' = wild
    PROVE  MemoryInv'
<1> DEFINE old == {}
           new == {c}
<1>1. old \in SUBSET chunks /\ h # NoBlock /\ chunks' = (chunks \ old) \cup new
  BY BlockFields
<1>2. /\ \A x \in old : held[u] # NoBlock /\ LiesIn(memory, held[u], x)
      /\ held[u] # NoBlock => \E x \in old : LiesIn(memory, held[u], x)
  OBVIOUS
<1>3. /\ \E x : new = {x} /\ IsChunk(x) /\ LiesIn(memory', h, x)
      /\ \A x \in new : \A d \in chunks \ old : Apart(x, d)
      /\ \A d \in chunks \ old : \A a \in Area(d.base, d.size) : memory'[a] = memory[a]
  OBVIOUS
<1> HIDE DEF old, new
<1>4. QED
  BY <1>1, <1>2, <1>3, ReplacePreserves

LEMMA ChangePreserves ==
    ASSUME MemoryInv, NEW u \in Users, held[u] # NoBlock,
           NEW b \in chunks, LiesIn(memory, held[u], b),
           NEW c, IsChunk(c), NEW h \in Blocks,
           LiesIn(memory', h, c), Keeps(memory', u, h),
           \A d \in chunks \ {b} : Apart(c, d),
           \A d \in chunks \ {b} : \A a \in Area(d.base, d.size) : memory'[a] = memory[a],
           chunks' = (chunks \ {b}) \cup {c}, held' = [held EXCEPT ![u] = h], wild' = wild
    PROVE  MemoryInv'
<1> DEFINE old == {b}
           new == {c}
<1>1. old \in SUBSET chunks /\ h # NoBlock /\ chunks' = (chunks \ old) \cup new
  BY BlockFields
<1>2. /\ \A x \in old : held[u] # NoBlock /\ LiesIn(memory, held[u], x)
      /\ held[u] # NoBlock => \E x \in old : LiesIn(memory, held[u], x)
  OBVIOUS
<1>3. /\ \E x : new = {x} /\ IsChunk(x) /\ LiesIn(memory', h, x)
      /\ \A x \in new : \A d \in chunks \ old : Apart(x, d)
      /\ \A d \in chunks \ old : \A a \in Area(d.base, d.size) : memory'[a] = memory[a]
  OBVIOUS
<1> HIDE DEF old, new
<1>4. QED
  BY <1>1, <1>2, <1>3, ReplacePreserves

LEMMA DropPreserves ==
    ASSUME MemoryInv, NEW u \in Users, held[u] # NoBlock,
           NEW b \in chunks, LiesIn(memory, held[u], b),
           \A d \in chunks \ {b} : \A a \in Area(d.base, d.size) : memory'[a] = memory[a],
           chunks' = chunks \ {b}, held' = [held EXCEPT ![u] = NoBlock], wild' = wild
    PROVE  MemoryInv'
<1> DEFINE old == {b}
           new == {}
           h == NoBlock
<1>1. old \in SUBSET chunks /\ h = NoBlock /\ chunks' = (chunks \ old) \cup new
  OBVIOUS
<1>2. /\ \A x \in old : held[u] # NoBlock /\ LiesIn(memory, held[u], x)
      /\ held[u] # NoBlock => \E x \in old : LiesIn(memory, held[u], x)
  OBVIOUS
<1>3. /\ new = {} /\ \A x \in new : \A d \in chunks \ old : Apart(x, d)
      /\ \A d \in chunks \ old : \A a \in Area(d.base, d.size) : memory'[a] = memory[a]
      /\ h \in Blocks \cup {NoBlock} /\ held' = [held EXCEPT ![u] = h]
  OBVIOUS
<1> HIDE DEF old, new, h
<1>4. QED
  BY <1>1, <1>2, <1>3, ReplacePreserves

LEMMA PlainAllocKeeps ==
    ASSUME MemoryInv, NEW u \in Users, NEW size \in Sizes, PlainAlloc(u, size)
    PROVE  MemoryInv'
<1>1. PICK base \in Places(size, chunks) :
          /\ held[u] = NoBlock
          /\ chunks' = chunks \cup {[base |-> base, size |-> size]}
          /\ memory' = Write(memory, base, Data(u, size))
          /\ held' = [held EXCEPT ![u] = [ptr |-> base, size |-> size, align |-> 0,
                                          written |-> size, kept |-> TRUE]]
          /\ wild' = wild
  BY DEF PlainAlloc
<1> DEFINE c == [base |-> base, size |-> size]
           h == [ptr |-> base, size |-> size, align |-> 0, written |-> size, kept |-> TRUE]
<1>2. size \in Nat \ {0}
  BY MemoryAssumption
<1>3. base \in Int /\ size <= size
  BY <1>2, MemoryAssumption DEF Places, Cells
<1>. /\ h \in Blocks /\ LiesIn(memory, h, c)
     /\ h.ptr = base /\ h.size = size /\ h.written <= h.size
  BY <1>2, <1>3 DEF Blocks, LiesIn
<1>4. IsChunk(c) /\ \A d \in chunks : Apart(c, d)
  BY <1>1, <1>2, Placed
<1>5. held' = [held EXCEPT ![u] = h] /\ chunks' = chunks \cup {c}
  BY <1>1
<1> HIDE DEF h, c
<1>6. /\ LiesIn(memory', h, c) /\ Keeps(memory', u, h)
      /\ \A a \in Cells : a \notin Area(c.base, c.size) => memory'[a] = memory[a]
  BY <1>1, <1>3, <1>4, FilledIn
<1>7. \A d \in chunks : \A a \in Area(d.base, d.size) : memory'[a] = memory[a]
  BY <1>4, <1>6, ApartMemory DEF MemoryInv, ChunksTyped
<1>8. QED
  BY <1>1, <1>3, <1>4, <1>5, <1>6, <1>7, AddPreserves

LEMMA AllocKeeps ==
    ASSUME MemoryInv, NEW u \in Users, NEW size \in Sizes, NEW align \in Alignments,
           Alloc(u, size, align)
    PROVE  MemoryInv'
<1> DEFINE n == ChunkSize(size, align)
<1>1. PICK base \in Places(n, chunks) :
          /\ held[u] = NoBlock
          /\ chunks' = chunks \cup {[base |-> base, size |-> n]}
          /\ memory' = Write(SaveChunk(memory, PlaceBlock(base, align), base),
                             PlaceBlock(base, align), Data(u, size))
          /\ held' = [held EXCEPT ![u] =
                         [ptr |-> PlaceBlock(base, align), size |-> size, align |-> align,
                          written |-> size, kept |-> TRUE]]
          /\ wild' = wild
  BY DEF Alloc
<1> DEFINE c == [base |-> base, size |-> n]
           h == [ptr |-> PlaceBlock(base, align), size |-> size, align |-> align,
                 written |-> size, kept |-> TRUE]
           saved == SaveChunk(memory, h.ptr, c.base)
<1>2. /\ size \in Nat \ {0} /\ align \in Nat \ {0} /\ n \in Nat \ {0}
      /\ n = size + align + PtrSize
  BY ChunkSizeIs
<1> HIDE DEF n
<1>3. base \in Int /\ base + PtrSize \in Int
  BY MemoryAssumption DEF Places, Cells
<1>4. PlaceBlock(base, align) \in Int
  BY <1>2, <1>3, NextAlignedRounds DEF PlaceBlock
<1>5. /\ h \in Blocks /\ h.align # 0 /\ h.written <= h.size
      /\ h.ptr = PlaceBlock(c.base, h.align) /\ c.size = h.size + h.align + PtrSize
  BY <1>2, <1>4 DEF Blocks
<1>6. IsChunk(c) /\ \A d \in chunks : Apart(c, d)
  BY <1>1, <1>2, Placed
<1>7. /\ held' = [held EXCEPT ![u] = h] /\ chunks' = chunks \cup {c}
      /\ memory' = Write(saved, h.ptr, Data(u, h.size))
  BY <1>1
<1> HIDE DEF h, c, saved
<1>8. /\ LiesIn(saved, h, c)
      /\ \A a \in Cells : a \notin Area(c.base, c.size) => saved[a] = memory[a]
  BY <1>5, <1>6, SavedIn DEF saved
<1>9. /\ LiesIn(memory', h, c) /\ Keeps(memory', u, h)
      /\ \A a \in Cells : a \notin Area(c.base, c.size) => memory'[a] = saved[a]
  BY <1>5, <1>6, <1>7, <1>8, FilledIn
<1>10. \A a \in Cells : a \notin Area(c.base, c.size) => memory'[a] = memory[a]
  BY <1>8, <1>9
<1>11. \A d \in chunks : \A a \in Area(d.base, d.size) : memory'[a] = memory[a]
  BY <1>6, <1>10, ApartMemory DEF MemoryInv, ChunksTyped
<1>12. QED
  BY <1>1, <1>5, <1>6, <1>7, <1>9, <1>11, AddPreserves

LEMMA FillKeeps ==
    ASSUME MemoryInv, NEW u \in Users, Fill(u)
    PROVE  MemoryInv'
<1> DEFINE h == [held[u] EXCEPT !.written = held[u].size, !.kept = TRUE]
<1>1. /\ held[u] \in Blocks /\ held \in [Users -> Blocks \cup {NoBlock}]
      /\ memory' = Write(memory, held[u].ptr, Data(u, held[u].size))
      /\ held' = [held EXCEPT ![u] = h] /\ chunks' = chunks /\ wild' = wild
  BY DEF Fill, MemoryInv
<1>2. PICK c \in chunks : LiesIn(memory, held[u], c)
  BY DEF Fill, MemoryInv, OneToOne
<1>3. /\ h \in Blocks /\ h.ptr = held[u].ptr /\ h.size = held[u].size
      /\ h.align = held[u].align /\ h.written <= h.size
  <2>1. held[u].size \in Nat
    BY <1>1, BlockFields
  <2>2. /\ held[u].size \in Nat /\ h.ptr = held[u].ptr /\ h.size = held[u].size
        /\ h.align = held[u].align /\ h.written = held[u].size
    BY <1>1, <2>1 DEF Blocks
  <2>3. h \in Blocks
    BY <1>1, <2>1 DEF Blocks
  <2>4. QED
    BY <2>2, <2>3
<1> HIDE DEF h
<1>4. h # NoBlock /\ held[u] # NoBlock
  BY <1>1, <1>3, BlockFields
<1>5. LiesIn(memory, h, c)
  BY <1>2, <1>3 DEF LiesIn
<1>6. IsChunk(c) /\ \A d \in chunks \ {c} : IsChunk(d) /\ Apart(c, d)
  BY DEF MemoryInv, ChunksTyped
<1>7. /\ LiesIn(memory', h, c) /\ Keeps(memory', u, h)
      /\ \A a \in Cells : a \notin Area(c.base, c.size) => memory'[a] = memory[a]
  BY <1>1, <1>3, <1>5, <1>6, FilledIn
<1>8. \A d \in chunks \ {c} : \A a \in Area(d.base, d.size) : memory'[a] = memory[a]
  BY <1>6, <1>7, ApartMemory
<1>9. chunks' = (chunks \ {c}) \cup {c}
  BY <1>1
<1>10. QED
  BY <1>1, <1>2, <1>3, <1>4, <1>6, <1>7, <1>8, <1>9, ChangePreserves

LEMMA FreeKeeps ==
    ASSUME MemoryInv, NEW u \in Users, Free(u) \/ PlainFree(u)
    PROVE  MemoryInv'
<1>1. held[u] # NoBlock
  BY DEF Free, PlainFree, Plain, Aligned
<1>2. PICK c \in chunks : LiesIn(memory, held[u], c)
  BY <1>1 DEF MemoryInv, OneToOne
<1>3. Release(u, {c})
  BY <1>1, <1>2, ChunkIsFound DEF Free, PlainFree
<1>4. /\ chunks' = chunks \ {c} /\ memory' = Forget(c) /\ wild' = wild
      /\ held' = [held EXCEPT ![u] = NoBlock]
  BY <1>3 DEF Release
<1>5. \A d \in chunks \ {c} : IsChunk(d) /\ Apart(c, d)
  BY DEF MemoryInv, ChunksTyped
<1>6. \A a \in Cells : a \notin Area(c.base, c.size) => memory'[a] = memory[a]
  BY <1>4 DEF Forget
<1>7. \A d \in chunks \ {c} : \A a \in Area(d.base, d.size) : memory'[a] = memory[a]
  BY <1>5, <1>6, ApartMemory
<1>8. QED
  BY <1>1, <1>2, <1>4, <1>7, DropPreserves

(* What realloc did not touch: the chunks of the others.                   *)
LEMMA OthersUntouched ==
    ASSUME MemoryInv, NEW b \in chunks, NEW c, \A d \in chunks \ {b} : Apart(c, d),
           \A a \in Cells : /\ a \notin Area(c.base, c.size) /\ a \notin Area(b.base, b.size)
                            => memory'[a] = memory[a]
    PROVE  \A d \in chunks \ {b} : \A a \in Area(d.base, d.size) : memory'[a] = memory[a]
<1>1. ASSUME NEW d \in chunks \ {b}, NEW a \in Area(d.base, d.size)
      PROVE  memory'[a] = memory[a]
  <2>1. Apart(b, d) /\ IsChunk(d) /\ Apart(c, d)
    BY DEF MemoryInv, ChunksTyped
  <2>2. a \in Cells /\ a \notin Area(b.base, b.size) /\ a \notin Area(c.base, c.size)
    BY <2>1 DEF IsChunk, Apart
  <2>3. QED
    BY <2>2
<1>2. QED
  BY <1>1

LEMMA WrittenMin ==
    ASSUME NEW h \in Blocks, NEW size \in Nat \ {0}
    PROVE  /\ Min({h.written, size}) \in Nat
           /\ Min({h.written, size}) <= h.written /\ Min({h.written, size}) <= size
<1>1. PICK w \in Nat : w = h.written
  BY BlockFields
<1>2. w \in Int /\ size \in Int /\ size \in Nat
  OBVIOUS
<1>3. Min({w, size}) \in {w, size} /\ Min({w, size}) <= w /\ Min({w, size}) <= size
  BY <1>2, MinOfTwo
<1>4. Min({w, size}) \in Nat
  BY <1>2, <1>3
<1>5. QED
  BY <1>1, <1>3, <1>4

LEMMA PlainReAllocKeeps ==
    ASSUME MemoryInv, NEW u \in Users, NEW size \in Sizes, PlainReAlloc(u, size)
    PROVE  MemoryInv'
<1>1. PICK b, base :
          /\ b \in ChunkAt(held[u].ptr) /\ base \in NewPlaces(b, size)
          /\ chunks' = (chunks \ {b}) \cup {[base |-> base, size |-> size]}
          /\ memory' = CopyChunk(b, base, size)
          /\ held' = [held EXCEPT ![u].ptr = base, ![u].size = size,
                                  ![u].written = Min({@, size})]
          /\ wild' = wild /\ Plain(u)
  BY DEF PlainReAlloc
<1> DEFINE old == held[u]
           c == [base |-> base, size |-> size]
           h == [old EXCEPT !.ptr = base, !.size = size, !.written = Min({@, size})]
<1>2. /\ old # NoBlock /\ old \in Blocks /\ old.align = 0 /\ size \in Nat \ {0}
      /\ Keeps(memory, u, old) /\ held \in [Users -> Blocks \cup {NoBlock}]
  BY <1>1, MemoryAssumption DEF MemoryInv, Plain
<1>3. b \in chunks /\ LiesIn(memory, old, b) /\ IsChunk(b) /\ b.base = old.ptr
  <2>1. PICK d \in chunks : LiesIn(memory, old, d)
    BY <1>2 DEF MemoryInv, OneToOne
  <2>2. b = d
    BY <1>1, <1>2, <2>1, ChunkIsFound
  <2>3. QED
    BY <1>2, <2>1, <2>2 DEF MemoryInv, ChunksTyped, LiesIn
<1>4. IsChunk(c) /\ \A d \in chunks \ {b} : Apart(c, d)
  BY <1>1, <1>2, <1>3, PlacedAgain
<1>5. /\ base \in Int /\ old.written \in Nat /\ old.size \in Nat \ {0} /\ old.size = b.size
      /\ old.written <= old.size
  BY <1>2, <1>3, <1>4, BlockFields DEF IsChunk, LiesIn, Keeps
<1>6. /\ Min({old.written, size}) \in Nat
      /\ Min({old.written, size}) <= old.written /\ Min({old.written, size}) <= size
  BY <1>2, WrittenMin
<1>7. /\ h.ptr = base /\ h.size = size /\ h.align = 0 /\ h.kept = old.kept
      /\ h.written = Min({old.written, size})
  BY <1>2 DEF Blocks
<1>8. h \in Blocks
  BY <1>2, <1>5, <1>6 DEF Blocks
<1>9. /\ held' = [held EXCEPT ![u] = h]
      /\ chunks' = (chunks \ {b}) \cup {c} /\ c.base = base /\ c.size = size
  BY <1>1, <1>2
<1>10. /\ \A k \in Int : 0 <= k /\ k < b.size /\ k < size
                         => memory'[base + k] = memory[b.base + k]
       /\ \A a \in Cells : a \notin Area(base, size) /\ a \notin Area(b.base, b.size)
                           => memory'[a] = memory[a]
  BY <1>1, <1>2, <1>3, <1>4, CopiedAt
<1> HIDE DEF h, c, old
<1>11. LiesIn(memory', h, c)
  BY <1>7, <1>9 DEF LiesIn
<1>12. Keeps(memory', u, h)
  <2>1. h.written <= h.size
    BY <1>6, <1>7
  <2>2. ASSUME h.kept, NEW k \in 0 .. h.written - 1
        PROVE  memory'[h.ptr + k] = <<"data", u, k>>
    <3>1. k \in 0 .. old.written - 1 /\ 0 <= k /\ k < b.size /\ k < size
      BY <1>2, <1>5, <1>6, <1>7
    <3>2. memory[old.ptr + k] = <<"data", u, k>>
      BY <1>2, <1>7, <2>2, <3>1 DEF Keeps
    <3>3. QED
      BY <1>3, <1>7, <1>10, <3>1, <3>2
  <2>3. QED
    BY <2>1, <2>2 DEF Keeps
<1>13. \A d \in chunks \ {b} : \A a \in Area(d.base, d.size) : memory'[a] = memory[a]
  BY <1>3, <1>4, <1>9, <1>10, OthersUntouched
<1>14. QED
  BY <1>1, <1>2, <1>3, <1>4, <1>8, <1>9, <1>11, <1>12, <1>13, ChangePreserves DEF old

LEMMA ReAllocKeeps ==
    ASSUME MemoryInv, NEW u \in Users, NEW size \in Sizes, NEW align \in Alignments,
           ReAlloc(u, size, align)
    PROVE  MemoryInv'
<1> DEFINE n == ChunkSize(size, align)
<1>1. PICK b, base :
          /\ b \in SavedChunk(held[u].ptr) /\ base \in NewPlaces(b, n)
          /\ chunks' = (chunks \ {b}) \cup {[base |-> base, size |-> n]}
          /\ memory' = SaveChunk(CopyChunk(b, base, n), PlaceBlock(base, align), base)
          /\ held' = [held EXCEPT ![u] =
                         [ptr |-> PlaceBlock(base, align), size |-> size, align |-> align,
                          written |-> Min({@.written, size}),
                          kept |-> @.kept /\ SameOffset(u, align)]]
          /\ wild' = wild /\ Aligned(u)
  BY DEF ReAlloc, MovedBlock
<1> DEFINE old == held[u]
           c == [base |-> base, size |-> n]
           copy == CopyChunk(b, base, n)
           h == [ptr |-> PlaceBlock(base, align), size |-> size, align |-> align,
                 written |-> Min({old.written, size}),
                 kept |-> old.kept /\ SameOffset(u, align)]
<1>2. /\ old # NoBlock /\ old \in Blocks /\ old.align # 0
      /\ Keeps(memory, u, old) /\ held \in [Users -> Blocks \cup {NoBlock}]
  BY <1>1 DEF MemoryInv, Aligned
<1>3. b \in chunks /\ LiesIn(memory, old, b) /\ IsChunk(b)
  <2>1. PICK d \in chunks : LiesIn(memory, old, d)
    BY <1>2 DEF MemoryInv, OneToOne
  <2>2. b = d
    BY <1>1, <1>2, <2>1, ChunkIsFound
  <2>3. QED
    BY <2>1, <2>2 DEF MemoryInv, ChunksTyped
<1>4. /\ size \in Nat \ {0} /\ align \in Nat \ {0} /\ n \in Nat \ {0}
      /\ n = size + align + PtrSize
  BY ChunkSizeIs
<1> HIDE DEF n
<1>5. IsChunk(c) /\ \A d \in chunks \ {b} : Apart(c, d)
  BY <1>1, <1>3, <1>4, PlacedAgain
<1>6. base \in Int /\ base % MallocAlign = 0 /\ b.base \in Int /\ b.base % MallocAlign = 0
  BY <1>3, <1>5 DEF IsChunk
<1>7. PlaceBlock(base, align) \in Int
  <2>1. base + PtrSize \in Int
    BY <1>6, MemoryAssumption
  <2>2. QED
    BY <1>4, <2>1, NextAlignedRounds DEF PlaceBlock
<1>8. /\ Min({old.written, size}) \in Nat
      /\ Min({old.written, size}) <= old.written /\ Min({old.written, size}) <= size
  BY <1>2, <1>4, WrittenMin
<1>9. (old.kept /\ SameOffset(u, align)) \in BOOLEAN
  OBVIOUS
<1>10. /\ h \in Blocks /\ h.align # 0 /\ h.align = align /\ h.size = size
       /\ h.written = Min({old.written, size})
       /\ h.ptr = PlaceBlock(base, align) /\ c.size = h.size + h.align + PtrSize
       /\ c.base = base /\ c.size = n
  BY <1>4, <1>7, <1>8, <1>9 DEF Blocks
<1>11. h.kept => old.kept /\ SameOffset(u, align)
  OBVIOUS
<1>12. /\ held' = [held EXCEPT ![u] = h]
       /\ chunks' = (chunks \ {b}) \cup {c}
       /\ memory' = SaveChunk(copy, h.ptr, c.base)
  BY <1>1
<1>13. /\ \A k \in Int : 0 <= k /\ k < b.size /\ k < n => copy[base + k] = memory[b.base + k]
       /\ \A a \in Cells : a \notin Area(base, n) /\ a \notin Area(b.base, b.size)
                           => copy[a] = memory[a]
  BY <1>3, <1>4, <1>5, CopiedAt
<1> HIDE DEF h, c, old, copy
<1>14. /\ LiesIn(memory', h, c)
       /\ \A k \in 0 .. h.size - 1 : memory'[h.ptr + k] = copy[h.ptr + k]
       /\ \A a \in Cells : a \notin Area(c.base, c.size) => memory'[a] = copy[a]
  <2>1. h.ptr = PlaceBlock(c.base, h.align)
    BY <1>10
  <2>2. h \in Blocks /\ h.align # 0 /\ c.size = h.size + h.align + PtrSize /\ IsChunk(c)
    BY <1>5, <1>10
  <2>3. /\ LiesIn(SaveChunk(copy, h.ptr, c.base), h, c)
        /\ \A k \in 0 .. h.size - 1 :
              SaveChunk(copy, h.ptr, c.base)[h.ptr + k] = copy[h.ptr + k]
        /\ \A a \in Cells : a \notin Area(c.base, c.size)
                            => SaveChunk(copy, h.ptr, c.base)[a] = copy[a]
    BY <2>1, <2>2, SavedIn
  <2>4. QED
    BY <1>12, <2>3
<1>15. Keeps(memory', u, h)
  <2>1. h.written <= h.size
    BY <1>8, <1>10
  <2>2. ASSUME h.kept, NEW k \in 0 .. h.written - 1
        PROVE  memory'[h.ptr + k] = <<"data", u, k>>
    <3>1. /\ k \in 0 .. old.written - 1 /\ k \in 0 .. old.size - 1 /\ k \in 0 .. h.size - 1
          /\ k \in Int
      BY <1>2, <1>4, <1>8, <1>10, BlockFields DEF Keeps
    <3>2. old.kept /\ old.align = align /\ MallocAlign % align = 0
      BY <1>11, <2>2 DEF SameOffset, old
    <3>3. base % align = 0 /\ b.base % align = 0
      BY <1>4, <1>6, <3>2, MemoryAssumption, ModTransitive
    <3>4. old.ptr = PlaceBlock(b.base, align)
      BY <1>2, <1>3, <3>2 DEF LiesIn
    <3>5. h.ptr - base = old.ptr - b.base /\ h.ptr \in Int /\ old.ptr \in Int
      BY <1>2, <1>4, <1>6, <1>7, <1>10, <3>3, <3>4, SameDistance, BlockFields
    <3>6. h.ptr + k \in Area(base, n)
      BY <1>5, <1>10, <1>14, <3>1, InsideOfChunk
    <3>7. old.ptr + k \in Area(b.base, b.size)
      BY <1>2, <1>3, <3>1, InsideOfChunk
    <3>8. PICK o \in Int : o = h.ptr - base + k
      BY <1>6, <3>1, <3>5
    <3>9. b.size \in Nat
      BY <1>3 DEF IsChunk
    <3>10. /\ h.ptr + k = base + o /\ old.ptr + k = b.base + o
           /\ 0 <= o /\ o < b.size /\ o < n
      BY <1>4, <1>6, <3>1, <3>5, <3>6, <3>7, <3>8, <3>9 DEF Area
    <3>11. copy[h.ptr + k] = memory[old.ptr + k]
      BY <1>13, <3>8, <3>10
    <3>12. memory[old.ptr + k] = <<"data", u, k>>
      BY <1>2, <3>1, <3>2 DEF Keeps
    <3>13. QED
      BY <1>14, <3>1, <3>11, <3>12
  <2>3. QED
    BY <2>1, <2>2 DEF Keeps
<1>16. \A a \in Cells : a \notin Area(c.base, c.size) /\ a \notin Area(b.base, b.size)
                        => memory'[a] = memory[a]
  BY <1>10, <1>13, <1>14
<1>17. \A d \in chunks \ {b} : \A a \in Area(d.base, d.size) : memory'[a] = memory[a]
  BY <1>3, <1>5, <1>16, OthersUntouched
<1>18. QED
  BY <1>1, <1>2, <1>3, <1>5, <1>10, <1>12, <1>14, <1>15, <1>17, ChangePreserves DEF old

LEMMA MemoryInvInit == Init => MemoryInv
<1>1. SUFFICES ASSUME Init PROVE MemoryInv
  OBVIOUS
<1>2. IsFiniteSet(chunks) /\ chunks = {} /\ \A u \in Users : held[u] = NoBlock
  BY <1>1, FS_EmptySet DEF Init
<1>3. wild = FALSE /\ held \in [Users -> Blocks \cup {NoBlock}]
  BY <1>1 DEF Init
<1>4. QED
  BY <1>2, <1>3 DEF MemoryInv, ChunksTyped, OneToOne

LEMMA MemoryInvNext == MemoryInv /\ [Next]_vars => MemoryInv'
<1>1. SUFFICES ASSUME MemoryInv, [Next]_vars PROVE MemoryInv'
  OBVIOUS
<1>2. CASE UNCHANGED vars
  BY <1>1, <1>2 DEF vars, MemoryInv, ChunksTyped, OneToOne
<1>3. ASSUME NEW u \in Users, NEW size \in Sizes, NEW align \in Alignments,
             Alloc(u, size, align) \/ ReAlloc(u, size, align)
      PROVE  MemoryInv'
  BY <1>1, <1>3, AllocKeeps, ReAllocKeeps
<1>4. ASSUME NEW u \in Users, NEW size \in Sizes,
             PlainAlloc(u, size) \/ PlainReAlloc(u, size)
      PROVE  MemoryInv'
  BY <1>1, <1>4, PlainAllocKeeps, PlainReAllocKeeps
<1>5. ASSUME NEW u \in Users, Free(u) \/ PlainFree(u) \/ Fill(u)
      PROVE  MemoryInv'
  BY <1>1, <1>5, FreeKeeps, FillKeeps
<1>6. QED
  BY <1>1, <1>2, <1>3, <1>4, <1>5 DEF Next

(* The invariant holds in every state: whatever is allocated, moved and    *)
(* freed, each block has a chunk of its own, which the word before an      *)
(* aligned block names.                                                    *)
THEOREM MemoryInvHolds == Spec => []MemoryInv
<1>1. QED
  BY MemoryInvInit, MemoryInvNext, PTL DEF Spec

-----------------------------------------------------------------------------
(* The properties.                                                         *)

LEMMA OwnInside ==
    ASSUME MemoryInv, NEW u \in Holders
    PROVE  /\ Aligned(u) => held[u].ptr % held[u].align = 0
           /\ \E c \in chunks : LiesIn(memory, held[u], c) /\ Own(u) \subseteq Area(c.base, c.size)
<1>1. u \in Users /\ held[u] # NoBlock /\ held[u] \in Blocks
  BY DEF Holders, MemoryInv
<1>2. PICK c \in chunks : LiesIn(memory, held[u], c) /\ IsChunk(c)
  BY <1>1 DEF MemoryInv, OneToOne, ChunksTyped
<1>3. /\ held[u].ptr \in Int /\ held[u].size \in Nat \ {0} /\ PtrSize \in Nat \ {0}
      /\ \A k \in 0 .. held[u].size - 1 : held[u].ptr + k \in Area(c.base, c.size)
  BY <1>1, <1>2, BlockFields, InsideOfChunk, MemoryAssumption
<1>4. CASE Aligned(u)
  <2>1. /\ held[u].ptr % held[u].align = 0
        /\ \A k \in 0 .. PtrSize - 1 : held[u].ptr - PtrSize + k \in Area(c.base, c.size)
    BY <1>1, <1>2, <1>4, InsideOfChunk DEF Aligned
  <2>2. ASSUME NEW a \in Own(u)
        PROVE  a \in Area(c.base, c.size)
    <3>1. /\ a \in Int /\ held[u].ptr - PtrSize <= a
          /\ a <= held[u].ptr - PtrSize + (PtrSize + held[u].size) - 1
      BY <1>3, <1>4, <2>2 DEF Own, Area
    <3>2. CASE a < held[u].ptr
      <4>1. /\ a - (held[u].ptr - PtrSize) \in 0 .. PtrSize - 1
            /\ held[u].ptr - PtrSize + (a - (held[u].ptr - PtrSize)) = a
        BY <1>3, <3>1, <3>2
      <4>2. QED
        BY <2>1, <4>1
    <3>3. CASE a >= held[u].ptr
      <4>1. a - held[u].ptr \in 0 .. held[u].size - 1 /\ held[u].ptr + (a - held[u].ptr) = a
        BY <1>3, <3>1, <3>3
      <4>2. QED
        BY <1>3, <4>1
    <3>4. QED
      BY <1>3, <3>1, <3>2, <3>3
  <2>3. QED
    BY <1>2, <2>1, <2>2
<1>5. CASE ~Aligned(u)
  <2>1. ASSUME NEW a \in Own(u)
        PROVE  a \in Area(c.base, c.size)
    <3>1. a - held[u].ptr \in 0 .. held[u].size - 1 /\ held[u].ptr + (a - held[u].ptr) = a
      BY <1>3, <1>5, <2>1 DEF Own, Area
    <3>2. QED
      BY <1>3, <3>1
  <2>2. QED
    BY <1>2, <1>5, <2>1
<1>6. QED
  BY <1>4, <1>5

(* Every block is aligned as it was asked for, and lies with the word      *)
(* before it in a chunk that no other block is in: no write of a user, and *)
(* no address that is saved, ever touches another's.                       *)
THEOREM BlocksAreApartHolds == Spec => []BlocksAreApart
<1>1. ASSUME MemoryInv
      PROVE  BlocksAreApart
  <2>1. ASSUME NEW u \in Holders, NEW v \in Holders, u # v
        PROVE  Own(u) \cap Own(v) = {}
    <3>1. PICK c \in chunks : LiesIn(memory, held[u], c) /\ Own(u) \subseteq Area(c.base, c.size)
      BY <1>1, OwnInside
    <3>2. PICK d \in chunks : LiesIn(memory, held[v], d) /\ Own(v) \subseteq Area(d.base, d.size)
      BY <1>1, OwnInside
    <3>3. c # d
      BY <1>1, <2>1, <3>1, <3>2 DEF MemoryInv, OneToOne, Holders
    <3>4. QED
      BY <1>1, <3>1, <3>2, <3>3 DEF MemoryInv, ChunksTyped, Apart
  <2>2. QED
    BY <1>1, <2>1, OwnInside DEF BlocksAreApart
<1>2. QED
  BY <1>1, MemoryInvHolds, PTL

(* As each block has one chunk and each chunk one block, there are as many *)
(* chunks as blocks: nothing leaks.                                        *)
LEMMA AsManyChunks ==
    ASSUME MemoryInv
    PROVE  Cardinality(chunks) = Cardinality(Holders)
<1> DEFINE Holder(c) == CHOOSE u \in Holders : LiesIn(memory, held[u], c)
           f == [c \in chunks |-> Holder(c)]
<1>1. /\ \A c \in chunks : IsChunk(c)
      /\ \A u \in Holders : held[u] \in Blocks
      /\ \A u \in Holders : \E c \in chunks : LiesIn(memory, held[u], c)
      /\ \A c \in chunks : \E u \in Holders : LiesIn(memory, held[u], c)
      /\ \A u, v \in Holders : \A c \in chunks :
            LiesIn(memory, held[u], c) /\ LiesIn(memory, held[v], c) => u = v
  BY DEF MemoryInv, OneToOne, ChunksTyped, Holders
<1>2. \A c \in chunks : Holder(c) \in Holders /\ LiesIn(memory, held[Holder(c)], c)
  BY <1>1
<1>3. /\ f \in [chunks -> Holders]
      /\ \A c \in chunks : f[c] \in Holders /\ LiesIn(memory, held[f[c]], c)
  BY <1>2
<1> HIDE DEF f
<1>4. ASSUME NEW c \in chunks, NEW d \in chunks, f[c] = f[d]
      PROVE  c = d
  BY <1>1, <1>3, <1>4, OneChunk
<1>5. ASSUME NEW u \in Holders
      PROVE  \E c \in chunks : f[c] = u
  BY <1>1, <1>3
<1>6. f \in Bijection(chunks, Holders)
  BY <1>3, <1>4, <1>5 DEF Bijection, Injection, Surjection, IsInjective
<1>7. ExistsBijection(chunks, Holders)
  BY <1>6 DEF ExistsBijection
<1>8. QED
  BY <1>7, FS_Bijection DEF MemoryInv, ChunksTyped

(* The word before an aligned block always is the address of its chunk, so *)
(* free and realloc get what malloc or realloc gave, once; and there are   *)
(* as many chunks as blocks.                                               *)
THEOREM ChunksAreFoundHolds == Spec => []ChunksAreFound
<1>1. ASSUME MemoryInv
      PROVE  ChunksAreFound
  <2>1. ASSUME NEW u \in Holders
        PROVE  \E c \in IF Aligned(u) THEN SavedChunk(held[u].ptr) ELSE ChunkAt(held[u].ptr) :
                  held[u].ptr \in Area(c.base, c.size)
    <3>1. u \in Users /\ held[u] # NoBlock /\ held[u] \in Blocks
      BY <1>1 DEF Holders, MemoryInv
    <3>2. PICK c \in chunks : LiesIn(memory, held[u], c) /\ IsChunk(c)
      BY <1>1, <3>1 DEF MemoryInv, OneToOne, ChunksTyped
    <3>3. c \in IF Aligned(u) THEN SavedChunk(held[u].ptr) ELSE ChunkAt(held[u].ptr)
      BY <1>1, <3>1, <3>2, ChunkIsFound DEF Plain, Aligned
    <3>4. 0 \in 0 .. held[u].size - 1 /\ held[u].ptr + 0 = held[u].ptr
      BY <3>1, BlockFields
    <3>5. held[u].ptr \in Area(c.base, c.size)
      BY <3>1, <3>2, <3>4, InsideOfChunk
    <3>6. QED
      BY <3>3, <3>5
  <2>2. QED
    BY <1>1, <2>1, AsManyChunks DEF ChunksAreFound, MemoryInv
<1>2. QED
  BY <1>1, MemoryInvHolds, PTL

(* What a user wrote is there until it writes again or frees the block,    *)
(* unless it asks for another alignment, or for one that chunks do not     *)
(* have anyway.                                                            *)
THEOREM DataIsKeptHolds == Spec => []DataIsKept
<1>1. MemoryInv => DataIsKept
  BY DEF MemoryInv, Keeps, DataIsKept, Holders
<1>2. QED
  BY <1>1, MemoryInvHolds, PTL

-----------------------------------------------------------------------------
(* The hash: CRC32.                                                        *)

Words == SUBSET (0 .. 31)

Reversed == {31 - b : b \in ulPolynomial}

\* The register after it has taken in a bit.
TakeIn(r, bit) == Xor(ShiftRight(r, 1), IF (0 \in r) # bit THEN Reversed ELSE {})

\* Bit k of a string, and the register that has taken it in.
BitOf(s, k) == (k % 8) \in Byte(s[(k \div 8) + 1])
NextRegister(s) == [k \in Nat |-> [r \in Words |-> TakeIn(r, BitOf(s, k))]]

LEMMA ReversedPolynomial == Reversed = {5, 8, 9, 15, 19, 20, 21, 23, 24, 26, 27, 29, 30, 31}
BY DEF Reversed, ulPolynomial

LEMMA TakeInIsWord ==
    ASSUME NEW r \in Words, NEW bit \in BOOLEAN
    PROVE  TakeIn(r, bit) \in Words
<1>1. ShiftRight(r, 1) \in Words
  BY DEF ShiftRight, Words
<1>2. Reversed \in Words
  BY ReversedPolynomial DEF Words
<1>3. QED
  BY <1>1, <1>2 DEF TakeIn, Xor, SymDiff, Words

\* A function is the register of Crc, at each bit of a string.
IsRegister(f, s) ==
    /\ \A k \in 0 .. 8 * Len(s) : f[k] \in Words
    /\ f[0] = 0 .. 31
    /\ \A k \in 0 .. 8 * Len(s) : k # 0 => f[k] = TakeIn(f[k - 1], BitOf(s, k - 1))

(* Crc computes a register.                                                *)
LEMMA CrcIsRegister ==
    ASSUME NEW s \in Seq(1 .. 255)
    PROVE  \E f : IsRegister(f, s) /\ Crc(s) = Xor(f[8 * Len(s)], 0 .. 31)
<1> DEFINE n == 8 * Len(s)
           bits == [k \in 0 .. n - 1 |-> (k % 8) \in Byte(s[(k \div 8) + 1])]
           Is(f) == f = [k \in 0 .. n |->
                             IF k = 0 THEN 0 .. 31
                             ELSE Xor(ShiftRight(f[k - 1], 1),
                                      IF (0 \in f[k - 1]) # bits[k - 1] THEN Reversed ELSE {})]
<1>1. n \in Nat /\ 0 .. 31 \in Words
  BY DEF Words
<1>2. \A k \in 0 .. n : k # 0 => k - 1 \in 0 .. n - 1 /\ k - 1 \in Nat /\ bits[k - 1] = BitOf(s, k - 1)
  BY <1>1 DEF BitOf
<1>3. \A k : BitOf(s, k) \in BOOLEAN
  BY DEF BitOf
<1> HIDE DEF n, bits
<1>4. \A f : Is(f) <=> f = [k \in 0 .. n |-> IF k = 0 THEN 0 .. 31 ELSE TakeIn(f[k - 1], BitOf(s, k - 1))]
  BY <1>2 DEF TakeIn
<1>5. Crc(s) = Xor((CHOOSE f : Is(f))[n], 0 .. 31)
  BY DEF Crc, n, bits, Reversed
<1> HIDE DEF Is
<1>6. \E f : Is(f)
  <2>1. NextRegister(s) \in [Nat -> [Words -> Words]]
    <3>1. \A k \in Nat : \A r \in Words : TakeIn(r, BitOf(s, k)) \in Words
      BY <1>3, TakeInIsWord
    <3>2. QED
      BY <3>1 DEF NextRegister
  <2>2. PICK f : IsIteration(f, Words, 0 .. 31, NextRegister(s), n)
    BY <1>1, <2>1, IterationExists
  <2>3. \A k \in 0 .. n : k # 0 => f[k] = TakeIn(f[k - 1], BitOf(s, k - 1))
    <3>1. ASSUME NEW k \in 0 .. n, k # 0
          PROVE  f[k] = TakeIn(f[k - 1], BitOf(s, k - 1))
      <4>1. k - 1 \in Nat /\ k - 1 \in 0 .. n
        BY <1>1, <3>1
      <4>2. f[k - 1] \in Words /\ f[k] = NextRegister(s)[k - 1][f[k - 1]]
        BY <2>2, <3>1, <4>1 DEF IsIteration
      <4>3. QED
        BY <4>1, <4>2 DEF NextRegister
    <3>2. QED
      BY <3>1
  <2>4. f = [k \in 0 .. n |-> IF k = 0 THEN 0 .. 31 ELSE TakeIn(f[k - 1], BitOf(s, k - 1))]
    BY <2>2, <2>3 DEF IsIteration
  <2>5. QED
    BY <1>4, <2>4
<1>7. PICK f : f = CHOOSE g : Is(g)
  OBVIOUS
<1>8. f = [k \in 0 .. n |-> IF k = 0 THEN 0 .. 31 ELSE TakeIn(f[k - 1], BitOf(s, k - 1))]
  BY <1>4, <1>6, <1>7
<1>9. f[0] = 0 .. 31 /\ \A k \in 0 .. n : k # 0 => f[k] = TakeIn(f[k - 1], BitOf(s, k - 1))
  <2>1. 0 \in 0 .. n
    BY <1>1
  <2>2. \A k \in 0 .. n : f[k] = IF k = 0 THEN 0 .. 31 ELSE TakeIn(f[k - 1], BitOf(s, k - 1))
    BY <1>8
  <2>3. QED
    BY <2>1, <2>2
<1>10. \A k \in 0 .. n : f[k] \in Words
  <2>1. \A k \in 0 .. n : k # 0 /\ f[k - 1] \in Words => f[k] \in Words
    BY <1>3, <1>9, TakeInIsWord
  <2>2. QED
    BY <1>1, <1>9, <2>1, IterationIsTyped
<1>11. IsRegister(f, s)
  BY <1>9, <1>10 DEF IsRegister, n
<1>12. QED
  BY <1>5, <1>7, <1>11 DEF n

-----------------------------------------------------------------------------
\* The 32 bits of a word in the opposite order.
Mirror(w) == {31 - b : b \in w}

\* A code of the table while it is computed, from its highest bit on.
NextCode(w) == Xor(ShiftLeft(w, 1), IF w \cap One(31) # {} THEN ulPolynomial ELSE {})

IsCode(f, x) ==
    /\ \A k \in 0 .. 8 : f[k] \in Words
    /\ f[0] = Mirror(x)
    /\ \A k \in 0 .. 8 : k # 0 => f[k] = NextCode(f[k - 1])

LEMMA OneIsBit ==
    ASSUME LongWidth = 32, NEW n \in Int
    PROVE  One(n) = {n}
BY DEF One

LEMMA ReflectIsMirror ==
    ASSUME LongWidth = 32
    PROVE  /\ \A w \in Words : Reflect(w, 32) = Mirror(w)
           /\ \A x \in SUBSET (0 .. 7) : ShiftLeft(Reflect(x, 8), 24) = Mirror(x)
<1>1. ASSUME NEW n \in Nat, NEW w \in SUBSET (0 .. n - 1)
      PROVE  Reflect(w, n) = {n - 1 - b : b \in w}
  <2>1. w \cap (0 .. n - 1) = w
    OBVIOUS
  <2>2. \A b \in w : One(n - 1 - b) = {n - 1 - b}
    BY OneIsBit
  <2>3. Reflect(w, n) = UNION {{n - 1 - b} : b \in w}
    BY <2>1, <2>2 DEF Reflect
  <2>4. QED
    BY <2>3
<1>2. ASSUME NEW w \in Words
      PROVE  Reflect(w, 32) = Mirror(w)
  <2>1. Reflect(w, 32) = {32 - 1 - b : b \in w}
    BY <1>1 DEF Words
  <2>2. \A b \in w : 32 - 1 - b = 31 - b
    BY DEF Words
  <2>3. QED
    BY <2>1, <2>2 DEF Mirror
<1>3. ASSUME NEW x \in SUBSET (0 .. 7)
      PROVE  ShiftLeft(Reflect(x, 8), 24) = Mirror(x)
  <2>1. Reflect(x, 8) = {8 - 1 - b : b \in x}
    BY <1>1
  <2>2. \A b \in x : (8 - 1 - b) + 24 = 31 - b /\ 31 - b \in 0 .. LongWidth - 1
    OBVIOUS
  <2>3. {c + 24 : c \in {8 - 1 - b : b \in x}} = {31 - b : b \in x}
    BY <2>2
  <2>4. QED
    BY <2>1, <2>2, <2>3 DEF ShiftLeft, Mirror
<1>4. QED
  BY <1>2, <1>3

LEMMA NextCodeIsWord ==
    ASSUME LongWidth = 32, NEW w \in Words
    PROVE  NextCode(w) \in Words
<1>1. ShiftLeft(w, 1) \in Words
  BY DEF ShiftLeft, Words
<1>2. ulPolynomial \in Words
  BY DEF ulPolynomial, Words
<1>3. QED
  BY <1>1, <1>2 DEF NextCode, Xor, SymDiff, Words

(* Initialize computes a code for each byte.                               *)
LEMMA TableHasCodes ==
    ASSUME LongWidth = 32, NEW x \in SUBSET (0 .. 7)
    PROVE  \E f : IsCode(f, x) /\ ulTable[x] = Mirror(f[8])
<1> DEFINE Is(f) == f = [k \in 0 .. 8 |->
                             IF k = 0 THEN ShiftLeft(Reflect(x, 8), 24)
                             ELSE LET w == f[k - 1]
                                  IN Xor(ShiftLeft(w, 1), IF w \cap One(31) # {} THEN ulPolynomial ELSE {})]
           next == [k \in Nat |-> [w \in Words |-> NextCode(w)]]
<1>1. \A f : Is(f) <=> f = [k \in 0 .. 8 |-> IF k = 0 THEN Mirror(x) ELSE NextCode(f[k - 1])]
  BY ReflectIsMirror DEF NextCode
<1>2. ulTable[x] = Reflect((CHOOSE f : Is(f))[8], 32)
  BY DEF ulTable, Initialize
<1> HIDE DEF Is
<1>3. Mirror(x) \in Words
  BY DEF Mirror, Words
<1>4. \E f : Is(f)
  <2>1. next \in [Nat -> [Words -> Words]]
    BY NextCodeIsWord
  <2>2. PICK f : IsIteration(f, Words, Mirror(x), next, 8)
    <3> HIDE DEF next
    <3>1. QED
      BY <1>3, <2>1, IterationExists
  <2>3. ASSUME NEW k \in 0 .. 8, k # 0
        PROVE  f[k] = NextCode(f[k - 1])
    <3>1. k - 1 \in Nat /\ k - 1 \in 0 .. 8
      BY <2>3
    <3>2. f[k - 1] \in Words /\ f[k] = next[k - 1][f[k - 1]]
      BY <2>2, <2>3, <3>1 DEF IsIteration
    <3>3. QED
      BY <3>1, <3>2
  <2>4. f = [k \in 0 .. 8 |-> IF k = 0 THEN Mirror(x) ELSE NextCode(f[k - 1])]
    BY <2>2, <2>3 DEF IsIteration
  <2>5. QED
    BY <1>1, <2>4
<1>5. PICK f : f = CHOOSE g : Is(g)
  OBVIOUS
<1>6. f = [k \in 0 .. 8 |-> IF k = 0 THEN Mirror(x) ELSE NextCode(f[k - 1])]
  BY <1>1, <1>4, <1>5
<1>7. f[0] = Mirror(x) /\ \A k \in 0 .. 8 : k # 0 => f[k] = NextCode(f[k - 1])
  <2>1. 0 \in 0 .. 8
    OBVIOUS
  <2>2. \A k \in 0 .. 8 : f[k] = IF k = 0 THEN Mirror(x) ELSE NextCode(f[k - 1])
    BY <1>6
  <2>3. QED
    BY <2>1, <2>2
<1>8. \A k \in 0 .. 8 : f[k] \in Words
  <2>1. \A k \in 0 .. 8 : k # 0 /\ f[k - 1] \in Words => f[k] \in Words
    BY <1>7, NextCodeIsWord
  <2>2. QED
    BY <1>3, <1>7, <2>1, IterationIsTyped
<1>9. Reflect(f[8], 32) = Mirror(f[8])
  BY <1>8, ReflectIsMirror
<1>10. QED
  BY <1>2, <1>5, <1>7, <1>8, <1>9 DEF IsCode

-----------------------------------------------------------------------------
\* A register, after k bits of a byte, is the code of the byte that was in it,
\* mirrored, and what the code leaves out, moved down.
Agree(r, w, rest, k) ==
    \A b \in 0 .. 31 : b \in r <=> ~ (31 - b \in w <=> b + k \in rest)

LEMMA ShiftAndMirror ==
    ASSUME NEW w \in Words
    PROVE  /\ ShiftRight(w, 8) \in Words /\ Mirror(w) \in Words
           /\ \A b \in 0 .. 31 : 31 - b \in w <=> b \in Mirror(w)
<1>1. ShiftRight(w, 8) \in Words
  BY DEF ShiftRight, Words
<1>2. Mirror(w) \in Words
  BY DEF Mirror, Words
<1>3. ASSUME NEW b \in 0 .. 31
      PROVE  31 - b \in w <=> b \in Mirror(w)
  <2>1. 31 - (31 - b) = b
    OBVIOUS
  <2>2. \A c \in w : 31 - c = b => c = 31 - b
    BY DEF Words
  <2>3. QED
    BY <2>1, <2>2 DEF Mirror
<1>4. QED
  BY <1>1, <1>2, <1>3

(* One bit: the register and the code go on in the same way.               *)
LEMMA BitKeepsAgree ==
    ASSUME LongWidth = 32, NEW r \in Words, NEW w \in Words, NEW rest \in Words,
           NEW k \in 0 .. 7, NEW bit \in BOOLEAN, bit <=> k \in rest, Agree(r, w, rest, k)
    PROVE  Agree(TakeIn(r, bit), NextCode(w), rest, k + 1)
<1>1. (0 \in r) # bit <=> 31 \in w
  <2>1. 0 \in r <=> ~ (31 \in w <=> k \in rest)
    <3>1. 0 \in 0 .. 31 /\ 31 - 0 = 31 /\ 0 + k = k
      OBVIOUS
    <3>2. QED
      BY <3>1 DEF Agree
  <2>2. QED
    BY <2>1
<1>2. w \cap One(31) # {} <=> 31 \in w
  BY OneIsBit
<1>3. ASSUME NEW b \in 0 .. 31
      PROVE  b \in TakeIn(r, bit) <=> ~ (b + 1 \in r <=> (31 \in w /\ b \in Reversed))
  <2>1. b \in ShiftRight(r, 1) <=> b + 1 \in r
    BY DEF ShiftRight, Words
  <2>2. b \in TakeIn(r, bit) <=> ~ (b \in ShiftRight(r, 1) <=> ((0 \in r) # bit /\ b \in Reversed))
    BY DEF TakeIn, Xor, SymDiff
  <2>3. QED
    BY <1>1, <2>1, <2>2
<1>4. ASSUME NEW b \in 0 .. 31
      PROVE  31 - b \in NextCode(w) <=> ~ (30 - b \in w <=> (31 \in w /\ b \in Reversed))
  <2>1. 31 - b \in ShiftLeft(w, 1) <=> 30 - b \in w
    <3>1. ASSUME 30 - b \in w
          PROVE  31 - b \in ShiftLeft(w, 1)
      <4>1. 30 - b + 1 = 31 - b /\ 31 - b \in 0 .. LongWidth - 1
        OBVIOUS
      <4>2. QED
        BY <3>1, <4>1 DEF ShiftLeft
    <3>2. ASSUME 31 - b \in ShiftLeft(w, 1)
          PROVE  30 - b \in w
      <4>1. PICK c \in w : 31 - b = c + 1
        BY <3>2 DEF ShiftLeft
      <4>2. c = 30 - b
        BY <4>1 DEF Words
      <4>3. QED
        BY <4>2
    <3>3. QED
      BY <3>1, <3>2
  <2>2. 31 - b \in ulPolynomial <=> b \in Reversed
    BY ReversedPolynomial DEF ulPolynomial
  <2>3. 31 - b \in NextCode(w) <=>
            ~ (31 - b \in ShiftLeft(w, 1) <=> (w \cap One(31) # {} /\ 31 - b \in ulPolynomial))
    BY DEF NextCode, Xor, SymDiff
  <2>4. QED
    BY <1>2, <2>1, <2>2, <2>3
<1>5. ASSUME NEW b \in 0 .. 31
      PROVE  b + 1 \in r <=> ~ (30 - b \in w <=> b + (k + 1) \in rest)
  <2>1. CASE b = 31
    BY <2>1 DEF Words
  <2>2. CASE b # 31
    <3>1. b + 1 \in 0 .. 31 /\ 31 - (b + 1) = 30 - b /\ (b + 1) + k = b + (k + 1)
      BY <2>2
    <3>2. QED
      BY <3>1 DEF Agree
  <2>3. QED
    BY <2>1, <2>2
<1>6. QED
  BY <1>3, <1>4, <1>5 DEF Agree

(* Eight bits: the register takes in a byte with the table.                *)
LEMMA ByteByTable ==
    ASSUME LongWidth = 32, NEW s \in Seq(1 .. 255), NEW f, IsRegister(f, s),
           NEW j \in Nat, j < Len(s)
    PROVE  f[8 * (j + 1)] = Xor(ShiftRight(f[8 * j], 8),
                                ulTable[Xor(f[8 * j] \cap (0 .. 7), Byte(s[j + 1]))])
<1>1. PICK r, byte, x, rest : /\ r = f[8 * j] /\ byte = Byte(s[j + 1])
                              /\ x = Xor(r \cap (0 .. 7), byte)
                              /\ rest = (r \ (0 .. 7)) \cup byte
  OBVIOUS
<1>2. Len(s) \in Nat /\ \A k \in 0 .. 8 : 8 * j + k \in 0 .. 8 * Len(s)
  OBVIOUS
<1>3. r \in Words /\ byte \in SUBSET (0 .. 7) /\ rest \in Words
  <2>1. 8 * j \in 0 .. 8 * Len(s)
    BY <1>2
  <2>2. byte \in SUBSET (0 .. 7)
    BY <1>1 DEF Byte
  <2>3. r \in Words
    BY <1>1, <2>1 DEF IsRegister
  <2>4. rest \in Words
    <3>1. r \subseteq 0 .. 31 /\ byte \subseteq 0 .. 31
      BY <2>2, <2>3 DEF Words
    <3>2. QED
      BY <1>1, <3>1 DEF Words
  <2>5. QED
    BY <2>2, <2>3, <2>4
<1>4. x \in SUBSET (0 .. 7)
  BY <1>1, <1>3 DEF Xor, SymDiff
<1>5. PICK w : IsCode(w, x) /\ ulTable[x] = Mirror(w[8])
  BY <1>4, TableHasCodes
<1>6. Agree(f[8 * j + 0], w[0], rest, 0)
  <2>1. ASSUME NEW b \in 0 .. 31
        PROVE  31 - b \in w[0] <=> b \in x
    <3>1. w[0] = {31 - c : c \in x}
      BY <1>5 DEF IsCode, Mirror
    <3>2. \A c \in x : c \in Int /\ (31 - c = 31 - b => c = b)
      BY <1>4
    <3>3. QED
      BY <3>1, <3>2
  <2>2. ASSUME NEW b \in 0 .. 31
        PROVE  b \in r <=> ~ (b \in x <=> b \in rest)
    BY <1>1, <1>3 DEF Xor, SymDiff
  <2>3. 8 * j + 0 = 8 * j /\ \A b \in 0 .. 31 : b + 0 = b
    OBVIOUS
  <2>4. QED
    BY <1>1, <2>1, <2>2, <2>3 DEF Agree
<1>7. ASSUME NEW k \in 0 .. 7, Agree(f[8 * j + k], w[k], rest, k)
      PROVE  Agree(f[8 * j + (k + 1)], w[k + 1], rest, k + 1)
  <2>1. /\ k \in 0 .. 8 /\ k + 1 \in 0 .. 8 /\ k + 1 # 0 /\ (k + 1) - 1 = k
        /\ 8 * j + (k + 1) # 0 /\ (8 * j + (k + 1)) - 1 = 8 * j + k
    OBVIOUS
  <2>2. f[8 * j + k] \in Words /\ f[8 * j + (k + 1)] = TakeIn(f[8 * j + k], BitOf(s, 8 * j + k))
    BY <1>2, <2>1 DEF IsRegister
  <2>3. w[k] \in Words /\ w[k + 1] = NextCode(w[k])
    BY <1>5, <2>1 DEF IsCode
  <2>4. BitOf(s, 8 * j + k) \in BOOLEAN /\ (BitOf(s, 8 * j + k) <=> k \in rest)
    <3>1. (8 * j + k) % 8 = k /\ (8 * j + k) \div 8 = j
      OBVIOUS
    <3>2. BitOf(s, 8 * j + k) <=> k \in byte
      BY <1>1, <3>1 DEF BitOf
    <3>3. k \in byte <=> k \in rest
      BY <1>1
    <3>4. QED
      BY <3>2, <3>3 DEF BitOf
  <2>5. QED
    BY <1>3, <1>7, <2>2, <2>3, <2>4, BitKeepsAgree
<1>8. Agree(f[8 * j + 8], w[8], rest, 8)
  <2> DEFINE A(k) == Agree(f[8 * j + k], w[k], rest, k)
  <2>1. A(0) /\ \A k \in 0 .. 7 : A(k) => A(k + 1)
    BY <1>6, <1>7
  <2> HIDE DEF A
  <2>2. A(8)
    <3>1. A(1)
      BY <2>1
    <3>2. A(2)
      BY <2>1, <3>1
    <3>3. A(3)
      BY <2>1, <3>2
    <3>4. A(4)
      BY <2>1, <3>3
    <3>5. A(5)
      BY <2>1, <3>4
    <3>6. A(6)
      BY <2>1, <3>5
    <3>7. A(7)
      BY <2>1, <3>6
    <3>8. QED
      BY <2>1, <3>7
  <2>3. QED
    BY <2>2 DEF A
<1>9. f[8 * j + 8] \in Words /\ w[8] \in Words
  BY <1>2, <1>5 DEF IsRegister, IsCode
<1>10. ASSUME NEW b \in 0 .. 31
       PROVE  b \in f[8 * j + 8] <=> b \in Xor(ShiftRight(r, 8), Mirror(w[8]))
  <2>1. b + 8 \in rest <=> b \in ShiftRight(r, 8)
    BY <1>1, <1>3 DEF ShiftRight, Words
  <2>2. 31 - b \in w[8] <=> b \in Mirror(w[8])
    BY <1>9, ShiftAndMirror
  <2>3. QED
    BY <1>8, <2>1, <2>2 DEF Agree, Xor, SymDiff
<1>11. Xor(ShiftRight(r, 8), Mirror(w[8])) \in Words
  <2>1. ShiftRight(r, 8) \in Words /\ Mirror(w[8]) \in Words
    BY <1>3, <1>9, ShiftAndMirror
  <2>2. QED
    BY <2>1 DEF Xor, SymDiff, Words
<1>12. 8 * (j + 1) = 8 * j + 8
  OBVIOUS
<1>13. f[8 * j + 8] = Xor(ShiftRight(r, 8), Mirror(w[8]))
  BY <1>9, <1>10, <1>11 DEF Words
<1>14. QED
  BY <1>1, <1>5, <1>12, <1>13

-----------------------------------------------------------------------------
\* While a string is hashed, the sum is the register after the bytes taken in.
SumIsRegister ==
    \E f, j :
        /\ IsRegister(f, string) /\ Crc(string) = Xor(f[8 * Len(string)], 0 .. 31)
        /\ j \in 0 .. Len(string) /\ Len(sData) = Len(string) - j
        /\ \A i \in 1 .. Len(sData) : sData[i] = string[j + i]
        /\ ulCRC = f[8 * j]

\* The hash is computed from the sum, so what is said of the sum is what is
\* inductive.
CrcInv ==
    /\ string \in Seq(1 .. 255) /\ sData \in Seq(1 .. 255)
    /\ sData # <<>> => initialized /\ hash = NoHash
    /\ initialized /\ hash = NoHash => SumIsRegister
    /\ HashIsCrc

LEMMA HashStringKeeps ==
    ASSUME CrcInv, NEW s \in Strings, HashString(s)
    PROVE  CrcInv'
<1>1. s \in Seq(1 .. 255)
  BY CRC32Assumption
<1>2. PICK f : IsRegister(f, s) /\ Crc(s) = Xor(f[8 * Len(s)], 0 .. 31)
  BY <1>1, CrcIsRegister
<1>3. string' = s /\ sData' = s /\ ulCRC' = 0 .. 31 /\ hash' = NoHash /\ initialized'
  BY DEF HashString
<1>4. SumIsRegister'
  <2>1. /\ 0 \in 0 .. Len(s) /\ Len(s) = Len(s) - 0
        /\ \A i \in 1 .. Len(s) : s[i] = s[0 + i]
        /\ 0 .. 31 = f[8 * 0]
    <3>1. Len(s) \in Nat /\ 8 * 0 = 0 /\ \A i \in 1 .. Len(s) : 0 + i = i
      BY <1>1
    <3>2. f[0] = 0 .. 31
      BY <1>2 DEF IsRegister
    <3>3. QED
      BY <3>1, <3>2
  <2>2. QED
    BY <1>2, <1>3, <2>1 DEF SumIsRegister
<1>5. QED
  BY <1>1, <1>3, <1>4 DEF CrcInv, HashIsCrc

LEMMA PartialCRCKeeps ==
    ASSUME LongWidth = 32, CrcInv, PartialCRC
    PROVE  CrcInv'
<1>1. /\ sData # <<>> /\ sData' = Tail(sData)
      /\ string' = string /\ initialized' = initialized /\ hash' = hash
      /\ ulCRC' = Xor(ShiftRight(ulCRC, 8), ulTable[Xor(ulCRC \cap (0 .. 7), Byte(Head(sData)))])
  BY DEF PartialCRC
<1>2. string \in Seq(1 .. 255) /\ sData \in Seq(1 .. 255) /\ initialized /\ hash = NoHash /\ SumIsRegister
  BY <1>1 DEF CrcInv
<1>3. PICK f, j :
          /\ IsRegister(f, string) /\ Crc(string) = Xor(f[8 * Len(string)], 0 .. 31)
          /\ j \in 0 .. Len(string) /\ Len(sData) = Len(string) - j
          /\ \A i \in 1 .. Len(sData) : sData[i] = string[j + i]
          /\ ulCRC = f[8 * j]
  BY <1>2 DEF SumIsRegister
<1>4. PICK t : t = Tail(sData)
  OBVIOUS
<1>5. /\ t \in Seq(1 .. 255) /\ Len(t) = Len(sData) - 1 /\ Len(sData) \in Nat /\ Len(sData) # 0
      /\ Head(sData) = sData[1] /\ \A i \in 1 .. Len(t) : t[i] = sData[i + 1]
  BY <1>1, <1>2, <1>4
<1>6. j \in Nat /\ j < Len(string) /\ j + 1 \in 0 .. Len(string) /\ Len(t) = Len(string) - (j + 1)
  BY <1>2, <1>3, <1>5
<1>7. Head(sData) = string[j + 1]
  BY <1>3, <1>5
<1>8. ulCRC' = f[8 * (j + 1)]
  <2>1. f[8 * (j + 1)] = Xor(ShiftRight(f[8 * j], 8),
                             ulTable[Xor(f[8 * j] \cap (0 .. 7), Byte(string[j + 1]))])
    BY <1>2, <1>3, <1>6, ByteByTable
  <2>2. QED
    BY <1>1, <1>3, <1>7, <2>1
<1>9. ASSUME NEW i \in 1 .. Len(t)
      PROVE  t[i] = string[(j + 1) + i]
  <2>1. i + 1 \in 1 .. Len(sData) /\ j + (i + 1) = (j + 1) + i
    BY <1>5, <1>6
  <2>2. QED
    BY <1>3, <1>5, <2>1
<1>10. SumIsRegister'
  BY <1>1, <1>3, <1>4, <1>6, <1>8, <1>9 DEF SumIsRegister
<1>11. QED
  BY <1>1, <1>2, <1>4, <1>5, <1>10 DEF CrcInv, HashIsCrc

LEMMA FullCRCKeeps ==
    ASSUME CrcInv, FullCRC, NoHash \notin SUBSET (0 .. 31)
    PROVE  CrcInv'
<1>1. /\ sData = <<>> /\ hash = NoHash /\ initialized
      /\ hash' = Xor(ulCRC, 0 .. 31) \cap (0 .. 31)
      /\ string' = string /\ sData' = sData /\ initialized' = initialized
  BY DEF FullCRC
<1>2. PICK f, j :
          /\ IsRegister(f, string) /\ Crc(string) = Xor(f[8 * Len(string)], 0 .. 31)
          /\ j \in 0 .. Len(string) /\ Len(sData) = Len(string) - j
          /\ ulCRC = f[8 * j]
  BY <1>1 DEF CrcInv, SumIsRegister
<1>3. j = Len(string) /\ Len(string) \in Nat /\ string \in Seq(1 .. 255)
  BY <1>1, <1>2 DEF CrcInv
<1>4. ulCRC \in Words
  <2>1. 8 * j \in 0 .. 8 * Len(string)
    BY <1>3
  <2>2. QED
    BY <1>2, <2>1 DEF IsRegister
<1>5. hash' = Crc(string)
  <2>1. Xor(ulCRC, 0 .. 31) \subseteq 0 .. 31
    BY <1>4 DEF Words, Xor, SymDiff
  <2>2. QED
    BY <1>1, <1>2, <1>3, <2>1
<1>6. hash' # NoHash
  BY <1>1
<1>7. HashIsCrc'
  BY <1>1, <1>5 DEF HashIsCrc
<1>8. QED
  BY <1>1, <1>6, <1>7 DEF CrcInv

(* HashIsCrc: with a kulong of 32 bits, hashString gives the CRC of any    *)
(* string, of any number of strings one after another.  Its hypotheses are *)
(* that width, and that no hash is taken for the lack of one.              *)
THEOREM HashIsCrcHolds ==
    ASSUME LongWidth = 32, NoHash \notin SUBSET (0 .. 31)
    PROVE  CrcSpec => []HashIsCrc
<1>1. CrcInit => CrcInv
  BY DEF CrcInit, CrcInv, HashIsCrc
<1>2. CrcInv /\ [CrcNext]_crcVars => CrcInv'
  <2> SUFFICES ASSUME CrcInv, [CrcNext]_crcVars
               PROVE  CrcInv'
    OBVIOUS
  <2>1. CASE UNCHANGED crcVars
    BY <2>1 DEF crcVars, CrcInv, SumIsRegister, HashIsCrc
  <2>2. QED
    BY <2>1, HashStringKeeps, PartialCRCKeeps, FullCRCKeeps DEF CrcNext
<1>3. CrcInv => HashIsCrc
  BY DEF CrcInv
<1>4. QED
  BY <1>1, <1>2, <1>3, PTL DEF CrcSpec


-----------------------------------------------------------------------------
(* The processor: CPU.                                                     *)

\* The features that are asked with leaf 1.
BasicFeatures == {"MMX", "SSE", "SSE2", "SSE3", "SSE4"}
BasicAreHonest == \A f \in BasicFeatures : f \in enabled <=> f \in has

\* Leaf 1 is complete before the extended leaf is asked.
CpuInv ==
    /\ build \in {"GCC", "MSVC"}
    /\ step \in {"vendor", "extended"} => BasicAreHonest /\ "_3DNow2" \notin enabled
    /\ FeaturesAreHonest

(* The assembler's names and the places of the array are the same registers. *)
LEMMA SameRegisters == build \in {"GCC", "MSVC"} => Edx = "edx" /\ Ecx = "ecx"
BY DEF Edx, Ecx

(* A bit of a register is set by the features that have their place there.  *)
LEMMA RegisterBits ==
    ASSUME NEW leaf, NEW register, leaf = 1 \/ "extended" \in has, NEW bits \in Cpuid(leaf, register)
    PROVE  \A b : b \in bits <=>
               \E q \in FeaturePlaces : q[1] \in has /\ q[2] = leaf /\ q[3] = register /\ q[4] = b
BY DEF Cpuid

LEMMA AskFeaturesKeeps ==
    ASSUME CpuInv, AskFeatures
    PROVE  CpuInv'
<1>1. step' = "vendor" /\ build' = build /\ has' = has /\ build \in {"GCC", "MSVC"}
  BY DEF AskFeatures, CpuInv
<1>2. PICK cpu_info \in Cpuid(1, "edx"), cpu_ssex \in Cpuid(1, "ecx") :
          enabled' = Selected(InEdx, cpu_info) \cup Selected(InEcx, cpu_ssex)
  BY <1>1, SameRegisters DEF AskFeatures
<1>3. /\ \A b : b \in cpu_info <=> \E q \in FeaturePlaces : q[1] \in has /\ q[2] = 1 /\ q[3] = "edx" /\ q[4] = b
      /\ \A b : b \in cpu_ssex <=> \E q \in FeaturePlaces : q[1] \in has /\ q[2] = 1 /\ q[3] = "ecx" /\ q[4] = b
  BY <1>2, RegisterBits
<1>4. /\ 23 \in cpu_info <=> "MMX" \in has
      /\ 25 \in cpu_info <=> "SSE" \in has
      /\ 26 \in cpu_info <=> "SSE2" \in has
      /\ 0 \in cpu_ssex <=> "SSE3" \in has
      /\ 19 \in cpu_ssex <=> "SSE4" \in has
  BY <1>3 DEF FeaturePlaces
<1>5. Selected(InEdx, cpu_info) = 
          {f \in {"MMX", "SSE", "SSE2", "_3DNow"} : InEdx[f] \in cpu_info}
  BY DEF Selected, InEdx
<1>6. Selected(InEcx, cpu_ssex) = {f \in {"SSE3", "SSE4"} : InEcx[f] \in cpu_ssex}
  BY DEF Selected, InEcx
<1>7. InEdx.MMX = 23 /\ InEdx.SSE = 25 /\ InEdx.SSE2 = 26 /\ InEcx.SSE3 = 0 /\ InEcx.SSE4 = 19
  BY DEF InEdx, InEcx
<1>8. BasicAreHonest' /\ "_3DNow2" \notin enabled'
  BY <1>1, <1>2, <1>4, <1>5, <1>6, <1>7 DEF BasicAreHonest, BasicFeatures
<1>9. QED
  BY <1>1, <1>8 DEF CpuInv, FeaturesAreHonest

LEMMA AskExtendedKeeps ==
    ASSUME CpuInv, AskExtended
    PROVE  CpuInv'
<1>1. step = "extended" /\ step' = "ready" /\ build' = build /\ has' = has /\ build \in {"GCC", "MSVC"}
  BY DEF AskExtended, CpuInv
<1>2. PICK cpu_info \in Cpuid(0, "edx") :
          enabled' = enabled \cup Selected([_3DNow2 |-> 30], cpu_info)
  BY <1>1, SameRegisters DEF AskExtended
<1>3. Selected([_3DNow2 |-> 30], cpu_info) = IF 30 \in cpu_info THEN {"_3DNow2"} ELSE {}
  BY DEF Selected
<1>4. BasicAreHonest'
  BY <1>1, <1>2, <1>3 DEF CpuInv, BasicAreHonest, BasicFeatures
<1>5. ASSUME "extended" \in has
      PROVE  "_3DNow2" \in enabled' <=> "3DNow2" \in has
  <2>1. \A b : b \in cpu_info <=> \E q \in FeaturePlaces : q[1] \in has /\ q[2] = 0 /\ q[3] = "edx" /\ q[4] = b
    BY <1>2, <1>5, RegisterBits
  <2>2. 30 \in cpu_info <=> "3DNow2" \in has
    BY <2>1 DEF FeaturePlaces
  <2>3. QED
    BY <1>1, <1>2, <1>3, <2>2 DEF CpuInv
<1>6. FeaturesAreHonest'
  BY <1>1, <1>4, <1>5 DEF FeaturesAreHonest, IsEnabled, BasicAreHonest, BasicFeatures
<1>7. QED
  BY <1>1, <1>6 DEF CpuInv

(* FeaturesAreHonest: for any processor, and for both compilers, the       *)
(* getters tell which of the features it has.                              *)
THEOREM FeaturesAreHonestHolds == CpuSpec => []FeaturesAreHonest
<1>1. CpuInit => CpuInv
  BY DEF CpuInit, CpuInv, FeaturesAreHonest
<1>2. CpuInv /\ [CpuNext]_cpuVars => CpuInv'
  <2> SUFFICES ASSUME CpuInv, [CpuNext]_cpuVars
               PROVE  CpuInv'
    OBVIOUS
  <2>1. CASE UNCHANGED cpuVars
    BY <2>1 DEF cpuVars, CpuInv, BasicAreHonest, FeaturesAreHonest, IsEnabled
  <2>2. CASE Construct
    BY <2>2 DEF Construct, CpuInv, FeaturesAreHonest
  <2>3. CASE ClearVendor
    BY <2>3 DEF ClearVendor, CpuInv, BasicAreHonest, FeaturesAreHonest
  <2>4. QED
    BY <2>1, <2>2, <2>3, AskFeaturesKeeps, AskExtendedKeeps DEF CpuNext
<1>3. CpuInv => FeaturesAreHonest
  BY DEF CpuInv
<1>4. QED
  BY <1>1, <1>2, <1>3, PTL DEF CpuSpec


-----------------------------------------------------------------------------
(* Plug-ins: PluginsManager; and errors: KoreEngine::Error.               *)

(* What is appended once is in the list once.                              *)
LEMMA AppendNew ==
    ASSUME NEW S, NEW s \in Seq(S), NEW x \in S
    PROVE  /\ Append(s, x) \in Seq(S)
           /\ ToSet(Append(s, x)) = ToSet(s) \cup {x}
           /\ IsInjective(s) /\ x \notin ToSet(s) => IsInjective(Append(s, x))
<1> DEFINE a == Append(s, x)
<1>1. /\ a \in Seq(S) /\ DOMAIN a = 1 .. Len(s) + 1 /\ DOMAIN s = 1 .. Len(s) /\ Len(s) \in Nat
      /\ a[Len(s) + 1] = x /\ \A i \in DOMAIN s : a[i] = s[i]
  OBVIOUS
<1> HIDE DEF a
<1>2. /\ \A i \in DOMAIN a : i = Len(s) + 1 \/ i \in DOMAIN s
      /\ DOMAIN s \subseteq DOMAIN a /\ Len(s) + 1 \in DOMAIN a
  BY <1>1
<1>3. ToSet(a) = ToSet(s) \cup {x}
  BY <1>1, <1>2 DEF ToSet
<1>4. ASSUME IsInjective(s), x \notin ToSet(s)
      PROVE  IsInjective(a)
  BY <1>1, <1>2, <1>4 DEF IsInjective, ToSet
<1>5. QED
  BY <1>1, <1>3, <1>4 DEF a

(* The first of a list without repetitions is not in the rest of it.       *)
LEMMA HeadAndTail ==
    ASSUME NEW S, NEW s \in Seq(S), s # <<>>, IsInjective(s)
    PROVE  /\ Head(s) \in S /\ Tail(s) \in Seq(S) /\ IsInjective(Tail(s))
           /\ Head(s) \notin ToSet(Tail(s)) /\ ToSet(Tail(s)) \subseteq ToSet(s)
<1> DEFINE t == Tail(s)
<1>1. /\ t \in Seq(S) /\ Head(s) = s[1] /\ Head(s) \in S
      /\ DOMAIN s = 1 .. Len(s) /\ Len(s) \in Nat /\ 1 \in DOMAIN s
      /\ DOMAIN t = 1 .. Len(s) - 1 /\ \A i \in DOMAIN t : t[i] = s[i + 1]
  OBVIOUS
<1> HIDE DEF t
<1>2. \A i \in DOMAIN t : i \in Int /\ i + 1 \in DOMAIN s /\ i + 1 # 1
  BY <1>1
<1>3. \A i, j \in DOMAIN t : t[i] = t[j] => i + 1 = j + 1
  BY <1>1, <1>2 DEF IsInjective
<1>4. IsInjective(t)
  BY <1>2, <1>3 DEF IsInjective
<1>5. Head(s) \notin ToSet(t) /\ ToSet(t) \subseteq ToSet(s)
  BY <1>1, <1>2 DEF IsInjective, ToSet
<1>6. QED
  BY <1>1, <1>4, <1>5 DEF t

-----------------------------------------------------------------------------
Objects == {Target(f) : f \in Files}

PluginsTyped ==
    /\ manager \in {"none", "new", "loading", "loaded", "crashed"}
    /\ loads \in Nat
    /\ files \in Seq(Files) /\ IsInjective(files)
    /\ _plugins \in Seq(Objects)
    /\ files # <<>> => manager = "loading"
    /\ manager = "none" \/ loads = 0 => _plugins = <<>>
    /\ manager = "new" => loads = 0
    /\ manager = "loading" => loads # 0

\* An entry is behind what is listed, and was visited.
Visited(object) == \E f \in Files : Target(f) = object /\ f \notin ToSet(files)

\* As long as one call loads, and no two entries lead to one plug-in.
ListedOnce ==
    loads <= 1 /\ ~ TwoLeadToOne =>
        IsInjective(_plugins) /\ \A object \in ToSet(_plugins) : Visited(object)

PluginsInv == PluginsTyped /\ ListedOnce /\ PluginsAreDeletedOnce

(* A directory in some order is a list without repetitions.                *)
LEMMA DirectoryIsList ==
    ASSUME NEW there \in SUBSET Files, NEW s \in SetToSeqs(there)
    PROVE  s \in Seq(Files) /\ IsInjective(s)
<1>1. Cardinality(there) \in Nat
  BY PluginsAssumption, FS_Subset, FS_CardinalityType
<1>2. s \in [1 .. Cardinality(there) -> Files] /\ IsInjective(s)
  BY DEF SetToSeqs, IsInjective
<1>3. QED
  BY <1>1, <1>2

(* Visiting an entry: a plug-in is listed, if it opens, and nothing else   *)
(* makes its object.                                                       *)
LEMMA LoadNextKeeps == PluginsInv /\ LoadNext => PluginsInv'
<1> SUFFICES ASSUME PluginsInv, LoadNext
             PROVE  PluginsInv'
  OBVIOUS
<1>0. PICK f : f = Head(files)
  OBVIOUS
<1>1. /\ f \in Files /\ files' \in Seq(Files) /\ IsInjective(files')
      /\ f \notin ToSet(files') /\ ToSet(files') \subseteq ToSet(files)
      /\ manager = "loading" /\ manager' = manager /\ loads' = loads
      /\ f \in ToSet(files) /\ Target(f) \in Objects
  <2>1. files # <<>> /\ files \in Seq(Files) /\ IsInjective(files) /\ files' = Tail(files)
    BY DEF PluginsInv, PluginsTyped, LoadNext
  <2>2. f \in ToSet(files)
    BY <1>0, <2>1 DEF ToSet
  <2>3. QED
    BY <1>0, <2>1, <2>2, HeadAndTail DEF PluginsInv, PluginsTyped, LoadNext, Objects
<1>2. \A object : Visited(object) => Visited(object)'
  BY <1>1 DEF Visited
<1>3. LivingPlugins = ToSet(_plugins) /\ loads # 0
  <2>1. loads # 0
    BY <1>1 DEF PluginsInv, PluginsTyped
  <2>2. QED
    BY <1>1, <2>1 DEF PluginsInv, PluginsAreDeletedOnce
<1>4. ASSUME UNCHANGED _plugins, LivingPlugins' = LivingPlugins
      PROVE  PluginsInv'
  <2>1. PluginsTyped'
    BY <1>1, <1>3, <1>4 DEF PluginsInv, PluginsTyped
  <2>2. ListedOnce'
    BY <1>1, <1>2, <1>4 DEF PluginsInv, ListedOnce, TwoLeadToOne
  <2>3. PluginsAreDeletedOnce'
    BY <1>1, <1>3, <1>4 DEF PluginsAreDeletedOnce
  <2>4. QED
    BY <2>1, <2>2, <2>3 DEF PluginsInv
<1>5. CASE UNCHANGED <<_plugins, alive>>
  BY <1>4, <1>5 DEF LivingPlugins
<1>6. CASE /\ alive' = alive \cup {Target(f)}
           /\ _plugins' = IF IsPlugin(f) THEN Append(_plugins, Target(f)) ELSE _plugins
  <2>1. CASE IsPlugin(f)
    <3>1. /\ _plugins' \in Seq(Objects)
          /\ ToSet(_plugins') = ToSet(_plugins) \cup {Target(f)}
          /\ IsInjective(_plugins) /\ Target(f) \notin ToSet(_plugins) => IsInjective(_plugins')
      BY <1>1, <1>6, <2>1, AppendNew DEF PluginsInv, PluginsTyped
    <3>2. PluginsTyped'
      BY <1>1, <1>3, <3>1 DEF PluginsInv, PluginsTyped
    <3>3. ListedOnce'
      <4>1. SUFFICES ASSUME loads <= 1, ~ TwoLeadToOne
                     PROVE  /\ IsInjective(_plugins')
                            /\ \A object \in ToSet(_plugins') : Visited(object)'
        BY <1>1 DEF ListedOnce, TwoLeadToOne
      <4>2. IsInjective(_plugins) /\ \A object \in ToSet(_plugins) : Visited(object)
        BY <4>1 DEF PluginsInv, ListedOnce
      <4>3. ~ Visited(Target(f))
        BY <1>1, <2>1, <4>1 DEF Visited, TwoLeadToOne
      <4>4. Visited(Target(f))'
        BY <1>1 DEF Visited
      <4>5. QED
        BY <1>2, <3>1, <4>2, <4>3, <4>4
    <3>4. LivingPlugins' = LivingPlugins \cup {Target(f)}
      BY <1>6, <2>1 DEF LivingPlugins, IsPlugin
    <3>5. PluginsAreDeletedOnce'
      BY <1>1, <1>3, <3>1, <3>4 DEF PluginsAreDeletedOnce
    <3>6. QED
      BY <3>2, <3>3, <3>5 DEF PluginsInv
  <2>2. CASE ~ IsPlugin(f)
    <3>1. _plugins' = _plugins /\ LivingPlugins' = LivingPlugins
      BY <1>6, <2>2 DEF LivingPlugins, IsPlugin
    <3>2. QED
      BY <1>4, <3>1
  <2>3. QED
    BY <2>1, <2>2
<1>7. QED
  BY <1>0, <1>5, <1>6 DEF LoadNext

LEMMA PluginsStep == PluginsInv /\ [PluginsNext]_pluginVars => PluginsInv'
<1> SUFFICES ASSUME PluginsInv, [PluginsNext]_pluginVars
             PROVE  PluginsInv'
  OBVIOUS
<1>1. PluginsTyped /\ ListedOnce /\ PluginsAreDeletedOnce
  BY DEF PluginsInv
<1>2. ASSUME UNCHANGED <<files, _plugins, alive>>,
             manager # "crashed", manager' # "crashed", loads' = loads \/ _plugins = <<>>
      PROVE  ListedOnce' /\ PluginsAreDeletedOnce'
  <2>1. PluginsAreDeletedOnce'
    BY <1>1, <1>2 DEF PluginsAreDeletedOnce, LivingPlugins
  <2>2. CASE loads' = loads
    BY <1>1, <1>2, <2>1, <2>2 DEF ListedOnce, Visited, TwoLeadToOne
  <2>3. CASE _plugins = <<>>
    BY <1>2, <2>1, <2>3 DEF ListedOnce, ToSet, IsInjective
  <2>4. QED
    BY <1>2, <2>2, <2>3
<1>3. CASE ConstructManager
  <2>1. ListedOnce' /\ PluginsAreDeletedOnce'
    BY <1>1, <1>2, <1>3 DEF ConstructManager, PluginsTyped
  <2>2. QED
    BY <1>1, <1>3, <2>1 DEF PluginsInv, ConstructManager, PluginsTyped
<1>4. CASE LoadPlugins
  <2>1. files' \in Seq(Files) /\ IsInjective(files')
    BY <1>4, DirectoryIsList DEF LoadPlugins
  <2>2. /\ manager # "crashed" /\ manager' = "loading" /\ loads' = loads + 1
        /\ UNCHANGED <<_plugins, alive>>
    BY <1>4 DEF LoadPlugins
  <2>3. PluginsTyped'
    BY <1>1, <2>1, <2>2 DEF PluginsTyped
  <2>4. ListedOnce'
    <3>1. loads' <= 1 => _plugins' = <<>>
      BY <1>1, <2>2 DEF PluginsTyped
    <3>2. QED
      BY <3>1 DEF ListedOnce, ToSet, IsInjective
  <2>5. PluginsAreDeletedOnce'
    BY <1>1, <2>2 DEF PluginsAreDeletedOnce, LivingPlugins
  <2>6. QED
    BY <2>3, <2>4, <2>5 DEF PluginsInv
<1>5. CASE LoadNext
  BY <1>5, LoadNextKeeps
<1>6. CASE LoadedAll
  <2>1. ListedOnce' /\ PluginsAreDeletedOnce'
    BY <1>2, <1>6 DEF LoadedAll
  <2>2. QED
    BY <1>1, <1>6, <2>1 DEF PluginsInv, LoadedAll, PluginsTyped
<1>7. CASE DestructManager
  <2>1. /\ _plugins' = <<>> /\ ToSet(_plugins') = {} /\ IsInjective(_plugins')
        /\ manager \in {"new", "loaded"} /\ UNCHANGED <<loads, files>> /\ DeleteAll(_plugins)
    BY <1>7 DEF DestructManager, ToSet, IsInjective
  <2>2. ListedOnce'
    BY <2>1 DEF ListedOnce
  <2>3. LivingPlugins = ToSet(_plugins)
    BY <1>1, <2>1 DEF PluginsAreDeletedOnce
  <2>4. CASE IsInjective(_plugins) /\ ToSet(_plugins) \subseteq alive
    <3>1. manager' = "none" /\ alive' = alive \ ToSet(_plugins)
      BY <2>1, <2>4 DEF DeleteAll
    <3>2. LivingPlugins' = {}
      BY <2>3, <3>1 DEF LivingPlugins
    <3>3. QED
      BY <1>1, <2>1, <2>2, <3>1, <3>2 DEF PluginsInv, PluginsTyped, PluginsAreDeletedOnce
  <2>5. CASE ~ IsInjective(_plugins)
    <3>1. manager' = "crashed"
      BY <2>1, <2>5 DEF DeleteAll
    <3>2. loads > 1 \/ TwoLeadToOne
      BY <1>1, <2>5 DEF ListedOnce, PluginsTyped
    <3>3. PluginsAreDeletedOnce'
      BY <2>1, <3>1, <3>2 DEF PluginsAreDeletedOnce, TwoLeadToOne
    <3>4. QED
      BY <1>1, <2>1, <2>2, <3>1, <3>3 DEF PluginsInv, PluginsTyped
  <2>6. ToSet(_plugins) \subseteq alive
    BY <2>3 DEF LivingPlugins
  <2>7. QED
    BY <2>4, <2>5, <2>6
<1>8. CASE UNCHANGED pluginVars
  BY <1>1, <1>8 DEF PluginsInv, pluginVars, PluginsTyped, ListedOnce, PluginsAreDeletedOnce,
                    Visited, LivingPlugins, TwoLeadToOne
<1>9. QED
  BY <1>3, <1>4, <1>5, <1>6, <1>7, <1>8 DEF PluginsNext

(* A plug-in that exists is listed by the manager, so that none outlives   *)
(* it; and PluginsManager deletes each that it has loaded, once, for any   *)
(* directory, links and number of calls, unless loadPlugins was called     *)
(* again or two entries lead to one plug-in.                               *)
THEOREM PluginsAreDeletedOnceAlways == PluginsSpec => []PluginsAreDeletedOnce
<1>1. PluginsInit => PluginsInv
  BY DEF PluginsInit, PluginsInv, PluginsTyped, ListedOnce, PluginsAreDeletedOnce,
         LivingPlugins, ToSet, IsInjective
<1>2. PluginsInv => PluginsAreDeletedOnce
  BY DEF PluginsInv
<1>3. QED
  BY <1>1, <1>2, PluginsStep, PTL DEF PluginsSpec
-----------------------------------------------------------------------------
(* Errors.                                                                 *)

Events == {ErrorEvent(t, n) : t \in Reporters, n \in Nat} \cup {OtherKoreEvent, OtherEvent}

\* The engine's own thread posts no errors.
ErrorsTyped ==
    /\ reported \in [Reporters -> Nat]
    /\ posted \in Seq(Events)
    /\ emitted \in Seq([error : Reporters \X Nat, on : {Main}])
    /\ PostedOf(Main) = {}

\* The first n errors of a thread are emitted, the others posted.
HeardUpTo(t, n) ==
    /\ {emitted[i].error[2] : i \in EmittedOf(t)} = 1 .. n
    /\ {posted[i].error[2] : i \in PostedOf(t)} = n + 1 .. reported[t]
    /\ \A i, j \in EmittedOf(t) : i < j => emitted[i].error[2] < emitted[j].error[2]
    /\ \A i, j \in PostedOf(t) : i < j => posted[i].error[2] < posted[j].error[2]

ErrorsInv == ErrorsTyped /\ \A t \in Reporters : \E n \in 0 .. reported[t] : HeardUpTo(t, n)

(* What the events are.                                                    *)
LEMMA EventsAreKnown ==
    /\ \A t, n : /\ IsError(ErrorEvent(t, n))
                 /\ ErrorEvent(t, n).error[1] = t /\ ErrorEvent(t, n).error[2] = n
    /\ ~ IsError(OtherKoreEvent) /\ ~ IsError(OtherEvent)
    /\ \A event \in Events : IsError(event) =>
          /\ event.error \in Reporters \X Nat
          /\ event = ErrorEvent(event.error[1], event.error[2])
<1>1. ASSUME NEW t, NEW n
      PROVE  /\ IsError(ErrorEvent(t, n)) /\ ErrorEvent(t, n).error = <<t, n>>
             /\ <<t, n>>[1] = t /\ <<t, n>>[2] = n
  <2>1. /\ ErrorEvent(t, n).type = "KoreEvent" /\ ErrorEvent(t, n).koreEventType = "Error"
        /\ ErrorEvent(t, n).error = <<t, n>>
    BY DEF ErrorEvent
  <2>2. QED
    BY <2>1 DEF IsError
<1>2. ~ IsError(OtherKoreEvent) /\ ~ IsError(OtherEvent)
  BY DEF IsError, OtherKoreEvent, OtherEvent
<1> HIDE DEF IsError, ErrorEvent, OtherKoreEvent, OtherEvent
<1>3. QED
  BY <1>1, <1>2 DEF Events

(* A list with one more behind it.                                         *)
LEMMA AppendPlaces ==
    ASSUME NEW S, NEW s \in Seq(S), NEW x \in S, NEW a, a = Append(s, x)
    PROVE  /\ a \in Seq(S) /\ Len(s) \in Nat /\ DOMAIN s = 1 .. Len(s)
           /\ DOMAIN a = DOMAIN s \cup {Len(s) + 1} /\ Len(s) + 1 \notin DOMAIN s
           /\ a[Len(s) + 1] = x /\ \A i \in DOMAIN s : a[i] = s[i] /\ i < Len(s) + 1
OBVIOUS

(* A list without its first.                                               *)
LEMMA TailPlaces ==
    ASSUME NEW S, NEW s \in Seq(S), s # <<>>, NEW a, a = Tail(s)
    PROVE  /\ a \in Seq(S) /\ Head(s) = s[1] /\ 1 \in DOMAIN s
           /\ DOMAIN s \subseteq Nat /\ DOMAIN a \subseteq Nat
           /\ \A i \in DOMAIN a : i + 1 \in DOMAIN s /\ i + 1 # 1 /\ a[i] = s[i + 1]
           /\ \A j \in DOMAIN s \ {1} : j - 1 \in DOMAIN a /\ a[j - 1] = s[j] /\ j > 1
OBVIOUS

(* One more error of a thread is emitted, behind its others.               *)
LEMMA EmitNext ==
    ASSUME ErrorsTyped, NEW t \in Reporters, NEW n \in Nat,
           {emitted[i].error[2] : i \in EmittedOf(t)} = 1 .. n,
           \A i, j \in EmittedOf(t) : i < j => emitted[i].error[2] < emitted[j].error[2],
           emitted' = Append(emitted, [error |-> <<t, n + 1>>, on |-> Main])
    PROVE  /\ emitted' \in Seq([error : Reporters \X Nat, on : {Main}])
           /\ {emitted'[i].error[2] : i \in EmittedOf(t)'} = 1 .. n + 1
           /\ \A i, j \in EmittedOf(t)' : i < j => emitted'[i].error[2] < emitted'[j].error[2]
           /\ \A u \in Reporters \ {t} : /\ EmittedOf(u)' = EmittedOf(u)
                                         /\ \A i \in EmittedOf(u) : emitted'[i] = emitted[i]
<1> DEFINE e == [error |-> <<t, n + 1>>, on |-> Main]
           last == Len(emitted) + 1
<1>1. /\ e \in [error : Reporters \X Nat, on : {Main}] /\ e.error[1] = t /\ e.error[2] = n + 1
      /\ emitted \in Seq([error : Reporters \X Nat, on : {Main}])
  BY DEF ErrorsTyped
<1>2. PICK a : a = emitted'
  OBVIOUS
<1>3. a = Append(emitted, e)
  BY <1>2
<1> HIDE DEF e
<1>4. /\ a \in Seq([error : Reporters \X Nat, on : {Main}]) /\ DOMAIN emitted \subseteq Nat
      /\ DOMAIN a = DOMAIN emitted \cup {last} /\ last \notin DOMAIN emitted /\ last \in Nat
      /\ a[last] = e /\ \A i \in DOMAIN emitted : a[i] = emitted[i] /\ i < last
  BY <1>1, <1>3, AppendPlaces
<1> HIDE DEF last
<1>5. /\ EmittedOf(t)' = EmittedOf(t) \cup {last}
      /\ \A u \in Reporters \ {t} : EmittedOf(u)' = EmittedOf(u)
  BY <1>1, <1>2, <1>4 DEF EmittedOf
<1>6. \A u : EmittedOf(u) \subseteq DOMAIN emitted
  BY DEF EmittedOf
<1>7. \A i \in EmittedOf(t) : emitted[i].error[2] \in 1 .. n /\ a[i] = emitted[i] /\ i < last
  BY <1>4, <1>6
<1>8. {a[i].error[2] : i \in EmittedOf(t) \cup {last}} = 1 .. n + 1
  <2>1. \A i \in EmittedOf(t) \cup {last} : a[i].error[2] \in 1 .. n + 1
    BY <1>1, <1>4, <1>7
  <2>2. ASSUME NEW k \in 1 .. n + 1
        PROVE  \E i \in EmittedOf(t) \cup {last} : a[i].error[2] = k
    <3>1. CASE k = n + 1
      BY <1>1, <1>4, <3>1
    <3>2. CASE k # n + 1
      <4>1. k \in 1 .. n
        BY <3>2
      <4>2. PICK i \in EmittedOf(t) : emitted[i].error[2] = k
        BY <4>1
      <4>3. QED
        BY <1>7, <4>2
    <3>3. QED
      BY <3>1, <3>2
  <2>3. QED
    BY <2>1, <2>2
<1>9. ASSUME NEW i \in EmittedOf(t) \cup {last}, NEW j \in EmittedOf(t) \cup {last}, i < j
      PROVE  a[i].error[2] < a[j].error[2]
  <2>1. CASE i \in EmittedOf(t) /\ j \in EmittedOf(t)
    BY <1>7, <1>9, <2>1
  <2>2. CASE i \in EmittedOf(t) /\ j = last
    BY <1>1, <1>4, <1>7, <2>2
  <2>3. CASE i = last
    BY <1>4, <1>6, <1>9, <2>3
  <2>4. QED
    BY <2>1, <2>2, <2>3
<1>10. QED
  BY <1>2, <1>4, <1>5, <1>6, <1>8, <1>9

(* The events move up when the first of them is delivered.                 *)
LEMMA MoveUp ==
    ASSUME ErrorsTyped, posted # <<>>, posted' = Tail(posted), NEW t \in Reporters
    PROVE  /\ posted' \in Seq(Events) /\ Head(posted) \in Events
           /\ 1 \in PostedOf(t) <=> IsError(Head(posted)) /\ Head(posted).error[1] = t
           /\ Head(posted) = posted[1]
           /\ \A j \in PostedOf(t) \ {1} : j \in Nat /\ j > 1
           /\ {posted'[i].error[2] : i \in PostedOf(t)'}
                 = {posted[j].error[2] : j \in PostedOf(t) \ {1}}
           /\ (\A i, j \in PostedOf(t) : i < j => posted[i].error[2] < posted[j].error[2]) =>
                 \A i, j \in PostedOf(t)' : i < j => posted'[i].error[2] < posted'[j].error[2]
<1>1. posted \in Seq(Events)
  BY DEF ErrorsTyped
<1>2. PICK a : a = posted'
  OBVIOUS
<1>3. /\ a \in Seq(Events) /\ Head(posted) = posted[1] /\ 1 \in DOMAIN posted
      /\ DOMAIN posted \subseteq Nat /\ DOMAIN a \subseteq Nat
      /\ \A i \in DOMAIN a : i + 1 \in DOMAIN posted /\ i + 1 # 1 /\ a[i] = posted[i + 1]
      /\ \A j \in DOMAIN posted \ {1} : j - 1 \in DOMAIN a /\ a[j - 1] = posted[j] /\ j > 1
  BY <1>1, <1>2, TailPlaces
<1>4. posted[1] \in Events
  BY <1>1, <1>3
<1>5. /\ \A i \in PostedOf(t)' : i + 1 \in PostedOf(t) \ {1} /\ a[i] = posted[i + 1] /\ i \in Nat
      /\ \A j \in PostedOf(t) \ {1} : j - 1 \in PostedOf(t)' /\ a[j - 1] = posted[j] /\ j \in Nat /\ j > 1
  BY <1>2, <1>3 DEF PostedOf
<1>6. {a[i].error[2] : i \in PostedOf(t)'} = {posted[j].error[2] : j \in PostedOf(t) \ {1}}
  BY <1>5
<1>7. ASSUME \A i, j \in PostedOf(t) : i < j => posted[i].error[2] < posted[j].error[2],
             NEW i \in PostedOf(t)', NEW j \in PostedOf(t)', i < j
      PROVE  a[i].error[2] < a[j].error[2]
  <2>1. i + 1 \in PostedOf(t) /\ j + 1 \in PostedOf(t) /\ i + 1 < j + 1
    BY <1>5, <1>7
  <2>2. QED
    BY <1>5, <1>7, <2>1
<1>8. 1 \in PostedOf(t) <=> IsError(Head(posted)) /\ Head(posted).error[1] = t
  BY <1>3 DEF PostedOf
<1>9. QED
  BY <1>2, <1>3, <1>4, <1>5, <1>6, <1>7, <1>8

(* What a step that leaves a thread alone keeps.                           *)
LEMMA SameErrors ==
    ASSUME NEW t, NEW n, HeardUpTo(t, n),
           EmittedOf(t)' = EmittedOf(t), \A i \in EmittedOf(t) : emitted'[i] = emitted[i],
           PostedOf(t)' = PostedOf(t), \A i \in PostedOf(t) : posted'[i] = posted[i],
           reported'[t] = reported[t]
    PROVE  HeardUpTo(t, n)'
<1>1. /\ {emitted'[i].error[2] : i \in EmittedOf(t)} = {emitted[i].error[2] : i \in EmittedOf(t)}
      /\ {posted'[i].error[2] : i \in PostedOf(t)} = {posted[i].error[2] : i \in PostedOf(t)}
  OBVIOUS
<1>2. QED
  BY <1>1 DEF HeardUpTo

LEMMA ErrorStep ==
    ASSUME ErrorsInv, NEW t \in Reporters, Error(t)
    PROVE  ErrorsInv'
<1> DEFINE m == reported[t] + 1
           event == ErrorEvent(t, m)
<1>1. /\ reported \in [Reporters -> Nat] /\ m \in Nat /\ m - 1 \in Nat
      /\ reported' \in [Reporters -> Nat] /\ reported'[t] = m
      /\ \A u \in Reporters \ {t} : reported'[u] = reported[u]
  BY DEF ErrorsInv, ErrorsTyped, Error
<1>2. /\ event \in Events /\ IsError(event) /\ event.error[1] = t /\ event.error[2] = m
      /\ event.error = <<t, m>>
  <2>1. event \in Events
    BY <1>1 DEF Events
  <2>2. event.error = <<t, m>>
    BY DEF ErrorEvent
  <2>3. IsError(event) /\ event.error[1] = t /\ event.error[2] = m
    BY EventsAreKnown
  <2>4. QED
    BY <2>1, <2>2, <2>3
<1>3. PICK n \in 0 .. reported[t] : HeardUpTo(t, n)
  BY DEF ErrorsInv
<1>4. CASE t = Main
  <2>1. UNCHANGED posted /\ emitted' = Append(emitted, [error |-> <<t, m>>, on |-> Main])
    BY <1>2, <1>4 DEF Error, OnEngineThread, CustomEvent
  <2>2. n + 1 = m
    <3>1. {posted[i].error[2] : i \in PostedOf(t)} = {}
      BY <1>4 DEF ErrorsInv, ErrorsTyped
    <3>2. n + 1 .. reported[t] = {}
      BY <1>3, <3>1 DEF HeardUpTo
    <3>3. QED
      BY <1>1, <1>3, <3>2
  <2>3. n \in Nat /\ emitted' = Append(emitted, [error |-> <<t, n + 1>>, on |-> Main])
    BY <1>1, <1>3, <2>1, <2>2
  <2>4. /\ emitted' \in Seq([error : Reporters \X Nat, on : {Main}])
        /\ {emitted'[i].error[2] : i \in EmittedOf(t)'} = 1 .. n + 1
        /\ \A i, j \in EmittedOf(t)' : i < j => emitted'[i].error[2] < emitted'[j].error[2]
        /\ \A u \in Reporters \ {t} : /\ EmittedOf(u)' = EmittedOf(u)
                                      /\ \A i \in EmittedOf(u) : emitted'[i] = emitted[i]
    BY <1>3, <2>3, EmitNext DEF ErrorsInv, HeardUpTo
  <2>5. PostedOf(t)' = {} /\ \A u : PostedOf(u)' = PostedOf(u)
    BY <1>4, <2>1 DEF ErrorsInv, ErrorsTyped, PostedOf
  <2>6. HeardUpTo(t, n + 1)'
    <3>1. n + 1 + 1 .. reported'[t] = {}
      BY <1>1, <1>3, <2>2
    <3>2. {posted'[i].error[2] : i \in PostedOf(t)'} = {}
      BY <2>5
    <3>3. QED
      BY <2>4, <2>5, <3>1, <3>2 DEF HeardUpTo
  <2>7. ASSUME NEW u \in Reporters \ {t}
        PROVE  \E k \in 0 .. reported'[u] : HeardUpTo(u, k)'
    <3>1. PICK k \in 0 .. reported[u] : HeardUpTo(u, k)
      BY DEF ErrorsInv
    <3>2. HeardUpTo(u, k)'
      BY <1>1, <2>1, <2>4, <2>5, <3>1, SameErrors
    <3>3. QED
      BY <1>1, <3>1, <3>2
  <2>8. ErrorsTyped'
    BY <1>1, <1>4, <2>1, <2>4, <2>5 DEF ErrorsInv, ErrorsTyped
  <2>9. n + 1 \in 0 .. reported'[t]
    BY <1>1, <1>3, <2>2
  <2>10. QED
    BY <2>6, <2>7, <2>8, <2>9 DEF ErrorsInv
<1>5. CASE t # Main
  <2>1. UNCHANGED emitted /\ posted' = Append(posted, event)
    BY <1>5 DEF Error, OnEngineThread
  <2>2. PICK a : a = posted'
    OBVIOUS
  <2> DEFINE last == Len(posted) + 1
  <2> HIDE DEF event
  <2>3. /\ a \in Seq(Events) /\ DOMAIN posted \subseteq Nat
        /\ DOMAIN a = DOMAIN posted \cup {last} /\ last \notin DOMAIN posted /\ last \in Nat
        /\ a[last] = event /\ \A i \in DOMAIN posted : a[i] = posted[i] /\ i < last
    <3>1. posted \in Seq(Events) /\ a = Append(posted, event)
      BY <2>1, <2>2 DEF ErrorsInv, ErrorsTyped
    <3>2. QED
      BY <1>2, <3>1, AppendPlaces
  <2> HIDE DEF last, m
  <2>4. /\ PostedOf(t)' = PostedOf(t) \cup {last}
        /\ \A u : u # t => PostedOf(u)' = PostedOf(u)
        /\ \A u : EmittedOf(u)' = EmittedOf(u)
    BY <1>2, <2>1, <2>2, <2>3 DEF PostedOf, EmittedOf
  <2>5. \A u : PostedOf(u) \subseteq DOMAIN posted
    BY DEF PostedOf
  <2>6. /\ {posted[i].error[2] : i \in PostedOf(t)} = n + 1 .. m - 1
        /\ \A i, j \in PostedOf(t) : i < j => posted[i].error[2] < posted[j].error[2]
    <3>1. reported[t] = m - 1
      BY <1>1 DEF m
    <3>2. QED
      BY <1>3, <3>1 DEF HeardUpTo
  <2>7. \A i \in PostedOf(t) : posted[i].error[2] \in n + 1 .. m - 1 /\ a[i] = posted[i] /\ i < last
    BY <2>3, <2>5, <2>6
  <2>8. {a[i].error[2] : i \in PostedOf(t) \cup {last}} = n + 1 .. m
    <3>1. \A i \in PostedOf(t) \cup {last} : a[i].error[2] \in n + 1 .. m
      BY <1>1, <1>2, <1>3, <2>3, <2>7 DEF m
    <3>2. ASSUME NEW k \in n + 1 .. m
          PROVE  \E i \in PostedOf(t) \cup {last} : a[i].error[2] = k
      <4>1. CASE k = m
        BY <1>2, <2>3, <4>1
      <4>2. CASE k # m
        <5>1. k \in n + 1 .. m - 1
          BY <1>1, <4>2
        <5>2. PICK i \in PostedOf(t) : posted[i].error[2] = k
          BY <2>6, <5>1
        <5>3. QED
          BY <2>7, <5>2
      <4>3. QED
        BY <4>1, <4>2
    <3>3. QED
      BY <3>1, <3>2
  <2>9. ASSUME NEW i \in PostedOf(t) \cup {last}, NEW j \in PostedOf(t) \cup {last}, i < j
        PROVE  a[i].error[2] < a[j].error[2]
    <3>1. CASE i \in PostedOf(t) /\ j \in PostedOf(t)
      BY <2>6, <2>7, <2>9, <3>1
    <3>2. CASE i \in PostedOf(t) /\ j = last
      <4>1. a[i].error[2] \in n + 1 .. m - 1 /\ a[j].error[2] = m
        BY <1>2, <2>3, <2>7, <3>2
      <4>2. QED
        BY <1>1, <1>3, <4>1
    <3>3. CASE i = last
      BY <2>3, <2>5, <2>9, <3>3
    <3>4. QED
      BY <3>1, <3>2, <3>3
  <2>10. HeardUpTo(t, n)' /\ n \in 0 .. reported'[t]
    <3>1. /\ {a[i].error[2] : i \in PostedOf(t)'} = n + 1 .. reported'[t]
          /\ \A i, j \in PostedOf(t)' : i < j => a[i].error[2] < a[j].error[2]
      BY <1>1, <2>4, <2>8, <2>9
    <3>2. /\ {emitted'[i].error[2] : i \in EmittedOf(t)'} = 1 .. n
          /\ \A i, j \in EmittedOf(t)' : i < j => emitted'[i].error[2] < emitted'[j].error[2]
      BY <1>3, <2>1, <2>4 DEF HeardUpTo
    <3>3. QED
      BY <1>1, <1>3, <2>2, <3>1, <3>2 DEF HeardUpTo, m
  <2>11. ASSUME NEW u \in Reporters \ {t}
         PROVE  \E k \in 0 .. reported'[u] : HeardUpTo(u, k)'
    <3>1. PICK k \in 0 .. reported[u] : HeardUpTo(u, k)
      BY DEF ErrorsInv
    <3>2. \A i \in PostedOf(u) : posted'[i] = posted[i]
      BY <2>2, <2>3, <2>5
    <3>3. HeardUpTo(u, k)'
      BY <1>1, <2>1, <2>4, <3>1, <3>2, SameErrors
    <3>4. QED
      BY <1>1, <3>1, <3>3
  <2>12. ErrorsTyped'
    BY <1>1, <1>5, <2>1, <2>2, <2>3, <2>4 DEF ErrorsInv, ErrorsTyped
  <2>13. QED
    BY <2>10, <2>11, <2>12 DEF ErrorsInv
<1>6. QED
  BY <1>4, <1>5

LEMMA DeliverStep ==
    ASSUME ErrorsInv, Deliver
    PROVE  ErrorsInv'
<1> DEFINE head == Head(posted)
<1>1. ErrorsTyped /\ posted # <<>> /\ posted' = Tail(posted) /\ reported' = reported
  BY DEF ErrorsInv, Deliver
<1>2. /\ posted' \in Seq(Events) /\ head \in Events /\ head = posted[1]
      /\ \A t \in Reporters :
            /\ 1 \in PostedOf(t) <=> IsError(head) /\ head.error[1] = t
            /\ \A j \in PostedOf(t) \ {1} : j \in Nat /\ j > 1
            /\ {posted'[i].error[2] : i \in PostedOf(t)'}
                  = {posted[j].error[2] : j \in PostedOf(t) \ {1}}
            /\ (\A i, j \in PostedOf(t) : i < j => posted[i].error[2] < posted[j].error[2]) =>
                  \A i, j \in PostedOf(t)' : i < j => posted'[i].error[2] < posted'[j].error[2]
  BY <1>1, MoveUp, ErrorsAssumption
<1>3. PostedOf(Main)' = {}
  <2>1. posted \in Seq(Events) /\ PostedOf(Main) = {}
    BY <1>1 DEF ErrorsTyped
  <2>2. \A i \in DOMAIN posted' : i + 1 \in DOMAIN posted /\ posted'[i] = posted[i + 1]
    <3>1. PICK a : a = posted'
      OBVIOUS
    <3>2. a = Tail(posted)
      BY <1>1, <3>1
    <3>3. QED
      BY <1>1, <2>1, <3>1, <3>2, TailPlaces
  <2>3. QED
    BY <2>1, <2>2 DEF PostedOf
<1> HIDE DEF head
<1>4. ASSUME NEW t \in Reporters, 1 \notin PostedOf(t), EmittedOf(t)' = EmittedOf(t),
             \A i \in EmittedOf(t) : emitted'[i] = emitted[i]
      PROVE  \E n \in 0 .. reported'[t] : HeardUpTo(t, n)'
  <2>1. PICK n \in 0 .. reported[t] : HeardUpTo(t, n)
    BY DEF ErrorsInv
  <2>2. PostedOf(t) \ {1} = PostedOf(t)
    BY <1>4
  <2>3. {emitted'[i].error[2] : i \in EmittedOf(t)} = {emitted[i].error[2] : i \in EmittedOf(t)}
    BY <1>4
  <2>4. /\ {posted'[i].error[2] : i \in PostedOf(t)'} = {posted[j].error[2] : j \in PostedOf(t)}
        /\ (\A i, j \in PostedOf(t) : i < j => posted[i].error[2] < posted[j].error[2]) =>
              \A i, j \in PostedOf(t)' : i < j => posted'[i].error[2] < posted'[j].error[2]
    BY <1>2, <2>2
  <2>5. /\ {emitted'[i].error[2] : i \in EmittedOf(t)'} = 1 .. n
        /\ \A i, j \in EmittedOf(t)' : i < j => emitted'[i].error[2] < emitted'[j].error[2]
    BY <1>4, <2>1, <2>3 DEF HeardUpTo
  <2>6. HeardUpTo(t, n)'
    BY <1>1, <2>1, <2>4, <2>5 DEF HeardUpTo
  <2>7. QED
    BY <1>1, <2>1, <2>6
<1>5. CASE ~ IsError(head)
  <2>1. UNCHANGED emitted
    BY <1>5 DEF Deliver, CustomEvent, head
  <2>2. \A t \in Reporters : 1 \notin PostedOf(t) /\ EmittedOf(t)' = EmittedOf(t)
    BY <1>2, <1>5, <2>1 DEF EmittedOf
  <2>3. \A t \in Reporters : \E n \in 0 .. reported'[t] : HeardUpTo(t, n)'
    BY <1>4, <2>1, <2>2
  <2>4. QED
    BY <1>1, <1>2, <1>3, <2>1, <2>3 DEF ErrorsInv, ErrorsTyped
<1>6. CASE IsError(head)
  <2>1. PICK t \in Reporters, m \in Nat :
            /\ head.error = <<t, m>> /\ head.error[1] = t /\ head.error[2] = m
            /\ emitted' = Append(emitted, [error |-> <<t, m>>, on |-> Main])
    <3>1. head.error \in Reporters \X Nat
      BY <1>2, <1>6, EventsAreKnown
    <3>2. emitted' = Append(emitted, [error |-> head.error, on |-> Main])
      BY <1>6 DEF Deliver, CustomEvent, head
    <3>3. QED
      BY <3>1, <3>2
  <2>2. 1 \in PostedOf(t) /\ \A u \in Reporters \ {t} : 1 \notin PostedOf(u)
    BY <1>2, <1>6, <2>1
  <2>3. PICK n \in 0 .. reported[t] : HeardUpTo(t, n)
    BY <2>1 DEF ErrorsInv
  <2>4. /\ \A j \in PostedOf(t) : posted[j].error[2] \in n + 1 .. reported[t]
        /\ \A k \in n + 1 .. reported[t] : \E j \in PostedOf(t) : posted[j].error[2] = k
        /\ \A i, j \in PostedOf(t) : i < j => posted[i].error[2] < posted[j].error[2]
    BY <2>3 DEF HeardUpTo
  <2>5. reported[t] \in Nat /\ n \in Nat
    BY <1>1, <2>1, <2>3 DEF ErrorsTyped
  <2>6. \A j \in PostedOf(t) \ {1} : posted[1].error[2] < posted[j].error[2]
    BY <1>2, <2>1, <2>2, <2>4
  <2>7. head.error[2] = n + 1 /\ n + 1 \in 0 .. reported[t]
    <3>1. posted[1].error[2] \in n + 1 .. reported[t]
      BY <2>2, <2>4
    <3>2. n + 1 \in n + 1 .. reported[t]
      BY <2>5, <3>1
    <3>3. PICK j \in PostedOf(t) : posted[j].error[2] = n + 1
      BY <2>4, <3>2
    <3>4. j = 1
      BY <2>5, <2>6, <3>1, <3>3
    <3>5. QED
      BY <1>2, <2>5, <3>1, <3>3, <3>4
  <2>8. {posted[j].error[2] : j \in PostedOf(t) \ {1}} = n + 1 + 1 .. reported[t]
    <3>1. \A j \in PostedOf(t) \ {1} : posted[j].error[2] \in n + 1 + 1 .. reported[t]
      BY <1>2, <2>4, <2>5, <2>6, <2>7
    <3>2. ASSUME NEW k \in n + 1 + 1 .. reported[t]
          PROVE  \E j \in PostedOf(t) \ {1} : posted[j].error[2] = k
      <4>1. PICK j \in PostedOf(t) : posted[j].error[2] = k
        BY <2>4, <2>5
      <4>2. j # 1
        BY <1>2, <2>5, <2>7, <4>1
      <4>3. QED
        BY <4>1, <4>2
    <3>3. QED
      BY <3>1, <3>2
  <2>9. /\ emitted' \in Seq([error : Reporters \X Nat, on : {Main}])
        /\ {emitted'[i].error[2] : i \in EmittedOf(t)'} = 1 .. n + 1
        /\ \A i, j \in EmittedOf(t)' : i < j => emitted'[i].error[2] < emitted'[j].error[2]
        /\ \A u \in Reporters \ {t} : /\ EmittedOf(u)' = EmittedOf(u)
                                      /\ \A i \in EmittedOf(u) : emitted'[i] = emitted[i]
    <3>1. emitted' = Append(emitted, [error |-> <<t, n + 1>>, on |-> Main])
      BY <2>1, <2>7
    <3>2. /\ {emitted[i].error[2] : i \in EmittedOf(t)} = 1 .. n
          /\ \A i, j \in EmittedOf(t) : i < j => emitted[i].error[2] < emitted[j].error[2]
      BY <2>3 DEF HeardUpTo
    <3>3. QED
      BY <1>1, <2>1, <2>5, <3>1, <3>2, EmitNext
  <2>10. HeardUpTo(t, n + 1)'
    <3>1. /\ {posted'[i].error[2] : i \in PostedOf(t)'} = n + 1 + 1 .. reported'[t]
          /\ \A i, j \in PostedOf(t)' : i < j => posted'[i].error[2] < posted'[j].error[2]
      BY <1>1, <1>2, <2>4, <2>8
    <3>2. QED
      BY <2>9, <3>1 DEF HeardUpTo
  <2>11. \A u \in Reporters : \E k \in 0 .. reported'[u] : HeardUpTo(u, k)'
    <3>1. \A u \in Reporters \ {t} : \E k \in 0 .. reported'[u] : HeardUpTo(u, k)'
      BY <1>4, <2>2, <2>9
    <3>2. \E k \in 0 .. reported'[t] : HeardUpTo(t, k)'
      BY <1>1, <2>7, <2>10
    <3>3. QED
      BY <3>1, <3>2
  <2>12. QED
    BY <1>1, <1>2, <1>3, <2>9, <2>11 DEF ErrorsInv, ErrorsTyped
<1>7. QED
  BY <1>5, <1>6

LEMMA PostOtherStep ==
    ASSUME ErrorsInv, PostOther
    PROVE  ErrorsInv'
<1>1. PICK event \in {OtherKoreEvent, OtherEvent} : posted' = Append(posted, event)
  BY DEF PostOther
<1>2. UNCHANGED <<reported, emitted>> /\ posted \in Seq(Events)
  BY DEF PostOther, ErrorsInv, ErrorsTyped
<1>3. event \in Events /\ ~ IsError(event)
  BY EventsAreKnown DEF Events
<1>4. PICK a : a = posted'
  OBVIOUS
<1> DEFINE last == Len(posted) + 1
<1>5. /\ a \in Seq(Events) /\ DOMAIN a = DOMAIN posted \cup {last} /\ last \notin DOMAIN posted
      /\ a[last] = event /\ \A i \in DOMAIN posted : a[i] = posted[i]
  <2>1. a = Append(posted, event)
    BY <1>1, <1>4
  <2>2. QED
    BY <1>2, <1>3, <2>1, AppendPlaces
<1> HIDE DEF last
<1>6. \A t : PostedOf(t)' = PostedOf(t) /\ \A i \in PostedOf(t) : posted'[i] = posted[i]
  BY <1>3, <1>4, <1>5 DEF PostedOf
<1>7. \A t : EmittedOf(t)' = EmittedOf(t)
  BY <1>2 DEF EmittedOf
<1>8. ASSUME NEW t \in Reporters
      PROVE  \E n \in 0 .. reported'[t] : HeardUpTo(t, n)'
  <2>1. PICK n \in 0 .. reported[t] : HeardUpTo(t, n)
    BY DEF ErrorsInv
  <2>2. HeardUpTo(t, n)'
    BY <1>2, <1>6, <1>7, <2>1, SameErrors
  <2>3. QED
    BY <1>2, <2>1, <2>2
<1>9. QED
  BY <1>2, <1>4, <1>5, <1>6, <1>8 DEF ErrorsInv, ErrorsTyped

LEMMA ItemsOfSeq ==
    ASSUME NEW S, NEW s \in Seq(S)
    PROVE  \A i \in DOMAIN s : s[i] \in S
OBVIOUS

(* Every error of any number of threads is heard once, in the order of its *)
(* thread, and on the engine's: inductively, the first n errors of each    *)
(* thread are emitted and the others posted, none of them by the engine's  *)
(* own thread.                                                             *)
THEOREM ErrorsAreHeardAlways == ErrorsSpec => []ErrorsAreHeard
<1>1. ErrorsInit => ErrorsInv
  <2> SUFFICES ASSUME ErrorsInit
               PROVE  ErrorsInv
    OBVIOUS
  <2>1. \A t : EmittedOf(t) = {} /\ PostedOf(t) = {}
    BY DEF ErrorsInit, EmittedOf, PostedOf
  <2>2. ErrorsTyped
    BY <2>1 DEF ErrorsInit, ErrorsTyped
  <2>3. ASSUME NEW t \in Reporters
        PROVE  HeardUpTo(t, 0) /\ 0 \in 0 .. reported[t]
    <3>1. /\ {emitted[i].error[2] : i \in EmittedOf(t)} = {}
          /\ {posted[i].error[2] : i \in PostedOf(t)} = {}
      BY <2>1
    <3>2. reported[t] = 0 /\ 1 .. 0 = {} /\ 0 + 1 .. 0 = {}
      BY DEF ErrorsInit
    <3>3. QED
      BY <2>1, <3>1, <3>2 DEF HeardUpTo
  <2>4. QED
    BY <2>2, <2>3 DEF ErrorsInv
<1>2. ErrorsInv /\ [ErrorsNext]_errorVars => ErrorsInv'
  <2> SUFFICES ASSUME ErrorsInv, [ErrorsNext]_errorVars
               PROVE  ErrorsInv'
    OBVIOUS
  <2>1. CASE UNCHANGED errorVars
    <3>1. \A t : EmittedOf(t)' = EmittedOf(t) /\ PostedOf(t)' = PostedOf(t)
      BY <2>1 DEF errorVars, EmittedOf, PostedOf
    <3>2. reported' = reported /\ posted' = posted /\ emitted' = emitted
      BY <2>1 DEF errorVars
    <3>3. ErrorsTyped'
      BY <3>1, <3>2 DEF ErrorsInv, ErrorsTyped
    <3>4. \A t, n : HeardUpTo(t, n) => HeardUpTo(t, n)'
      BY <3>1, <3>2 DEF HeardUpTo
    <3>5. QED
      BY <3>2, <3>3, <3>4 DEF ErrorsInv
  <2>2. QED
    BY <2>1, ErrorStep, DeliverStep, PostOtherStep DEF ErrorsNext
<1>3. ErrorsInv => ErrorsAreHeard
  <2> SUFFICES ASSUME ErrorsInv
               PROVE  ErrorsAreHeard
    OBVIOUS
  <2>1. \A i \in DOMAIN emitted : emitted[i].on = Main
    <3>1. emitted \in Seq([error : Reporters \X Nat, on : {Main}])
      BY DEF ErrorsInv, ErrorsTyped
    <3>2. \A i \in DOMAIN emitted : emitted[i] \in [error : Reporters \X Nat, on : {Main}]
      BY <3>1, ItemsOfSeq
    <3>3. QED
      BY <3>2
  <2>2. QED
    BY <2>1 DEF ErrorsInv, ErrorsAreHeard, HeardUpTo
<1>4. QED
  BY <1>1, <1>2, <1>3, PTL DEF ErrorsSpec
=============================================================================
