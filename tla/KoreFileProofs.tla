--------------------------- MODULE KoreFileProofs ---------------------------
(***************************************************************************)
(* The header of a file reads as it was meant on every host, and what      *)
(* inflate makes of the records is right.                                  *)
(*                                                                         *)
(* First the header: its words survive whatever the two byte orders are;   *)
(* and a file that is cut within its header has no records, from which     *)
(* inflate never returns Success.                                          *)
(*                                                                         *)
(* Then the records.  deflate leaves those of a tree in an order in which  *)
(* a parent comes before its children, a child before its later siblings,  *)
(* and what is below a block before anything that is not (Ordered).  A     *)
(* block is loaded when its record is, and added to the block that called  *)
(* for it.  As long as nothing fails, as many records are due as are       *)
(* awaited; and unless one of those is missing, the next record is         *)
(* the one that is due (InStep).  So if inflate ends well nothing is       *)
(* awaited, nothing is missing, and each block is in its place.            *)
(***************************************************************************)
EXTENDS KoreFile, FiniteSetTheorems, WellFoundedInduction, SequenceTheorems, RecursionLemmas, TLAPS

-----------------------------------------------------------------------------
(* The words.                                                              *)

Numbers == {"0", "1", "2", "8", "12", "KORE", "PROF"}

\* Zero is the same either way around.
Words == {w \in [number : Numbers, swapped : BOOLEAN] : w.number = "0" => w = Zero}

LEMMA WordsAreWords ==
    /\ \A n \in Numbers : Word(n) \in Words
    /\ Zero \in Words
    /\ \A w \in Words : Swap(w) \in Words /\ Swap(Swap(w)) = w
<1>1. (\A n \in Numbers : Word(n) \in Words) /\ Zero \in Words
  <2>1. \A n \in Numbers : Word(n) \in [number : Numbers, swapped : BOOLEAN]
    BY DEF Word
  <2>2. \A n \in Numbers : Word(n).number = n /\ (n = "0" => Word(n) = Zero)
    BY DEF Word, Zero
  <2>3. "0" \in Numbers
    BY DEF Numbers
  <2>4. QED
    BY <2>1, <2>2, <2>3 DEF Words, Zero
<1>2. ASSUME NEW w \in Words
      PROVE  Swap(w) \in Words /\ Swap(Swap(w)) = w
  <2>1. CASE w = Zero
    BY <1>1, <2>1 DEF Swap
  <2>2. CASE w # Zero
    <3>1. /\ w \in [number : Numbers, swapped : BOOLEAN] /\ w.number # "0"
          /\ Swap(w) = [w EXCEPT !.swapped = ~ @]
      BY <2>2 DEF Words, Swap
    <3>2. /\ Swap(w) \in [number : Numbers, swapped : BOOLEAN] /\ Swap(w).number = w.number
          /\ Swap(w).swapped = ~ w.swapped
      BY <3>1
    <3>3. Swap(w) # Zero
      BY <3>1, <3>2 DEF Zero, Word
    <3>4. Swap(Swap(w)) = [Swap(w) EXCEPT !.swapped = ~ @]
      BY <3>3 DEF Swap
    <3>5. [Swap(w) EXCEPT !.swapped = ~ @] = w
      BY <3>1, <3>2
    <3>6. QED
      BY <3>1, <3>2, <3>4, <3>5 DEF Words
  <2>3. QED
    BY <2>1, <2>2
<1>3. QED
  BY <1>1, <1>2

(* A word that one host swaps, if it is big-endian, and writes, and        *)
(* another reads and swaps, if it is big-endian, is the word it was.       *)
LEMMA WordsSurvive ==
    ASSUME NEW host \in Hosts, NEW reader \in Hosts, NEW w \in Words
    PROVE  LittleEndian(reader, Read(host, reader, LittleEndian(host, w))) = w
BY WordsAreWords DEF Hosts, LittleEndian, Read

(* A header of which nothing is lost is what was given to the Dumper, with *)
(* the size of the meta data.                                              *)
LEMMA HeadersSurvive ==
    ASSUME NEW host \in Hosts, NEW reader \in Hosts, NEW h \in [1 .. 6 -> Words]
    PROVE  Loaded(host, reader, h, 6) = WithMetaData(h)
<1>1. WithMetaData(h) \in [1 .. 6 -> Words] /\ DOMAIN h = 1 .. 6
  <2>1. Word("8") \in Words
    BY WordsAreWords DEF Numbers
  <2>2. QED
    BY <2>1 DEF WithMetaData
<1>2. \A i \in 1 .. 6 : FinalHeader(host, h)[i] = LittleEndian(host, WithMetaData(h)[i])
  BY <1>1 DEF FinalHeader
<1>3. \A i \in 1 .. 6 :
          Loaded(host, reader, h, 6)[i]
              = LittleEndian(reader, Read(host, reader, LittleEndian(host, WithMetaData(h)[i])))
  BY <1>1, <1>2 DEF Loaded
<1>4. \A i \in 1 .. 6 : Loaded(host, reader, h, 6)[i] = WithMetaData(h)[i]
  BY <1>1, <1>3, WordsSurvive
<1>5. Loaded(host, reader, h, 6) = [i \in 1 .. 6 |-> Loaded(host, reader, h, 6)[i]]
  BY <1>1 DEF Loaded
<1>6. QED
  BY <1>1, <1>4, <1>5

(* The headers that hosts give.                                            *)
LEMMA GivenHeaders ==
    ASSUME NEW host \in Hosts, NEW h \in {DefaultHeader(host), OwnHeader, OtherVersion}
    PROVE  /\ h \in [1 .. 6 -> Words]
           /\ Accepts(WithMetaData(h))
                 <=> h # OtherVersion /\ ~ (host = "big" /\ h = DefaultHeader(host))
           /\ Accepts(WithMetaData(h)) =>
                 WithMetaData(h) = WithMetaData([i \in DOMAIN h |-> Word(h[i].number)])
<1> DEFINE Native == <<Word("KORE"), Word("1"), Word("12"), Zero, Zero, Zero>>
           Swapped == <<Swap(Word("KORE")), Swap(Word("1")), Swap(Word("12")), Zero, Zero, Zero>>
           Number(g) == [i \in DOMAIN g |-> Word(g[i].number)]
<1>1. /\ Word("KORE") \in Words /\ Word("1") \in Words /\ Word("12") \in Words
      /\ Word("PROF") \in Words /\ Word("2") \in Words /\ Zero \in Words
      /\ \A w \in Words : Swap(w) \in Words
  BY WordsAreWords DEF Numbers
<1>2. /\ Swap(Zero) = Zero /\ Swap(Word("KORE")) # Word("KORE") /\ Word("1") # Word("2")
      /\ \A n \in Numbers : Word(n).number = n /\ Word(Word(n).number) = Word(n)
      /\ Zero = Word("0") /\ {"0", "1", "12", "2", "KORE", "PROF"} \subseteq Numbers
  BY DEF Swap, Zero, Word, Numbers
<1>3. DefaultHeader(host) = IF host = "big" THEN Swapped ELSE Native
  BY DEF DefaultHeader, LittleEndian, Hosts
<1>4. /\ Native \in [1 .. 6 -> Words] /\ Swapped \in [1 .. 6 -> Words]
      /\ OwnHeader \in [1 .. 6 -> Words] /\ OtherVersion \in [1 .. 6 -> Words]
  BY <1>1 DEF OwnHeader, OtherVersion
<1>5. /\ Native[1] = Word("KORE") /\ Native[2] = Word("1")
      /\ OwnHeader[1] = Word("KORE") /\ OwnHeader[2] = Word("1")
      /\ OtherVersion[2] = Word("2") /\ Swapped[1] = Swap(Word("KORE"))
  BY DEF OwnHeader, OtherVersion
<1>6. \A g \in [1 .. 6 -> Words] : WithMetaData(g)[1] = g[1] /\ WithMetaData(g)[2] = g[2]
  BY DEF WithMetaData
<1>7. Number(Native) = Native /\ Number(OwnHeader) = OwnHeader
  <2>1. /\ DOMAIN Native = 1 .. 6 /\ DOMAIN OwnHeader = 1 .. 6
        /\ \A i \in 1 .. 6 : \E n \in Numbers : Native[i] = Word(n)
        /\ \A i \in 1 .. 6 : \E n \in Numbers : OwnHeader[i] = Word(n)
    BY <1>2 DEF OwnHeader
  <2>2. /\ \A i \in 1 .. 6 : Word(Native[i].number) = Native[i]
        /\ \A i \in 1 .. 6 : Word(OwnHeader[i].number) = OwnHeader[i]
    BY <1>2, <2>1
  <2>3. QED
    BY <1>4, <2>1, <2>2
<1>8. /\ Accepts(WithMetaData(Native)) /\ Accepts(WithMetaData(OwnHeader))
      /\ ~ Accepts(WithMetaData(Swapped)) /\ ~ Accepts(WithMetaData(OtherVersion))
  BY <1>2, <1>4, <1>5, <1>6 DEF Accepts, IsValid, Inflater
<1>9. /\ Native # OtherVersion /\ OwnHeader # OtherVersion /\ OwnHeader # Swapped
  BY <1>2, <1>5
<1> HIDE DEF Native, Swapped, Number
<1>10. QED
  BY <1>3, <1>4, <1>7, <1>8, <1>9 DEF Number

-----------------------------------------------------------------------------
(* The file.                                                               *)

Opened == phase \in {"load", "done", "crashed"}

\* Where the header comes from: of a file that is cut within it nothing else is left.
HeaderIsLoaded ==
    /\ Opened => /\ Accepts(header)
                 /\ \E reader \in Hosts, n \in 0 .. 6 :
                      /\ header = Loaded(writer, reader, given, n)
                      /\ n < 6 => device = <<>>
    /\ phase = "refused" => /\ ~ Accepts(header)
                            /\ \E reader \in Hosts, n \in 0 .. 6 :
                                 /\ header = Loaded(writer, reader, given, n)
                                 /\ whole = (n = 6)

\* From a device without records, inflate returns from its first call, without success.
NothingToInflate ==
    Opened /\ device = <<>> =>
        \/ phase = "load" /\ stack = <<Call(NoBlock)>> /\ returned = Nothing
        \/ stack = <<>> /\ returned.result \in {"Failed", "Canceled"}

FileInv ==
    /\ writer \in Hosts /\ given \in {DefaultHeader(writer), OwnHeader, OtherVersion}
    /\ position \in Nat
    /\ HeaderIsLoaded /\ NothingToInflate

LEMMA LoadingStep ==
    ASSUME FileInv, Inflate \/ Finish, UNCHANGED fileVars
    PROVE  FileInv'
<1>1. /\ phase = "load" /\ phase' \in {"load", "crashed", "done"}
      /\ UNCHANGED <<device, writer, given, header>>
  BY DEF Inflate, InflateCanceled, InflateUnknown, InflateBlock, InflateChild, ChildFailed,
     ChildDone, InflateDone, Finish, Loading, fileVars
<1>2. HeaderIsLoaded'
  BY <1>1 DEF FileInv, HeaderIsLoaded, Opened
<1>3. position' \in Nat
  BY DEF FileInv, Inflate, InflateCanceled, InflateUnknown, InflateBlock, InflateChild, ChildFailed,
     ChildDone, InflateDone, Finish, ReadOne
<1>4. ASSUME device = <<>>
      PROVE  NothingToInflate'
  <2>1. ~ More
    <3>1. Len(device) = 0
      BY <1>4
    <3>2. QED
      BY <3>1 DEF More, FileInv
  <2>2. \/ stack = <<Call(NoBlock)>> /\ returned = Nothing
        \/ stack = <<>> /\ returned.result \in {"Failed", "Canceled"}
    BY <1>1, <1>4 DEF FileInv, NothingToInflate, Opened
  <2>3. CASE stack = <<>>
    <3>1. Finish
      BY <2>3 DEF Inflate, InflateCanceled, InflateUnknown, InflateBlock, InflateChild, ChildFailed,
         ChildDone, InflateDone, At
    <3>2. QED
      BY <2>2, <2>3, <3>1 DEF Finish, NothingToInflate
  <2>4. CASE stack = <<Call(NoBlock)>> /\ returned = Nothing
    <3>1. Top.at = "enter" /\ returned.result = "none" /\ Tail(stack) = <<>>
      BY <2>4 DEF Top, Call, Nothing
    <3>2. InflateCanceled \/ InflateUnknown
      BY <2>1, <2>4, <3>1 DEF Inflate, InflateBlock, InflateChild, ChildFailed,
         ChildDone, InflateDone, At, Finish, Result
    <3>3. stack' = <<>> /\ returned'.result \in {"Failed", "Canceled"}
      <4>1. /\ stack' = Tail(stack)
            /\ \/ returned' = [result |-> "Canceled", block |-> NoBlock]
               \/ returned' = [result |-> "Failed", block |-> NoBlock]
        BY <3>2 DEF InflateCanceled, InflateUnknown, Return
      <4>2. QED
        BY ONLY <3>1, <4>1
    <3>4. QED
      BY <3>3 DEF NothingToInflate
  <2>5. QED
    BY <2>2, <2>3, <2>4
<1>5. NothingToInflate'
  BY <1>1, <1>4 DEF NothingToInflate
<1>6. QED
  BY <1>1, <1>2, <1>3, <1>5 DEF FileInv

LEMMA FileInvariant == FileSpec => []FileInv
<1>1. FileInit => FileInv
  BY DEF FileInit, Init, FileInv, HeaderIsLoaded, NothingToInflate, Opened
<1>2. FileInv /\ [FileNext]_<<vars, fileVars>> => FileInv'
  <2> SUFFICES ASSUME FileInv, [FileNext]_<<vars, fileVars>>
               PROVE  FileInv'
    OBVIOUS
  <2>1. Len(Fields) = 6
    BY DEF Fields
  <2>2. CASE Open
    <3>1. /\ phase' = "load" /\ stack' = <<Call(NoBlock)>> /\ returned' = Nothing
          /\ UNCHANGED <<position, writer, given>>
      BY <2>2 DEF Open, StartLoading
    <3>2. /\ Accepts(header')
          /\ \E reader \in Hosts, n \in 0 .. 6 :
                header' = Loaded(writer, reader, given, n) /\ (n < 6 => device' = <<>>)
      BY <2>1, <2>2 DEF Open
    <3>3. QED
      BY <3>1, <3>2 DEF FileInv, HeaderIsLoaded, NothingToInflate, Opened
  <2>3. CASE Refuse
    <3>1. phase' = "refused" /\ UNCHANGED <<position, writer, given>>
      BY <2>3 DEF Refuse
    <3>2. /\ ~ Accepts(header')
          /\ \E reader \in Hosts, n \in 0 .. 6 :
                header' = Loaded(writer, reader, given, n) /\ whole' = (n = 6)
      BY <2>1, <2>3 DEF Refuse
    <3>3. QED
      BY <3>1, <3>2 DEF FileInv, HeaderIsLoaded, NothingToInflate, Opened
  <2>4. CASE Deflate /\ UNCHANGED fileVars
    <3>1. phase = "dump" /\ phase' = "dump" /\ UNCHANGED <<position, writer, given>>
      BY <2>4 DEF Deflate, DeflateCanceled, DeflateSkipped, DeflateBlock, DeflateChild, DeflateNext,
         DeflateDone, Dumping, fileVars
    <3>2. QED
      BY <3>1 DEF FileInv, HeaderIsLoaded, NothingToInflate, Opened
  <2>5. CASE (Inflate \/ Finish) /\ UNCHANGED fileVars
    BY <2>5, LoadingStep
  <2>6. CASE UNCHANGED <<vars, fileVars>>
    BY <2>6 DEF vars, source, fileVars, FileInv, HeaderIsLoaded, NothingToInflate, Opened
  <2>7. QED
    BY <2>2, <2>3, <2>4, <2>5, <2>6 DEF FileNext
<1>3. QED
  BY <1>1, <1>2, PTL DEF FileSpec

(* Whatever the byte orders of the two hosts, a file that is loaded with   *)
(* success has the header that was meant; and only files that were cut,    *)
(* that have another version, or whose header was swapped twice, are       *)
(* refused.                                                                *)
THEOREM HeaderIsAsMeantHolds == FileSpec => []HeaderIsAsMeant
<1>1. FileInv => HeaderIsAsMeant
  <2> SUFFICES ASSUME FileInv
               PROVE  HeaderIsAsMeant
    OBVIOUS
  <2>1. /\ given \in [1 .. 6 -> Words]
        /\ Accepts(WithMetaData(given))
              <=> given # OtherVersion /\ ~ (writer = "big" /\ given = DefaultHeader(writer))
        /\ Accepts(WithMetaData(given)) => WithMetaData(given) = Meant
    BY GivenHeaders DEF FileInv, Meant
  <2>2. \A reader \in Hosts : Loaded(writer, reader, given, 6) = WithMetaData(given)
    BY <2>1, HeadersSurvive DEF FileInv
  <2>3. ASSUME phase = "done", returned.result = "Success"
        PROVE  header = Meant
    <3>1. device # <<>>
      BY <2>3 DEF FileInv, NothingToInflate, Opened
    <3>2. Accepts(header) /\ \E reader \in Hosts : header = Loaded(writer, reader, given, 6)
      <4>1. PICK reader \in Hosts, n \in 0 .. 6 :
                header = Loaded(writer, reader, given, n) /\ (n < 6 => device = <<>>)
        BY <2>3 DEF FileInv, HeaderIsLoaded, Opened
      <4>2. n = 6
        BY <3>1, <4>1
      <4>3. QED
        BY <2>3, <4>1, <4>2 DEF FileInv, HeaderIsLoaded, Opened
    <3>3. QED
      BY <2>1, <2>2, <3>2
  <2>4. ASSUME phase = "refused", whole
        PROVE  given = OtherVersion \/ (writer = "big" /\ given = DefaultHeader(writer))
    <3>1. ~ Accepts(header) /\ \E reader \in Hosts : header = Loaded(writer, reader, given, 6)
      <4>1. PICK reader \in Hosts, n \in 0 .. 6 :
                header = Loaded(writer, reader, given, n) /\ whole = (n = 6)
        BY <2>4 DEF FileInv, HeaderIsLoaded
      <4>2. n = 6
        BY <2>4, <4>1
      <4>3. QED
        BY <2>4, <4>1, <4>2 DEF FileInv, HeaderIsLoaded
    <3>2. QED
      BY <2>1, <2>2, <3>1
  <2>5. QED
    BY <2>3, <2>4 DEF HeaderIsAsMeant
<1>2. QED
  BY <1>1, FileInvariant, PTL

-----------------------------------------------------------------------------
(* Numbers and lists.                                                      *)

LEMMA BlocksAreFinite ==
    ASSUME NEW S \in SUBSET Blocks
    PROVE  IsFiniteSet(S) /\ Cardinality(S) \in Nat /\ S \subseteq Nat
<1>1. IsFiniteSet(0 .. Size - 1)
  BY SizeAssumption, FS_Interval
<1>2. IsFiniteSet(S)
  BY <1>1, FS_Subset DEF Blocks
<1>3. QED
  BY <1>2, FS_CardinalityType, SizeAssumption DEF Blocks

(* The last element of a set of blocks.                                    *)
LEMMA LastBlock ==
    ASSUME NEW S \in SUBSET Blocks, S # {}
    PROVE  \E x \in S : \A y \in S \ {x} : y < x
<1> DEFINE T == {Size - x : x \in S}
<1>1. S \subseteq 0 .. Size - 1 /\ Size \in Nat
  BY SizeAssumption DEF Blocks
<1>2. T \subseteq Nat /\ T # {}
  BY <1>1
<1>3. PICK t \in T : \A u \in T : t <= u
  <2> HIDE DEF T
  <2> QED
    BY <1>2, LeastNumber
<1>4. PICK x \in S : t = Size - x
  BY <1>3
<1>5. ASSUME NEW y \in S \ {x}
      PROVE  y < x
  <2>1. Size - x <= Size - y
    BY <1>3, <1>4
  <2>2. x \in Int /\ y \in Int /\ y # x /\ Size \in Int
    BY <1>1
  <2>3. QED
    BY <2>1, <2>2
<1>6. QED
  BY <1>5

Rising(s, n) == \A i, j \in 1 .. n : i < j => s[i] < s[j]

(* Every set of blocks can be put in ascending order.                      *)
LEMMA RisingExists ==
    ASSUME NEW S \in SUBSET Blocks
    PROVE  \E s \in [1 .. Cardinality(S) -> S] : Rising(s, Cardinality(S))
<1> DEFINE Fails(n) == \E U \in SUBSET Blocks : Cardinality(U) = n /\
                          ~ \E s \in [1 .. n -> U] : Rising(s, n)
           T == {n \in Nat : Fails(n)}
<1>1. SUFFICES ASSUME T # {}
               PROVE  FALSE
  BY BlocksAreFinite
<1>2. PICK n \in T : \A k \in T : n <= k
  <2>1. T \subseteq Nat
    OBVIOUS
  <2> HIDE DEF T
  <2> QED
    BY <1>1, <2>1, LeastNumber
<1>3. n \in Nat /\ Fails(n)
  BY <1>2
<1>4. PICK U \in SUBSET Blocks :
          Cardinality(U) = n /\ ~ \E s \in [1 .. n -> U] : Rising(s, n)
  BY <1>3
<1>5. CASE U = {}
  <2>1. n = 0
    BY <1>4, <1>5, FS_EmptySet
  <2>2. [i \in 1 .. 0 |-> 0] \in [1 .. n -> U] /\ Rising([i \in 1 .. 0 |-> 0], n)
    BY <2>1 DEF Rising
  <2>3. QED
    BY <1>4, <2>2
<1>6. CASE U # {}
  <2>1. PICK x \in U : \A y \in U \ {x} : y < x
    BY <1>6, LastBlock
  <2>2. /\ U \ {x} \in SUBSET Blocks /\ Cardinality(U \ {x}) = n - 1 /\ n - 1 \in Nat
    <3>1. IsFiniteSet(U) /\ U \ {x} \in SUBSET Blocks
      BY BlocksAreFinite
    <3>2. Cardinality(U \ {x}) = Cardinality(U) - 1
      BY <3>1, FS_RemoveElement
    <3>3. Cardinality(U \ {x}) \in Nat
      BY <3>1, BlocksAreFinite
    <3>4. QED
      BY <1>4, <3>1, <3>2, <3>3
  <2>3. ~ Fails(n - 1)
    <3>1. n - 1 \notin T
      <4> HIDE DEF T
      <4> QED
        BY <1>2, <1>3
    <3>2. QED
      BY <2>2, <3>1
  <2>4. PICK s \in [1 .. n - 1 -> U \ {x}] : Rising(s, n - 1)
    BY <2>2, <2>3
  <2> DEFINE t == [i \in 1 .. n |-> IF i < n THEN s[i] ELSE x]
  <2>5. t \in [1 .. n -> U]
    BY <1>3, <2>2, <2>4
  <2>6. ASSUME NEW i \in 1 .. n, NEW j \in 1 .. n, i < j
        PROVE  t[i] < t[j]
    <3>1. i < n /\ i \in 1 .. n - 1 /\ (j < n => j \in 1 .. n - 1)
      BY <1>3, <2>6
    <3>2. s[i] \in U \ {x} /\ t[i] = s[i]
      BY <2>4, <3>1
    <3>3. CASE j < n
      BY <2>4, <2>6, <3>1, <3>2, <3>3 DEF Rising
    <3>4. CASE ~ (j < n)
      BY <2>1, <3>2, <3>4
    <3>5. QED
      BY <3>3, <3>4
  <2>7. Rising(t, n)
    BY <2>6 DEF Rising
  <2>8. QED
    BY <1>4, <2>5, <2>7
<1>7. QED
  BY <1>5, <1>6

(* Ascending puts all the blocks of a set in a list, each once.            *)
LEMMA AscendingProperties ==
    ASSUME NEW S \in SUBSET Blocks
    PROVE  /\ Cardinality(S) \in Nat
           /\ Ascending(S) \in [1 .. Cardinality(S) -> S]
           /\ \A i, j \in 1 .. Cardinality(S) : i < j => Ascending(S)[i] < Ascending(S)[j]
           /\ \A i, j \in 1 .. Cardinality(S) : Ascending(S)[i] = Ascending(S)[j] => i = j
           /\ \A x \in S : \E i \in 1 .. Cardinality(S) : Ascending(S)[i] = x
<1> DEFINE n == Cardinality(S)
           s == Ascending(S)
<1>1. IsFiniteSet(S) /\ n \in Nat /\ S \subseteq Nat
  BY BlocksAreFinite
<1>2. s \in [1 .. n -> S] /\ \A i, j \in 1 .. n : i < j => s[i] < s[j]
  <2>1. \E t \in [1 .. n -> S] : \A i, j \in 1 .. n : i < j => t[i] < t[j]
    BY RisingExists DEF Rising
  <2>2. QED
    BY <2>1 DEF Ascending
<1> HIDE DEF s
<1>3. ASSUME NEW i \in 1 .. n, NEW j \in 1 .. n, s[i] = s[j]
      PROVE  i = j
  <2>1. i \in Int /\ j \in Int /\ s[i] \in Int /\ s[j] \in Int
    <3>1. s[i] \in S /\ s[j] \in S
      BY <1>2
    <3>2. s[i] \in Nat /\ s[j] \in Nat
      BY <1>1, <3>1
    <3>3. i \in Int /\ j \in Int
      OBVIOUS
    <3>4. QED
      BY <3>2, <3>3
  <2>2. ~ (i < j) /\ ~ (j < i)
    BY <1>2, <1>3, <2>1
  <2>3. QED
    BY <2>1, <2>2
<1>4. \A x \in S : \E i \in 1 .. n : s[i] = x
  <2>1. Cardinality(1 .. n) = n /\ IsFiniteSet(1 .. n)
    BY <1>1, FS_Interval
  <2>2. s \in Injection(1 .. n, S)
    BY <1>2, <1>3 DEF Injection, IsInjective
  <2>3. s \in Surjection(1 .. n, S)
    BY <1>1, <2>1, <2>2, FS_Injection
  <2>4. QED
    BY <2>3 DEF Surjection
<1>5. QED
  BY <1>1, <1>2, <1>3, <1>4 DEF s
-----------------------------------------------------------------------------
(* The dump.                                                               *)

RecordType == [type : Blocks, properties : SUBSET {0, 2}, value : BOOLEAN, childrenNb : Nat]

Recorded(d) == {d[i].type : i \in DOMAIN d}
Place(d, b) == CHOOSE i \in DOMAIN d : d[i].type = b

\* The records are those of blocks that are to be dumped, each once, behind that of its
\* parent and in front of those of its later siblings; and between a parent and its child
\* there is nothing but what is below that parent.
Ordered(d, todo, up) ==
    /\ Recorded(d) \subseteq todo
    /\ \A i, j \in DOMAIN d : d[i].type = d[j].type => i = j
    /\ d # <<>> => d[1].type = 0
    /\ \A b \in Recorded(d) \ {0} : up[b] \in Recorded(d) /\ Place(d, up[b]) < Place(d, b)
    /\ \A b, c \in Recorded(d) \ {0} :
          /\ Place(d, up[c]) < Place(d, b) /\ Place(d, b) < Place(d, c)
                => Place(d, up[c]) <= Place(d, up[b])
          /\ up[b] = up[c] /\ b < c => Place(d, b) < Place(d, c)

\* What is chosen at the start.
Source ==
    /\ parent \in [Blocks \ {0} -> Blocks] /\ \A b \in Blocks \ {0} : parent[b] < b
    /\ serializable \subseteq Blocks
    /\ trouble \in [Blocks -> {"none", "unknown", "dropped", "refused"}]

DumpCall == [block : Blocks, at : {"enter", "children"}, left : Nat]

\* Each call of deflate was made by the next one on the stack, for the last of its
\* children that it has come to, and only the innermost has dumped nothing yet.
DumpCallFits(k) ==
    /\ k > 1 => stack[k].at = "children"
    /\ stack[k].at = "enter" => stack[k].block \notin Recorded(device) /\ stack[k].left = 0
    /\ stack[k].at = "children" =>
          stack[k].block \in Recorded(device) /\ stack[k].left <= CountAll(stack[k].block)
    /\ k < Len(stack) =>
          /\ stack[k].block # 0 /\ parent[stack[k].block] = stack[k + 1].block
          /\ stack[k + 1].left > 0
          /\ stack[k].block = Children(stack[k + 1].block)[stack[k + 1].left]

DumpStack ==
    /\ stack \in Seq(DumpCall)
    /\ returned \in {Nothing} \cup [result : Result, block : {NoBlock}]
    /\ stack # <<>> => /\ returned # Nothing => stack[1].at = "children"
                       /\ stack[Len(stack)].block = 0
    /\ \A k \in DOMAIN stack : DumpCallFits(k)

\* A call in progress has what it dumped at the end of the device, its parents in front
\* of it, and nothing of the children to which it has yet to come.
DumpCallIsLast(k) ==
    stack[k].at = "children" =>
        /\ \A l \in 1 .. k - 1 : stack[l].at = "children" =>
              Place(device, stack[k].block) < Place(device, stack[l].block)
        /\ \A b \in Recorded(device) \ {0} :
              /\ Place(device, stack[k].block) < Place(device, b) =>
                    Place(device, stack[k].block) <= Place(device, parent[b])
              /\ parent[b] = stack[k].block =>
                    \E m \in 1 .. stack[k].left : b = Children(stack[k].block)[m]

DumpOrder == \A k \in DOMAIN stack : DumpCallIsLast(k)

\* What is still to be dumped, unless the callback stops it.
DumpGoesOn ==
    /\ 0 \in serializable => 0 \in Recorded(device) \/ (stack # <<>> /\ stack[1] = Call(0))
    /\ \A b \in Recorded(device) : \A c \in ChildrenOf(b) \cap serializable :
          \/ c \in Recorded(device)
          \/ stack # <<>> /\ stack[1] = Call(c)
          \/ \E k \in DOMAIN stack : stack[k].block = b /\
                \E m \in stack[k].left + 1 .. CountAll(b) : c = Children(b)[m]

DumpInv ==
    /\ device \in Seq(RecordType) /\ \A i \in DOMAIN device : device[i] = Record(device[i].type)
    /\ Ordered(device, Dumped, parent)
    /\ whole /\ cut = NoBlock /\ position = 0 /\ built = <<>> /\ kept = {}
    /\ DumpStack /\ DumpOrder
    /\ ~ stopped => DumpGoesOn

\* What may be loaded.
DeviceInv ==
    /\ device \in Seq(RecordType)
    /\ Ordered(device, Dumped, parent)
    /\ \A i \in DOMAIN device :
          /\ \/ device[i].childrenNb = CountToWrite(device[i].type)
             \/ ~ whole /\ i = Len(device) /\ device[i].type = cut /\ device[i].childrenNb = 0
          /\ device[i].type \in Owning \ {cut} => device[i].properties # {} /\ device[i].value
    /\ whole => /\ cut = NoBlock /\ \A i \in DOMAIN device : device[i] = Record(device[i].type)
                /\ ~ stopped => Dumped \subseteq Recorded(device)

-----------------------------------------------------------------------------
(* What is built.                                                          *)

Taken == {device[i].type : i \in 1 .. position}
Calls == {k \in DOMAIN stack : stack[k].at = "children"}
InHand == {stack[k].block : k \in Calls} \cup ({returned.block} \ {NoBlock})
After(b, c) == Place(device, b) < Place(device, c)

LoadCall == [block : Blocks \cup {NoBlock}, at : {"enter", "children"}, left : Nat]

\* Each call of inflate was made by the next one on the stack, for a block that is
\* behind that of its parent on the device.
LoadCallFits(k) ==
    /\ k > 1 => stack[k].at = "children"
    /\ stack[k].at = "enter" => stack[k] = Call(NoBlock)
    /\ stack[k].at = "children" =>
          /\ stack[k].block \in Taken
          /\ returned.block # NoBlock => After(stack[k].block, returned.block)
          /\ \A l \in DOMAIN stack : k < l => After(stack[l].block, stack[k].block)

LoadStack ==
    /\ position \in 0 .. Len(device)
    /\ stack \in Seq(LoadCall)
    /\ returned \in {Nothing} \cup [result : Result, block : Taken \cup {NoBlock}]
    /\ returned # Nothing /\ stack # <<>> => stack[1].at = "children"
    /\ returned.result = "Success" => returned.block # NoBlock
    /\ returned.result = "Canceled" => stopped /\ returned.block = NoBlock
    /\ returned.result # "Skipped"
    /\ stack = <<>> => returned # Nothing
    /\ \A k \in DOMAIN stack : LoadCallFits(k)

\* Each block that was built is in hand, or is the child of exactly one that was built
\* before.
OnlyTakenIsBuilt == InHand \subseteq DOMAIN built /\ DOMAIN built \subseteq Taken
BuiltType == built \in [DOMAIN built -> Seq(Blocks)]
ChildrenAreBuilt ==
    \A x \in DOMAIN built : \A y \in ToSet(built[x]) : y \in DOMAIN built \ InHand /\ After(x, y)
OneParent == \A x, z \in DOMAIN built : ToSet(built[x]) \cap ToSet(built[z]) # {} => x = z
OthersHaveParents == \A y \in DOMAIN built \ InHand : \E x \in DOMAIN built : y \in ToSet(built[x])

BuiltInv == OnlyTakenIsBuilt /\ BuiltType /\ ChildrenAreBuilt /\ OneParent /\ OthersHaveParents

-----------------------------------------------------------------------------
(* What is still to be read.                                               *)

\* The children that were to be dumped with b, as its record says.
Kids(b) ==
    {c \in ChildrenOf(b) \cap Dumped :
        \E i \in DOMAIN device : device[i].type = b /\ device[i].childrenNb # 0}

Awaited == IF position = 0 THEN {0} ELSE (UNION {Kids(b) : b \in Taken}) \ Taken

\* A record is due for each child that a call has still to read, and for the call that
\* is to read one.
Due(k) == IF k \in Calls THEN stack[k].left ELSE 1
Slots == UNION {{stack[k].block} \X (1 .. Due(k)) : k \in DOMAIN stack}

KidsNb(b) == Cardinality(Kids(b))
Kid(b, m) == Ascending(Kids(b))[m]

\* A call has come to the child number n of its block: the later ones were not read, the
\* ones before are added to the block, and it is in hand itself or still to be read.
ChildrenAdded(k, n) == IF k = 1 /\ returned = Nothing THEN n ELSE n - 1
CallInStep(k, n) ==
    /\ stack[k].left = KidsNb(stack[k].block) - n
    /\ \A m \in n + 1 .. KidsNb(stack[k].block) : Kid(stack[k].block, m) \notin Taken
    /\ ChildrenAdded(k, n) >= 0 /\ Len(built[stack[k].block]) = ChildrenAdded(k, n)
    /\ \A m \in 1 .. ChildrenAdded(k, n) : built[stack[k].block][m] = Kid(stack[k].block, m)
    /\ k = 1 /\ returned # Nothing => Kid(stack[k].block, n) = returned.block
    /\ k > 1 => IF k - 1 \in Calls THEN Kid(stack[k].block, n) = stack[k - 1].block
                                   ELSE Kid(stack[k].block, n) \notin Taken

InStep ==
    /\ \A b \in Taken :
          (\A k \in DOMAIN stack : stack[k].block # b) => built[b] = Ascending(Kids(b))
    /\ \A k \in Calls : \E n \in 0 .. KidsNb(stack[k].block) : CallInStep(k, n)

Going == phase \in {"load", "done"} /\ returned.result \in {"none", "Success"}

GoingInv ==
    /\ DOMAIN built = Taken
    /\ IsFiniteSet(Slots) /\ Cardinality(Slots) = Cardinality(Awaited)
    /\ InStep \/ ~ (Awaited \subseteq Recorded(device))
    /\ (Owning \cap Taken) \ {cut} \subseteq kept

\* A load that nobody stops and nothing fails in.
Smooth == whole /\ ~ stopped /\ 0 \in serializable /\ \A b \in Dumped : trouble[b] = "none"

LoadInv ==
    /\ DeviceInv /\ LoadStack /\ BuiltInv
    /\ Going => GoingInv
    /\ Smooth => Going
    /\ phase = "crashed" => stopped
    /\ phase = "done" => stack = <<>>

V1Inv ==
    /\ Source
    /\ phase = "dump" => DumpInv
    /\ phase \in {"load", "done", "crashed"} => LoadInv
    /\ phase = "refused" => built = <<>> /\ returned.block = NoBlock
    /\ phase \in {"dump", "load", "done", "crashed", "refused"}
-----------------------------------------------------------------------------
(* The records.                                                            *)

LEMMA PlaceOf ==
    ASSUME NEW d, \A i, j \in DOMAIN d : d[i].type = d[j].type => i = j
    PROVE  /\ \A i \in DOMAIN d : Place(d, d[i].type) = i /\ d[i].type \in Recorded(d)
           /\ \A b \in Recorded(d) : Place(d, b) \in DOMAIN d /\ d[Place(d, b)].type = b
<1>1. ASSUME NEW i \in DOMAIN d
      PROVE  Place(d, d[i].type) = i
  <2>1. \E j \in DOMAIN d : d[j].type = d[i].type
    OBVIOUS
  <2> DEFINE j == Place(d, d[i].type)
  <2>2. j \in DOMAIN d /\ d[j].type = d[i].type
    BY <2>1 DEF Place
  <2> HIDE DEF j
  <2>3. j = i
    BY <2>2
  <2>4. QED
    BY <2>3 DEF j
<1>2. QED
  BY <1>1 DEF Recorded

(* What is to be dumped is what can be reached from the root.              *)
LEMMA DumpedClosed ==
    ASSUME Source
    PROVE  /\ Dumped \subseteq Blocks /\ Dumped \subseteq serializable
           /\ 0 \in serializable => 0 \in Dumped
           /\ \A c \in serializable \ {0} : parent[c] \in Dumped => c \in Dumped
           /\ \A S \in SUBSET Blocks :
                 (/\ 0 \in serializable => 0 \in S
                  /\ \A c \in serializable \ {0} : parent[c] \in S => c \in S)
                 => Dumped \subseteq S
<1>1. serializable \in SUBSET Blocks
  BY DEF Source
<1>2. Dumped \subseteq Blocks
  BY DEF Dumped
<1>3. \A S \in SUBSET Blocks :
          (/\ 0 \in serializable => 0 \in S
           /\ \A c \in serializable \ {0} : parent[c] \in S => c \in S)
          => Dumped \subseteq S
  BY DEF Dumped
<1>4. Dumped \subseteq serializable
  BY <1>1, <1>3
<1>5. 0 \in serializable => 0 \in Dumped
  BY <1>1 DEF Dumped
<1>6. ASSUME NEW c \in serializable \ {0}, parent[c] \in Dumped
      PROVE  c \in Dumped
  <2>1. ASSUME NEW S \in SUBSET Blocks, 0 \in serializable => 0 \in S,
               \A x \in serializable \ {0} : parent[x] \in S => x \in S
        PROVE  c \in S
    <3>1. parent[c] \in S
      BY <1>3, <1>6, <2>1
    <3>2. QED
      BY <1>6, <2>1, <3>1
  <2>2. QED
    BY <1>1, <1>6, <2>1 DEF Dumped
<1>7. QED
  BY <1>2, <1>3, <1>4, <1>5, <1>6

LEMMA CountsAreKids ==
    ASSUME Source, NEW b \in Dumped
    PROVE  CountToWrite(b) = Cardinality(ChildrenOf(b) \cap Dumped)
<1>1. ChildrenOf(b) \cap serializable = ChildrenOf(b) \cap Dumped
  BY DumpedClosed DEF ChildrenOf
<1>2. QED
  BY <1>1 DEF CountToWrite

(* A record behind the others leaves them in their places.                 *)
LEMMA PlacesStay ==
    ASSUME NEW R, NEW d \in Seq(R), NEW r \in R, r.type \notin Recorded(d),
           \A i, j \in DOMAIN d : d[i].type = d[j].type => i = j
    PROVE  LET e == Append(d, r)
           IN  /\ e \in Seq(R) /\ Len(e) = Len(d) + 1 /\ Len(d) \in Nat
               /\ Recorded(e) = Recorded(d) \cup {r.type}
               /\ \A i, j \in DOMAIN e : e[i].type = e[j].type => i = j
               /\ \A b \in Recorded(d) : Place(e, b) = Place(d, b) /\ Place(d, b) \in 1 .. Len(d)
               /\ Place(e, r.type) = Len(d) + 1
<1> DEFINE e == Append(d, r)
<1>1. /\ e \in Seq(R) /\ Len(e) = Len(d) + 1 /\ Len(d) \in Nat
      /\ DOMAIN d = 1 .. Len(d) /\ DOMAIN e = 1 .. Len(d) + 1
      /\ \A i \in 1 .. Len(d) : e[i] = d[i]
      /\ e[Len(d) + 1] = r
  OBVIOUS
<1> HIDE DEF e
<1>2. Recorded(e) = Recorded(d) \cup {r.type}
  <2>1. ASSUME NEW x \in Recorded(e)
        PROVE  x \in Recorded(d) \cup {r.type}
    <3>1. PICK i \in 1 .. Len(d) + 1 : x = e[i].type
      BY <1>1 DEF Recorded
    <3>2. i \in 1 .. Len(d) \/ i = Len(d) + 1
      BY <1>1
    <3>3. QED
      BY <1>1, <3>1, <3>2 DEF Recorded
  <2>2. ASSUME NEW x \in Recorded(d)
        PROVE  x \in Recorded(e)
    <3>1. PICK i \in 1 .. Len(d) : x = d[i].type
      BY <1>1 DEF Recorded
    <3>2. i \in DOMAIN e /\ x = e[i].type
      BY <1>1, <3>1
    <3>3. QED
      BY <3>2 DEF Recorded
  <2>3. r.type \in Recorded(e)
    <3>1. Len(d) + 1 \in DOMAIN e
      BY <1>1
    <3>2. QED
      BY <1>1, <3>1 DEF Recorded
  <2>4. QED
    BY <2>1, <2>2, <2>3
<1>3. ASSUME NEW i \in DOMAIN e, NEW j \in DOMAIN e, e[i].type = e[j].type
      PROVE  i = j
  <2>1. \A k \in 1 .. Len(d) : d[k].type # r.type
    BY <1>1 DEF Recorded
  <2>2. (i \in 1 .. Len(d) \/ i = Len(d) + 1) /\ (j \in 1 .. Len(d) \/ j = Len(d) + 1)
    BY <1>1
  <2>3. QED
    BY <1>1, <1>3, <2>1, <2>2
<1>4. ASSUME NEW b \in Recorded(d)
      PROVE  Place(e, b) = Place(d, b) /\ Place(d, b) \in 1 .. Len(d)
  <2>1. Place(d, b) \in 1 .. Len(d) /\ d[Place(d, b)].type = b
    BY <1>1, PlaceOf
  <2> DEFINE p == Place(d, b)
  <2> HIDE DEF p
  <2>2. p \in DOMAIN e /\ e[p].type = b
    BY <1>1, <2>1 DEF p
  <2>3. Place(e, e[p].type) = p
    BY <1>3, <2>2, PlaceOf
  <2>4. QED
    BY <2>1, <2>2, <2>3 DEF p
<1>5. Place(e, r.type) = Len(d) + 1
  <2>1. Len(d) + 1 \in DOMAIN e
    BY <1>1
  <2>2. Place(e, e[Len(d) + 1].type) = Len(d) + 1
    BY <1>3, <2>1, PlaceOf
  <2>3. QED
    BY <1>1, <2>2
<1>6. QED
  BY <1>1, <1>2, <1>3, <1>4, <1>5 DEF e

(* A record goes behind what was dumped of the same parent.                *)
LEMMA OrderedAppend ==
    ASSUME NEW R, NEW d \in Seq(R), NEW r \in R, NEW todo, todo \subseteq Nat, NEW up,
           Ordered(d, todo, up), r.type \in todo, r.type \notin Recorded(d),
           d = <<>> => r.type = 0,
           r.type # 0 =>
              /\ up[r.type] \in Recorded(d)
              /\ \A b \in Recorded(d) \ {0} :
                    /\ Place(d, up[r.type]) < Place(d, b) => Place(d, up[r.type]) <= Place(d, up[b])
                    /\ up[b] = up[r.type] => b < r.type
    PROVE  Ordered(Append(d, r), todo, up)
<1> DEFINE e == Append(d, r)
           x == r.type
<1>1. /\ e \in Seq(R) /\ Len(e) = Len(d) + 1 /\ Len(d) \in Nat
      /\ Recorded(e) = Recorded(d) \cup {x}
      /\ \A i, j \in DOMAIN e : e[i].type = e[j].type => i = j
      /\ \A b \in Recorded(d) : Place(e, b) = Place(d, b) /\ Place(d, b) \in 1 .. Len(d)
      /\ Place(e, x) = Len(d) + 1
  BY PlacesStay DEF Ordered
<1>2. e[1].type = 0
  <2>1. CASE d = <<>>
    BY <2>1
  <2>2. CASE d # <<>>
    <3>1. e[1] = d[1]
      BY <2>2
    <3>2. QED
      BY <2>2, <3>1 DEF Ordered
  <2>3. QED
    BY <2>1, <2>2
<1> HIDE DEF e
<1>3. ASSUME NEW b \in Recorded(e) \ {0}
      PROVE  up[b] \in Recorded(e) /\ Place(e, up[b]) < Place(e, b)
  <2>1. CASE b \in Recorded(d)
    <3>1. up[b] \in Recorded(d) /\ Place(d, up[b]) < Place(d, b)
      BY <1>3, <2>1 DEF Ordered
    <3>2. QED
      BY <1>1, <2>1, <3>1
  <2>2. CASE b = x
    <3>1. up[x] \in Recorded(d)
      BY <1>3, <2>2
    <3>2. Place(e, up[x]) \in 1 .. Len(d)
      BY <1>1, <3>1
    <3>3. QED
      BY <1>1, <2>2, <3>1, <3>2
  <2>3. QED
    BY <1>1, <1>3, <2>1, <2>2
<1>4. ASSUME NEW b \in Recorded(e) \ {0}, NEW c \in Recorded(e) \ {0}
      PROVE  /\ Place(e, up[c]) < Place(e, b) /\ Place(e, b) < Place(e, c)
                   => Place(e, up[c]) <= Place(e, up[b])
             /\ up[b] = up[c] /\ b < c => Place(e, b) < Place(e, c)
  <2>1. CASE b \in Recorded(d) /\ c \in Recorded(d)
    <3>1. /\ up[b] \in Recorded(d) /\ up[c] \in Recorded(d)
          /\ Place(d, up[c]) < Place(d, b) /\ Place(d, b) < Place(d, c)
                   => Place(d, up[c]) <= Place(d, up[b])
          /\ up[b] = up[c] /\ b < c => Place(d, b) < Place(d, c)
      BY <1>4, <2>1 DEF Ordered
    <3>2. /\ Place(e, b) = Place(d, b) /\ Place(e, c) = Place(d, c)
          /\ Place(e, up[b]) = Place(d, up[b]) /\ Place(e, up[c]) = Place(d, up[c])
      BY <1>1, <2>1, <3>1
    <3>3. QED
      BY <3>1, <3>2
  <2>2. CASE b = x
    <3>1. c = x \/ (c \in Recorded(d) /\ Place(e, c) < Place(e, x))
      <4>1. c = x \/ c \in Recorded(d)
        BY <1>1
      <4>2. QED
        BY <1>1, <4>1
    <3>2. ~ (up[b] = up[c] /\ b < c)
      <4>1. b \in Nat /\ c \in Nat
        <5>1. Recorded(d) \subseteq todo
          BY DEF Ordered
        <5>2. QED
          BY <1>1, <1>4, <5>1
      <4>2. QED
        BY <1>1, <2>2, <3>1, <4>1, <1>4
    <3>3. ~ (Place(e, b) < Place(e, c))
      <4>1. /\ Place(e, x) \in Int
            /\ c \in Recorded(d) => Place(e, c) \in Int
        BY <1>1
      <4>2. QED
        BY <2>2, <3>1, <4>1
    <3>4. QED
      BY <3>2, <3>3
  <2>3. CASE b \in Recorded(d) /\ c = x
    <3>1. up[c] \in Recorded(d) /\ up[b] \in Recorded(d)
      BY <1>4, <2>3 DEF Ordered
    <3>2. /\ Place(e, b) = Place(d, b) /\ Place(e, b) < Place(e, c)
          /\ Place(e, up[b]) = Place(d, up[b]) /\ Place(e, up[c]) = Place(d, up[c])
      BY <1>1, <2>3, <3>1
    <3>3. Place(d, up[c]) < Place(d, b) => Place(d, up[c]) <= Place(d, up[b])
      BY <1>4, <2>3
    <3>4. QED
      BY <3>2, <3>3
  <2>4. QED
    BY <1>1, <2>1, <2>2, <2>3
<1>5. Recorded(e) \subseteq todo
  BY <1>1 DEF Ordered
<1>6. Ordered(e, todo, up)
  BY <1>1, <1>2, <1>3, <1>4, <1>5 DEF Ordered
<1>7. QED
  BY <1>6 DEF e
(* The beginning of a device is in order.                                  *)
LEMMA OrderedPrefix ==
    ASSUME NEW R, NEW d \in Seq(R), NEW e \in Seq(R), NEW todo, NEW up,
           Ordered(d, todo, up), Len(e) <= Len(d),
           \A i \in 1 .. Len(e) : e[i].type = d[i].type
    PROVE  Ordered(e, todo, up)
<1>1. /\ Len(d) \in Nat /\ Len(e) \in Nat /\ DOMAIN d = 1 .. Len(d) /\ DOMAIN e = 1 .. Len(e)
      /\ \A i \in DOMAIN e : i \in DOMAIN d
  OBVIOUS
<1>2. \A i, j \in DOMAIN e : e[i].type = e[j].type => i = j
  BY <1>1 DEF Ordered
<1>3. ASSUME NEW b \in Recorded(e)
      PROVE  b \in Recorded(d) /\ Place(e, b) = Place(d, b) /\ Place(e, b) \in 1 .. Len(e)
  <2>1. Place(e, b) \in 1 .. Len(e) /\ e[Place(e, b)].type = b
    BY <1>1, <1>2, <1>3, PlaceOf
  <2> DEFINE p == Place(e, b)
  <2> HIDE DEF p
  <2>2. p \in DOMAIN d /\ d[p].type = b
    BY <1>1, <2>1 DEF p
  <2>3. Place(d, d[p].type) = p /\ d[p].type \in Recorded(d)
    BY <2>2, PlaceOf DEF Ordered
  <2>4. QED
    BY <2>1, <2>2, <2>3 DEF p
<1>4. ASSUME NEW b \in Recorded(d), Place(d, b) <= Len(e)
      PROVE  b \in Recorded(e)
  <2>1. Place(d, b) \in 1 .. Len(d) /\ d[Place(d, b)].type = b
    BY <1>1, PlaceOf DEF Ordered
  <2> DEFINE p == Place(d, b)
  <2> HIDE DEF p
  <2>2. p \in 1 .. Len(e) /\ e[p].type = b
    BY <1>1, <1>4, <2>1 DEF p
  <2>3. QED
    BY <1>1, <2>2 DEF Recorded
<1>5. ASSUME NEW b \in Recorded(e) \ {0}
      PROVE  up[b] \in Recorded(e) /\ Place(e, up[b]) < Place(e, b)
  <2>1. up[b] \in Recorded(d) /\ Place(d, up[b]) < Place(d, b)
    BY <1>3, <1>5 DEF Ordered
  <2>2. Place(d, up[b]) \in Int
    BY <1>1, <2>1, PlaceOf DEF Ordered
  <2>3. Place(d, b) <= Len(e) /\ Place(d, b) \in Int
    BY <1>1, <1>3, <1>5
  <2>4. up[b] \in Recorded(e)
    BY <1>1, <1>4, <2>1, <2>2, <2>3
  <2>5. QED
    BY <1>3, <1>5, <2>1, <2>4
<1>6. e # <<>> => e[1].type = 0
  BY <1>1 DEF Ordered
<1>7. Recorded(e) \subseteq todo
  BY <1>3 DEF Ordered
<1>8. ASSUME NEW b \in Recorded(e) \ {0}, NEW c \in Recorded(e) \ {0}
      PROVE  /\ Place(e, up[c]) < Place(e, b) /\ Place(e, b) < Place(e, c)
                   => Place(e, up[c]) <= Place(e, up[b])
             /\ up[b] = up[c] /\ b < c => Place(e, b) < Place(e, c)
  <2>1. /\ b \in Recorded(d) \ {0} /\ c \in Recorded(d) \ {0}
        /\ Place(e, b) = Place(d, b) /\ Place(e, c) = Place(d, c)
        /\ Place(e, up[b]) = Place(d, up[b]) /\ Place(e, up[c]) = Place(d, up[c])
    BY <1>3, <1>5
  <2>2. /\ Place(d, up[c]) < Place(d, b) /\ Place(d, b) < Place(d, c)
              => Place(d, up[c]) <= Place(d, up[b])
        /\ up[b] = up[c] /\ b < c => Place(d, b) < Place(d, c)
    BY <2>1 DEF Ordered
  <2>3. QED
    BY <2>1, <2>2
<1>9. QED
  BY <1>2, <1>5, <1>6, <1>7, <1>8 DEF Ordered

(* A list whose first is taken away.                                       *)
LEMMA StackTail ==
    ASSUME NEW R, NEW s \in Seq(R), s # <<>>
    PROVE  /\ Tail(s) \in Seq(R) /\ Len(s) \in Nat \ {0} /\ Len(Tail(s)) = Len(s) - 1
           /\ DOMAIN s = 1 .. Len(s) /\ DOMAIN Tail(s) = 1 .. Len(s) - 1
           /\ \A k \in 1 .. Len(s) - 1 : Tail(s)[k] = s[k + 1]
           /\ Head(s) = s[1] /\ s[1] \in R
OBVIOUS

(* The first of a list is replaced.                                        *)
LEMMA StackReplace ==
    ASSUME NEW R, NEW s \in Seq(R), s # <<>>, NEW c \in R
    PROVE  LET t == <<c>> \o Tail(s)
           IN  /\ t \in Seq(R) /\ Len(t) = Len(s) /\ Len(s) \in Nat \ {0}
               /\ DOMAIN t = 1 .. Len(s) /\ DOMAIN s = 1 .. Len(s)
               /\ t[1] = c /\ \A k \in 1 .. Len(s) : k # 1 => t[k] = s[k]
OBVIOUS

(* A call is made below the first of a list, which is replaced.            *)
LEMMA StackCall ==
    ASSUME NEW R, NEW s \in Seq(R), s # <<>>, NEW c \in R, NEW e \in R
    PROVE  LET t == <<c, e>> \o Tail(s)
           IN  /\ t \in Seq(R) /\ Len(t) = Len(s) + 1 /\ Len(s) \in Nat \ {0}
               /\ DOMAIN t = 1 .. Len(s) + 1 /\ DOMAIN s = 1 .. Len(s)
               /\ t[1] = c /\ t[2] = e
               /\ \A k \in 1 .. Len(s) + 1 : k > 2 => k - 1 \in 1 .. Len(s) /\ t[k] = s[k - 1]
OBVIOUS
-----------------------------------------------------------------------------
(* Steps of deflate.                                                       *)

LEMMA SameSource ==
    ASSUME UNCHANGED source
    PROVE  /\ Dumped' = Dumped /\ (Source => Source') /\ UNCHANGED <<parent, serializable, trouble>>
           /\ \A b : /\ ChildrenOf(b)' = ChildrenOf(b) /\ Children(b)' = Children(b)
                     /\ CountAll(b)' = CountAll(b) /\ CountToWrite(b)' = CountToWrite(b)
                     /\ Record(b)' = Record(b)
BY DEF source, Dumped, Source, ChildrenOf, Children, CountAll, CountToWrite, Record

LEMMA ChildrenProperties ==
    ASSUME Source, NEW b \in Blocks
    PROVE  /\ CountAll(b) \in Nat
           /\ Children(b) \in [1 .. CountAll(b) -> ChildrenOf(b)]
           /\ \A c \in ChildrenOf(b) : c \in Blocks \ {0} /\ parent[c] = b
           /\ \A i, j \in 1 .. CountAll(b) : i < j => Children(b)[i] < Children(b)[j]
           /\ \A i, j \in 1 .. CountAll(b) : Children(b)[i] = Children(b)[j] => i = j
           /\ \A c \in ChildrenOf(b) : \E i \in 1 .. CountAll(b) : Children(b)[i] = c
<1>1. ChildrenOf(b) \in SUBSET Blocks /\ \A c \in ChildrenOf(b) : c \in Blocks \ {0} /\ parent[c] = b
  BY DEF ChildrenOf
<1>2. QED
  BY <1>1, AscendingProperties DEF CountAll, Children

LEMMA StoredAre ==
    ASSUME NEW b
    PROVE  StoredProperties(b) = IF b \in Owning THEN {2} ELSE {}
<1>1. Hash["blockName"] = 1 /\ Hash["own"] = 2
  BY DEF Hash
<1>2. CASE b \in Owning
  <2> DEFINE names == <<"objectName", "blockName", "own">>
  <2>1. PropertyNames(b) = names
    BY <1>2 DEF PropertyNames
  <2>2. /\ PropertiesCache(names)[2] = 1 /\ PropertiesCache(names)[3] = 2 /\ Len(names) = 3
        /\ PropertyOffset + 1 .. Len(names) = {2, 3}
    <3>1. DOMAIN names = 1 .. 3 /\ Len(names) = 3 /\ names[2] = "blockName" /\ names[3] = "own"
      OBVIOUS
    <3> HIDE DEF names
    <3>2. QED
      BY <1>1, <3>1 DEF PropertiesCache, PropertyOffset
  <2> HIDE DEF names
  <2>3. {PropertiesCache(names)[i] : i \in PropertyOffset + 1 .. Len(names)} = {1, 2}
    BY <2>2
  <2>4. StoredProperties(b) = {hash \in {1, 2} : IsStored(hash)}
    BY <2>1, <2>3 DEF StoredProperties
  <2>5. QED
    BY <1>1, <1>2, <2>4 DEF IsStored
<1>3. CASE b \notin Owning
  <2> DEFINE names == <<"objectName", "blockName">>
  <2>1. PropertyNames(b) = names
    BY <1>3 DEF PropertyNames
  <2>2. /\ PropertiesCache(names)[2] = 1 /\ Len(names) = 2
        /\ PropertyOffset + 1 .. Len(names) = {2}
    <3>1. DOMAIN names = 1 .. 2 /\ Len(names) = 2 /\ names[2] = "blockName"
      OBVIOUS
    <3> HIDE DEF names
    <3>2. QED
      BY <1>1, <3>1 DEF PropertiesCache, PropertyOffset
  <2> HIDE DEF names
  <2>3. {PropertiesCache(names)[i] : i \in PropertyOffset + 1 .. Len(names)} = {1}
    BY <2>2
  <2>4. StoredProperties(b) = {hash \in {1} : IsStored(hash)}
    BY <2>1, <2>3 DEF StoredProperties
  <2>5. QED
    BY <1>1, <1>3, <2>4 DEF IsStored
<1>4. QED
  BY <1>2, <1>3

LEMMA RecordFields ==
    ASSUME Source, NEW b \in Blocks
    PROVE  /\ Record(b) \in RecordType /\ Record(b).type = b /\ Record(b).value = TRUE
           /\ Record(b).childrenNb = CountToWrite(b)
           /\ Record(b).properties = IF b \in Owning THEN {2} ELSE {}
<1>1. CountToWrite(b) \in Nat
  <2>1. ChildrenOf(b) \cap serializable \in SUBSET Blocks
    BY DEF ChildrenOf
  <2>2. QED
    BY <2>1, BlocksAreFinite DEF CountToWrite
<1>2. StoredProperties(b) \in SUBSET {0, 2}
  BY StoredAre
<1>3. QED
  BY <1>1, <1>2, StoredAre DEF Record, RecordType

DumpSame == UNCHANGED <<source, position, built, kept, whole, cut>>

(* deflate returns: it was asked to stop, had nothing to dump, or is done. *)
LEMMA DumpReturns ==
    ASSUME Source, DumpInv, DumpSame, UNCHANGED device, stack # <<>>, stack' = Tail(stack),
           returned' \in [result : Result, block : {NoBlock}], stopped => stopped',
           ~ stopped' =>
              /\ stack[1].at = "enter" => stack[1].block \notin serializable
              /\ stack[1].at = "children" => stack[1].left = CountAll(stack[1].block)
    PROVE  DumpInv'
<1>1. /\ Dumped' = Dumped /\ UNCHANGED <<parent, serializable, trouble>>
      /\ \A b : /\ ChildrenOf(b)' = ChildrenOf(b) /\ Children(b)' = Children(b)
                /\ CountAll(b)' = CountAll(b) /\ Record(b)' = Record(b)
  BY SameSource DEF DumpSame
<1>2. /\ stack' \in Seq(DumpCall) /\ Len(stack) \in Nat \ {0} /\ Len(stack') = Len(stack) - 1
      /\ DOMAIN stack = 1 .. Len(stack) /\ DOMAIN stack' = 1 .. Len(stack) - 1
      /\ \A k \in 1 .. Len(stack) - 1 : stack'[k] = stack[k + 1]
  BY StackTail DEF DumpInv, DumpStack
<1>3. DumpStack /\ DumpOrder
  BY DEF DumpInv
<1>4. \A k \in DOMAIN stack' : k + 1 \in DOMAIN stack /\ k + 1 > 1 /\ stack'[k] = stack[k + 1]
  BY <1>2
<1>5. DumpStack'
  <2>1. returned' \in {Nothing} \cup [result : Result, block : {NoBlock}]
    OBVIOUS
  <2>2. stack' # <<>> => stack'[1].at = "children" /\ stack'[Len(stack')].block = 0
    <3>1. SUFFICES ASSUME stack' # <<>>
                   PROVE  stack'[1].at = "children" /\ stack'[Len(stack')].block = 0
      OBVIOUS
    <3>2. Len(stack') # 0
      BY <1>2, <3>1
    <3>3. 1 \in DOMAIN stack' /\ Len(stack') \in DOMAIN stack' /\ Len(stack') + 1 = Len(stack)
      BY <1>2, <3>2
    <3>4. stack'[1] = stack[2] /\ stack'[Len(stack')] = stack[Len(stack)] /\ 2 \in DOMAIN stack
      BY <1>2, <1>4, <3>3
    <3>5. DumpCallFits(2) /\ stack[Len(stack)].block = 0
      BY <1>3, <3>4 DEF DumpStack
    <3>6. QED
      BY <3>4, <3>5 DEF DumpCallFits
  <2>3. ASSUME NEW k \in DOMAIN stack'
        PROVE  DumpCallFits(k)'
    <3>1. \E j \in DOMAIN stack :
             /\ j > 1 /\ stack'[k] = stack[j]
             /\ k < Len(stack') => j < Len(stack) /\ stack'[k + 1] = stack[j + 1]
      <4>1. /\ k + 1 \in DOMAIN stack /\ k + 1 > 1 /\ stack'[k] = stack[k + 1]
            /\ k < Len(stack') => k + 1 < Len(stack) /\ stack'[k + 1] = stack[(k + 1) + 1]
        BY <1>2, <1>4
      <4>2. QED
        BY <4>1
    <3>2. PICK j \in DOMAIN stack :
             /\ j > 1 /\ stack'[k] = stack[j]
             /\ k < Len(stack') => j < Len(stack) /\ stack'[k + 1] = stack[j + 1]
      BY <3>1
    <3>3. DumpCallFits(j)
      BY <1>3, <3>2 DEF DumpStack
    <3>4. QED
      BY <1>1, <3>2, <3>3 DEF DumpCallFits
  <2>4. QED
    BY <1>2, <2>1, <2>2, <2>3 DEF DumpStack, DumpCall, Result
<1>6. DumpOrder'
  <2>1. ASSUME NEW k \in DOMAIN stack'
        PROVE  DumpCallIsLast(k)'
    <3>1. PICK j \in DOMAIN stack : j = k + 1 /\ stack'[k] = stack[j]
      BY <1>4
    <3>2. DumpCallIsLast(j)
      BY <1>3, <3>1 DEF DumpOrder
    <3>3. \A l \in 1 .. k - 1 : \E i \in 1 .. j - 1 : stack'[l] = stack[i]
      BY <1>2, <3>1
    <3>4. QED
      BY <1>1, <3>1, <3>2, <3>3 DEF DumpCallIsLast
  <2>2. QED
    BY <2>1 DEF DumpOrder
<1>7. ~ stopped' => DumpGoesOn'
  <2> SUFFICES ASSUME ~ stopped'
               PROVE  DumpGoesOn'
    OBVIOUS
  <2>1. DumpGoesOn /\ 1 \in DOMAIN stack
    BY <1>2 DEF DumpInv
  <2>2. \A c \in serializable : stack[1] # Call(c)
    BY DEF Call
  <2>3. 0 \in serializable => 0 \in Recorded(device)
    BY <2>1, <2>2 DEF DumpGoesOn
  <2>4. ASSUME NEW b \in Recorded(device), NEW c \in ChildrenOf(b) \cap serializable
        PROVE  \/ c \in Recorded(device)
               \/ \E k \in DOMAIN stack' : stack'[k].block = b /\
                    \E m \in stack'[k].left + 1 .. CountAll(b) : c = Children(b)[m]
    <3>1. SUFFICES ASSUME c \notin Recorded(device)
                   PROVE  \E k \in DOMAIN stack' : stack'[k].block = b /\
                            \E m \in stack'[k].left + 1 .. CountAll(b) : c = Children(b)[m]
      OBVIOUS
    <3>2. PICK k \in DOMAIN stack : stack[k].block = b /\
                  \E m \in stack[k].left + 1 .. CountAll(b) : c = Children(b)[m]
      BY <2>1, <2>2, <3>1 DEF DumpGoesOn
    <3>3. k # 1
      <4>1. SUFFICES ASSUME k = 1
                     PROVE  FALSE
        OBVIOUS
      <4>2. stack[1].at \in {"enter", "children"} /\ stack[1].block = b
        <5>1. stack[1] \in DumpCall
          BY <1>3, StackTail DEF DumpStack
        <5>2. QED
          BY <3>2, <4>1, <5>1 DEF DumpCall
      <4>3. stack[1].at = "children"
        <5>1. DumpCallFits(1)
          BY <1>3, <2>1 DEF DumpStack
        <5>2. QED
          BY <4>2, <5>1 DEF DumpCallFits
      <4>4. stack[1].left = CountAll(b) /\ CountAll(b) \in Nat
        <5>1. b \in Blocks
          BY DumpedClosed DEF DumpInv, Ordered
        <5>2. QED
          BY <4>2, <4>3, <5>1, ChildrenProperties
      <4>5. QED
        BY <3>2, <4>1, <4>4
    <3>4. k - 1 \in DOMAIN stack' /\ stack'[k - 1] = stack[k]
      BY <1>2, <3>3
    <3>5. QED
      BY <3>2, <3>4
  <2>5. QED
    BY <1>1, <2>3, <2>4 DEF DumpGoesOn
<1>8. QED
  BY <1>1, <1>5, <1>6, <1>7 DEF DumpInv, DumpSame
(* The innermost call of deflate.                                          *)
LEMMA DumpTop ==
    ASSUME Source, DumpInv, stack # <<>>
    PROVE  /\ stack \in Seq(DumpCall) /\ Len(stack) \in Nat \ {0} /\ DOMAIN stack = 1 .. Len(stack)
           /\ Top = stack[1] /\ Top \in DumpCall /\ 1 \in DOMAIN stack
           /\ \A k \in DOMAIN stack : stack[k] \in DumpCall /\ DumpCallFits(k) /\ DumpCallIsLast(k)
           /\ stack[Len(stack)].block = 0
           /\ Recorded(device) \subseteq Blocks /\ Ordered(device, Dumped, parent)
<1>1. /\ stack \in Seq(DumpCall) /\ \A k \in DOMAIN stack : DumpCallFits(k) /\ DumpCallIsLast(k)
      /\ stack[Len(stack)].block = 0
  BY DEF DumpInv, DumpStack, DumpOrder
<1>2. /\ Len(stack) \in Nat \ {0} /\ DOMAIN stack = 1 .. Len(stack) /\ Head(stack) = stack[1]
      /\ \A k \in DOMAIN stack : stack[k] \in DumpCall
  BY <1>1, StackTail
<1>3. Recorded(device) \subseteq Blocks /\ Ordered(device, Dumped, parent)
  BY DumpedClosed DEF DumpInv, Ordered
<1>4. QED
  BY <1>1, <1>2, <1>3 DEF Top

(* deflate is called for the next child.                                   *)
LEMMA DumpChild ==
    ASSUME Source, DumpInv, DeflateChild
    PROVE  DumpInv'
<1>1. /\ DumpSame /\ UNCHANGED <<device, stopped>> /\ Dumped' = Dumped
      /\ UNCHANGED <<parent, serializable, trouble>>
      /\ \A b : /\ ChildrenOf(b)' = ChildrenOf(b) /\ Children(b)' = Children(b)
                /\ CountAll(b)' = CountAll(b) /\ Record(b)' = Record(b)
  BY SameSource DEF DeflateChild, Dumping, DumpSame
<1>2. /\ stack # <<>> /\ Top.at = "children" /\ returned = Nothing /\ returned' = Nothing
      /\ Top.left < CountAll(Top.block)
      /\ stack' = <<Call(Children(Top.block)[Top.left + 1]), [Top EXCEPT !.left = @ + 1]>> \o Tail(stack)
  BY DEF DeflateChild, At
<1>3. /\ stack \in Seq(DumpCall) /\ Len(stack) \in Nat \ {0} /\ DOMAIN stack = 1 .. Len(stack)
      /\ Top = stack[1] /\ Top \in DumpCall /\ 1 \in DOMAIN stack
      /\ \A k \in DOMAIN stack : DumpCallFits(k) /\ DumpCallIsLast(k)
      /\ stack[Len(stack)].block = 0
      /\ Recorded(device) \subseteq Blocks
  BY <1>2, DumpTop
<1>4. PICK b, n, c, up : /\ b = stack[1].block /\ n = stack[1].left + 1 /\ c = Children(b)[n]
                         /\ up = [stack[1] EXCEPT !.left = @ + 1]
  OBVIOUS
<1>5. /\ stack[1] \in DumpCall /\ stack[1].at = "children"
      /\ b \in Blocks /\ n \in 1 .. CountAll(b) /\ stack[1].block = b /\ stack[1].left = n - 1
      /\ c = Children(b)[n]
      /\ c \in Blocks \ {0} /\ parent[c] = b
      /\ \A i, j \in 1 .. CountAll(b) : Children(b)[i] = Children(b)[j] => i = j
      /\ CountAll(b) \in Nat
  <2>1. b \in Blocks /\ stack[1].left \in Nat /\ stack[1].left < CountAll(b)
    BY <1>2, <1>3, <1>4 DEF DumpCall
  <2>2. CountAll(b) \in Nat
    BY <2>1, ChildrenProperties
  <2>3. n \in 1 .. CountAll(b) /\ stack[1].left = n - 1
    BY <1>4, <2>1, <2>2
  <2>4. c \in ChildrenOf(b)
    BY <1>4, <2>1, <2>3, ChildrenProperties
  <2>5. /\ c \in Blocks \ {0} /\ parent[c] = b
        /\ \A i, j \in 1 .. CountAll(b) : Children(b)[i] = Children(b)[j] => i = j
    BY <2>1, <2>4, ChildrenProperties
  <2>6. QED
    BY <1>2, <1>3, <1>4, <2>1, <2>2, <2>3, <2>5
<1>6. /\ up \in DumpCall /\ up.block = b /\ up.at = "children" /\ up.left = n
      /\ Call(c) \in DumpCall /\ Call(c).block = c /\ Call(c).at = "enter" /\ Call(c).left = 0
  <2>1. up.block = b /\ up.at = "children" /\ up.left = n /\ up \in DumpCall
    BY <1>4, <1>5 DEF DumpCall
  <2>2. QED
    BY <1>5, <2>1 DEF Call, DumpCall
<1>7. /\ stack' \in Seq(DumpCall) /\ Len(stack') = Len(stack) + 1
      /\ DOMAIN stack' = 1 .. Len(stack) + 1
      /\ stack'[1] = Call(c) /\ stack'[2] = up
      /\ \A k \in 1 .. Len(stack) + 1 : k > 2 => k - 1 \in 1 .. Len(stack) /\ stack'[k] = stack[k - 1]
  <2>1. stack' = <<Call(c), up>> \o Tail(stack)
    BY <1>2, <1>3, <1>4
  <2>2. /\ stack' \in Seq(DumpCall) /\ Len(stack') = Len(stack) + 1
        /\ stack'[1] = Call(c) /\ stack'[2] = up
        /\ \A k \in 1 .. Len(stack) + 1 : k > 2 => k - 1 \in 1 .. Len(stack) /\ stack'[k] = stack[k - 1]
    <3>1. stack \in Seq(DumpCall) /\ stack # <<>>
      BY <1>2, <1>3
    <3>2. up \in DumpCall /\ Call(c) \in DumpCall
      BY <1>6
    <3>3. QED
      BY <2>1, <3>1, <3>2, StackCall
  <2>3. DOMAIN stack' = 1 .. Len(stack')
    BY <2>2
  <2>4. QED
    BY <2>2, <2>3
<1>8. b \in Recorded(device) /\ c \notin Recorded(device)
  <2>1. b \in Recorded(device)
    BY <1>3, <1>5 DEF DumpCallFits
  <2>2. ASSUME c \in Recorded(device)
        PROVE  FALSE
    <3>1. PICK m \in 1 .. stack[1].left : c = Children(b)[m]
      <4>1. DumpCallIsLast(1)
        BY <1>3
      <4>2. QED
        BY <1>5, <2>2, <4>1 DEF DumpCallIsLast
    <3>2. m \in 1 .. CountAll(b) /\ m # n
      BY <1>3, <1>5
    <3>3. QED
      BY <1>5, <3>1, <3>2
  <2>3. QED
    BY <2>1, <2>2
<1>9. ASSUME NEW k \in DOMAIN stack'
      PROVE  DumpCallFits(k)' /\ DumpCallIsLast(k)'
  <2>1. CASE k = 1
    <3>1. stack'[k] = Call(c) /\ k < Len(stack') /\ stack'[k + 1] = up
      BY <1>3, <1>7, <2>1
    <3>2. DumpCallFits(k)'
      BY <1>1, <1>5, <1>6, <1>8, <2>1, <3>1 DEF DumpCallFits
    <3>3. DumpCallIsLast(k)'
      BY <1>6, <3>1 DEF DumpCallIsLast
    <3>4. QED
      BY <3>2, <3>3
  <2>2. CASE k = 2
    <3>1. stack'[k] = up /\ (k < Len(stack') => 1 < Len(stack) /\ stack'[k + 1] = stack[1 + 1])
      BY <1>3, <1>7, <2>2
    <3>2. DumpCallFits(1) /\ DumpCallIsLast(1) /\ stack[1].block = b /\ stack[1].left = n - 1
      BY <1>3, <1>5
    <3>3. DumpCallFits(k)'
      BY <1>1, <1>5, <1>6, <1>8, <2>2, <3>1, <3>2 DEF DumpCallFits
    <3>4. DumpCallIsLast(k)'
      <4>1. \A l \in 1 .. k - 1 : stack'[l].at = "enter"
        BY <1>6, <1>7, <2>2
      <4>2. \A x \in Recorded(device) \ {0} :
               /\ Place(device, b) < Place(device, x) => Place(device, b) <= Place(device, parent[x])
               /\ parent[x] = b => \E m \in 1 .. n - 1 : x = Children(b)[m]
        BY <1>2, <1>3, <3>2 DEF DumpCallIsLast
      <4>3. \A m \in 1 .. n - 1 : m \in 1 .. n
        BY <1>5
      <4>4. QED
        BY <1>1, <1>6, <3>1, <4>1, <4>2, <4>3 DEF DumpCallIsLast
    <3>5. QED
      BY <3>3, <3>4
  <2>3. CASE k > 2
    <3>1. PICK j \in DOMAIN stack : /\ j = k - 1 /\ j > 1 /\ stack'[k] = stack[j]
                                    /\ k < Len(stack') => j < Len(stack) /\ stack'[k + 1] = stack[j + 1]
      <4>1. /\ k - 1 \in DOMAIN stack /\ k - 1 > 1 /\ stack'[k] = stack[k - 1]
            /\ k < Len(stack') => k - 1 < Len(stack) /\ stack'[k + 1] = stack[k]
            /\ (k - 1) + 1 = k
        BY <1>3, <1>7, <2>3
      <4>2. QED
        BY <4>1
    <3>2. DumpCallFits(j) /\ DumpCallIsLast(j)
      BY <1>3, <3>1
    <3>3. DumpCallFits(k)'
      BY <1>1, <3>1, <3>2 DEF DumpCallFits
    <3>4. ASSUME NEW l \in 1 .. k - 1, stack'[l].at = "children"
          PROVE  \E i \in 1 .. j - 1 : stack'[l].block = stack[i].block /\ stack[i].at = "children"
      <4>1. l # 1
        BY <1>6, <1>7, <3>4
      <4>2. CASE l = 2
        <5>1. 1 \in 1 .. j - 1 /\ stack'[l].block = stack[1].block /\ stack[1].at = "children"
          BY <1>5, <1>6, <1>7, <3>1, <4>2
        <5>2. QED
          BY <5>1
      <4>3. CASE l > 2
        <5>1. l - 1 \in 1 .. j - 1 /\ stack'[l] = stack[l - 1]
          BY <1>3, <1>7, <3>1, <4>3
        <5>2. QED
          BY <3>4, <5>1
      <4>4. QED
        BY <4>1, <4>2, <4>3
    <3>5. DumpCallIsLast(k)'
      BY <1>1, <3>1, <3>2, <3>4 DEF DumpCallIsLast
    <3>6. QED
      BY <3>3, <3>5
  <2>4. QED
    BY <1>7, <2>1, <2>2, <2>3
<1>10. DumpStack'
  <2>1. stack'[Len(stack')].block = 0
    <3>1. CASE Len(stack) = 1
      BY <1>3, <1>5, <1>6, <1>7, <3>1
    <3>2. CASE Len(stack) > 1
      <4>1. Len(stack) + 1 > 2 /\ (Len(stack) + 1) - 1 = Len(stack) /\ Len(stack) + 1 \in 1 .. Len(stack) + 1
        BY <1>3, <3>2
      <4>2. QED
        BY <1>3, <1>7, <4>1
    <3>3. QED
      BY <1>3, <3>1, <3>2
  <2>2. returned' = Nothing
    BY <1>2
  <2>3. QED
    BY <1>7, <1>9, <2>1, <2>2 DEF DumpStack, DumpCall, Result
<1>11. ~ stopped' => DumpGoesOn'
  <2> SUFFICES ASSUME ~ stopped'
               PROVE  DumpGoesOn'
    OBVIOUS
  <2>1. DumpGoesOn
    BY <1>1 DEF DumpInv
  <2>2. \A x : stack[1] # Call(x)
    BY <1>2, <1>3 DEF Call
  <2>3. 0 \in serializable => 0 \in Recorded(device)
    BY <2>1, <2>2 DEF DumpGoesOn
  <2>4. ASSUME NEW x \in Recorded(device), NEW y \in ChildrenOf(x) \cap serializable
        PROVE  \/ y \in Recorded(device)
               \/ stack'[1] = Call(y)
               \/ \E k \in DOMAIN stack' : stack'[k].block = x /\
                    \E m \in stack'[k].left + 1 .. CountAll(x) : y = Children(x)[m]
    <3>1. SUFFICES ASSUME y \notin Recorded(device), stack'[1] # Call(y)
                   PROVE  \E k \in DOMAIN stack' : stack'[k].block = x /\
                            \E m \in stack'[k].left + 1 .. CountAll(x) : y = Children(x)[m]
      OBVIOUS
    <3>2. PICK k \in DOMAIN stack : stack[k].block = x /\
                  \E m \in stack[k].left + 1 .. CountAll(x) : y = Children(x)[m]
      BY <2>1, <2>2, <3>1 DEF DumpGoesOn
    <3>3. CASE k = 1
      <4>1. PICK m \in n .. CountAll(b) : y = Children(b)[m]
        BY <1>5, <3>2, <3>3
      <4>2. m # n
        BY <1>5, <1>7, <3>1, <4>1
      <4>3. m \in n + 1 .. CountAll(b)
        BY <1>5, <4>1, <4>2
      <4>4. 2 \in DOMAIN stack' /\ stack'[2].block = x /\ stack'[2].left = n /\ x = b
        BY <1>3, <1>5, <1>6, <1>7, <3>2, <3>3
      <4>5. QED
        BY <4>1, <4>3, <4>4
    <3>4. CASE k # 1
      <4>1. k + 1 \in DOMAIN stack' /\ stack'[k + 1] = stack[k]
        <5>1. k + 1 \in 1 .. Len(stack) + 1 /\ k + 1 > 2 /\ (k + 1) - 1 = k
          BY <1>3, <3>4
        <5>2. QED
          BY <1>7, <5>1
      <4>2. QED
        BY <3>2, <4>1
    <3>5. QED
      BY <3>3, <3>4
  <2>5. QED
    BY <1>1, <1>3, <1>7, <2>3, <2>4 DEF DumpGoesOn
<1>12. QED
  BY <1>1, <1>9, <1>10, <1>11 DEF DumpInv, DumpOrder, DumpSame
(* deflate dumps the record of a block.                                    *)
LEMMA DumpBlock ==
    ASSUME Source, DumpInv, DeflateBlock
    PROVE  DumpInv'
<1>1. /\ DumpSame /\ UNCHANGED <<returned, stopped>> /\ Dumped' = Dumped
      /\ UNCHANGED <<parent, serializable, trouble>>
      /\ \A b : /\ ChildrenOf(b)' = ChildrenOf(b) /\ Children(b)' = Children(b)
                /\ CountAll(b)' = CountAll(b) /\ Record(b)' = Record(b)
  BY SameSource DEF DeflateBlock, Dumping, DumpSame
<1>2. /\ stack # <<>> /\ Top.at = "enter" /\ Top.block \in serializable /\ returned = Nothing
      /\ device' = Append(device, Record(Top.block))
      /\ stack' = <<[Top EXCEPT !.at = "children"]>> \o Tail(stack)
  BY DEF DeflateBlock, At
<1>3. /\ stack \in Seq(DumpCall) /\ Len(stack) \in Nat \ {0} /\ DOMAIN stack = 1 .. Len(stack)
      /\ Top = stack[1] /\ Top \in DumpCall /\ 1 \in DOMAIN stack
      /\ \A k \in DOMAIN stack : stack[k] \in DumpCall /\ DumpCallFits(k) /\ DumpCallIsLast(k)
      /\ stack[Len(stack)].block = 0
      /\ Recorded(device) \subseteq Blocks /\ Ordered(device, Dumped, parent)
  BY <1>2, DumpTop
<1>4. /\ device \in Seq(RecordType) /\ \A i \in DOMAIN device : device[i] = Record(device[i].type)
      /\ \A i, j \in DOMAIN device : device[i].type = device[j].type => i = j
      /\ DOMAIN device = 1 .. Len(device) /\ Len(device) \in Nat
  BY <1>3 DEF DumpInv, Ordered
<1>5. PICK b, up, r : b = stack[1].block /\ up = [stack[1] EXCEPT !.at = "children"] /\ r = Record(b)
  OBVIOUS
<1>6. /\ stack[1].at = "enter" /\ stack[1].block = b /\ stack[1].left = 0
      /\ b \in Blocks /\ b \in serializable /\ b \notin Recorded(device)
      /\ r = Record(b) /\ r \in RecordType /\ r.type = b
  <2>1. stack[1].at = "enter" /\ stack[1].block = b /\ b \in Blocks /\ b \in serializable
    BY <1>2, <1>3, <1>5 DEF DumpCall
  <2>2. stack[1].left = 0 /\ b \notin Recorded(device)
    BY <1>3, <2>1 DEF DumpCallFits
  <2>3. r = Record(b) /\ r \in RecordType /\ r.type = b
    BY <1>5, <2>1, RecordFields
  <2>4. QED
    BY <2>1, <2>2, <2>3
<1>7. up \in DumpCall /\ up.block = b /\ up.at = "children" /\ up.left = 0
  <2>1. stack[1] \in DumpCall
    BY <1>3
  <2>2. QED
    BY <1>5, <1>6, <2>1 DEF DumpCall
<1>8. /\ stack' \in Seq(DumpCall) /\ Len(stack') = Len(stack) /\ DOMAIN stack' = DOMAIN stack
      /\ stack'[1] = up /\ \A k \in DOMAIN stack : k # 1 => stack'[k] = stack[k]
  <2>1. stack' = <<up>> \o Tail(stack) /\ stack \in Seq(DumpCall) /\ stack # <<>>
    BY <1>2, <1>3, <1>5
  <2>2. up \in DumpCall
    BY <1>7
  <2>3. /\ stack' \in Seq(DumpCall) /\ Len(stack') = Len(stack) /\ DOMAIN stack = 1 .. Len(stack)
        /\ stack'[1] = up /\ \A k \in 1 .. Len(stack) : k # 1 => stack'[k] = stack[k]
    BY <2>1, <2>2, StackReplace
  <2>4. DOMAIN stack' = 1 .. Len(stack')
    BY <2>3
  <2>5. QED
    BY <2>3, <2>4
<1>9. /\ device' \in Seq(RecordType) /\ Len(device') = Len(device) + 1
      /\ DOMAIN device' = 1 .. Len(device) + 1
      /\ device'[Len(device) + 1] = r /\ \A i \in DOMAIN device : device'[i] = device[i]
      /\ Recorded(device') = Recorded(device) \cup {b}
      /\ \A i, j \in DOMAIN device' : device'[i].type = device'[j].type => i = j
      /\ \A x \in Recorded(device) : Place(device', x) = Place(device, x) /\ Place(device, x) \in 1 .. Len(device)
      /\ Place(device', b) = Len(device) + 1
  <2>1. device' = Append(device, r) /\ device \in Seq(RecordType) /\ r \in RecordType
    BY <1>2, <1>3, <1>4, <1>5, <1>6
  <2>2. r.type \notin Recorded(device)
    BY <1>6
  <2>3. \A i, j \in DOMAIN device : device[i].type = device[j].type => i = j
    BY <1>4
  <2>4. /\ device' \in Seq(RecordType) /\ Len(device') = Len(device) + 1
        /\ Recorded(device') = Recorded(device) \cup {r.type}
        /\ \A i, j \in DOMAIN device' : device'[i].type = device'[j].type => i = j
        /\ \A x \in Recorded(device) : Place(device', x) = Place(device, x) /\ Place(device, x) \in 1 .. Len(device)
        /\ Place(device', r.type) = Len(device) + 1
    BY <2>1, <2>2, <2>3, PlacesStay
  <2>5. /\ DOMAIN device' = 1 .. Len(device) + 1
        /\ device'[Len(device) + 1] = r /\ \A i \in DOMAIN device : device'[i] = device[i]
    BY <2>1
  <2>6. QED
    BY <1>6, <2>4, <2>5
\* What is on the device already leaves the block its place behind it.
<1>10. /\ b \in Dumped /\ (device = <<>> => b = 0)
       /\ b # 0 =>
            /\ parent[b] \in Recorded(device)
            /\ \A x \in Recorded(device) \ {0} :
                  /\ Place(device, parent[b]) < Place(device, x) => Place(device, parent[b]) <= Place(device, parent[x])
                  /\ parent[x] = parent[b] => x < b
  <2>1. CASE Len(stack) = 1
    BY <1>3, <1>6, <2>1, DumpedClosed, SizeAssumption
  <2>2. CASE Len(stack) > 1
    <3>1. PICK p, n : p = stack[2].block /\ n = stack[2].left
      OBVIOUS
    <3>2. 2 \in DOMAIN stack /\ 1 < Len(stack) /\ DumpCallFits(1) /\ DumpCallFits(2) /\ DumpCallIsLast(2)
      BY <1>3, <2>2
    <3>3. b # 0 /\ parent[b] = p /\ n > 0 /\ b = Children(p)[n]
      BY <1>6, <3>1, <3>2 DEF DumpCallFits
    <3>4. /\ stack[2].at = "children" /\ stack[2].block = p /\ stack[2].left = n
          /\ p \in Recorded(device) /\ p \in Blocks /\ n <= CountAll(p)
      BY <1>3, <3>1, <3>2 DEF DumpCallFits
    <3>5. n \in 1 .. CountAll(p) /\ CountAll(p) \in Nat
      <4>1. n \in Nat
        BY <1>3, <3>1, <3>2 DEF DumpCall
      <4>2. QED
        BY <3>3, <3>4, <4>1, ChildrenProperties
    <3>6. b \in Dumped
      <4>1. p \in Dumped
        BY <1>3, <3>4 DEF Ordered
      <4>2. QED
        BY <1>6, <3>3, <4>1, DumpedClosed
    <3>7. device # <<>>
      BY <3>4 DEF Recorded
    <3>8. ASSUME NEW x \in Recorded(device) \ {0}
          PROVE  /\ Place(device, p) < Place(device, x) => Place(device, p) <= Place(device, parent[x])
                 /\ parent[x] = p => x < b
      <4>1. /\ Place(device, p) < Place(device, x) => Place(device, p) <= Place(device, parent[x])
            /\ parent[x] = p => \E m \in 1 .. n : x = Children(p)[m]
        BY <3>2, <3>4, <3>8 DEF DumpCallIsLast
      <4>2. ASSUME parent[x] = p
            PROVE  x < b
        <5>1. PICK m \in 1 .. n : x = Children(p)[m]
          BY <4>1, <4>2
        <5>2. m \in 1 .. CountAll(p) /\ m # n
          BY <1>6, <3>3, <3>5, <3>8, <5>1
        <5>3. m < n
          BY <3>5, <5>1, <5>2
        <5>4. QED
          BY <3>3, <3>4, <3>5, <5>1, <5>2, <5>3, ChildrenProperties
      <4>3. QED
        BY <4>1, <4>2
    <3>9. QED
      BY <3>3, <3>4, <3>6, <3>7, <3>8
  <2>3. QED
    BY <1>3, <2>1, <2>2
<1>11. Ordered(device', Dumped, parent)
  <2>1. /\ device' = Append(device, r) /\ device \in Seq(RecordType) /\ r \in RecordType
        /\ Dumped \subseteq Nat /\ Ordered(device, Dumped, parent)
        /\ r.type \in Dumped /\ r.type \notin Recorded(device) /\ (device = <<>> => r.type = 0)
    <3>1. Dumped \subseteq Nat
      BY DumpedClosed DEF Blocks
    <3>2. device' = Append(device, r)
      BY <1>2, <1>3, <1>5
    <3>3. QED
      BY <1>3, <1>4, <1>6, <1>10, <3>1, <3>2
  <2>2. r.type # 0 =>
            /\ parent[r.type] \in Recorded(device)
            /\ \A x \in Recorded(device) \ {0} :
                  /\ Place(device, parent[r.type]) < Place(device, x)
                        => Place(device, parent[r.type]) <= Place(device, parent[x])
                  /\ parent[x] = parent[r.type] => x < r.type
    BY <1>6, <1>10
  <2>3. QED
    BY <2>1, <2>2, OrderedAppend
<1>12. ASSUME NEW k \in DOMAIN stack'
       PROVE  DumpCallFits(k)' /\ DumpCallIsLast(k)'
  <2>1. k \in DOMAIN stack /\ DumpCallFits(k) /\ DumpCallIsLast(k) /\ Len(stack') = Len(stack) /\ k \in 1 .. Len(stack)
    BY <1>3, <1>8
  <2>2. /\ stack'[k].block = stack[k].block /\ stack'[k].left = stack[k].left
        /\ k # 1 => stack'[k] = stack[k] /\ stack[k].at = "children"
        /\ stack'[k].at = "children"
        /\ k < Len(stack) => stack'[k + 1] = stack[k + 1]
    BY <1>3, <1>6, <1>7, <1>8, <2>1 DEF DumpCallFits
  <2>3. DumpCallFits(k)'
    <3>1. stack'[k].block \in Recorded(device') /\ stack[k].left <= CountAll(stack[k].block)
      <4>1. CASE k = 1
        BY <1>6, <1>9, <2>2, <4>1, ChildrenProperties
      <4>2. CASE k # 1
        BY <1>9, <2>1, <2>2, <4>2 DEF DumpCallFits
      <4>3. QED
        BY <4>1, <4>2
    <3>2. QED
      BY <1>1, <2>1, <2>2, <3>1 DEF DumpCallFits
  <2>4. DumpCallIsLast(k)'
    <3>1. ASSUME NEW l \in 1 .. k - 1
          PROVE  Place(device', stack'[k].block) < Place(device', stack'[l].block)
      <4>1. k # 1 /\ l \in DOMAIN stack /\ stack[k].block \in Recorded(device) /\ stack'[k] = stack[k]
        BY <1>3, <2>1, <2>2, <3>1 DEF DumpCallFits
      <4>2. CASE l = 1
        <5>1. /\ Place(device', stack'[k].block) = Place(device, stack[k].block)
              /\ Place(device, stack[k].block) \in 1 .. Len(device)
          BY <1>9, <4>1
        <5>2. Place(device', stack'[l].block) = Len(device) + 1
          BY <1>7, <1>8, <1>9, <4>2
        <5>3. QED
          BY <1>4, <5>1, <5>2
      <4>3. CASE l # 1
        <5>1. DumpCallFits(l) /\ stack'[l] = stack[l]
          BY <1>3, <1>8, <4>1, <4>3
        <5>2. stack[l].at = "children" /\ stack[l].block \in Recorded(device)
          BY <1>3, <3>1, <4>1, <4>3, <5>1 DEF DumpCallFits
        <5>3. Place(device, stack[k].block) < Place(device, stack[l].block)
          BY <2>1, <2>2, <3>1, <4>1, <5>2 DEF DumpCallIsLast
        <5>4. QED
          BY <1>9, <4>1, <5>1, <5>2, <5>3
      <4>4. QED
        BY <4>2, <4>3
    <3>2. ASSUME NEW x \in Recorded(device') \ {0}
          PROVE  /\ Place(device', stack'[k].block) < Place(device', x)
                       => Place(device', stack'[k].block) <= Place(device', parent[x])
                 /\ parent[x] = stack'[k].block =>
                       \E m \in 1 .. stack'[k].left : x = Children(stack'[k].block)[m]
      <4>1. CASE k = 1
        <5>1. stack'[k].block = b /\ Place(device', b) = Len(device) + 1
          BY <1>7, <1>8, <1>9, <4>1
        <5>2. Place(device', x) \in 1 .. Len(device) + 1
          BY <1>4, <1>9, <3>2
        <5>3. parent[x] # b
          <6>1. x \in Recorded(device) => parent[x] \in Recorded(device)
            BY <1>3, <3>2 DEF Ordered
          <6>2. x = b => parent[x] \in Recorded(device)
            BY <1>10, <3>2
          <6>3. QED
            BY <1>6, <1>9, <3>2, <6>1, <6>2
        <5>4. QED
          BY <1>4, <5>1, <5>2, <5>3
      <4>2. CASE k # 1
        <5>1. PICK p : p = stack[k].block
          OBVIOUS
        <5>2. /\ stack'[k].block = p /\ stack'[k].left = stack[k].left /\ p \in Recorded(device)
              /\ stack[k].block = p /\ stack[k].at = "children"
          BY <2>1, <2>2, <4>2, <5>1 DEF DumpCallFits
        <5>3. CASE x \in Recorded(device)
          <6>1. parent[x] \in Recorded(device)
            BY <1>3, <3>2, <5>3 DEF Ordered
          <6>2. /\ Place(device, p) < Place(device, x) => Place(device, p) <= Place(device, parent[x])
                /\ parent[x] = p => \E m \in 1 .. stack[k].left : x = Children(p)[m]
            BY <2>1, <3>2, <5>2, <5>3 DEF DumpCallIsLast
          <6>3. QED
            BY <1>9, <5>2, <5>3, <6>1, <6>2
        <5>4. CASE x = b
          <6>1. /\ 1 < Len(stack) /\ 2 \in DOMAIN stack /\ DumpCallFits(1) /\ DumpCallFits(2)
                /\ stack[2] \in DumpCall
            BY <1>3, <2>1, <4>2
          <6>2. /\ parent[b] = stack[2].block /\ stack[2].left \in Nat /\ stack[2].left > 0
                /\ b = Children(stack[2].block)[stack[2].left]
                /\ stack[2].at = "children"
            BY <1>6, <6>1 DEF DumpCallFits, DumpCall
          <6>3. k # 2 => Place(device, p) < Place(device, parent[b])
            <7>1. k # 2 => 2 \in 1 .. k - 1
              BY <2>1, <4>2
            <7>2. QED
              BY <2>1, <5>2, <6>2, <7>1 DEF DumpCallIsLast
          <6>4. parent[b] \in Recorded(device)
            BY <1>10, <3>2, <5>4
          <6>5. Place(device', p) <= Place(device', parent[b])
            <7>1. /\ Place(device', p) = Place(device, p) /\ Place(device', parent[b]) = Place(device, parent[b])
                  /\ Place(device, p) \in 1 .. Len(device) /\ Place(device, parent[b]) \in 1 .. Len(device)
              BY <1>9, <5>2, <6>4
            <7>2. k = 2 => p = parent[b]
              BY <5>2, <6>2
            <7>3. QED
              BY <1>4, <6>3, <7>1, <7>2
          <6>6. parent[b] = p => k = 2
            <7>1. Place(device, p) \in Int
              BY <1>4, <1>9, <5>2
            <7>2. QED
              BY <6>3, <7>1
          <6>7. parent[b] = p => stack[k].left \in 1 .. stack[k].left /\ b = Children(p)[stack[k].left]
            BY <5>2, <6>2, <6>6
          <6>8. QED
            BY <5>2, <5>4, <6>5, <6>7
        <5>5. QED
          BY <1>9, <3>2, <5>3, <5>4
      <4>3. QED
        BY <4>1, <4>2
    <3>3. QED
      BY <1>1, <2>2, <3>1, <3>2 DEF DumpCallIsLast
  <2>5. QED
    BY <2>3, <2>4
<1>13. DumpStack'
  <2>1. stack'[Len(stack')].block = 0 /\ stack'[1].at = "children"
    BY <1>3, <1>6, <1>7, <1>8
  <2>2. returned' = Nothing
    BY <1>1, <1>2
  <2>3. QED
    BY <1>8, <1>12, <2>1, <2>2 DEF DumpStack, DumpCall, Result
<1>14. ~ stopped' => DumpGoesOn'
  <2> SUFFICES ASSUME ~ stopped'
               PROVE  DumpGoesOn'
    OBVIOUS
  <2>1. DumpGoesOn
    BY <1>1 DEF DumpInv
  <2>2. \A x : stack[1] = Call(x) => x = b
    BY <1>6 DEF Call
  <2>3. 0 \in serializable => 0 \in Recorded(device')
    BY <1>9, <2>1, <2>2 DEF DumpGoesOn
  <2>4. ASSUME NEW x \in Recorded(device'), NEW y \in ChildrenOf(x) \cap serializable
        PROVE  \/ y \in Recorded(device')
               \/ \E k \in DOMAIN stack' : stack'[k].block = x /\
                    \E m \in stack'[k].left + 1 .. CountAll(x) : y = Children(x)[m]
    <3>1. CASE x = b
      <4>1. PICK m \in 1 .. CountAll(b) : y = Children(b)[m]
        BY <1>6, <2>4, <3>1, ChildrenProperties
      <4>2. 1 \in DOMAIN stack' /\ stack'[1].block = b /\ stack'[1].left = 0
        BY <1>3, <1>7, <1>8
      <4>3. m \in 0 + 1 .. CountAll(b)
        BY <4>1
      <4>4. QED
        BY <3>1, <4>1, <4>2, <4>3
    <3>2. CASE x # b
      <4>1. x \in Recorded(device)
        BY <1>9, <2>4, <3>2
      <4>2. CASE y \in Recorded(device) \/ y = b
        BY <1>9, <4>2
      <4>3. CASE ~ (y \in Recorded(device) \/ y = b)
        <5>1. PICK k \in DOMAIN stack : stack[k].block = x /\
                     \E m \in stack[k].left + 1 .. CountAll(x) : y = Children(x)[m]
          BY <2>1, <2>2, <2>4, <4>1, <4>3 DEF DumpGoesOn
        <5>2. k # 1
          BY <1>6, <3>2, <5>1
        <5>3. QED
          BY <1>8, <5>1, <5>2
      <4>4. QED
        BY <4>2, <4>3
    <3>3. QED
      BY <3>1, <3>2
  <2>5. QED
    BY <1>1, <2>3, <2>4 DEF DumpGoesOn
<1>15. \A i \in DOMAIN device' : device'[i] = Record(device'[i].type)
  BY <1>4, <1>6, <1>9
<1>16. QED
  <2>1. DumpOrder'
    BY <1>12 DEF DumpOrder
  <2>2. /\ whole' /\ cut' = NoBlock /\ position' = 0 /\ built' = <<>> /\ kept' = {}
    BY <1>1 DEF DumpInv, DumpSame
  <2>3. Ordered(device, Dumped, parent)'
    BY <1>1, <1>11
  <2>4. (\A i \in DOMAIN device : device[i] = Record(device[i].type))'
    BY <1>1, <1>15
  <2>5. QED
    BY <1>9, <1>13, <1>14, <2>1, <2>2, <2>3, <2>4 DEF DumpInv
LEMMA DumpStep ==
    ASSUME Source, DumpInv, Deflate
    PROVE  DumpInv'
<1>1. CASE DeflateBlock
  BY <1>1, DumpBlock
<1>2. CASE DeflateChild
  BY <1>2, DumpChild
<1>3. CASE DeflateNext
  <2>1. /\ UNCHANGED <<device, stack, stopped, position, built, kept, whole, cut>> /\ Dumped' = Dumped
        /\ UNCHANGED <<parent, serializable, trouble>>
        /\ \A b : /\ ChildrenOf(b)' = ChildrenOf(b) /\ Children(b)' = Children(b)
                  /\ CountAll(b)' = CountAll(b) /\ Record(b)' = Record(b)
        /\ returned' = Nothing
    BY <1>3, SameSource DEF DeflateNext, Dumping
  <2>2. \A k : DumpCallFits(k)' = DumpCallFits(k)
    BY <2>1 DEF DumpCallFits
  <2>3. DumpOrder' = DumpOrder
    BY <2>1 DEF DumpOrder, DumpCallIsLast
  <2>4. DumpGoesOn' = DumpGoesOn
    BY <2>1 DEF DumpGoesOn
  <2>5. DumpStack'
    BY <2>1, <2>2 DEF DumpInv, DumpStack
  <2>6. QED
    BY <2>1, <2>3, <2>4, <2>5 DEF DumpInv
<1>4. ASSUME DeflateCanceled \/ DeflateSkipped \/ DeflateDone
      PROVE  DumpInv'
  <2>1. /\ stack # <<>> /\ DumpSame /\ UNCHANGED device /\ stack' = Tail(stack)
        /\ \E result \in Result : returned' = [result |-> result, block |-> NoBlock]
        /\ stopped => stopped'
    BY <1>4 DEF DeflateCanceled, DeflateSkipped, DeflateDone, Dumping, DumpSame, At, Return, Result
  <2>2. Top = stack[1]
    BY <2>1, DumpTop
  <2>3. ~ stopped' =>
              /\ stack[1].at = "enter" => stack[1].block \notin serializable
              /\ stack[1].at = "children" => stack[1].left = CountAll(stack[1].block)
    BY <1>4, <2>2 DEF DeflateCanceled, DeflateSkipped, DeflateDone, At
  <2>4. returned' \in [result : Result, block : {NoBlock}]
    BY <2>1
  <2>5. QED
    BY <2>1, <2>3, <2>4, DumpReturns
<1>5. QED
  BY <1>1, <1>2, <1>3, <1>4 DEF Deflate

(* Nothing is dumped when deflate is called for the root.                  *)
LEMMA DumpStarts ==
    ASSUME Init
    PROVE  Source /\ DumpInv
<1>1. Source
  <2>1. \A b \in Blocks \ {0} : parent[b] < b
    BY DEF Init
  <2>2. QED
    BY <2>1 DEF Init, Source
<1>2. /\ device = <<>> /\ position = 0 /\ stack = <<Call(0)>> /\ returned = Nothing
      /\ built = <<>> /\ kept = {} /\ ~ stopped /\ whole = TRUE /\ cut = NoBlock
  BY DEF Init
<1>3. Recorded(device) = {} /\ device \in Seq(RecordType) /\ DOMAIN device = {}
  BY <1>2 DEF Recorded
<1>4. Ordered(device, Dumped, parent)
  BY <1>2, <1>3 DEF Ordered
<1>5. /\ Call(0) \in DumpCall /\ Call(0).at = "enter" /\ Call(0).block = 0 /\ Call(0).left = 0
  BY SizeAssumption DEF Call, DumpCall, Blocks
<1>6. DOMAIN stack = {1} /\ stack[1] = Call(0) /\ stack \in Seq(DumpCall) /\ Len(stack) = 1
  BY <1>2, <1>5
<1>7. \A k \in DOMAIN stack : DumpCallFits(k) /\ DumpCallIsLast(k)
  BY <1>3, <1>5, <1>6 DEF DumpCallFits, DumpCallIsLast
<1>8. DumpStack /\ DumpOrder
  BY <1>2, <1>5, <1>6, <1>7 DEF DumpStack, DumpOrder
<1>9. DumpGoesOn
  BY <1>3, <1>6 DEF DumpGoesOn
<1>10. QED
  BY <1>1, <1>2, <1>3, <1>4, <1>8, <1>9 DEF DumpInv

-----------------------------------------------------------------------------
(* What is loaded.                                                         *)

LEMMA CutRecords ==
    ASSUME NEW r \in RecordType, NEW place \in CutPlaces(r)
    PROVE  /\ Cut(r, place) \in RecordType /\ Cut(r, place).type = r.type
           /\ Cut(r, place).childrenNb \in {r.childrenNb, 0}
<1>1. place \in {"after type", "after propertiesNb", "in property", "in value"}
  BY DEF CutPlaces
<1>2. CASE place = "after type"
  BY <1>2 DEF Cut, RecordType
<1>3. CASE place = "after propertiesNb"
  BY <1>3 DEF Cut, RecordType
<1>4. CASE place = "in property"
  BY <1>4 DEF Cut, RecordType
<1>5. CASE place = "in value"
  BY <1>5 DEF Cut, RecordType
<1>6. QED
  BY <1>1, <1>2, <1>3, <1>4, <1>5

(* What the application loads.                                             *)
LEMMA DeviceLoaded ==
    ASSUME Source, DumpInv, StartLoading
    PROVE  DeviceInv'
<1>1. /\ UNCHANGED source /\ Dumped' = Dumped /\ parent' = parent
      /\ \A b : CountToWrite(b)' = CountToWrite(b) /\ Record(b)' = Record(b)
  BY SameSource DEF StartLoading
<1>2. /\ device \in Seq(RecordType) /\ \A i \in DOMAIN device : device[i] = Record(device[i].type)
      /\ Ordered(device, Dumped, parent)
      /\ whole /\ cut = NoBlock /\ stack = <<>> /\ (~ stopped => DumpGoesOn) /\ stopped' = stopped
  BY DEF DumpInv, StartLoading
<1>3. /\ \A i \in DOMAIN device : device[i] \in RecordType /\ device[i].type \in Blocks
      /\ DOMAIN device = 1 .. Len(device) /\ Len(device) \in Nat
      /\ Recorded(device) \subseteq Blocks
  <2>1. /\ \A i \in DOMAIN device : device[i] \in RecordType
        /\ DOMAIN device = 1 .. Len(device) /\ Len(device) \in Nat
    BY <1>2
  <2>2. \A i \in DOMAIN device : device[i].type \in Blocks
    BY <2>1 DEF RecordType
  <2>3. QED
    BY <2>1, <2>2 DEF Recorded
<1>4. \A i \in DOMAIN device : /\ device[i].childrenNb = CountToWrite(device[i].type)
                               /\ device[i].type \in Owning => device[i].properties # {} /\ device[i].value
  <2>1. \A i \in DOMAIN device : /\ Record(device[i].type).childrenNb = CountToWrite(device[i].type)
                                 /\ device[i].type \in Owning => Record(device[i].type).properties # {}
                                 /\ Record(device[i].type).value
    BY <1>3, RecordFields
  <2>2. QED
    BY <1>2, <2>1
<1>5. CASE UNCHANGED <<device, whole, cut>>
  <2>1. ASSUME ~ stopped
        PROVE  Dumped \subseteq Recorded(device)
    <3>1. DumpGoesOn
      BY <1>2, <2>1
    <3>2. 0 \in serializable => 0 \in Recorded(device)
      BY <1>2, <3>1 DEF DumpGoesOn
    <3>3. ASSUME NEW c \in serializable \ {0}, parent[c] \in Recorded(device)
          PROVE  c \in Recorded(device)
      <4>1. c \in ChildrenOf(parent[c])
        BY <3>3 DEF ChildrenOf, Source
      <4>2. DOMAIN stack = {}
        BY <1>2
      <4>3. QED
        BY <1>2, <3>1, <3>3, <4>1, <4>2 DEF DumpGoesOn
    <3>4. QED
      BY <1>3, <3>2, <3>3, DumpedClosed
  <2>2. (\A i \in DOMAIN device : device[i] = Record(device[i].type))'
    BY <1>1, <1>2, <1>5
  <2>3. (\A i \in DOMAIN device :
          /\ device[i].childrenNb = CountToWrite(device[i].type)
          /\ device[i].type \in Owning \ {cut} => device[i].properties # {} /\ device[i].value)'
    BY <1>1, <1>4, <1>5
  <2>4. Ordered(device, Dumped, parent)'
    BY <1>1, <1>2, <1>5
  <2>5. (~ stopped => Dumped \subseteq Recorded(device))'
    BY <1>1, <1>2, <1>5, <2>1
  <2>6. QED
    BY <1>2, <1>5, <2>2, <2>3, <2>4, <2>5 DEF DeviceInv
<1>6. ASSUME NEW n \in 0 .. Len(device) - 1, ~ whole',
             device' = SubSeq(device, 1, n) /\ cut' = cut
      PROVE  DeviceInv'
  <2>1. /\ device' \in Seq(RecordType) /\ Len(device') = n /\ n <= Len(device)
        /\ DOMAIN device' = 1 .. n /\ \A i \in 1 .. n : i \in DOMAIN device /\ device'[i] = device[i]
    BY <1>2, <1>3, <1>6
  <2>2. Ordered(device', Dumped, parent)
    BY <1>2, <2>1, OrderedPrefix
  <2>3. (\A i \in DOMAIN device :
          /\ device[i].childrenNb = CountToWrite(device[i].type)
          /\ device[i].type \in Owning \ {cut} => device[i].properties # {} /\ device[i].value)'
    BY <1>1, <1>4, <2>1
  <2>4. QED
    BY <1>1, <1>6, <2>1, <2>2, <2>3 DEF DeviceInv
<1>7. ASSUME NEW n \in 0 .. Len(device) - 1, ~ whole', NEW place \in CutPlaces(device[n + 1]),
             device' = Append(SubSeq(device, 1, n), Cut(device[n + 1], place)),
             cut' = device[n + 1].type
      PROVE  DeviceInv'
  <2>1. PICK r : r = Cut(device[n + 1], place)
    OBVIOUS
  <2>2. /\ r \in RecordType /\ r.type = device[n + 1].type
        /\ r.childrenNb \in {device[n + 1].childrenNb, 0} /\ n + 1 \in DOMAIN device
    <3>1. n + 1 \in DOMAIN device /\ device[n + 1] \in RecordType
      BY <1>3, <1>7
    <3>2. QED
      BY <1>7, <2>1, <3>1, CutRecords
  <2>3. /\ device' \in Seq(RecordType) /\ Len(device') = n + 1 /\ n + 1 <= Len(device)
        /\ DOMAIN device' = 1 .. n + 1
        /\ device'[n + 1] = r
        /\ \A i \in 1 .. n + 1 : i \in DOMAIN device /\ (i # n + 1 => device'[i] = device[i])
    BY <1>2, <1>3, <1>7, <2>1, <2>2
  <2>4. \A i \in 1 .. n + 1 : device'[i].type = device[i].type
    BY <2>2, <2>3
  <2>5. Ordered(device', Dumped, parent)
    BY <1>2, <2>3, <2>4, OrderedPrefix
  <2>6. ASSUME NEW i \in 1 .. n + 1
        PROVE  /\ \/ device'[i].childrenNb = CountToWrite(device'[i].type)
                  \/ i = n + 1 /\ device'[i].type = cut' /\ device'[i].childrenNb = 0
               /\ device'[i].type \in Owning \ {cut'} => device'[i].properties # {} /\ device'[i].value
    BY <1>4, <1>7, <2>2, <2>3
  <2>7. QED
    BY <1>1, <1>7, <2>3, <2>5, <2>6 DEF DeviceInv
<1>8. QED
  BY <1>5, <1>6, <1>7 DEF StartLoading
-----------------------------------------------------------------------------
(* The calls of inflate.                                                   *)

(* What was read is the beginning of the device.                           *)
LEMMA WhatIsTaken ==
    ASSUME Source, DeviceInv, position \in 0 .. Len(device)
    PROVE  /\ DOMAIN device = 1 .. Len(device) /\ Len(device) \in Nat
           /\ \A i, j \in DOMAIN device : device[i].type = device[j].type => i = j
           /\ \A i \in DOMAIN device : device[i].type \in Recorded(device) /\ Place(device, device[i].type) = i
           /\ \A b \in Recorded(device) : /\ Place(device, b) \in 1 .. Len(device)
                                          /\ device[Place(device, b)].type = b
           /\ Recorded(device) \subseteq Dumped /\ Dumped \subseteq Blocks
           /\ Taken \subseteq Recorded(device) /\ NoBlock \notin Taken
           /\ \A b \in Recorded(device) : b \in Taken <=> Place(device, b) <= position
           /\ \A b \in Recorded(device) \ {0} :
                 parent[b] \in Recorded(device) /\ Place(device, parent[b]) < Place(device, b)
<1>1. device \in Seq(RecordType) /\ Ordered(device, Dumped, parent)
  BY DEF DeviceInv
<1>2. /\ DOMAIN device = 1 .. Len(device) /\ Len(device) \in Nat
      /\ \A i, j \in DOMAIN device : device[i].type = device[j].type => i = j
      /\ Recorded(device) \subseteq Dumped
      /\ \A b \in Recorded(device) \ {0} :
            parent[b] \in Recorded(device) /\ Place(device, parent[b]) < Place(device, b)
  BY <1>1 DEF Ordered
<1>3. /\ \A i \in DOMAIN device : device[i].type \in Recorded(device) /\ Place(device, device[i].type) = i
      /\ \A b \in Recorded(device) : /\ Place(device, b) \in 1 .. Len(device)
                                     /\ device[Place(device, b)].type = b
  BY <1>2, PlaceOf
<1>4. Dumped \subseteq Blocks
  BY DumpedClosed
<1>5. \A i \in 1 .. position : i \in DOMAIN device
  BY <1>2
<1>6. Taken \subseteq Recorded(device)
  BY <1>3, <1>5 DEF Taken
<1>7. ASSUME NEW b \in Recorded(device)
      PROVE  b \in Taken <=> Place(device, b) <= position
  <2>1. ASSUME b \in Taken
        PROVE  Place(device, b) <= position
    <3>1. PICK i \in 1 .. position : device[i].type = b
      BY <2>1 DEF Taken
    <3>2. Place(device, b) = i
      BY <1>3, <1>5, <3>1
    <3>3. QED
      BY <3>2
  <2>2. ASSUME Place(device, b) <= position
        PROVE  b \in Taken
    <3>1. PICK i : i = Place(device, b)
      OBVIOUS
    <3>2. i \in 1 .. position /\ device[i].type = b
      BY <1>2, <1>3, <2>2, <3>1
    <3>3. QED
      BY <3>2 DEF Taken
  <2>3. QED
    BY <2>1, <2>2
<1>8. NoBlock \notin Taken
  BY <1>2, <1>4, <1>6, SizeAssumption
<1>9. QED
  BY <1>2, <1>3, <1>4, <1>6, <1>7, <1>8

(* The block of a later call was read later than that of an earlier one.   *)
LEMMA LaterIsAfter ==
    ASSUME Source, DeviceInv, position \in 0 .. Len(device),
           NEW a \in Taken, NEW b \in Taken, NEW c \in Taken
    PROVE  /\ After(a, b) => a # b
           /\ After(a, b) /\ After(b, c) => After(a, c)
           /\ ~ (After(a, b) /\ After(b, a))
<1>1. Place(device, a) \in Nat /\ Place(device, b) \in Nat /\ Place(device, c) \in Nat
  BY WhatIsTaken
<1>2. QED
  BY <1>1 DEF After

LoadSame == UNCHANGED <<source, device, whole, cut>>

LEMMA DeviceStays ==
    ASSUME DeviceInv, LoadSame, stopped => stopped'
    PROVE  /\ DeviceInv' /\ Dumped' = Dumped /\ Recorded(device)' = Recorded(device)
           /\ UNCHANGED <<device, whole, cut, parent, serializable, trouble>>
           /\ \A b, c : After(b, c)' = After(b, c) /\ Kids(b)' = Kids(b)
           /\ \A i, b : (device[i] = Record(b))' = (device[i] = Record(b))
<1>1. /\ UNCHANGED <<device, whole, cut, parent, serializable, trouble>> /\ Dumped' = Dumped
      /\ \A b : ChildrenOf(b)' = ChildrenOf(b) /\ CountToWrite(b)' = CountToWrite(b) /\ Record(b)' = Record(b)
  BY SameSource DEF LoadSame
<1>2. Recorded(device)' = Recorded(device)
  BY <1>1
<1>3. DeviceInv'
  BY <1>1, <1>2 DEF DeviceInv
<1>4. \A b, c : After(b, c)' = After(b, c) /\ Kids(b)' = Kids(b)
  BY <1>1 DEF After, Kids
<1>5. QED
  BY <1>1, <1>2, <1>3, <1>4

LEMMA StackFacts ==
    ASSUME Source, DeviceInv, LoadStack
    PROVE  /\ stack \in Seq(LoadCall) /\ DOMAIN stack = 1 .. Len(stack) /\ Len(stack) \in Nat
           /\ \A k \in DOMAIN stack : /\ stack[k] \in LoadCall /\ LoadCallFits(k)
                                      /\ stack[k].at \in {"enter", "children"}
           /\ \A k \in DOMAIN stack : k \in Calls <=> stack[k].at = "children"
           /\ \A k \in DOMAIN stack : k > 1 => k \in Calls
           /\ \A k \in Calls : k \in DOMAIN stack /\ stack[k].block \in Taken
           /\ stack # <<>> => Top = stack[1] /\ 1 \in DOMAIN stack /\ Len(stack) > 0
           /\ returned = Nothing => returned.block = NoBlock /\ returned.result = "none"
           /\ returned.block \in Taken \cup {NoBlock} /\ NoBlock \notin Taken
           /\ \A j, k \in Calls : stack[j].block = stack[k].block => j = k
<1>1. /\ stack \in Seq(LoadCall) /\ position \in 0 .. Len(device)
      /\ \A k \in DOMAIN stack : LoadCallFits(k)
      /\ returned \in {Nothing} \cup [result : Result, block : Taken \cup {NoBlock}]
  BY DEF LoadStack
<1>2. DOMAIN stack = 1 .. Len(stack) /\ Len(stack) \in Nat /\ \A k \in DOMAIN stack : stack[k] \in LoadCall
  BY <1>1
<1>3. \A k \in DOMAIN stack : k \in Calls <=> stack[k].at = "children"
  BY DEF Calls
<1>4. \A k \in DOMAIN stack : k > 1 => k \in Calls
  BY <1>1, <1>3 DEF LoadCallFits
<1>5. \A k \in Calls : k \in DOMAIN stack /\ stack[k].block \in Taken
  BY <1>1 DEF LoadCallFits, Calls
<1>6. stack # <<>> => Top = stack[1] /\ 1 \in DOMAIN stack /\ Len(stack) > 0
  BY <1>1, <1>2 DEF Top
<1>7. /\ returned = Nothing => returned.block = NoBlock /\ returned.result = "none"
      /\ returned.block \in Taken \cup {NoBlock}
  BY <1>1 DEF Nothing
<1>8. ASSUME NEW j \in Calls, NEW k \in Calls, stack[j].block = stack[k].block
      PROVE  j = k
  <2>1. /\ \A l \in DOMAIN stack : j < l => After(stack[l].block, stack[j].block)
        /\ \A l \in DOMAIN stack : k < l => After(stack[l].block, stack[k].block)
        /\ j \in 1 .. Len(stack) /\ k \in 1 .. Len(stack)
    BY <1>1, <1>2, <1>8 DEF Calls, LoadCallFits
  <2>2. ~ (j < k) /\ ~ (k < j)
    BY <1>1, <1>2, <1>5, <1>8, <2>1, LaterIsAfter
  <2>3. QED
    BY <1>2, <2>1, <2>2
<1>9. NoBlock \notin Taken
  BY <1>1, WhatIsTaken
<1>10. \A k \in DOMAIN stack : stack[k].at \in {"enter", "children"}
  BY <1>2 DEF LoadCall
<1>11. QED
  BY <1>1, <1>2, <1>3, <1>4, <1>5, <1>6, <1>7, <1>8, <1>9, <1>10

(* A call of inflate returns.                                              *)
LEMMA LoadReturns ==
    ASSUME Source, DeviceInv, LoadStack, LoadSame, stopped => stopped', stack # <<>>,
           NEW result \in Result \ {"Skipped"}, NEW block, Return(result, block),
           position' \in position .. Len(device), block \in Taken' \cup {NoBlock},
           result = "Success" => block # NoBlock,
           result = "Canceled" => stopped' /\ block = NoBlock,
           block # NoBlock => \A k \in DOMAIN stack : k > 1 => After(stack[k].block, block)
    PROVE  /\ LoadStack'
           /\ InHand' = {stack[k].block : k \in DOMAIN stack \ {1}} \cup ({block} \ {NoBlock})
           /\ returned'.result = result /\ returned'.block = block /\ returned' # Nothing
           /\ \A k \in DOMAIN stack' : /\ k + 1 \in DOMAIN stack /\ stack'[k] = stack[k + 1]
                                       /\ stack'[k].at = "children"
           /\ \A k \in DOMAIN stack : k > 1 => k - 1 \in DOMAIN stack' /\ stack'[k - 1] = stack[k]
           /\ Taken \subseteq Taken'
<1>1. stack' = Tail(stack) /\ returned' = [result |-> result, block |-> block]
  BY DEF Return
<1>2. returned'.result = result /\ returned'.block = block /\ returned' # Nothing
  BY <1>1 DEF Nothing, Result
<1>3. /\ stack \in Seq(LoadCall) /\ DOMAIN stack = 1 .. Len(stack) /\ Len(stack) \in Nat \ {0}
      /\ \A k \in DOMAIN stack : LoadCallFits(k) /\ (k > 1 => stack[k].at = "children")
      /\ position \in 0 .. Len(device)
  BY StackFacts DEF LoadStack, LoadCallFits
<1>4. /\ stack' \in Seq(LoadCall) /\ DOMAIN stack' = 1 .. Len(stack) - 1 /\ Len(stack') = Len(stack) - 1
      /\ \A k \in 1 .. Len(stack) - 1 : stack'[k] = stack[k + 1]
  BY <1>1, <1>3, StackTail
<1>5. /\ \A k \in DOMAIN stack' : /\ k + 1 \in DOMAIN stack /\ stack'[k] = stack[k + 1]
                                  /\ k + 1 > 1 /\ stack'[k].at = "children"
      /\ \A k \in DOMAIN stack : k > 1 => k - 1 \in DOMAIN stack' /\ stack'[k - 1] = stack[k]
  <2>1. /\ \A k \in DOMAIN stack' : k + 1 \in DOMAIN stack /\ stack'[k] = stack[k + 1] /\ k + 1 > 1
        /\ \A k \in DOMAIN stack : k > 1 =>
              k - 1 \in DOMAIN stack' /\ (k - 1) + 1 = k /\ stack'[k - 1] = stack[(k - 1) + 1]
    BY <1>3, <1>4
  <2>2. QED
    BY <1>3, <2>1
<1>6. /\ Taken \subseteq Taken' /\ position' \in 0 .. Len(device) /\ device' = device
      /\ \A b, c : After(b, c)' = After(b, c)
  <2>1. \A i \in 1 .. position : i \in 1 .. position'
    BY <1>3
  <2>2. QED
    BY <1>3, <2>1, DeviceStays DEF Taken
<1>7. ASSUME NEW k \in DOMAIN stack'
      PROVE  LoadCallFits(k)'
  <2>1. PICK j \in DOMAIN stack : j = k + 1 /\ j > 1 /\ stack'[k] = stack[j] /\ stack[j].at = "children"
    BY <1>5
  <2>2. LoadCallFits(j)
    BY <1>3, <2>1
  <2>3. stack[j].block \in Taken' /\ (block # NoBlock => After(stack[j].block, block))
    BY <1>6, <2>1, <2>2 DEF LoadCallFits
  <2>4. ASSUME NEW l \in DOMAIN stack', k < l
        PROVE  After(stack'[l].block, stack'[k].block)
    <3>1. PICK i \in DOMAIN stack : i = l + 1 /\ stack'[l] = stack[i]
      BY <1>5
    <3>2. j < i
      BY <1>4, <2>1, <2>4, <3>1
    <3>3. QED
      BY <2>1, <2>2, <3>1, <3>2 DEF LoadCallFits
  <2>5. QED
    BY <1>2, <1>6, <2>1, <2>3, <2>4 DEF LoadCallFits
<1>8. InHand' = {stack[k].block : k \in DOMAIN stack \ {1}} \cup ({block} \ {NoBlock})
  <2>1. Calls' = DOMAIN stack'
    BY <1>5 DEF Calls
  <2>2. {stack'[k].block : k \in DOMAIN stack'} = {stack[k].block : k \in DOMAIN stack \ {1}}
    <3>1. \A k \in DOMAIN stack' : \E j \in DOMAIN stack \ {1} : stack'[k].block = stack[j].block
      <4>1. \A k \in DOMAIN stack' : k + 1 \in DOMAIN stack \ {1} /\ stack'[k].block = stack[k + 1].block
        BY <1>5
      <4>2. QED
        BY <4>1
    <3>2. \A j \in DOMAIN stack \ {1} : \E k \in DOMAIN stack' : stack'[k].block = stack[j].block
      BY <1>3, <1>5
    <3>3. QED
      BY <3>1, <3>2
  <2>3. QED
    BY <1>2, <2>1, <2>2 DEF InHand
<1>9. returned' \in [result : Result, block : Taken' \cup {NoBlock}]
  BY <1>1
<1>10. LoadStack'
  <2>1. stack' # <<>> => stack'[1].at = "children"
    BY <1>4, <1>5
  <2>2. returned'.result # "Skipped"
    BY <1>2
  <2>3. position' \in 0 .. Len(device')
    BY <1>6
  <2>4. QED
    BY <1>2, <1>4, <1>7, <1>9, <2>1, <2>2, <2>3 DEF LoadStack, LoadCall
<1>11. QED
  BY <1>2, <1>5, <1>6, <1>8, <1>10
-----------------------------------------------------------------------------
(* The blocks that were built.                                             *)

BuiltClosed == \A x \in DOMAIN built : ToSet(built[x]) \subseteq DOMAIN built

LEMMA BelowIs ==
    ASSUME BuiltClosed, NEW b
    PROVE  /\ Below(b) \subseteq DOMAIN built
           /\ b \in DOMAIN built => b \in Below(b)
           /\ b \notin DOMAIN built => Below(b) = {}
           /\ \A y \in Below(b) : ToSet(built[y]) \subseteq Below(b)
           /\ \A S \in SUBSET DOMAIN built :
                 (/\ b \in DOMAIN built => b \in S
                  /\ \A y \in S : ToSet(built[y]) \subseteq S)
                 => Below(b) \subseteq S
<1>1. \A S \in SUBSET DOMAIN built :
          (/\ b \in DOMAIN built => b \in S
           /\ \A y \in S : ToSet(built[y]) \subseteq S)
          => Below(b) \subseteq S
  BY DEF Below
<1>2. Below(b) \subseteq DOMAIN built /\ (b \in DOMAIN built => b \in Below(b))
  BY DEF Below
<1>3. ASSUME b \notin DOMAIN built
      PROVE  Below(b) = {}
  <2>1. {} \in SUBSET DOMAIN built /\ \A y \in {} : ToSet(built[y]) \subseteq {}
    OBVIOUS
  <2>2. QED
    BY <1>1, <1>3, <2>1
<1>4. ASSUME NEW y \in Below(b), NEW c \in ToSet(built[y])
      PROVE  c \in Below(b)
  <2>1. c \in DOMAIN built
    BY <1>2, <1>4 DEF BuiltClosed
  <2>2. ASSUME NEW S \in SUBSET DOMAIN built, b \in DOMAIN built => b \in S,
               \A z \in S : ToSet(built[z]) \subseteq S
        PROVE  c \in S
    BY <1>1, <1>4, <2>2
  <2>3. QED
    BY <2>1, <2>2 DEF Below
<1>5. QED
  BY <1>1, <1>2, <1>3, <1>4

LEMMA ParentIsUnique ==
    ASSUME BuiltInv, NEW x \in DOMAIN built, NEW z \in DOMAIN built, NEW y,
           y \in ToSet(built[x]), y \in ToSet(built[z])
    PROVE  x = z
<1>1. ToSet(built[x]) \cap ToSet(built[z]) # {}
  OBVIOUS
<1>2. QED
  BY <1>1 DEF BuiltInv, OneParent

LEMMA BuiltFacts ==
    ASSUME BuiltInv
    PROVE  /\ BuiltClosed /\ InHand \subseteq DOMAIN built /\ DOMAIN built \subseteq Taken
           /\ \A x \in DOMAIN built : \A y \in ToSet(built[x]) : y \notin InHand /\ After(x, y)
<1>1. InHand \subseteq DOMAIN built /\ DOMAIN built \subseteq Taken
  BY DEF BuiltInv, OnlyTakenIsBuilt
<1>2. \A x \in DOMAIN built : \A y \in ToSet(built[x]) : y \in DOMAIN built /\ y \notin InHand /\ After(x, y)
  BY DEF BuiltInv, ChildrenAreBuilt
<1>3. BuiltClosed
  BY <1>2 DEF BuiltClosed
<1>4. QED
  BY <1>1, <1>2, <1>3

(* Nothing is built, and nothing changes hands.                            *)
LEMMA BuiltStays ==
    ASSUME BuiltInv, UNCHANGED built, InHand' = InHand, Taken \subseteq Taken',
           \A b, c : After(b, c)' = After(b, c)
    PROVE  BuiltInv'
<1>1. OnlyTakenIsBuilt'
  BY DEF BuiltInv, OnlyTakenIsBuilt
<1>2. BuiltType' /\ OneParent'
  BY DEF BuiltInv, BuiltType, OneParent
<1>3. ChildrenAreBuilt'
  BY DEF BuiltInv, ChildrenAreBuilt
<1>4. OthersHaveParents'
  BY DEF BuiltInv, OthersHaveParents
<1>5. QED
  BY <1>1, <1>2, <1>3, <1>4 DEF BuiltInv

(* A block is created, and is in hand.                                     *)
LEMMA BuiltGrows ==
    ASSUME BuiltInv, NEW h \in Taken', h \notin DOMAIN built, Taken \subseteq Taken',
           Taken' \subseteq Blocks, InHand' = InHand \cup {h},
           built' = [b \in DOMAIN built \cup {h} |-> IF b = h THEN <<>> ELSE built[b]],
           \A b, c : After(b, c)' = After(b, c)
    PROVE  BuiltInv'
<1>1. /\ DOMAIN built' = DOMAIN built \cup {h} /\ built'[h] = <<>>
      /\ \A b \in DOMAIN built : built'[b] = built[b]
  OBVIOUS
<1>2. /\ ToSet(built'[h]) = {} /\ \A b \in DOMAIN built : ToSet(built'[b]) = ToSet(built[b])
  BY <1>1 DEF ToSet
<1>3. \A b \in DOMAIN built' : built'[b] \in Seq(Blocks)
  BY <1>1 DEF BuiltInv, BuiltType
<1>4. \A x \in DOMAIN built' : \A y \in ToSet(built'[x]) : y \in DOMAIN built' \ InHand' /\ After(x, y)
  BY <1>1, <1>2 DEF BuiltInv, ChildrenAreBuilt
<1>5. \A x, z \in DOMAIN built' : ToSet(built'[x]) \cap ToSet(built'[z]) # {} => x = z
  BY <1>1, <1>2 DEF BuiltInv, OneParent
<1>6. \A y \in DOMAIN built' \ InHand' : \E x \in DOMAIN built' : y \in ToSet(built'[x])
  BY <1>1, <1>2 DEF BuiltInv, OthersHaveParents
<1>7. InHand' \subseteq DOMAIN built' /\ DOMAIN built' \subseteq Taken'
  BY <1>1 DEF BuiltInv, OnlyTakenIsBuilt
<1>8. built' \in [DOMAIN built' -> Seq(Blocks)]
  BY <1>1, <1>3
<1>9. QED
  <2>1. ChildrenAreBuilt'
    BY <1>4 DEF ChildrenAreBuilt
  <2>2. OneParent'
    BY <1>5 DEF OneParent
  <2>3. OthersHaveParents'
    BY <1>6 DEF OthersHaveParents
  <2>4. OnlyTakenIsBuilt'
    BY <1>7 DEF OnlyTakenIsBuilt
  <2>5. BuiltType'
    BY <1>8 DEF BuiltType
  <2>6. QED
    BY <2>1, <2>2, <2>3, <2>4, <2>5 DEF BuiltInv

(* A block is added to another as its last child.                          *)
LEMMA BuiltChild ==
    ASSUME BuiltInv, NEW p \in InHand, NEW c \in InHand, p # c, After(p, c), c \in Blocks,
           InHand' = InHand \ {c}, built' = [built EXCEPT ![p] = Append(@, c)],
           Taken' = Taken, \A x, y : After(x, y)' = After(x, y)
    PROVE  BuiltInv'
<1>1. /\ DOMAIN built' = DOMAIN built /\ built'[p] = Append(built[p], c) /\ p \in DOMAIN built
      /\ \A b \in DOMAIN built : b # p => built'[b] = built[b]
      /\ \A b \in DOMAIN built : built[b] \in Seq(Blocks)
  BY DEF BuiltInv, BuiltType, OnlyTakenIsBuilt
<1>2. /\ ToSet(built'[p]) = ToSet(built[p]) \cup {c}
      /\ \A b \in DOMAIN built : b # p => ToSet(built'[b]) = ToSet(built[b])
  <2>1. /\ DOMAIN Append(built[p], c) = 1 .. Len(built[p]) + 1 /\ DOMAIN built[p] = 1 .. Len(built[p])
        /\ \A i \in 1 .. Len(built[p]) : Append(built[p], c)[i] = built[p][i]
        /\ Append(built[p], c)[Len(built[p]) + 1] = c /\ Len(built[p]) \in Nat
    BY <1>1
  <2>2. \A x \in ToSet(built'[p]) : x \in ToSet(built[p]) \cup {c}
    BY <1>1, <2>1 DEF ToSet
  <2>3. \A x \in ToSet(built[p]) \cup {c} : x \in ToSet(built'[p])
    BY <1>1, <2>1 DEF ToSet
  <2>4. QED
    BY <1>1, <2>2, <2>3
<1>3. c \in DOMAIN built /\ \A x \in DOMAIN built : c \notin ToSet(built[x])
  BY DEF BuiltInv, ChildrenAreBuilt, OnlyTakenIsBuilt
<1>4. \A b \in DOMAIN built' : built'[b] \in Seq(Blocks)
  BY <1>1
<1>5. \A x \in DOMAIN built' : \A y \in ToSet(built'[x]) : y \in DOMAIN built' \ InHand' /\ After(x, y)
  BY <1>1, <1>2, <1>3 DEF BuiltInv, ChildrenAreBuilt
<1>6. \A x, z \in DOMAIN built' : ToSet(built'[x]) \cap ToSet(built'[z]) # {} => x = z
  <2>1. ASSUME NEW x \in DOMAIN built, NEW z \in DOMAIN built, NEW y,
               y \in ToSet(built'[x]), y \in ToSet(built'[z])
        PROVE  x = z
    <3>1. CASE y = c
      BY <1>2, <1>3, <2>1, <3>1
    <3>2. CASE y # c
      <4>1. y \in ToSet(built[x]) /\ y \in ToSet(built[z])
        BY <1>2, <2>1, <3>2
      <4>2. QED
        BY <2>1, <4>1, ParentIsUnique
    <3>3. QED
      BY <3>1, <3>2
  <2>2. SUFFICES ASSUME NEW x \in DOMAIN built', NEW z \in DOMAIN built',
                        ToSet(built'[x]) \cap ToSet(built'[z]) # {}
                 PROVE  x = z
    OBVIOUS
  <2>3. PICK y : y \in ToSet(built'[x]) /\ y \in ToSet(built'[z])
    BY <2>2
  <2>4. x \in DOMAIN built /\ z \in DOMAIN built
    BY <1>1
  <2>5. QED
    BY <2>1, <2>3, <2>4
<1>7. \A y \in DOMAIN built' \ InHand' : \E x \in DOMAIN built' : y \in ToSet(built'[x])
  <2>1. ASSUME NEW y \in DOMAIN built \ InHand'
        PROVE  \E x \in DOMAIN built : y \in ToSet(built'[x])
    <3>1. CASE y = c
      BY <1>1, <1>2, <3>1
    <3>2. CASE y # c
      BY <1>1, <1>2, <2>1, <3>2 DEF BuiltInv, OthersHaveParents
    <3>3. QED
      BY <3>1, <3>2
  <2>2. QED
    BY <1>1, <2>1
<1>8. built' \in [DOMAIN built' -> Seq(Blocks)]
  BY <1>1, <1>4
<1>9. InHand' \subseteq DOMAIN built' /\ DOMAIN built' \subseteq Taken'
  BY <1>1 DEF BuiltInv, OnlyTakenIsBuilt
<1>10. QED
  <2>1. ChildrenAreBuilt'
    BY <1>5 DEF ChildrenAreBuilt
  <2>2. OneParent'
    BY <1>6 DEF OneParent
  <2>3. OthersHaveParents'
    BY <1>7 DEF OthersHaveParents
  <2>4. BuiltType'
    BY <1>8 DEF BuiltType
  <2>5. OnlyTakenIsBuilt'
    BY <1>9 DEF OnlyTakenIsBuilt
  <2>6. QED
    BY <2>1, <2>2, <2>3, <2>4, <2>5 DEF BuiltInv

(* A block that was in hand is destroyed, with all that is below it.       *)
LEMMA BuiltFails ==
    ASSUME BuiltInv, NEW b, b \in InHand \/ b \notin DOMAIN built,
           InHand' = InHand \ {b}, built' = Restrict(built, DOMAIN built \ DropChild(b)),
           Taken' = Taken, \A x, y : After(x, y)' = After(x, y)
    PROVE  BuiltInv'
<1>1. PICK B : B = Below(b)
  OBVIOUS
<1>2. /\ B \subseteq DOMAIN built /\ (b \in DOMAIN built => b \in B)
      /\ \A y \in B : ToSet(built[y]) \subseteq B
      /\ \A S \in SUBSET DOMAIN built :
            (/\ b \in DOMAIN built => b \in S
             /\ \A y \in S : ToSet(built[y]) \subseteq S)
            => B \subseteq S
  BY <1>1, BelowIs, BuiltFacts
<1>3. DOMAIN built' = DOMAIN built \ B /\ \A x \in DOMAIN built \ B : built'[x] = built[x]
  BY <1>1 DEF Restrict, DropChild
\* What is below the block, and not the block, is the child of another that is.
<1>4. ASSUME NEW y \in B, y # b
      PROVE  \E x \in B : y \in ToSet(built[x])
  <2>1. SUFFICES ASSUME \A x \in B : y \notin ToSet(built[x])
                 PROVE  FALSE
    OBVIOUS
  <2>2. B \ {y} \in SUBSET DOMAIN built /\ (b \in DOMAIN built => b \in B \ {y})
    BY <1>2, <1>4
  <2>3. \A x \in B \ {y} : ToSet(built[x]) \subseteq B \ {y}
    BY <1>2, <2>1
  <2>4. B \subseteq B \ {y}
    BY <1>2, <2>2, <2>3
  <2>5. QED
    BY <1>4, <2>4
<1>5. InHand' \cap B = {}
  BY <1>2, <1>4, BuiltFacts
<1>6. ASSUME NEW x \in DOMAIN built', NEW y \in ToSet(built'[x])
      PROVE  y \in DOMAIN built' \ InHand' /\ After(x, y)
  <2>1. x \in DOMAIN built /\ x \notin B /\ y \in ToSet(built[x])
    BY <1>3, <1>6
  <2>2. y \in DOMAIN built /\ y \notin InHand /\ After(x, y)
    BY <2>1 DEF BuiltInv, ChildrenAreBuilt
  <2>3. ASSUME y \in B
        PROVE  FALSE
    <3>1. CASE y = b
      BY <2>2, <3>1
    <3>2. CASE y # b
      <4>1. PICK z \in B : y \in ToSet(built[z])
        BY <1>4, <2>3, <3>2
      <4>2. x = z
        BY <1>2, <2>1, <4>1, ParentIsUnique
      <4>3. QED
        BY <2>1, <4>1, <4>2
    <3>3. QED
      BY <3>1, <3>2
  <2>4. QED
    BY <1>3, <2>2, <2>3
<1>7. \A x, z \in DOMAIN built' : ToSet(built'[x]) \cap ToSet(built'[z]) # {} => x = z
  BY <1>3 DEF BuiltInv, OneParent
<1>8. ASSUME NEW y \in DOMAIN built' \ InHand'
      PROVE  \E x \in DOMAIN built' : y \in ToSet(built'[x])
  <2>1. y \in DOMAIN built /\ y \notin B /\ y \notin InHand
    BY <1>2, <1>3, <1>8
  <2>2. PICK x \in DOMAIN built : y \in ToSet(built[x])
    BY <2>1 DEF BuiltInv, OthersHaveParents
  <2>3. x \notin B
    BY <1>2, <2>1, <2>2
  <2>4. QED
    BY <1>3, <2>2, <2>3
<1>9. InHand' \subseteq DOMAIN built' /\ DOMAIN built' \subseteq Taken'
  BY <1>3, <1>5, BuiltFacts
<1>10. built' \in [DOMAIN built' -> Seq(Blocks)]
  <2>1. \A x \in DOMAIN built \ B : built[x] \in Seq(Blocks)
    BY DEF BuiltInv, BuiltType
  <2>2. built' = [x \in DOMAIN built \ B |-> built[x]]
    BY <1>1 DEF Restrict, DropChild
  <2>3. QED
    BY <2>1, <2>2
<1>11. QED
  <2>1. ChildrenAreBuilt'
    BY <1>6 DEF ChildrenAreBuilt
  <2>2. OneParent'
    BY <1>7 DEF OneParent
  <2>3. OthersHaveParents'
    BY <1>8 DEF OthersHaveParents
  <2>4. OnlyTakenIsBuilt'
    BY <1>9 DEF OnlyTakenIsBuilt
  <2>5. BuiltType'
    BY <1>10 DEF BuiltType
  <2>6. QED
    BY <2>1, <2>2, <2>3, <2>4, <2>5 DEF BuiltInv

(* Whatever was built is in hand, or below what is.                        *)
LEMMA AllIsHeld ==
    ASSUME Source, DeviceInv, position \in 0 .. Len(device), BuiltInv,
           NEW H, InHand \subseteq H
    PROVE  DOMAIN built = UNION {Below(b) : b \in H}
<1>1. UNION {Below(b) : b \in H} \subseteq DOMAIN built
  BY BelowIs, BuiltFacts
<1>2. SUFFICES ASSUME ~ (DOMAIN built \subseteq UNION {Below(b) : b \in H})
               PROVE  FALSE
  BY <1>1
<1>3. PICK M : M = {x \in DOMAIN built : x \notin UNION {Below(b) : b \in H}}
  OBVIOUS
<1>4. /\ M # {} /\ M \subseteq DOMAIN built /\ \A x \in M : Place(device, x) \in Nat
      /\ DOMAIN built \subseteq Taken
  BY <1>2, <1>3, BuiltFacts, WhatIsTaken
<1>5. PICK x \in M : \A z \in M : Place(device, x) <= Place(device, z)
  <2>1. {Place(device, z) : z \in M} \subseteq Nat /\ {Place(device, z) : z \in M} # {}
    BY <1>4
  <2>2. PICK n \in {Place(device, z) : z \in M} : \A m \in {Place(device, z) : z \in M} : n <= m
    BY <2>1, LeastNumber
  <2>3. QED
    BY <2>2
<1>6. x \in DOMAIN built /\ \A b \in H : x \notin Below(b)
  BY <1>3, <1>5
<1>7. x \notin InHand
  BY <1>6, BelowIs, BuiltFacts
<1>8. PICK z \in DOMAIN built : x \in ToSet(built[z])
  BY <1>6, <1>7 DEF BuiltInv, OthersHaveParents
<1>9. z \notin M
  <2>1. Place(device, z) < Place(device, x)
    BY <1>6, <1>8 DEF BuiltInv, ChildrenAreBuilt, After
  <2>2. Place(device, z) \in Nat /\ Place(device, x) \in Nat
    BY <1>4, <1>6, <1>8, WhatIsTaken
  <2>3. QED
    BY <1>5, <2>1, <2>2
<1>10. PICK b \in H : z \in Below(b)
  BY <1>3, <1>8, <1>9
<1>11. QED
  BY <1>6, <1>8, <1>10, BelowIs, BuiltFacts
-----------------------------------------------------------------------------
(* Steps of inflate.                                                       *)

LEMMA HandsAre ==
    ASSUME Source, DeviceInv, LoadStack, stack # <<>>
    PROVE  /\ At("enter") => /\ Calls = DOMAIN stack \ {1}
                             /\ InHand = {stack[k].block : k \in DOMAIN stack \ {1}}
           /\ ~ At("enter") => /\ Calls = DOMAIN stack /\ stack[1].at = "children"
                               /\ InHand = {stack[k].block : k \in DOMAIN stack} \cup ({returned.block} \ {NoBlock})
<1>1. /\ Top = stack[1] /\ 1 \in DOMAIN stack
      /\ \A k \in DOMAIN stack : k > 1 => k \in Calls
      /\ \A k \in DOMAIN stack : k \in Calls <=> stack[k].at = "children"
      /\ DOMAIN stack = 1 .. Len(stack) /\ Len(stack) \in Nat
      /\ returned = Nothing => returned.block = NoBlock
      /\ stack[1].at \in {"enter", "children"}
  BY StackFacts
<1>2. At("enter") => Calls = DOMAIN stack \ {1}
  BY <1>1 DEF At, Calls
<1>3. ~ At("enter") => stack[1].at = "children"
  BY <1>1 DEF At, LoadStack
<1>4. ~ At("enter") => Calls = DOMAIN stack
  BY <1>1, <1>3 DEF Calls
<1>5. At("enter") => returned.block = NoBlock
  BY <1>1 DEF At
<1>6. QED
  BY <1>2, <1>3, <1>4, <1>5 DEF InHand

LEMMA TakenGrows ==
    ASSUME Source, DeviceInv, LoadStack, LoadSame, position' = ReadOne
    PROVE  /\ position' \in position .. Len(device) /\ Taken \subseteq Taken'
           /\ Taken' \subseteq Blocks
           /\ ~ More => Taken' = Taken /\ position' = position
           /\ More => /\ position' = position + 1 /\ Taken' = Taken \cup {Header.type}
                      /\ position + 1 \in DOMAIN device
                      /\ Header.type \notin Taken /\ Header.type \in Recorded(device)
                      /\ Place(device, Header.type) = position + 1
                      /\ \A b \in Taken : After(b, Header.type)
<1>1. /\ position \in 0 .. Len(device) /\ Len(device) \in Nat /\ device' = device
      /\ DOMAIN device = 1 .. Len(device)
  BY WhatIsTaken DEF LoadSame, LoadStack
<1>2. CASE ~ More
  BY <1>1, <1>2, WhatIsTaken DEF ReadOne, Taken
<1>3. CASE More
  <2>1. position < Len(device) /\ position' = position + 1 /\ position + 1 \in DOMAIN device
    BY <1>1, <1>3 DEF More, ReadOne
  <2>2. Taken' = Taken \cup {Header.type}
    <3>1. 1 .. position' = (1 .. position) \cup {position + 1}
      BY <1>1, <2>1
    <3>2. QED
      BY <1>1, <3>1 DEF Taken, Header
  <2>3. Header.type \in Recorded(device) /\ Place(device, Header.type) = position + 1
    BY <1>1, <2>1, WhatIsTaken DEF Header
  <2>4. Header.type \notin Taken
    BY <1>1, <2>3, WhatIsTaken
  <2>5. \A b \in Taken : Place(device, b) \in Nat /\ Place(device, b) <= position
    BY <1>1, WhatIsTaken
  <2>6. \A b \in Taken : After(b, Header.type)
    BY <1>1, <2>3, <2>5 DEF After
  <2>7. Taken' \subseteq Blocks
    BY <1>1, <2>2, <2>3, WhatIsTaken
  <2>8. QED
    BY <1>1, <1>3, <2>1, <2>2, <2>3, <2>4, <2>6, <2>7
<1>4. QED
  BY <1>2, <1>3

LEMMA CanceledStep ==
    ASSUME Source, DeviceInv, LoadStack, BuiltInv, InflateCanceled
    PROVE  LoadStack' /\ BuiltInv' /\ returned'.result = "Canceled"
<1>1. /\ LoadSame /\ At("enter") /\ stack # <<>> /\ stopped' /\ Return("Canceled", NoBlock)
      /\ UNCHANGED <<position, built, device>>
  BY DEF InflateCanceled, Loading, LoadSame, At
<1>2. /\ position' \in position .. Len(device) /\ "Canceled" \in Result \ {"Skipped"} /\ Taken' = Taken
  BY <1>1 DEF LoadStack, Result, Taken
<1>3. /\ LoadStack' /\ InHand' = {stack[k].block : k \in DOMAIN stack \ {1}}
      /\ returned'.result = "Canceled"
  BY <1>1, <1>2, LoadReturns
<1>4. InHand' = InHand
  BY <1>1, <1>3, HandsAre
<1>5. \A b, c : After(b, c)' = After(b, c)
  BY <1>1, DeviceStays
<1>6. BuiltInv'
  BY <1>1, <1>2, <1>4, <1>5, BuiltStays
<1>7. QED
  BY <1>3, <1>6

LEMMA UnknownStep ==
    ASSUME Source, DeviceInv, LoadStack, BuiltInv, InflateUnknown
    PROVE  LoadStack' /\ BuiltInv' /\ returned'.result = "Failed"
<1>1. /\ LoadSame /\ At("enter") /\ stack # <<>> /\ (stopped => stopped') /\ Return("Failed", NoBlock)
      /\ UNCHANGED <<built, device>> /\ position' = ReadOne
  BY DEF InflateUnknown, Loading, LoadSame, At
<1>2. position' \in position .. Len(device) /\ "Failed" \in Result \ {"Skipped"} /\ Taken \subseteq Taken'
  BY <1>1, TakenGrows DEF Result
<1>3. /\ LoadStack' /\ InHand' = {stack[k].block : k \in DOMAIN stack \ {1}}
      /\ returned'.result = "Failed"
  BY <1>1, <1>2, LoadReturns
<1>4. InHand' = InHand
  BY <1>1, <1>3, HandsAre
<1>5. \A b, c : After(b, c)' = After(b, c)
  BY <1>1, DeviceStays
<1>6. BuiltInv'
  BY <1>1, <1>2, <1>4, <1>5, BuiltStays
<1>7. QED
  BY <1>3, <1>6

(* A block was read, is created, and its children are to be read next.     *)
BlockCall(h) == [block |-> h, at |-> "children", left |-> Header.childrenNb]
BlockStarts ==
    /\ stack' = <<BlockCall(Header.type)>> \o Tail(stack)
    /\ kept' = IF Header.properties # {} /\ Header.value THEN kept \cup {Header.type} ELSE kept
    /\ UNCHANGED returned

LEMMA BlockStep ==
    ASSUME Source, DeviceInv, LoadStack, BuiltInv, InflateBlock
    PROVE  /\ LoadStack' /\ BuiltInv'
           /\ \/ returned'.result = "Failed"
              \/ /\ BlockStarts /\ stack' \in Seq(LoadCall)
                 /\ DOMAIN stack' = DOMAIN stack /\ stack'[1] = BlockCall(Header.type)
                 /\ \A k \in DOMAIN stack : k # 1 => stack'[k] = stack[k]
                 /\ Calls' = DOMAIN stack'
<1>1. PICK h : h = Header.type
  OBVIOUS
<1>2. /\ LoadSame /\ At("enter") /\ stack # <<>> /\ (stopped => stopped') /\ returned = Nothing
      /\ UNCHANGED device /\ position' = ReadOne /\ More
      /\ built' = [b \in DOMAIN built \cup {h} |-> IF b = h THEN <<>> ELSE built[b]]
  BY <1>1 DEF InflateBlock, Loading, LoadSame, At
<1>3. Return("Failed", h) \/ BlockStarts
  BY <1>1 DEF InflateBlock, BlockStarts, BlockCall
<1>4. /\ position' \in position .. Len(device) /\ Taken' = Taken \cup {h} /\ h \in Taken'
      /\ Taken \subseteq Taken' /\ Taken' \subseteq Blocks /\ h \notin Taken
      /\ \A b \in Taken : After(b, h)
      /\ position + 1 \in DOMAIN device
  BY <1>1, <1>2, TakenGrows
<1>5. \A b, c : After(b, c)' = After(b, c)
  BY <1>2, DeviceStays
<1>6. h \notin DOMAIN built /\ h # NoBlock
  BY <1>4, BuiltFacts, SizeAssumption
<1>7. InHand' = InHand \cup {h} => BuiltInv'
  BY <1>2, <1>4, <1>5, <1>6, BuiltGrows
<1>8. /\ stack \in Seq(LoadCall) /\ DOMAIN stack = 1 .. Len(stack) /\ Len(stack) \in Nat
      /\ \A k \in DOMAIN stack : LoadCallFits(k) /\ (k > 1 => stack[k].at = "children" /\ stack[k].block \in Taken)
      /\ 1 \in DOMAIN stack /\ position \in 0 .. Len(device)
      /\ InHand = {stack[k].block : k \in DOMAIN stack \ {1}}
  BY <1>2, StackFacts, HandsAre DEF LoadStack
<1>9. CASE Return("Failed", h)
  <2>1. "Failed" \in Result \ {"Skipped"}
    BY DEF Result
  <2>2. \A k \in DOMAIN stack : k > 1 => After(stack[k].block, h)
    BY <1>4, <1>8
  <2>3. /\ LoadStack' /\ InHand' = {stack[k].block : k \in DOMAIN stack \ {1}} \cup ({h} \ {NoBlock})
        /\ returned'.result = "Failed"
    BY <1>2, <1>4, <1>9, <2>1, <2>2, LoadReturns
  <2>4. InHand' = InHand \cup {h}
    BY <1>6, <1>8, <2>3
  <2>5. QED
    BY <1>7, <2>3, <2>4
<1>10. CASE BlockStarts
  <2>1. PICK c : c = BlockCall(h)
    OBVIOUS
  <2>2. /\ c \in LoadCall /\ c.block = h /\ c.at = "children"
    <3>1. h \in Blocks /\ Header.childrenNb \in Nat
      <4>1. device[position + 1] \in RecordType
        BY <1>4 DEF DeviceInv
      <4>2. QED
        BY <1>1, <4>1 DEF Header, RecordType
    <3>2. QED
      BY <2>1, <3>1 DEF BlockCall, LoadCall
  <2>3. /\ stack' \in Seq(LoadCall) /\ DOMAIN stack' = DOMAIN stack /\ stack'[1] = c /\ Len(stack') = Len(stack)
        /\ \A k \in DOMAIN stack : k # 1 => stack'[k] = stack[k]
    <3>1. stack' = <<c>> \o Tail(stack) /\ stack # <<>>
      BY <1>1, <1>2, <1>10, <2>1 DEF BlockStarts
    <3>2. /\ stack' \in Seq(LoadCall) /\ Len(stack') = Len(stack)
          /\ stack'[1] = c /\ \A k \in 1 .. Len(stack) : k # 1 => stack'[k] = stack[k]
      BY <1>8, <2>2, <3>1, StackReplace
    <3>3. DOMAIN stack' = 1 .. Len(stack')
      BY <3>2
    <3>4. QED
      BY <1>8, <3>2, <3>3
  <2>4. returned' = Nothing /\ returned'.block = NoBlock /\ returned'.result = "none"
    BY <1>2, <1>10 DEF BlockStarts, Nothing
  <2>5. ASSUME NEW k \in DOMAIN stack'
        PROVE  stack'[k].at = "children" /\ LoadCallFits(k)'
    <3>1. stack'[k].at = "children" /\ stack'[k].block \in Taken'
      BY <1>4, <1>8, <2>2, <2>3
    <3>2. ASSUME NEW l \in DOMAIN stack', k < l
          PROVE  After(stack'[l].block, stack'[k].block)
      <4>1. l # 1 /\ l > 1 /\ stack'[l] = stack[l] /\ l \in DOMAIN stack
        BY <1>8, <2>3, <3>2
      <4>2. CASE k = 1
        BY <1>4, <1>8, <2>2, <2>3, <4>1, <4>2
      <4>3. CASE k # 1
        <5>1. stack'[k] = stack[k] /\ k > 1 /\ LoadCallFits(k) /\ stack[k].at = "children"
          BY <1>8, <2>3, <4>3
        <5>2. QED
          BY <3>2, <4>1, <5>1 DEF LoadCallFits
      <4>4. QED
        BY <4>2, <4>3
    <3>3. QED
      BY <1>5, <2>4, <3>1, <3>2 DEF LoadCallFits
  <2>6. Calls' = DOMAIN stack'
    BY <2>5 DEF Calls
  <2>7. LoadStack'
    <3>1. position' \in 0 .. Len(device')
      BY <1>2, <1>4, <1>8
    <3>2. stack' # <<>>
      BY <1>8, <2>3
    <3>3. QED
      BY <2>3, <2>4, <2>5, <3>1, <3>2 DEF LoadStack, LoadCall, Nothing
  <2>8. InHand' = InHand \cup {h}
    <3>1. InHand' = {stack'[k].block : k \in DOMAIN stack}
      BY <2>3, <2>4, <2>6 DEF InHand
    <3>2. \A k \in DOMAIN stack : stack'[k].block = IF k = 1 THEN h ELSE stack[k].block
      BY <2>2, <2>3
    <3>3. QED
      BY <1>8, <3>1, <3>2
  <2>9. QED
    BY <1>1, <1>7, <1>10, <2>1, <2>3, <2>6, <2>7, <2>8
<1>11. QED
  BY <1>3, <1>9, <1>10

(* inflate is called for the next child.                                   *)
ChildStarts ==
    /\ stack' \in Seq(LoadCall) /\ DOMAIN stack' = 1 .. Len(stack) + 1
    /\ stack'[1] = Call(NoBlock)
    /\ stack'[2].block = stack[1].block /\ stack'[2].left = stack[1].left - 1
    /\ stack'[2].at = "children"
    /\ \A k \in 1 .. Len(stack) + 1 : k > 2 => k - 1 \in 1 .. Len(stack) /\ stack'[k] = stack[k - 1]
    /\ \A k \in 1 .. Len(stack) + 1 : k > 1 => k - 1 \in 1 .. Len(stack) /\ stack'[k].block = stack[k - 1].block
    /\ Calls' = 2 .. Len(stack) + 1

LEMMA ChildStep ==
    ASSUME Source, DeviceInv, LoadStack, BuiltInv, InflateChild
    PROVE  LoadStack' /\ BuiltInv' /\ ChildStarts
<1>1. /\ LoadSame /\ At("children") /\ stack # <<>> /\ (stopped => stopped') /\ returned = Nothing
      /\ UNCHANGED <<device, position, built, returned>> /\ Top.at = "children" /\ Top.left > 0
      /\ stack' = <<Call(NoBlock), [Top EXCEPT !.left = @ - 1]>> \o Tail(stack)
  BY DEF InflateChild, Loading, LoadSame, At
<1>2. /\ stack \in Seq(LoadCall) /\ DOMAIN stack = 1 .. Len(stack) /\ Len(stack) \in Nat \ {0}
      /\ \A k \in DOMAIN stack : LoadCallFits(k) /\ (k > 1 => stack[k].at = "children")
      /\ 1 \in DOMAIN stack /\ position \in 0 .. Len(device)
      /\ Top = stack[1] /\ stack[1] \in LoadCall
  BY <1>1, StackFacts DEF LoadStack, LoadCallFits
<1>3. PICK up : up = [stack[1] EXCEPT !.left = @ - 1]
  OBVIOUS
<1>4. /\ up \in LoadCall /\ up.block = stack[1].block /\ up.at = "children" /\ up.left = stack[1].left - 1
      /\ stack[1].at = "children" /\ Call(NoBlock) \in LoadCall /\ Call(NoBlock).at = "enter"
  <2>1. stack[1].at = "children" /\ stack[1].left > 0 /\ stack[1] \in LoadCall
    BY <1>1, <1>2
  <2>2. up \in LoadCall /\ up.block = stack[1].block /\ up.at = "children" /\ up.left = stack[1].left - 1
    BY <1>3, <2>1 DEF LoadCall
  <2>3. QED
    BY <2>1, <2>2 DEF Call, LoadCall
<1>5. /\ stack' \in Seq(LoadCall) /\ Len(stack') = Len(stack) + 1 /\ DOMAIN stack' = 1 .. Len(stack) + 1
      /\ stack'[1] = Call(NoBlock) /\ stack'[2] = up
      /\ \A k \in 1 .. Len(stack) + 1 : k > 2 => k - 1 \in 1 .. Len(stack) /\ stack'[k] = stack[k - 1]
  <2>1. stack' = <<Call(NoBlock), up>> \o Tail(stack) /\ stack \in Seq(LoadCall) /\ stack # <<>>
    BY <1>1, <1>2, <1>3
  <2>2. /\ stack' \in Seq(LoadCall) /\ Len(stack') = Len(stack) + 1
        /\ stack'[1] = Call(NoBlock) /\ stack'[2] = up
        /\ \A k \in 1 .. Len(stack) + 1 : k > 2 => k - 1 \in 1 .. Len(stack) /\ stack'[k] = stack[k - 1]
    BY <1>4, <2>1, StackCall
  <2>3. DOMAIN stack' = 1 .. Len(stack')
    BY <2>2
  <2>4. QED
    BY <2>2, <2>3
<1>6. \A k \in 1 .. Len(stack) + 1 : k > 1 =>
         k - 1 \in 1 .. Len(stack) /\ stack'[k].block = stack[k - 1].block /\ stack'[k].at = "children"
  <2>1. ASSUME NEW k \in 1 .. Len(stack) + 1, k > 1
        PROVE  k - 1 \in 1 .. Len(stack) /\ stack'[k].block = stack[k - 1].block /\ stack'[k].at = "children"
    <3>1. CASE k = 2
      BY <1>2, <1>4, <1>5, <3>1
    <3>2. CASE k > 2
      <4>1. k - 1 \in 1 .. Len(stack) /\ k - 1 > 1 /\ stack'[k] = stack[k - 1]
        BY <1>2, <1>5, <2>1, <3>2
      <4>2. QED
        BY <1>2, <4>1
    <3>3. QED
      BY <2>1, <3>1, <3>2
  <2>2. QED
    BY <2>1
<1>7. Calls' = 2 .. Len(stack) + 1
  <2>1. \A k \in 1 .. Len(stack) + 1 : stack'[k].at = "children" <=> k # 1
    BY <1>2, <1>4, <1>5, <1>6
  <2>2. QED
    BY <1>2, <1>5, <2>1 DEF Calls
<1>8. ChildStarts
  BY <1>4, <1>5, <1>6, <1>7 DEF ChildStarts
<1>9. Taken' = Taken /\ \A b, c : After(b, c)' = After(b, c)
  BY <1>1, DeviceStays DEF Taken
<1>10. InHand' = InHand
  <2>1. InHand = {stack[k].block : k \in 1 .. Len(stack)} \cup ({returned.block} \ {NoBlock})
    BY <1>1, <1>2, <1>4, HandsAre DEF At, Call
  <2>2. InHand' = {stack'[k].block : k \in 2 .. Len(stack) + 1} \cup ({returned.block} \ {NoBlock})
    BY <1>1, <1>7 DEF InHand
  <2>3. \A k \in 2 .. Len(stack) + 1 : k - 1 \in 1 .. Len(stack) /\ stack'[k].block = stack[k - 1].block
    BY <1>2, <1>6
  <2>4. \A k \in 1 .. Len(stack) : k + 1 \in 2 .. Len(stack) + 1 /\ stack'[k + 1].block = stack[k].block
    <3>1. \A k \in 1 .. Len(stack) : k + 1 \in 2 .. Len(stack) + 1 /\ (k + 1) - 1 = k
      BY <1>2
    <3>2. QED
      BY <2>3, <3>1
  <2>5. {stack'[k].block : k \in 2 .. Len(stack) + 1} = {stack[k].block : k \in 1 .. Len(stack)}
    BY <2>3, <2>4
  <2>6. QED
    BY <2>1, <2>2, <2>5
<1>11. BuiltInv'
  BY <1>1, <1>9, <1>10, BuiltStays
<1>12. ASSUME NEW k \in DOMAIN stack'
       PROVE  LoadCallFits(k)'
  <2>1. CASE k = 1
    BY <1>4, <1>5, <2>1 DEF LoadCallFits, Call
  <2>2. CASE k # 1
    <3>1. PICK j \in DOMAIN stack : j = k - 1 /\ stack'[k].block = stack[j].block /\ stack'[k].at = "children"
      <4>1. k - 1 \in DOMAIN stack /\ stack'[k].block = stack[k - 1].block /\ stack'[k].at = "children"
        BY <1>2, <1>5, <1>6, <2>2
      <4>2. QED
        BY <4>1
    <3>2. LoadCallFits(j) /\ stack[j].at = "children"
      BY <1>2, <1>4, <3>1
    <3>3. ASSUME NEW l \in DOMAIN stack', k < l
          PROVE  After(stack'[l].block, stack'[k].block)
      <4>1. PICK i \in DOMAIN stack : i = l - 1 /\ stack'[l].block = stack[i].block
        <5>1. l - 1 \in DOMAIN stack /\ stack'[l].block = stack[l - 1].block
          BY <1>2, <1>5, <1>6, <2>2, <3>3
        <5>2. QED
          BY <5>1
      <4>2. j < i
        BY <1>2, <1>5, <3>1, <3>3, <4>1
      <4>3. QED
        BY <3>1, <3>2, <4>1, <4>2 DEF LoadCallFits
    <3>4. QED
      BY <1>1, <1>9, <3>1, <3>2, <3>3 DEF LoadCallFits
  <2>3. QED
    BY <2>1, <2>2
<1>13. LoadStack'
  <2>1. returned' = Nothing /\ returned'.result = "none" /\ stack' # <<>>
    BY <1>1, <1>2, <1>5 DEF Nothing
  <2>2. position' \in 0 .. Len(device')
    BY <1>1, <1>2
  <2>3. QED
    BY <1>5, <1>12, <2>1, <2>2 DEF LoadStack, LoadCall
<1>14. QED
  BY <1>8, <1>11, <1>13

LEMMA FailedStep ==
    ASSUME Source, DeviceInv, LoadStack, BuiltInv, ChildFailed
    PROVE  LoadStack' /\ BuiltInv' /\ returned'.result = "Failed"
<1>1. PICK b, top : b = returned.block /\ top = stack[1].block
  OBVIOUS
<1>2. /\ LoadSame /\ stack # <<>> /\ (stopped => stopped') /\ returned.result = "Failed"
      /\ Return("Failed", Top.block) /\ UNCHANGED <<device, position>>
      /\ built' = Restrict(built, DOMAIN built \ DropChild(b))
  BY <1>1 DEF ChildFailed, Loading, LoadSame
<1>3. /\ Top = stack[1] /\ 1 \in DOMAIN stack /\ returned # Nothing /\ ~ At("enter")
      /\ DOMAIN stack = 1 .. Len(stack) /\ position \in 0 .. Len(device) /\ Len(device) \in Nat
  BY <1>2, StackFacts, WhatIsTaken DEF At, LoadStack
<1>4. /\ Calls = DOMAIN stack
      /\ InHand = {stack[k].block : k \in DOMAIN stack} \cup ({b} \ {NoBlock})
  BY <1>1, <1>2, <1>3, HandsAre
<1>5. /\ \A k \in DOMAIN stack : LoadCallFits(k) /\ stack[k].at = "children" /\ stack[k].block \in Taken
      /\ NoBlock \notin Taken /\ b \in Taken \cup {NoBlock}
  BY <1>1, <1>4, StackFacts
<1>6. \A k \in DOMAIN stack : k > 1 => After(stack[k].block, top)
  BY <1>1, <1>3, <1>5 DEF LoadCallFits
<1>7. /\ Taken' = Taken /\ position' \in position .. Len(device) /\ "Failed" \in Result \ {"Skipped"}
      /\ \A x, y : After(x, y)' = After(x, y)
  BY <1>2, <1>3, DeviceStays DEF Taken, Result
<1>8. /\ LoadStack' /\ InHand' = {stack[k].block : k \in DOMAIN stack \ {1}} \cup ({top} \ {NoBlock})
      /\ returned'.result = "Failed"
  <2>1. Return("Failed", top) /\ top \in Taken' \cup {NoBlock}
    BY <1>1, <1>2, <1>3, <1>5, <1>7
  <2>2. QED
    BY <1>2, <1>6, <1>7, <2>1, LoadReturns
<1>9. \A k \in DOMAIN stack : stack[k].block # b
  <2>1. ASSUME NEW k \in DOMAIN stack, b # NoBlock
        PROVE  stack[k].block # b
    <3>1. After(stack[k].block, b) /\ stack[k].block \in Taken /\ b \in Taken
      BY <1>1, <1>5, <2>1 DEF LoadCallFits
    <3>2. QED
      BY <1>3, <3>1, LaterIsAfter
  <2>2. QED
    BY <1>5, <2>1
<1>10. InHand' = InHand \ {b}
  <2>1. top # NoBlock /\ top \in {stack[k].block : k \in DOMAIN stack}
    BY <1>1, <1>3, <1>5
  <2>2. InHand' = {stack[k].block : k \in DOMAIN stack}
    BY <1>1, <1>3, <1>8, <2>1
  <2>3. QED
    BY <1>4, <1>9, <2>2
<1>11. b \in InHand \/ b \notin DOMAIN built
  BY <1>4, <1>5, BuiltFacts
<1>12. BuiltInv'
  BY <1>2, <1>7, <1>10, <1>11, BuiltFails
<1>13. QED
  BY <1>8, <1>12

LEMMA ChildDoneStep ==
    ASSUME Source, DeviceInv, LoadStack, BuiltInv, ChildDone
    PROVE  /\ LoadStack' /\ BuiltInv' /\ returned' = Nothing
           /\ \/ returned.result = "Canceled" /\ stopped
              \/ /\ returned.result = "Success" /\ phase' = phase
                 /\ returned.block # NoBlock /\ Calls = DOMAIN stack
                 /\ \A k \in DOMAIN stack : stack[k].block # returned.block
                 /\ built' = [built EXCEPT ![stack[1].block] = Append(@, returned.block)]
<1>1. PICK b, top : b = returned.block /\ top = stack[1].block
  OBVIOUS
<1>2. /\ LoadSame /\ stack # <<>> /\ (stopped => stopped') /\ returned.result \in Result \ {"Failed"}
      /\ returned' = Nothing /\ UNCHANGED <<device, position, stack>>
      /\ IF b = NoBlock THEN UNCHANGED built
         ELSE built' = [built EXCEPT ![Top.block] = Append(@, b)] /\ UNCHANGED phase
  BY <1>1 DEF ChildDone, Loading, LoadSame
<1>3. /\ Top = stack[1] /\ 1 \in DOMAIN stack /\ returned # Nothing /\ ~ At("enter")
      /\ DOMAIN stack = 1 .. Len(stack) /\ position \in 0 .. Len(device) /\ Len(device) \in Nat
  BY <1>2, StackFacts, WhatIsTaken DEF At, LoadStack, Result
<1>4. /\ Calls = DOMAIN stack /\ stack[1].at = "children"
      /\ InHand = {stack[k].block : k \in DOMAIN stack} \cup ({b} \ {NoBlock})
  BY <1>1, <1>2, <1>3, HandsAre
<1>5. /\ \A k \in DOMAIN stack : LoadCallFits(k) /\ stack[k].at = "children" /\ stack[k].block \in Taken
      /\ NoBlock \notin Taken /\ b \in Taken \cup {NoBlock}
  BY <1>1, <1>4, StackFacts
<1>6. /\ Taken' = Taken /\ \A x, y : After(x, y)' = After(x, y)
      /\ returned'.block = NoBlock /\ returned'.result = "none"
  BY <1>2, <1>3, DeviceStays DEF Taken, Nothing
<1>7. /\ returned.result = "Canceled" => stopped /\ b = NoBlock
      /\ returned.result = "Success" => b # NoBlock
      /\ returned.result \in {"Canceled", "Success"}
  BY <1>1, <1>2 DEF LoadStack, Result
<1>8. LoadStack'
  <2>1. ASSUME NEW k \in DOMAIN stack'
        PROVE  LoadCallFits(k)'
    <3>1. LoadCallFits(k) /\ k \in DOMAIN stack
      BY <1>2, <1>5, <2>1
    <3>2. QED
      BY <1>2, <1>6, <3>1 DEF LoadCallFits
  <2>2. stack' \in Seq(LoadCall) /\ position' \in 0 .. Len(device') /\ stack' # <<>>
    BY <1>2, <1>3 DEF LoadStack
  <2>3. QED
    BY <1>2, <1>6, <2>1, <2>2 DEF LoadStack, LoadCall
<1>9. InHand' = {stack[k].block : k \in DOMAIN stack}
  <2>1. Calls' = DOMAIN stack
    BY <1>2, <1>4 DEF Calls
  <2>2. QED
    BY <1>2, <1>6, <2>1 DEF InHand
<1>10. CASE b = NoBlock
  <2>1. InHand' = InHand
    BY <1>4, <1>9, <1>10
  <2>2. BuiltInv'
    BY <1>2, <1>6, <1>10, <2>1, BuiltStays
  <2>3. QED
    BY <1>2, <1>7, <1>8, <1>10, <2>2
<1>11. CASE b # NoBlock
  <2>1. \A k \in DOMAIN stack : After(stack[k].block, b) /\ stack[k].block # b
    <3>1. ASSUME NEW k \in DOMAIN stack
          PROVE  After(stack[k].block, b) /\ stack[k].block # b
      <4>1. After(stack[k].block, b) /\ stack[k].block \in Taken /\ b \in Taken
        BY <1>1, <1>5, <1>11 DEF LoadCallFits
      <4>2. QED
        BY <1>3, <4>1, LaterIsAfter
    <3>2. QED
      BY <3>1
  <2>2. InHand' = InHand \ {b}
    BY <1>4, <1>9, <2>1
  <2>3. /\ top \in InHand /\ b \in InHand /\ top # b /\ After(top, b) /\ b \in Blocks
        /\ built' = [built EXCEPT ![top] = Append(@, b)]
    <3>1. b \in Blocks
      BY <1>3, <1>5, <1>11, WhatIsTaken
    <3>2. QED
      BY <1>1, <1>2, <1>3, <1>4, <1>11, <2>1, <3>1
  <2>4. BuiltInv'
    BY <1>6, <2>2, <2>3, BuiltChild
  <2>5. QED
    BY <1>1, <1>2, <1>4, <1>7, <1>8, <1>11, <2>1, <2>3, <2>4
<1>12. QED
  BY <1>10, <1>11

LEMMA InflateDoneStep ==
    ASSUME Source, DeviceInv, LoadStack, BuiltInv, InflateDone
    PROVE  /\ LoadStack' /\ BuiltInv' /\ returned'.result = "Success" /\ returned'.block = stack[1].block
           /\ stack[1].left = 0 /\ returned = Nothing /\ Calls = DOMAIN stack /\ 1 \in DOMAIN stack
           /\ returned' # Nothing
           /\ \A k \in DOMAIN stack' : k + 1 \in DOMAIN stack /\ stack'[k] = stack[k + 1]
           /\ \A k \in DOMAIN stack : k > 1 => k - 1 \in DOMAIN stack' /\ stack'[k - 1] = stack[k]
<1>1. PICK top : top = stack[1].block
  OBVIOUS
<1>2. /\ LoadSame /\ stack # <<>> /\ (stopped => stopped') /\ Top.at = "children" /\ Top.left = 0
      /\ Return("Success", Top.block) /\ UNCHANGED <<device, position, built>> /\ returned = Nothing
  BY DEF InflateDone, Loading, LoadSame, At
<1>3. /\ Top = stack[1] /\ 1 \in DOMAIN stack /\ ~ At("enter") /\ returned.block = NoBlock
      /\ DOMAIN stack = 1 .. Len(stack) /\ position \in 0 .. Len(device) /\ Len(device) \in Nat
  BY <1>2, StackFacts, WhatIsTaken DEF At, LoadStack
<1>4. /\ Calls = DOMAIN stack
      /\ InHand = {stack[k].block : k \in DOMAIN stack} \cup ({NoBlock} \ {NoBlock})
  BY <1>1, <1>2, <1>3, HandsAre
<1>5. /\ \A k \in DOMAIN stack : LoadCallFits(k) /\ stack[k].at = "children" /\ stack[k].block \in Taken
      /\ NoBlock \notin Taken
  BY <1>1, <1>4, StackFacts
<1>6. \A k \in DOMAIN stack : k > 1 => After(stack[k].block, top)
  BY <1>1, <1>3, <1>5 DEF LoadCallFits
<1>7. /\ Taken' = Taken /\ position' \in position .. Len(device) /\ "Success" \in Result \ {"Skipped"}
      /\ \A x, y : After(x, y)' = After(x, y)
  BY <1>2, <1>3, DeviceStays DEF Taken, Result
<1>8. /\ LoadStack' /\ InHand' = {stack[k].block : k \in DOMAIN stack \ {1}} \cup ({top} \ {NoBlock})
      /\ returned'.result = "Success" /\ returned'.block = top /\ returned' # Nothing
      /\ \A k \in DOMAIN stack' : k + 1 \in DOMAIN stack /\ stack'[k] = stack[k + 1]
      /\ \A k \in DOMAIN stack : k > 1 => k - 1 \in DOMAIN stack' /\ stack'[k - 1] = stack[k]
  <2>1. Return("Success", top) /\ top \in Taken' \cup {NoBlock} /\ top # NoBlock
    BY <1>1, <1>2, <1>3, <1>5, <1>7
  <2>2. QED
    BY <1>2, <1>6, <1>7, <2>1, LoadReturns
<1>9. InHand' = InHand
  <2>1. top # NoBlock /\ top \in {stack[k].block : k \in DOMAIN stack}
    BY <1>1, <1>3, <1>5
  <2>2. InHand' = {stack[k].block : k \in DOMAIN stack}
    BY <1>1, <1>3, <1>8, <2>1
  <2>3. QED
    BY <1>4, <2>2
<1>10. BuiltInv'
  BY <1>2, <1>7, <1>9, BuiltStays
<1>11. QED
  BY <1>1, <1>2, <1>3, <1>4, <1>8, <1>10
-----------------------------------------------------------------------------
(* The children that are to be read.                                       *)

LEMMA KidsAre ==
    ASSUME Source, DeviceInv, position \in 0 .. Len(device)
    PROVE  /\ \A b : \A c \in Kids(b) : c \in Blocks \ {0} /\ c \in Dumped /\ parent[c] = b
           /\ \A b : Kids(b) \in SUBSET Blocks /\ IsFiniteSet(Kids(b)) /\ KidsNb(b) \in Nat
           /\ \A i \in DOMAIN device : KidsNb(device[i].type) = device[i].childrenNb
           /\ \A i \in DOMAIN device : device[i].childrenNb = CountToWrite(device[i].type)
                 => Kids(device[i].type) = ChildrenOf(device[i].type) \cap Dumped
           /\ \A c \in Recorded(device) \ {0} : c \in Kids(parent[c])
<1>1. \A b : \A c \in Kids(b) : c \in Blocks \ {0} /\ c \in Dumped /\ parent[c] = b
  BY DEF Kids, ChildrenOf
<1>2. \A b : Kids(b) \in SUBSET Blocks /\ IsFiniteSet(Kids(b)) /\ KidsNb(b) \in Nat
  <2>1. \A b : Kids(b) \in SUBSET Blocks
    BY <1>1
  <2>2. QED
    BY <2>1, BlocksAreFinite DEF KidsNb
<1>3. ASSUME NEW i \in DOMAIN device
      PROVE  /\ device[i].type \in Dumped
             /\ CountToWrite(device[i].type) = Cardinality(ChildrenOf(device[i].type) \cap Dumped)
             /\ device[i].childrenNb # 0 => Kids(device[i].type) = ChildrenOf(device[i].type) \cap Dumped
             /\ device[i].childrenNb # 0 => device[i].childrenNb = CountToWrite(device[i].type)
             /\ device[i].childrenNb = 0 => Kids(device[i].type) = {}
  <2>1. device[i].type \in Dumped
    BY <1>3, WhatIsTaken
  <2>2. \A j \in DOMAIN device : device[j].type = device[i].type => j = i
    BY <1>3, WhatIsTaken
  <2>3. \/ device[i].childrenNb = CountToWrite(device[i].type)
        \/ device[i].childrenNb = 0
    BY <1>3 DEF DeviceInv
  <2>4. device[i].childrenNb # 0 => Kids(device[i].type) = ChildrenOf(device[i].type) \cap Dumped
    BY <1>3 DEF Kids
  <2>5. device[i].childrenNb = 0 => Kids(device[i].type) = {}
    BY <1>3, <2>2 DEF Kids
  <2>6. QED
    BY <2>1, <2>3, <2>4, <2>5, CountsAreKids
<1>4. \A i \in DOMAIN device : KidsNb(device[i].type) = device[i].childrenNb
  BY <1>3, FS_EmptySet DEF KidsNb
<1>5. ASSUME NEW i \in DOMAIN device, device[i].childrenNb = CountToWrite(device[i].type)
      PROVE  Kids(device[i].type) = ChildrenOf(device[i].type) \cap Dumped
  <2>1. CASE device[i].childrenNb # 0
    BY <1>3, <1>5, <2>1
  <2>2. CASE device[i].childrenNb = 0
    <3>1. Cardinality(ChildrenOf(device[i].type) \cap Dumped) = 0 /\ Kids(device[i].type) = {}
      BY <1>3, <1>5, <2>2
    <3>2. IsFiniteSet(ChildrenOf(device[i].type) \cap Dumped)
      <4>1. ChildrenOf(device[i].type) \cap Dumped \in SUBSET Blocks
        BY DEF ChildrenOf
      <4>2. QED
        BY <4>1, BlocksAreFinite
    <3>3. QED
      BY <3>1, <3>2, FS_EmptySet
  <2>3. QED
    BY <2>1, <2>2
<1>6. ASSUME NEW c \in Recorded(device) \ {0}
      PROVE  c \in Kids(parent[c])
  <2>1. PICK p, i : p = parent[c] /\ i = Place(device, p)
    OBVIOUS
  <2>2. /\ p \in Recorded(device) /\ i \in 1 .. Len(device) /\ device[i].type = p /\ i < Place(device, c)
        /\ Place(device, c) \in 1 .. Len(device) /\ c \in Dumped /\ c \in Blocks
        /\ DOMAIN device = 1 .. Len(device) /\ Len(device) \in Nat
    BY <1>6, <2>1, WhatIsTaken
  <2>3. i # Len(device) /\ i \in DOMAIN device
    <3>1. PICK j : j = Place(device, c)
      OBVIOUS
    <3>2. i \in 1 .. Len(device) /\ j \in 1 .. Len(device) /\ i < j /\ Len(device) \in Nat
      BY <2>2, <3>1
    <3>3. i # Len(device)
      BY <3>2
    <3>4. QED
      BY <2>2, <3>3
  <2>4. device[i].childrenNb = CountToWrite(p)
    BY <2>2, <2>3 DEF DeviceInv
  <2>5. c \in ChildrenOf(p) \cap Dumped
    BY <1>6, <2>1, <2>2 DEF ChildrenOf
  <2>6. Kids(p) = ChildrenOf(p) \cap Dumped
    BY <1>5, <2>2, <2>3, <2>4
  <2>7. QED
    BY <2>1, <2>5, <2>6
<1>7. QED
  BY <1>1, <1>2, <1>4, <1>5, <1>6

LEMMA KidsInOrder ==
    ASSUME Source, DeviceInv, position \in 0 .. Len(device), NEW b
    PROVE  /\ Ascending(Kids(b)) \in [1 .. KidsNb(b) -> Kids(b)]
           /\ \A i, j \in 1 .. KidsNb(b) : i < j => Kid(b, i) < Kid(b, j)
           /\ \A i, j \in 1 .. KidsNb(b) : Kid(b, i) = Kid(b, j) => i = j
           /\ \A i \in 1 .. KidsNb(b) : Kid(b, i) \in Kids(b)
           /\ \A c \in Kids(b) : \E i \in 1 .. KidsNb(b) : Kid(b, i) = c
<1>1. Kids(b) \in SUBSET Blocks
  BY KidsAre
<1>2. QED
  BY <1>1, AscendingProperties DEF KidsNb, Kid

LEMMA SlotIs ==
    /\ \A s : s \in Slots <=> \E k \in DOMAIN stack : \E i \in 1 .. Due(k) : s = <<stack[k].block, i>>
    /\ \A s : s \in Slots' <=>
          \E k \in DOMAIN stack' : \E i \in 1 .. Due(k)' : s = <<stack'[k].block, i>>
<1>1. \A s : s \in Slots <=> \E k \in DOMAIN stack : s \in {stack[k].block} \X (1 .. Due(k))
  BY DEF Slots
<1>2. \A s : s \in Slots' <=> \E k \in DOMAIN stack' : s \in {stack'[k].block} \X (1 .. Due(k)')
  BY DEF Slots
<1>3. \A s, b, n : s \in {b} \X (1 .. n) <=> \E i \in 1 .. n : s = <<b, i>>
  OBVIOUS
<1>4. \A s : s \in Slots <=> \E k \in DOMAIN stack : \E i \in 1 .. Due(k) : s = <<stack[k].block, i>>
  BY <1>1, <1>3
<1>5. \A s : s \in Slots' <=>
          \E k \in DOMAIN stack' : \E i \in 1 .. Due(k)' : s = <<stack'[k].block, i>>
  BY <1>2, <1>3
<1>6. QED
  BY <1>4, <1>5

LEMMA SameKids ==
    ASSUME DeviceInv, LoadSame, stopped => stopped'
    PROVE  \A b, m : KidsNb(b)' = KidsNb(b) /\ Kid(b, m)' = Kid(b, m) /\ Ascending(Kids(b))' = Ascending(Kids(b))
<1>1. \A b : Kids(b)' = Kids(b)
  BY DeviceStays
<1>2. \A b : Ascending(Kids(b))' = Ascending(Kids(b))
  BY <1>1
<1>3. QED
  BY <1>1, <1>2 DEF KidsNb, Kid

(* inflate is called for the next child: what is due is the same.          *)
LEMMA GoingChild ==
    ASSUME Source, DeviceInv, LoadStack, BuiltInv, GoingInv, InflateChild
    PROVE  GoingInv'
<1>1. /\ LoadSame /\ At("children") /\ stack # <<>> /\ (stopped => stopped') /\ returned = Nothing
      /\ UNCHANGED <<device, position, built, kept, returned, cut>> /\ Top.left > 0
  BY DEF InflateChild, Loading, LoadSame, At
<1>2. ChildStarts
  BY ChildStep
<1>3. /\ Top = stack[1] /\ 1 \in DOMAIN stack /\ DOMAIN stack = 1 .. Len(stack) /\ Len(stack) \in Nat
      /\ \A k \in DOMAIN stack : stack[k] \in LoadCall /\ stack[k].block \in Taken
      /\ NoBlock \notin Taken /\ Calls = DOMAIN stack /\ stack[1].left \in Nat \ {0}
      /\ position \in 0 .. Len(device)
  <2>1. ~ At("enter")
    BY <1>1 DEF At
  <2>2. Calls = DOMAIN stack
    BY <1>1, <2>1, HandsAre
  <2>3. stack[1] \in LoadCall /\ Top = stack[1]
    BY <1>1, StackFacts
  <2>4. stack[1].left \in Nat \ {0}
    BY <1>1, <2>3 DEF LoadCall
  <2>5. QED
    BY <1>1, <2>2, <2>4, StackFacts DEF LoadStack
<1>4. PICK top, left : top = stack[1].block /\ left = stack[1].left
  OBVIOUS
<1>5. /\ Taken' = Taken /\ \A b, m : KidsNb(b)' = KidsNb(b) /\ Kid(b, m)' = Kid(b, m)
                                   /\ Ascending(Kids(b))' = Ascending(Kids(b))
      /\ Awaited' = Awaited
  <2>1. Taken' = Taken
    BY <1>1 DEF Taken
  <2>2. \A b : Kids(b)' = Kids(b)
    BY <1>1, DeviceStays
  <2>3. Awaited' = Awaited
    BY <1>1, <2>1, <2>2 DEF Awaited
  <2>4. QED
    BY <1>1, <2>1, <2>3, SameKids
<1>6. /\ DOMAIN stack' = 1 .. Len(stack) + 1 /\ stack'[1] = Call(NoBlock)
      /\ stack'[2].block = top /\ stack'[2].left = left - 1
      /\ Calls' = 2 .. Len(stack) + 1
      /\ \A k \in 1 .. Len(stack) + 1 : k > 2 => k - 1 \in 1 .. Len(stack) /\ stack'[k] = stack[k - 1]
      /\ \A k \in 1 .. Len(stack) + 1 : k > 1 => k - 1 \in 1 .. Len(stack) /\ stack'[k].block = stack[k - 1].block
  BY <1>2, <1>4 DEF ChildStarts
<1>7. IsFiniteSet(Slots') /\ Cardinality(Slots') = Cardinality(Awaited')
  <2>1. /\ \A k \in DOMAIN stack : Due(k) = stack[k].left
        /\ Due(1)' = 1 /\ Due(2)' = left - 1
        /\ \A k \in DOMAIN stack' : k > 2 => Due(k)' = stack[k - 1].left
    BY <1>3, <1>6 DEF Due
  <2>2. PICK old, new : old = <<top, left>> /\ new = <<NoBlock, 1>>
    OBVIOUS
  <2>3. old \in Slots /\ new \notin Slots
    <3>1. 1 \in DOMAIN stack /\ left \in 1 .. Due(1) /\ old = <<stack[1].block, left>>
      BY <1>3, <1>4, <2>1, <2>2
    <3>2. \A k \in DOMAIN stack : \A i \in 1 .. Due(k) : new # <<stack[k].block, i>>
      BY <1>3, <2>2
    <3>3. QED
      BY <3>1, <3>2, SlotIs
  <2>4. \A k \in DOMAIN stack : k # 1 => stack[k].block # top
    BY <1>3, <1>4, StackFacts
  <2>5. ASSUME NEW s \in Slots'
        PROVE  s \in (Slots \ {old}) \cup {new}
    <3>1. PICK k \in DOMAIN stack' : \E i \in 1 .. Due(k)' : s = <<stack'[k].block, i>>
      BY <2>5, SlotIs
    <3>2. PICK i \in 1 .. Due(k)' : s = <<stack'[k].block, i>>
      BY <3>1
    <3>3. CASE k = 1
      <4>1. i = 1 /\ stack'[k].block = NoBlock
        BY <1>6, <2>1, <3>2, <3>3 DEF Call
      <4>2. QED
        BY <2>2, <3>2, <4>1
    <3>4. CASE k = 2
      <4>1. i \in 1 .. left /\ i # left /\ stack'[k].block = stack[1].block
        BY <1>3, <1>4, <1>6, <2>1, <3>2, <3>4
      <4>2. s \in Slots
        BY <1>3, <1>4, <2>1, <3>2, <4>1, SlotIs
      <4>3. s # old
        BY <2>2, <3>2, <4>1
      <4>4. QED
        BY <4>2, <4>3
    <3>5. CASE k > 2
      <4>1. PICK j \in DOMAIN stack : j = k - 1 /\ j # 1 /\ stack'[k] = stack[j]
        <5>1. k - 1 \in DOMAIN stack /\ k - 1 # 1 /\ stack'[k] = stack[k - 1]
          BY <1>3, <1>6, <3>5
        <5>2. QED
          BY <5>1
      <4>2. i \in 1 .. Due(j) /\ s = <<stack[j].block, i>>
        BY <2>1, <3>2, <3>5, <4>1
      <4>3. s \in Slots
        BY <4>2, SlotIs
      <4>4. s # old
        BY <2>2, <2>4, <4>1, <4>2
      <4>5. QED
        BY <4>3, <4>4
    <3>6. QED
      BY <1>3, <1>6, <3>3, <3>4, <3>5
  <2>6. ASSUME NEW s \in (Slots \ {old}) \cup {new}
        PROVE  s \in Slots'
    <3>1. CASE s = new
      <4>1. 1 \in DOMAIN stack' /\ 1 \in 1 .. Due(1)' /\ s = <<stack'[1].block, 1>>
        BY <1>3, <1>6, <2>1, <2>2, <3>1 DEF Call
      <4>2. QED
        BY <4>1, SlotIs
    <3>2. CASE s # new
      <4>1. PICK k \in DOMAIN stack : \E i \in 1 .. Due(k) : s = <<stack[k].block, i>>
        BY <2>6, <3>2, SlotIs
      <4>2. PICK i \in 1 .. Due(k) : s = <<stack[k].block, i>>
        BY <4>1
      <4>3. s # old
        BY <2>6, <3>2
      <4>4. CASE k = 1
        <5>1. i \in 1 .. left /\ i # left
          BY <1>4, <2>1, <2>2, <4>2, <4>3, <4>4
        <5>2. 2 \in DOMAIN stack' /\ i \in 1 .. Due(2)' /\ s = <<stack'[2].block, i>>
          BY <1>3, <1>4, <1>6, <2>1, <4>2, <4>4, <5>1
        <5>3. QED
          BY <5>2, SlotIs
      <4>5. CASE k # 1
        <5>1. PICK j \in DOMAIN stack' : j = k + 1 /\ j > 2 /\ stack'[j] = stack[k] /\ k = j - 1
          <6>1. k + 1 \in DOMAIN stack' /\ k + 1 > 2 /\ (k + 1) - 1 = k
            BY <1>3, <1>6, <4>5
          <6>2. stack'[k + 1] = stack[k]
            BY <1>6, <6>1
          <6>3. QED
            BY <6>1, <6>2
        <5>2. i \in 1 .. Due(j)' /\ s = <<stack'[j].block, i>>
          BY <2>1, <4>2, <5>1
        <5>3. QED
          BY <5>2, SlotIs
      <4>6. QED
        BY <4>4, <4>5
    <3>3. QED
      BY <3>1, <3>2
  <2>7. Slots' = (Slots \ {old}) \cup {new}
    BY <2>5, <2>6
  <2>8. IsFiniteSet(Slots) /\ Cardinality(Slots) \in Nat /\ Cardinality(Slots) = Cardinality(Awaited)
    BY FS_CardinalityType DEF GoingInv
  <2>9. IsFiniteSet(Slots \ {old}) /\ Cardinality(Slots \ {old}) = Cardinality(Slots) - 1
    BY <2>3, <2>8, FS_RemoveElement
  <2>10. IsFiniteSet(Slots') /\ Cardinality(Slots') = Cardinality(Slots) - 1 + 1
    <3>1. new \notin Slots \ {old}
      BY <2>3
    <3>2. QED
      BY <2>7, <2>9, <3>1, FS_AddElement
  <2>11. QED
    BY <1>5, <2>8, <2>10
<1>8. InStep => InStep'
  <2> SUFFICES ASSUME InStep
               PROVE  InStep'
    OBVIOUS
  <2>1. ASSUME NEW b \in Taken', \A k \in DOMAIN stack' : stack'[k].block # b
        PROVE  built'[b] = Ascending(Kids(b))'
    <3>1. ASSUME NEW k \in DOMAIN stack
          PROVE  stack[k].block # b
      <4>1. k + 1 \in DOMAIN stack' /\ k + 1 > 1 /\ (k + 1) - 1 = k
        BY <1>3, <1>6
      <4>2. stack'[k + 1].block = stack[k].block
        BY <1>6, <4>1
      <4>3. QED
        BY <2>1, <4>1, <4>2
    <3>2. QED
      BY <1>1, <1>5, <2>1, <3>1 DEF InStep
  <2>2. ASSUME NEW k \in Calls'
        PROVE  \E n \in 0 .. KidsNb(stack'[k].block) : CallInStep(k, n)'
    <3>1. CASE k = 2
      <4>1. PICK n \in 0 .. KidsNb(top) : CallInStep(1, n)
        BY <1>3, <1>4 DEF InStep
      <4>2. KidsNb(top) \in Nat
        BY <1>3, KidsAre
      <4>3. /\ left = KidsNb(top) - n
            /\ \A m \in n + 1 .. KidsNb(top) : Kid(top, m) \notin Taken
            /\ n >= 0 /\ Len(built[top]) = n
            /\ \A m \in 1 .. n : built[top][m] = Kid(top, m)
        BY <1>1, <1>4, <4>1 DEF CallInStep, ChildrenAdded
      <4>4. PICK p : p = n + 1
        OBVIOUS
      <4>5. /\ p \in 0 .. KidsNb(top) /\ left - 1 = KidsNb(top) - p /\ p - 1 = n
            /\ p \in n + 1 .. KidsNb(top) /\ \A m \in p + 1 .. KidsNb(top) : m \in n + 1 .. KidsNb(top)
        <5>1. PICK K : K = KidsNb(top)
          OBVIOUS
        <5>2. K \in Nat /\ n \in 0 .. K /\ left = K - n /\ left \in Nat \ {0} /\ p = n + 1
          BY <1>3, <1>4, <4>1, <4>2, <4>3, <4>4, <5>1
        <5>3. n < K /\ n \in Nat
          BY <5>2
        <5>4. p \in 0 .. K /\ left - 1 = K - p /\ p - 1 = n /\ p \in n + 1 .. K
          BY <5>2, <5>3
        <5>5. \A m \in p + 1 .. K : m \in n + 1 .. K
          BY <5>2, <5>3
        <5>6. QED
          BY <5>1, <5>4, <5>5
      <4>6. ChildrenAdded(k, p)' = n
        BY <3>1, <4>5 DEF ChildrenAdded
      <4>7. k - 1 \notin Calls' /\ k # 1 /\ k > 1
        BY <1>6, <3>1
      <4>8. CallInStep(k, p)'
        BY <1>1, <1>5, <1>6, <3>1, <4>3, <4>5, <4>6, <4>7 DEF CallInStep
      <4>9. QED
        BY <1>6, <3>1, <4>5, <4>8
    <3>2. CASE k # 2
      <4>1. PICK j \in DOMAIN stack : j = k - 1 /\ j # 1 /\ j > 1 /\ stack'[k] = stack[j] /\ k > 2
        <5>1. k \in 1 .. Len(stack) + 1 /\ k > 2 /\ k - 1 # 1 /\ k - 1 > 1
          BY <1>3, <1>6, <2>2, <3>2
        <5>2. QED
          BY <1>3, <1>6, <5>1
      <4>2. PICK n \in 0 .. KidsNb(stack[j].block) : CallInStep(j, n)
        BY <1>3, <4>1 DEF InStep
      <4>3. ChildrenAdded(k, n)' = ChildrenAdded(j, n)
        BY <3>2, <4>1 DEF ChildrenAdded
      <4>4. j - 1 \in Calls /\ j \in Calls' /\ stack'[j].block = stack[j - 1].block
        BY <1>3, <1>6, <4>1
      <4>5. Kid(stack[j].block, n) = stack[j - 1].block
        BY <4>1, <4>2, <4>4 DEF CallInStep
      <4>6. CallInStep(k, n)'
        BY <1>1, <1>5, <4>1, <4>2, <4>3, <4>4, <4>5 DEF CallInStep
      <4>7. QED
        BY <4>1, <4>2, <4>6
    <3>3. QED
      BY <3>1, <3>2
  <2>3. (\A b \in Taken : (\A k \in DOMAIN stack : stack[k].block # b) => built[b] = Ascending(Kids(b)))'
    BY <2>1
  <2>4. (\A k \in Calls : \E n \in 0 .. KidsNb(stack[k].block) : CallInStep(k, n))'
    BY <1>5, <2>2
  <2>5. QED
    BY <2>3, <2>4 DEF InStep
<1>9. InStep' \/ ~ (Awaited \subseteq Recorded(device))'
  BY <1>1, <1>5, <1>8 DEF GoingInv
<1>10. /\ DOMAIN built' = Taken' /\ (Owning \cap Taken') \ {cut'} \subseteq kept'
  BY <1>1, <1>5 DEF GoingInv
<1>11. QED
  BY <1>7, <1>9, <1>10 DEF GoingInv
-----------------------------------------------------------------------------
(* inflate reads a block: it is the one that is due.                       *)

\* The next record is awaited; then its children are, which were not read before.
LEMMA AwaitedBlock ==
    ASSUME Source, DeviceInv, LoadStack, LoadSame, stopped => stopped', More, position' = ReadOne,
           NEW h, h = Header.type
    PROVE  /\ h \in Awaited /\ Awaited' = (Awaited \ {h}) \cup Kids(h)
           /\ Kids(h) \cap Awaited = {} /\ Kids(h) \cap Taken' = {}
           /\ h \in Recorded(device) /\ h \notin Taken
           /\ position # 0 => h # 0 /\ parent[h] \in Taken /\ h \in Kids(parent[h])
           /\ position = 0 => Taken = {}
           /\ Awaited \in SUBSET Blocks
<1>1. /\ position' = position + 1 /\ Taken' = Taken \cup {h} /\ position + 1 \in DOMAIN device
      /\ h \notin Taken /\ h \in Recorded(device) /\ Place(device, h) = position + 1
      /\ position \in Nat /\ position \in 0 .. Len(device) /\ Len(device) \in Nat
      /\ device[position + 1].type = h /\ Taken \subseteq Recorded(device) /\ Recorded(device) \subseteq Blocks
  BY TakenGrows, WhatIsTaken DEF LoadStack, Header
<1>2. \A b : Kids(b)' = Kids(b)
  BY DeviceStays
<1>3. /\ \A b : \A c \in Kids(b) : c \in Blocks \ {0} /\ parent[c] = b
      /\ \A c \in Recorded(device) \ {0} : c \in Kids(parent[c])
  BY <1>1, KidsAre
<1>4. Kids(h) \cap Taken' = {}
  <2>1. SUFFICES ASSUME NEW c \in Kids(h), c \in Taken'
                 PROVE  FALSE
    OBVIOUS
  <2>2. c \in Recorded(device) \ {0} /\ parent[c] = h
    BY <1>1, <1>3, <2>1
  <2>3. Place(device, h) < Place(device, c) /\ Place(device, c) \in Nat
    BY <1>1, <2>2, WhatIsTaken
  <2>4. c # h => Place(device, c) <= position
    BY <1>1, <2>1, <2>2, WhatIsTaken
  <2>5. QED
    BY <1>1, <2>3, <2>4
<1>5. CASE position = 0
  <2>1. h = 0
    <3>1. device # <<>>
      BY <1>1
    <3>2. device[1].type = 0
      BY <3>1 DEF DeviceInv, Ordered
    <3>3. QED
      BY <1>1, <1>5, <3>2
  <2>2. Taken = {} /\ Awaited = {0}
    BY <1>5 DEF Taken, Awaited
  <2>3. Awaited' = (UNION {Kids(b)' : b \in Taken'}) \ Taken' /\ Taken' = {h}
    BY <1>1, <1>5, <2>2 DEF Awaited
  <2>4. Awaited' = Kids(h)
    <3>1. {Kids(b)' : b \in Taken'} = {Kids(h)}
      BY <1>2, <2>3
    <3>2. UNION {Kids(h)} = Kids(h)
      OBVIOUS
    <3>3. QED
      BY <1>4, <2>3, <3>1, <3>2
  <2>5. 0 \in Blocks /\ 0 \notin Kids(h)
    BY <1>3, SizeAssumption DEF Blocks
  <2>6. QED
    BY <1>1, <1>4, <1>5, <2>1, <2>2, <2>4, <2>5
<1>6. CASE position # 0
  <2>1. h # 0
    <3>1. device # <<>> /\ 1 \in DOMAIN device /\ position + 1 # 1
      BY <1>1, <1>6
    <3>2. device[1].type = 0
      BY <3>1 DEF DeviceInv, Ordered
    <3>3. QED
      BY <1>1, <3>1, <3>2, WhatIsTaken
  <2>2. parent[h] \in Taken
    <3>1. parent[h] \in Recorded(device) /\ Place(device, parent[h]) < position + 1
      BY <1>1, <2>1, WhatIsTaken
    <3>2. Place(device, parent[h]) \in 1 .. Len(device)
      BY <1>1, <3>1, WhatIsTaken
    <3>3. Place(device, parent[h]) <= position
      BY <1>1, <3>1, <3>2
    <3>4. QED
      BY <1>1, <3>1, <3>3, WhatIsTaken
  <2>3. h \in Kids(parent[h])
    BY <1>1, <1>3, <2>1
  <2>4. Awaited = (UNION {Kids(b) : b \in Taken}) \ Taken
    BY <1>6 DEF Awaited
  <2>5. Awaited' = (UNION {Kids(b)' : b \in Taken'}) \ Taken'
    BY <1>1 DEF Awaited
  <2>6. Awaited' = (Awaited \ {h}) \cup Kids(h)
    <3>1. {Kids(b)' : b \in Taken'} = {Kids(b) : b \in Taken} \cup {Kids(h)}
      BY <1>1, <1>2
    <3>2. \A R : UNION (R \cup {Kids(h)}) = (UNION R) \cup Kids(h)
      OBVIOUS
    <3>3. Awaited' = ((UNION {Kids(b) : b \in Taken}) \cup Kids(h)) \ (Taken \cup {h})
      BY <1>1, <2>5, <3>1, <3>2
    <3>4. QED
      BY <1>1, <1>4, <2>4, <3>3
  <2>7. h \in Awaited
    <3>1. \A R, S : S \in R => S \subseteq UNION R
      OBVIOUS
    <3>2. Kids(parent[h]) \in {Kids(b) : b \in Taken}
      BY <2>2
    <3>3. QED
      BY <1>1, <2>3, <2>4, <3>1, <3>2
  <2>8. Kids(h) \cap Awaited = {}
    BY <1>1, <1>3, <2>4
  <2>9. Awaited \in SUBSET Blocks
    BY <1>3, <2>4
  <2>10. QED
    BY <1>1, <1>4, <1>6, <2>1, <2>2, <2>3, <2>6, <2>7, <2>8, <2>9
<1>7. QED
  BY <1>5, <1>6

\* It takes the place of the call that reads it, and of what was awaited.
LEMMA SlotsBlock ==
    ASSUME Source, DeviceInv, LoadStack, BuiltInv, GoingInv, InflateBlock, returned'.result # "Failed"
    PROVE  IsFiniteSet(Slots') /\ Cardinality(Slots') = Cardinality(Awaited')
<1>1. PICK h, nb : h = Header.type /\ nb = Header.childrenNb
  OBVIOUS
<1>2. /\ LoadSame /\ At("enter") /\ stack # <<>> /\ (stopped => stopped')
      /\ UNCHANGED device /\ position' = ReadOne /\ More
  BY DEF InflateBlock, Loading, LoadSame, At
<1>3. /\ DOMAIN stack' = DOMAIN stack /\ stack'[1].block = h /\ stack'[1].left = nb
      /\ \A k \in DOMAIN stack : k # 1 => stack'[k] = stack[k]
      /\ Calls' = DOMAIN stack'
  BY <1>1, BlockStep DEF BlockCall
<1>4. /\ DOMAIN stack = 1 .. Len(stack) /\ 1 \in DOMAIN stack /\ Len(stack) \in Nat
      /\ Calls = DOMAIN stack \ {1} /\ stack[1].block = NoBlock /\ NoBlock \notin Taken
      /\ \A k \in DOMAIN stack : k # 1 => stack[k].block \in Taken
      /\ position \in 0 .. Len(device)
  <2>1. Top = stack[1] /\ Top.at = "enter"
    BY <1>2, StackFacts DEF At
  <2>2. stack[1] = Call(NoBlock)
    BY <1>2, <2>1, StackFacts DEF LoadCallFits
  <2>3. QED
    BY <1>2, <2>2, StackFacts, HandsAre DEF Call, LoadStack
<1>5. /\ Due(1) = 1 /\ Due(1)' = nb
      /\ \A k \in DOMAIN stack : k # 1 => Due(k)' = Due(k)
  BY <1>3, <1>4 DEF Due
<1>6. PICK new, block : new = <<NoBlock, 1>> /\ block = {h} \X (1 .. nb)
  OBVIOUS
<1>7. /\ h \in Awaited /\ Awaited' = (Awaited \ {h}) \cup Kids(h)
      /\ Kids(h) \cap Awaited = {} /\ h \notin Taken /\ Awaited \in SUBSET Blocks /\ h # NoBlock
  <2>1. /\ h \in Awaited /\ Awaited' = (Awaited \ {h}) \cup Kids(h)
        /\ Kids(h) \cap Awaited = {} /\ h \notin Taken /\ Awaited \in SUBSET Blocks
    BY <1>1, <1>2, AwaitedBlock
  <2>2. QED
    BY <2>1, SizeAssumption
<1>8. new \in Slots /\ Slots \cap block = {}
  <2>1. 1 \in DOMAIN stack /\ 1 \in 1 .. Due(1) /\ new = <<stack[1].block, 1>>
    BY <1>4, <1>5, <1>6
  <2>2. \A k \in DOMAIN stack : stack[k].block # h
    BY <1>4, <1>7
  <2>3. \A s \in block : \E i \in 1 .. nb : s = <<h, i>>
    BY <1>6
  <2>4. ASSUME NEW s \in Slots, s \in block
        PROVE  FALSE
    <3>1. PICK k \in DOMAIN stack : \E i \in 1 .. Due(k) : s = <<stack[k].block, i>>
      BY <2>4, SlotIs
    <3>2. QED
      BY <2>2, <2>3, <2>4, <3>1
  <2>5. QED
    BY <2>1, <2>4, SlotIs
<1>9. ASSUME NEW s \in Slots'
      PROVE  s \in (Slots \ {new}) \cup block
  <2>1. PICK k \in DOMAIN stack' : \E i \in 1 .. Due(k)' : s = <<stack'[k].block, i>>
    BY <1>9, SlotIs
  <2>2. PICK i \in 1 .. Due(k)' : s = <<stack'[k].block, i>>
    BY <2>1
  <2>3. CASE k = 1
    BY <1>3, <1>5, <1>6, <2>2, <2>3
  <2>4. CASE k # 1
    <3>1. k \in DOMAIN stack /\ i \in 1 .. Due(k) /\ s = <<stack[k].block, i>>
      BY <1>3, <1>5, <2>2, <2>4
    <3>2. s \in Slots
      BY <3>1, SlotIs
    <3>3. s # new
      BY <1>4, <1>6, <2>4, <3>1
    <3>4. QED
      BY <3>2, <3>3
  <2>5. QED
    BY <2>3, <2>4
<1>10. ASSUME NEW s \in (Slots \ {new}) \cup block
       PROVE  s \in Slots'
  <2>1. CASE s \in block
    <3>1. PICK i \in 1 .. nb : s = <<h, i>>
      BY <1>6, <2>1
    <3>2. 1 \in DOMAIN stack' /\ i \in 1 .. Due(1)' /\ s = <<stack'[1].block, i>>
      BY <1>3, <1>4, <1>5, <3>1
    <3>3. QED
      BY <3>2, SlotIs
  <2>2. CASE s \notin block
    <3>1. PICK k \in DOMAIN stack : \E i \in 1 .. Due(k) : s = <<stack[k].block, i>>
      BY <1>10, <2>2, SlotIs
    <3>2. PICK i \in 1 .. Due(k) : s = <<stack[k].block, i>>
      BY <3>1
    <3>3. k # 1
      <4>1. SUFFICES ASSUME k = 1
                     PROVE  FALSE
        OBVIOUS
      <4>2. i = 1
        BY <1>5, <3>2, <4>1
      <4>3. QED
        BY <1>4, <1>6, <1>10, <2>2, <3>2, <4>1, <4>2
    <3>4. k \in DOMAIN stack' /\ i \in 1 .. Due(k)' /\ s = <<stack'[k].block, i>>
      BY <1>3, <1>5, <3>2, <3>3
    <3>5. QED
      BY <3>4, SlotIs
  <2>3. QED
    BY <2>1, <2>2
<1>11. Slots' = (Slots \ {new}) \cup block
  BY <1>9, <1>10
<1>12. nb \in Nat /\ nb = Cardinality(Kids(h)) /\ IsFiniteSet(Kids(h))
  <2>1. position + 1 \in DOMAIN device /\ device[position + 1].type = h /\ device[position + 1].childrenNb = nb
    BY <1>1, <1>2, TakenGrows DEF Header
  <2>2. QED
    BY <1>4, <2>1, KidsAre DEF KidsNb
<1>13. IsFiniteSet(block) /\ Cardinality(block) = nb
  <2>1. IsFiniteSet({h}) /\ Cardinality({h}) = 1
    BY FS_Singleton
  <2>2. IsFiniteSet(1 .. nb) /\ Cardinality(1 .. nb) = nb
    BY <1>12, FS_Interval
  <2>3. IsFiniteSet({h} \X (1 .. nb)) /\ Cardinality({h} \X (1 .. nb)) = 1 * nb
    BY <2>1, <2>2, FS_Product
  <2>4. QED
    BY <1>6, <1>12, <2>3
<1>14. /\ IsFiniteSet(Slots) /\ Cardinality(Slots) \in Nat /\ Cardinality(Slots) = Cardinality(Awaited)
       /\ IsFiniteSet(Awaited)
  BY <1>7, BlocksAreFinite, FS_CardinalityType DEF GoingInv
<1>15. IsFiniteSet(Slots \ {new}) /\ Cardinality(Slots \ {new}) = Cardinality(Slots) - 1
  BY <1>8, <1>14, FS_RemoveElement
<1>16. IsFiniteSet(Awaited \ {h}) /\ Cardinality(Awaited \ {h}) = Cardinality(Awaited) - 1
  BY <1>7, <1>14, FS_RemoveElement
<1>17. IsFiniteSet(Slots') /\ Cardinality(Slots') = Cardinality(Slots) - 1 + nb
  <2>1. (Slots \ {new}) \cap block = {}
    BY <1>8
  <2>2. IsFiniteSet(Slots') /\ Cardinality(Slots') = Cardinality(Slots \ {new}) + Cardinality(block) - Cardinality({})
    BY <1>11, <1>13, <1>15, <2>1, FS_Union
  <2>3. QED
    BY <1>12, <1>13, <1>14, <1>15, <2>2, FS_EmptySet
<1>18. Cardinality(Awaited') = Cardinality(Awaited) - 1 + nb
  <2>1. (Awaited \ {h}) \cap Kids(h) = {}
    BY <1>7
  <2>2. Cardinality(Awaited') = Cardinality(Awaited \ {h}) + Cardinality(Kids(h)) - Cardinality({})
    BY <1>7, <1>12, <1>16, <2>1, FS_Union
  <2>3. QED
    BY <1>12, <1>14, <1>16, <2>2, FS_EmptySet
<1>19. QED
  BY <1>14, <1>17, <1>18

\* If no record is missing, the next one is that of the child to which the innermost
\* call but one has come.
LEMMA NextIsDue ==
    ASSUME Source, DeviceInv, LoadStack, BuiltInv, LoadSame, stopped => stopped',
           DOMAIN built = Taken, InStep, Awaited \subseteq Recorded(device),
           At("enter"), More, position' = ReadOne, position # 0, NEW h, h = Header.type
    PROVE  /\ 2 \in DOMAIN stack /\ parent[h] = stack[2].block
           /\ \A n \in 0 .. KidsNb(stack[2].block) : CallInStep(2, n) => h = Kid(stack[2].block, n)
<1>1. PICK p : p = parent[h]
  OBVIOUS
<1>2. /\ p \in Taken /\ h \in Kids(p) /\ h \in Awaited /\ h \notin Taken /\ h # 0
      /\ Place(device, h) = position + 1 /\ position \in 0 .. Len(device) /\ Len(device) \in Nat
      /\ h \in Recorded(device) /\ Taken \subseteq Recorded(device)
  BY <1>1, AwaitedBlock, TakenGrows, WhatIsTaken DEF LoadStack
<1>3. /\ Calls = DOMAIN stack \ {1} /\ DOMAIN stack = 1 .. Len(stack) /\ Len(stack) \in Nat /\ 1 \in DOMAIN stack
      /\ \A k \in DOMAIN stack : k # 1 => stack[k].block \in Taken /\ k > 1 /\ LoadCallFits(k) /\ stack[k].at = "children"
      /\ stack[1].block = NoBlock /\ NoBlock \notin Taken /\ returned = Nothing
  <2>1. stack # <<>> /\ Top = stack[1] /\ Top.at = "enter" /\ returned = Nothing
    BY StackFacts DEF At
  <2>2. stack[1] = Call(NoBlock)
    BY <2>1, StackFacts DEF LoadCallFits
  <2>3. QED
    BY <2>1, <2>2, StackFacts, HandsAre DEF Call
<1>4. PICK j \in DOMAIN stack : stack[j].block = p
  <2>1. SUFFICES ASSUME \A j \in DOMAIN stack : stack[j].block # p
                 PROVE  FALSE
    OBVIOUS
  <2>2. built[p] = Ascending(Kids(p))
    BY <1>2, <2>1 DEF InStep
  <2>3. PICK m \in 1 .. KidsNb(p) : Kid(p, m) = h
    BY <1>2, KidsInOrder
  <2>4. built[p] \in [1 .. KidsNb(p) -> Kids(p)] /\ built[p][m] = h
    BY <1>2, <2>2, <2>3, KidsInOrder DEF Kid
  <2>5. h \in ToSet(built[p])
    BY <2>3, <2>4 DEF ToSet
  <2>6. QED
    BY <1>2, <2>5, BuiltFacts DEF BuiltClosed
<1>5. j # 1 /\ j > 1 /\ j \in Calls
  BY <1>2, <1>3, <1>4
<1>6. PICK m \in 1 .. KidsNb(p) : Kid(p, m) = h
  BY <1>2, KidsInOrder
<1>7. KidsNb(p) \in Nat
  BY <1>2, KidsAre
<1>8. PICK q : q = stack[2].block
  OBVIOUS
<1>9. 2 \in DOMAIN stack /\ 2 \in Calls /\ q \in Taken
  BY <1>3, <1>5, <1>8
<1>10. ASSUME NEW l \in 0 .. KidsNb(q), CallInStep(2, l)
       PROVE  p = q /\ h = Kid(q, l)
  <2>1. PICK e : e = Kid(q, l)
    OBVIOUS
  <2>2. KidsNb(q) \in Nat /\ l >= 1 /\ l \in 1 .. KidsNb(q)
    <3>1. ChildrenAdded(2, l) = l - 1 /\ ChildrenAdded(2, l) >= 0
      BY <1>10 DEF ChildrenAdded, CallInStep
    <3>2. KidsNb(q) \in Nat
      BY <1>2, KidsAre
    <3>3. QED
      BY <3>1, <3>2
  <2>3. e \notin Taken
    BY <1>3, <1>8, <1>10, <2>1 DEF CallInStep
  <2>4. e \in Kids(q)
    BY <1>2, <2>1, <2>2, KidsInOrder
  <2>5. e \in Recorded(device) /\ e # 0 /\ parent[e] = q
    <3>1. e \in Awaited
      <4>1. Awaited = (UNION {Kids(b) : b \in Taken}) \ Taken
        BY DEF Awaited
      <4>2. \A R, S : S \in R => S \subseteq UNION R
        OBVIOUS
      <4>3. Kids(q) \in {Kids(b) : b \in Taken}
        BY <1>9
      <4>4. QED
        BY <2>3, <2>4, <4>1, <4>2, <4>3
    <3>2. QED
      BY <1>2, <2>4, <3>1, KidsAre
  <2>6. CASE e = h
    BY <1>1, <2>1, <2>5, <2>6
  <2>7. CASE e # h
    <3>1. PICK pe, pq, pp : pe = Place(device, e) /\ pq = Place(device, q) /\ pp = Place(device, p)
      OBVIOUS
    <3>2. /\ pe \in 1 .. Len(device) /\ pq \in 1 .. Len(device) /\ pp \in 1 .. Len(device)
          /\ pe > position /\ pq <= position /\ device[pe].type = e
          /\ device[position + 1].type = h
      BY <1>2, <1>9, <2>3, <2>5, <3>1, WhatIsTaken DEF Header
    <3>3. position + 1 < pe /\ pq < position + 1
      <4>1. pe # position + 1
        BY <2>7, <3>2
      <4>2. QED
        BY <1>2, <3>2, <4>1
    <3>4. pq <= pp
      <4>1. Place(device, parent[e]) < Place(device, h) /\ Place(device, h) < Place(device, e)
        BY <1>2, <2>5, <3>1, <3>3
      <4>2. Place(device, parent[e]) <= Place(device, parent[h])
        BY <1>2, <2>5, <4>1 DEF DeviceInv, Ordered
      <4>3. QED
        BY <1>1, <2>5, <3>1, <4>2
    <3>5. j = 2
      <4>1. SUFFICES ASSUME j # 2
                     PROVE  FALSE
        OBVIOUS
      <4>2. 2 < j
        BY <1>3, <1>5, <4>1
      <4>3. After(p, q)
        BY <1>3, <1>4, <1>8, <1>9, <4>2 DEF LoadCallFits
      <4>4. pp < pq
        BY <3>1, <4>3 DEF After
      <4>5. QED
        BY <3>2, <3>4, <4>4
    <3>6. p = q
      BY <1>4, <1>8, <3>5
    <3>7. l <= m
      <4>1. SUFFICES ASSUME m < l
                     PROVE  FALSE
        BY <1>7, <2>2
      <4>2. m \in 1 .. l - 1
        BY <1>7, <2>2, <4>1
      <4>3. ChildrenAdded(2, l) = l - 1
        BY DEF ChildrenAdded
      <4>4. built[p][m] = h /\ Len(built[p]) = l - 1
        BY <1>6, <1>8, <1>10, <3>6, <4>2, <4>3 DEF CallInStep
      <4>5. built[p] \in Seq(Blocks)
        BY <1>2 DEF BuiltInv, BuiltType
      <4>6. h \in ToSet(built[p])
        BY <4>2, <4>4, <4>5 DEF ToSet
      <4>7. QED
        BY <1>2, <4>6, BuiltFacts DEF BuiltClosed
    <3>8. l # m
      BY <1>6, <2>1, <2>7, <3>6
    <3>9. Kid(p, l) < Kid(p, m)
      <4>1. l < m /\ l \in 1 .. KidsNb(p)
        BY <1>7, <2>2, <3>6, <3>7, <3>8
      <4>2. QED
        BY <1>2, <4>1, KidsInOrder
    <3>10. e < h /\ parent[e] = parent[h]
      BY <1>1, <1>6, <2>1, <2>5, <3>6, <3>9
    <3>11. Place(device, e) < Place(device, h)
      BY <1>2, <2>5, <3>10 DEF DeviceInv, Ordered
    <3>12. QED
      BY <1>2, <3>1, <3>2, <3>3, <3>11
  <2>8. QED
    BY <2>6, <2>7
<1>11. p = q
  <2>1. PICK l \in 0 .. KidsNb(q) : CallInStep(2, l)
    BY <1>8, <1>9 DEF InStep
  <2>2. QED
    BY <1>10, <2>1
<1>12. QED
  BY <1>1, <1>8, <1>9, <1>10, <1>11

\* The call for the block that was read has come to none of its children.
LEMMA StepBlock ==
    ASSUME Source, DeviceInv, LoadStack, BuiltInv, InflateBlock, returned'.result # "Failed",
           DOMAIN built = Taken, InStep, Awaited \subseteq Recorded(device)
    PROVE  InStep'
<1>1. PICK h : h = Header.type
  OBVIOUS
<1>2. /\ LoadSame /\ At("enter") /\ stack # <<>> /\ (stopped => stopped')
      /\ UNCHANGED device /\ position' = ReadOne /\ More
      /\ built' = [b \in DOMAIN built \cup {h} |-> IF b = h THEN <<>> ELSE built[b]]
  BY <1>1 DEF InflateBlock, Loading, LoadSame, At
<1>3. /\ DOMAIN stack' = DOMAIN stack /\ stack'[1].block = h /\ stack'[1].left = Header.childrenNb
      /\ \A k \in DOMAIN stack : k # 1 => stack'[k] = stack[k]
      /\ Calls' = DOMAIN stack' /\ returned' = returned
  BY <1>1, BlockStep DEF BlockCall, BlockStarts
<1>4. /\ DOMAIN stack = 1 .. Len(stack) /\ 1 \in DOMAIN stack /\ Len(stack) \in Nat
      /\ Calls = DOMAIN stack \ {1} /\ stack[1].block = NoBlock /\ NoBlock \notin Taken
      /\ \A k \in DOMAIN stack : k # 1 => stack[k].block \in Taken /\ k > 1
      /\ position \in 0 .. Len(device) /\ returned = Nothing
      /\ \A i, k \in Calls : stack[i].block = stack[k].block => i = k
  <2>1. Top = stack[1] /\ Top.at = "enter" /\ returned = Nothing
    BY <1>2, StackFacts DEF At
  <2>2. stack[1] = Call(NoBlock)
    BY <1>2, <2>1, StackFacts DEF LoadCallFits
  <2>3. QED
    BY <1>2, <2>1, <2>2, StackFacts, HandsAre DEF Call, LoadStack
<1>5. /\ \A b, m : KidsNb(b)' = KidsNb(b) /\ Kid(b, m)' = Kid(b, m)
      /\ \A b : Ascending(Kids(b))' = Ascending(Kids(b))
  BY <1>2, SameKids
<1>6. /\ Taken' = Taken \cup {h} /\ h \notin Taken /\ h # NoBlock /\ Kids(h) \cap Taken' = {}
      /\ Header.childrenNb = KidsNb(h) /\ KidsNb(h) \in Nat
  <2>1. /\ Taken' = Taken \cup {h} /\ h \notin Taken /\ h \in Recorded(device)
        /\ position + 1 \in DOMAIN device
    BY <1>1, <1>2, TakenGrows
  <2>2. Kids(h) \cap Taken' = {}
    BY <1>1, <1>2, AwaitedBlock
  <2>3. Header.childrenNb = KidsNb(h) /\ KidsNb(h) \in Nat
    BY <1>1, <1>4, <2>1, KidsAre DEF Header
  <2>4. h # NoBlock
    BY <1>4, <2>1, WhatIsTaken, SizeAssumption
  <2>5. QED
    BY <2>1, <2>2, <2>3, <2>4
<1>7. /\ h \in DOMAIN built' /\ built'[h] = <<>>
      /\ \A b \in Taken : built'[b] = built[b]
  BY <1>2, <1>6
<1>8. ASSUME NEW b \in Taken', \A k \in DOMAIN stack' : stack'[k].block # b
      PROVE  built'[b] = Ascending(Kids(b))'
  <2>1. b # h /\ b \in Taken
    BY <1>3, <1>4, <1>6, <1>8
  <2>2. \A k \in DOMAIN stack : stack[k].block # b
    BY <1>3, <1>4, <1>8, <2>1
  <2>3. QED
    BY <1>5, <1>7, <2>1, <2>2 DEF InStep
<1>9. 0 \in 0 .. KidsNb(h) /\ CallInStep(1, 0)'
  <2>1. /\ stack'[1].left = KidsNb(h) - 0 /\ ChildrenAdded(1, 0)' = 0 /\ Len(built'[h]) = 0
        /\ returned' = Nothing
    BY <1>3, <1>4, <1>6, <1>7 DEF ChildrenAdded
  <2>2. \A m \in 0 + 1 .. KidsNb(h) : Kid(h, m) \notin Taken'
    <3>1. 0 + 1 = 1
      OBVIOUS
    <3>2. QED
      BY <1>4, <1>6, <3>1, KidsInOrder
  <2>3. QED
    BY <1>3, <1>5, <1>6, <2>1, <2>2 DEF CallInStep
<1>10. ASSUME NEW k \in Calls', k # 1
       PROVE  \E n \in 0 .. KidsNb(stack'[k].block) : CallInStep(k, n)'
  <2>1. k \in Calls /\ k > 1 /\ stack'[k] = stack[k] /\ stack[k].block \in Taken
    BY <1>3, <1>4, <1>10
  <2>2. PICK p : p = stack[k].block
    OBVIOUS
  <2>3. PICK n \in 0 .. KidsNb(p) : CallInStep(k, n)
    BY <2>1, <2>2 DEF InStep
  <2>4. ChildrenAdded(k, n)' = ChildrenAdded(k, n) /\ ChildrenAdded(k, n) = n - 1
    BY <1>10 DEF ChildrenAdded
  <2>5. position # 0 /\ KidsNb(p) \in Nat
    BY <1>4, <2>1, <2>2, KidsAre DEF Taken
  <2>6. 2 \in DOMAIN stack /\ parent[h] = stack[2].block
    BY <1>1, <1>2, <2>5, NextIsDue
  <2>7. \A m \in n + 1 .. KidsNb(p) : Kid(p, m) # h
    <3>1. SUFFICES ASSUME NEW m \in n + 1 .. KidsNb(p), Kid(p, m) = h
                   PROVE  FALSE
      OBVIOUS
    <3>2. m \in 1 .. KidsNb(p) /\ m # n /\ n >= 1 /\ n \in 1 .. KidsNb(p)
      <4>1. n >= 1
        BY <2>3, <2>4 DEF CallInStep
      <4>2. QED
        BY <2>5, <3>1, <4>1
    <3>3. h \in Kids(p)
      BY <1>4, <3>1, <3>2, KidsInOrder
    <3>4. parent[h] = p
      BY <1>4, <3>3, KidsAre
    <3>5. k = 2
      BY <1>4, <2>1, <2>2, <2>6, <3>4
    <3>6. h = Kid(p, n)
      BY <1>1, <1>2, <2>2, <2>3, <2>5, <3>5, NextIsDue
    <3>7. QED
      BY <1>4, <3>1, <3>2, <3>6, KidsInOrder
  <2>8. k - 1 \in Calls' /\ Kid(p, n) = stack'[k - 1].block
    <3>1. CASE k = 2
      <4>1. h = Kid(p, n)
        BY <1>1, <1>2, <2>2, <2>3, <2>5, <3>1, NextIsDue
      <4>2. k - 1 = 1
        BY <3>1
      <4>3. QED
        BY <1>3, <1>4, <4>1, <4>2
    <3>2. CASE k # 2
      <4>1. k - 1 \in DOMAIN stack /\ k - 1 # 1
        BY <1>4, <2>1, <3>2
      <4>2. k - 1 \in Calls /\ k - 1 \in Calls' /\ stack'[k - 1] = stack[k - 1]
        BY <1>3, <1>4, <4>1
      <4>3. Kid(p, n) = stack[k - 1].block
        BY <2>1, <2>2, <2>3, <4>2 DEF CallInStep
      <4>4. QED
        BY <4>2, <4>3
    <3>3. QED
      BY <3>1, <3>2
  <2>9. CallInStep(k, n)'
    <3>1. \A m \in n + 1 .. KidsNb(p) : Kid(p, m) \notin Taken'
      BY <1>6, <2>2, <2>3, <2>7 DEF CallInStep
    <3>2. built'[p] = built[p]
      BY <1>7, <2>1, <2>2
    <3>3. QED
      BY <1>5, <1>10, <2>1, <2>2, <2>3, <2>4, <2>8, <3>1, <3>2 DEF CallInStep
  <2>10. QED
    BY <2>1, <2>2, <2>3, <2>9
<1>11. (\A b \in Taken : (\A k \in DOMAIN stack : stack[k].block # b) => built[b] = Ascending(Kids(b)))'
  BY <1>8
<1>12. ASSUME NEW k \in Calls'
       PROVE  \E n \in 0 .. KidsNb(stack'[k].block) : CallInStep(k, n)'
  BY <1>3, <1>9, <1>10
<1>13. (\A k \in Calls : \E n \in 0 .. KidsNb(stack[k].block) : CallInStep(k, n))'
  BY <1>5, <1>12
<1>14. QED
  BY <1>11, <1>13 DEF InStep

LEMMA GoingBlock ==
    ASSUME Source, DeviceInv, LoadStack, BuiltInv, GoingInv, InflateBlock, returned'.result # "Failed"
    PROVE  GoingInv'
<1>1. PICK h : h = Header.type
  OBVIOUS
<1>2. /\ LoadSame /\ (stopped => stopped') /\ UNCHANGED <<device, cut>> /\ position' = ReadOne /\ More
      /\ built' = [b \in DOMAIN built \cup {h} |-> IF b = h THEN <<>> ELSE built[b]]
  BY <1>1 DEF InflateBlock, Loading, LoadSame
<1>3. /\ Awaited' = (Awaited \ {h}) \cup Kids(h) /\ h \in Recorded(device)
  BY <1>1, <1>2, AwaitedBlock
<1>4. InStep' \/ ~ (Awaited \subseteq Recorded(device))'
  <2>1. CASE Awaited \subseteq Recorded(device)
    <3>1. InStep /\ DOMAIN built = Taken
      BY <2>1 DEF GoingInv
    <3>2. QED
      BY <2>1, <3>1, StepBlock
  <2>2. CASE ~ (Awaited \subseteq Recorded(device))
    <3>1. Recorded(device)' = Recorded(device)
      BY <1>2
    <3>2. QED
      BY <1>3, <2>2, <3>1
  <2>3. QED
    BY <2>1, <2>2
<1>5. Taken' = Taken \cup {h} /\ position + 1 \in DOMAIN device
  BY <1>1, <1>2, TakenGrows
<1>6. DOMAIN built' = Taken'
  BY <1>2, <1>5 DEF GoingInv
<1>7. (Owning \cap Taken') \ {cut'} \subseteq kept'
  <2>1. kept' = IF Header.properties # {} /\ Header.value THEN kept \cup {h} ELSE kept
    BY <1>1, BlockStep DEF BlockStarts
  <2>2. h \in Owning \ {cut} => Header.properties # {} /\ Header.value
    BY <1>1, <1>5 DEF DeviceInv, Header
  <2>3. (Owning \cap Taken) \ {cut} \subseteq kept
    BY DEF GoingInv
  <2>4. QED
    BY <1>2, <1>5, <2>1, <2>2, <2>3
<1>8. QED
  BY <1>4, <1>6, <1>7, SlotsBlock DEF GoingInv

(* A child is added to its parent.                                         *)
LEMMA GoingAdded ==
    ASSUME Source, DeviceInv, LoadStack, BuiltInv, GoingInv, ChildDone, returned.result # "Canceled"
    PROVE  GoingInv'
<1>1. PICK top, c : top = stack[1].block /\ c = returned.block
  OBVIOUS
<1>2. /\ LoadSame /\ stack # <<>> /\ (stopped => stopped') /\ returned' = Nothing
      /\ UNCHANGED <<device, cut, position, stack, kept>>
  BY DEF ChildDone, Loading, LoadSame
<1>3. /\ returned.result = "Success" /\ Calls = DOMAIN stack
      /\ built' = [built EXCEPT ![top] = Append(@, c)]
  BY <1>1, ChildDoneStep
<1>4. returned # Nothing
  BY <1>3 DEF Nothing
<1>5. /\ 1 \in DOMAIN stack /\ top \in Taken /\ DOMAIN stack = 1 .. Len(stack) /\ position \in 0 .. Len(device)
      /\ \A k \in DOMAIN stack : stack[k].block \in Taken /\ (k # 1 => stack[k].block # top)
  BY <1>1, <1>2, <1>3, StackFacts DEF LoadStack
<1>6. /\ DOMAIN built = Taken /\ Taken' = Taken /\ DOMAIN built' = Taken /\ Calls' = Calls
      /\ built'[top] = Append(built[top], c) /\ built[top] \in Seq(Blocks) /\ c \in Blocks
      /\ \A b \in Taken : b # top => built'[b] = built[b]
  <2>1. DOMAIN built = Taken /\ Taken' = Taken /\ Calls' = Calls
    BY <1>2 DEF GoingInv, Taken, Calls
  <2>2. built[top] \in Seq(Blocks)
    BY <1>5, <2>1 DEF BuiltInv, BuiltType
  <2>3. c \in Blocks
    <3>1. c \in Taken \cup {NoBlock} /\ c # NoBlock
      BY <1>1, <1>3, StackFacts DEF LoadStack
    <3>2. QED
      BY <1>5, <3>1, WhatIsTaken
  <2>4. QED
    BY <1>3, <1>5, <2>1, <2>2, <2>3
<1>7. /\ \A b, m : KidsNb(b)' = KidsNb(b) /\ Kid(b, m)' = Kid(b, m)
      /\ \A b : Kids(b)' = Kids(b) /\ Ascending(Kids(b))' = Ascending(Kids(b))
  BY <1>2, SameKids, DeviceStays
<1>8. Slots' = Slots /\ Awaited' = Awaited
  <2>1. \A k : Due(k)' = Due(k)
    BY <1>2, <1>6 DEF Due
  <2>2. Slots' = Slots
    BY <1>2, <2>1 DEF Slots
  <2>3. QED
    BY <1>2, <1>6, <1>7, <2>2 DEF Awaited
<1>9. InStep => InStep'
  <2> SUFFICES ASSUME InStep
               PROVE  InStep'
    OBVIOUS
  <2>1. ASSUME NEW b \in Taken, \A k \in DOMAIN stack : stack[k].block # b
        PROVE  built'[b] = Ascending(Kids(b))'
    BY <1>1, <1>5, <1>6, <1>7, <2>1 DEF InStep
  <2>2. ASSUME NEW k \in Calls
        PROVE  \E n \in 0 .. KidsNb(stack[k].block) : CallInStep(k, n)'
    <3>1. PICK p : p = stack[k].block
      OBVIOUS
    <3>2. PICK n \in 0 .. KidsNb(p) : CallInStep(k, n)
      BY <2>2, <3>1 DEF InStep
    <3>3. /\ stack[k].left = KidsNb(p) - n
          /\ \A m \in n + 1 .. KidsNb(p) : Kid(p, m) \notin Taken
      BY <3>1, <3>2 DEF CallInStep
    <3>4. ChildrenAdded(k, n) = n - 1 /\ Len(built[p]) = n - 1 /\ n - 1 >= 0
          /\ \A m \in 1 .. n - 1 : built[p][m] = Kid(p, m)
      <4>1. ChildrenAdded(k, n) = n - 1
        BY <1>4 DEF ChildrenAdded
      <4>2. QED
        BY <3>1, <3>2, <4>1 DEF CallInStep
    <3>5. CASE k = 1
      <4>1. p = top /\ Kid(p, n) = c
        BY <1>1, <1>4, <3>1, <3>2, <3>5 DEF CallInStep
      <4>2. ChildrenAdded(k, n)' = n
        BY <1>2, <3>5 DEF ChildrenAdded
      <4>3. n \in Nat /\ Len(built'[p]) = n
        BY <1>6, <3>4, <4>1
      <4>4. \A m \in 1 .. n : built'[p][m] = Kid(p, m)
        <5>1. SUFFICES ASSUME NEW m \in 1 .. n
                       PROVE  built'[p][m] = Kid(p, m)
          OBVIOUS
        <5>2. CASE m = n
          <6>1. Append(built[p], c)[Len(built[p]) + 1] = c
            BY <1>6, <4>1
          <6>2. Len(built[p]) + 1 = m
            BY <3>4, <4>3, <5>2
          <6>3. QED
            BY <1>6, <4>1, <5>2, <6>1, <6>2
        <5>3. CASE m # n
          <6>1. m \in 1 .. n - 1
            BY <4>3, <5>1, <5>3
          <6>2. Append(built[p], c)[m] = built[p][m]
            BY <1>6, <3>4, <4>1, <6>1
          <6>3. QED
            BY <1>6, <3>4, <4>1, <6>1, <6>2
        <5>4. QED
          BY <5>2, <5>3
      <4>5. CallInStep(k, n)'
        BY <1>2, <1>6, <1>7, <3>1, <3>3, <3>5, <4>2, <4>3, <4>4 DEF CallInStep
      <4>6. QED
        BY <3>1, <3>2, <4>5
    <3>6. CASE k # 1
      <4>1. ChildrenAdded(k, n)' = n - 1
        BY <3>6 DEF ChildrenAdded
      <4>2. built'[p] = built[p]
        BY <1>3, <1>5, <1>6, <2>2, <3>1, <3>6
      <4>3. k > 1 => IF k - 1 \in Calls THEN Kid(p, n) = stack[k - 1].block ELSE Kid(p, n) \notin Taken
        BY <3>1, <3>2 DEF CallInStep
      <4>4. CallInStep(k, n)'
        BY <1>2, <1>6, <1>7, <3>1, <3>3, <3>4, <3>6, <4>1, <4>2, <4>3 DEF CallInStep
      <4>5. QED
        BY <3>1, <3>2, <4>4
    <3>7. QED
      BY <3>5, <3>6
  <2>3. (\A b \in Taken : (\A k \in DOMAIN stack : stack[k].block # b) => built[b] = Ascending(Kids(b)))'
    BY <1>2, <1>6, <2>1
  <2>4. (\A k \in Calls : \E n \in 0 .. KidsNb(stack[k].block) : CallInStep(k, n))'
    BY <1>2, <1>6, <1>7, <2>2
  <2>5. QED
    BY <2>3, <2>4 DEF InStep
<1>10. InStep' \/ ~ (Awaited \subseteq Recorded(device))'
  BY <1>2, <1>8, <1>9 DEF GoingInv
<1>11. /\ DOMAIN built' = Taken' /\ (Owning \cap Taken') \ {cut'} \subseteq kept'
       /\ IsFiniteSet(Slots') /\ Cardinality(Slots') = Cardinality(Awaited')
  BY <1>2, <1>6, <1>8 DEF GoingInv
<1>12. QED
  BY <1>10, <1>11 DEF GoingInv

(* The innermost call returns its block.                                   *)
LEMMA GoingDone ==
    ASSUME Source, DeviceInv, LoadStack, BuiltInv, GoingInv, InflateDone
    PROVE  GoingInv'
<1>1. PICK top : top = stack[1].block
  OBVIOUS
<1>2. LoadSame /\ (stopped => stopped') /\ UNCHANGED <<device, cut, position, built, kept>>
  BY DEF InflateDone, Loading, LoadSame
<1>3. /\ LoadStack' /\ returned'.block = top /\ stack[1].left = 0 /\ returned = Nothing
      /\ Calls = DOMAIN stack /\ 1 \in DOMAIN stack /\ returned' # Nothing
      /\ \A k \in DOMAIN stack' : k + 1 \in DOMAIN stack /\ stack'[k] = stack[k + 1]
      /\ \A k \in DOMAIN stack : k > 1 => k - 1 \in DOMAIN stack' /\ stack'[k - 1] = stack[k]
  BY <1>1, InflateDoneStep
<1>4. /\ DOMAIN stack = 1 .. Len(stack) /\ position \in 0 .. Len(device) /\ top \in Taken
      /\ \A k \in DOMAIN stack : stack[k].at = "children"
  BY <1>1, <1>3, StackFacts DEF LoadStack
<1>5. /\ Taken' = Taken /\ DOMAIN built = Taken
      /\ Calls' = DOMAIN stack' /\ DOMAIN stack' \subseteq Nat \ {0}
  <2>1. Calls' = DOMAIN stack'
    BY <1>3, <1>4 DEF Calls
  <2>2. DOMAIN stack' \subseteq Nat \ {0}
    BY <1>3 DEF LoadStack
  <2>3. QED
    BY <1>2, <2>1, <2>2 DEF Taken, GoingInv
<1>6. /\ \A b, m : KidsNb(b)' = KidsNb(b) /\ Kid(b, m)' = Kid(b, m)
      /\ \A b : Kids(b)' = Kids(b) /\ Ascending(Kids(b))' = Ascending(Kids(b))
  BY <1>2, SameKids, DeviceStays
<1>7. Slots' = Slots
  <2>1. /\ \A k \in DOMAIN stack : Due(k) = stack[k].left
        /\ \A k \in DOMAIN stack' : Due(k)' = stack'[k].left
    BY <1>3, <1>5 DEF Due
  <2>2. ASSUME NEW s \in Slots
        PROVE  s \in Slots'
    <3>1. PICK k \in DOMAIN stack : \E i \in 1 .. Due(k) : s = <<stack[k].block, i>>
      BY <2>2, SlotIs
    <3>2. PICK i \in 1 .. Due(k) : s = <<stack[k].block, i>>
      BY <3>1
    <3>3. k > 1
      <4>1. k # 1
        BY <1>3, <2>1, <3>2
      <4>2. QED
        BY <1>4, <4>1
    <3>4. PICK j \in DOMAIN stack' : stack'[j] = stack[k]
      BY <1>3, <3>3
    <3>5. i \in 1 .. Due(j)' /\ s = <<stack'[j].block, i>>
      BY <2>1, <3>2, <3>4
    <3>6. QED
      BY <3>5, SlotIs
  <2>3. ASSUME NEW s \in Slots'
        PROVE  s \in Slots
    <3>1. PICK j \in DOMAIN stack' : \E i \in 1 .. Due(j)' : s = <<stack'[j].block, i>>
      BY <2>3, SlotIs
    <3>2. PICK i \in 1 .. Due(j)' : s = <<stack'[j].block, i>>
      BY <3>1
    <3>3. PICK k \in DOMAIN stack : stack'[j] = stack[k]
      BY <1>3
    <3>4. i \in 1 .. Due(k) /\ s = <<stack[k].block, i>>
      BY <2>1, <3>2, <3>3
    <3>5. QED
      BY <3>4, SlotIs
  <2>4. QED
    BY <2>2, <2>3
<1>8. Awaited' = Awaited
  BY <1>2, <1>5, <1>6 DEF Awaited
<1>9. InStep => InStep'
  <2> SUFFICES ASSUME InStep
               PROVE  InStep'
    OBVIOUS
  <2>1. built[top] = Ascending(Kids(top))
    <3>1. PICK n \in 0 .. KidsNb(top) : CallInStep(1, n)
      BY <1>1, <1>3 DEF InStep
    <3>2. KidsNb(top) \in Nat
      BY <1>4, KidsAre
    <3>3. ChildrenAdded(1, n) = n /\ 0 = KidsNb(top) - n
      BY <1>1, <1>3, <3>1 DEF CallInStep, ChildrenAdded
    <3>4. n = KidsNb(top)
      BY <3>2, <3>3
    <3>5. Len(built[top]) = KidsNb(top) /\ \A m \in 1 .. KidsNb(top) : built[top][m] = Ascending(Kids(top))[m]
      BY <1>1, <3>1, <3>3, <3>4 DEF CallInStep, Kid
    <3>6. built[top] \in Seq(Blocks)
      BY <1>4, <1>5 DEF BuiltInv, BuiltType
    <3>7. Ascending(Kids(top)) \in [1 .. KidsNb(top) -> Kids(top)]
      BY <1>4, KidsInOrder
    <3>8. DOMAIN built[top] = 1 .. KidsNb(top) /\ built[top] = [m \in 1 .. KidsNb(top) |-> built[top][m]]
      BY <3>5, <3>6
    <3>9. QED
      BY <3>5, <3>7, <3>8
  <2>2. ASSUME NEW b \in Taken, \A k \in DOMAIN stack' : stack'[k].block # b
        PROVE  built[b] = Ascending(Kids(b))
    <3>1. CASE b = top
      BY <2>1, <3>1
    <3>2. CASE b # top
      <4>1. ASSUME NEW k \in DOMAIN stack
            PROVE  stack[k].block # b
        <5>1. CASE k = 1
          BY <1>1, <3>2, <5>1
        <5>2. CASE k # 1
          <6>1. k > 1
            BY <1>4, <5>2
          <6>2. PICK j \in DOMAIN stack' : stack'[j] = stack[k]
            BY <1>3, <6>1
          <6>3. QED
            BY <2>2, <6>2
        <5>3. QED
          BY <5>1, <5>2
      <4>2. QED
        BY <4>1 DEF InStep
    <3>3. QED
      BY <3>1, <3>2
  <2>3. ASSUME NEW j \in DOMAIN stack'
        PROVE  \E n \in 0 .. KidsNb(stack'[j].block) : CallInStep(j, n)'
    <3>1. PICK k \in DOMAIN stack : k = j + 1 /\ stack'[j] = stack[k] /\ k # 1 /\ k > 1 /\ j = k - 1 /\ j \in Nat
      <4>1. j + 1 \in DOMAIN stack /\ stack'[j] = stack[j + 1]
        BY <1>3
      <4>2. j + 1 # 1 /\ j + 1 > 1 /\ j = (j + 1) - 1 /\ j \in Nat
        BY <1>5
      <4>3. QED
        BY <4>1, <4>2
    <3>2. PICK p : p = stack[k].block
      OBVIOUS
    <3>3. PICK n \in 0 .. KidsNb(p) : CallInStep(k, n)
      BY <1>3, <3>2 DEF InStep
    <3>4. ChildrenAdded(k, n) = n - 1
      BY <3>1 DEF ChildrenAdded
    <3>5. /\ stack[k].left = KidsNb(p) - n
          /\ \A m \in n + 1 .. KidsNb(p) : Kid(p, m) \notin Taken
          /\ n - 1 >= 0 /\ Len(built[p]) = n - 1
          /\ \A m \in 1 .. n - 1 : built[p][m] = Kid(p, m)
      BY <3>2, <3>3, <3>4 DEF CallInStep
    <3>6. j \in DOMAIN stack /\ Kid(p, n) = stack[j].block
      <4>1. k - 1 \in DOMAIN stack
        BY <1>4, <3>1
      <4>2. QED
        BY <1>3, <3>1, <3>2, <3>3, <4>1 DEF CallInStep
    <3>7. ChildrenAdded(j, n)' = n - 1
      BY <1>3 DEF ChildrenAdded
    <3>8. j = 1 => Kid(p, n) = returned'.block
      BY <1>1, <1>3, <3>6
    <3>9. j > 1 => j - 1 \in Calls' /\ Kid(p, n) = stack'[j - 1].block
      BY <1>3, <1>5, <3>6
    <3>10. CallInStep(j, n)'
      BY <1>2, <1>5, <1>6, <3>1, <3>2, <3>5, <3>7, <3>8, <3>9 DEF CallInStep
    <3>11. QED
      BY <3>1, <3>2, <3>3, <3>10
  <2>4. (\A b \in Taken : (\A k \in DOMAIN stack : stack[k].block # b) => built[b] = Ascending(Kids(b)))'
    BY <1>2, <1>5, <1>6, <2>2
  <2>5. (\A k \in Calls : \E n \in 0 .. KidsNb(stack[k].block) : CallInStep(k, n))'
    BY <1>5, <1>6, <2>3
  <2>6. QED
    BY <2>4, <2>5 DEF InStep
<1>10. InStep' \/ ~ (Awaited \subseteq Recorded(device))'
  BY <1>2, <1>8, <1>9 DEF GoingInv
<1>11. /\ DOMAIN built' = Taken' /\ (Owning \cap Taken') \ {cut'} \subseteq kept'
       /\ IsFiniteSet(Slots') /\ Cardinality(Slots') = Cardinality(Awaited')
  BY <1>2, <1>5, <1>7, <1>8 DEF GoingInv
<1>12. QED
  BY <1>10, <1>11 DEF GoingInv

-----------------------------------------------------------------------------
(* A load that goes on.                                                    *)

(* A record that is whole is read without failure.                         *)
LEMMA WholeIsWritten ==
    ASSUME NEW b \in Blocks, trouble[b] = "none", NEW hash \in Record(b).properties,
           NEW v \in Writes(Record(b), hash)
    PROVE  v = TRUE
<1>1. PICK r : r = Record(b)
  OBVIOUS
<1>2. r.type = b /\ r.properties = StoredProperties(b) /\ r.value = TRUE
  BY <1>1 DEF Record
<1>3. b \in Owning /\ hash = 2
  BY <1>1, <1>2, StoredAre
<1>4. PICK names, cache : names = PropertyNames(b) /\ cache = PropertiesCache(names)
  OBVIOUS
<1>5. DOMAIN cache = 1 .. 3 /\ cache[1] = 0 /\ cache[2] = 1 /\ cache[3] = 2
  <2>1. /\ DOMAIN names = 1 .. 3 /\ names[1] = "objectName" /\ names[2] = "blockName" /\ names[3] = "own"
    BY <1>3, <1>4 DEF PropertyNames
  <2>2. Hash["blockName"] = 1 /\ Hash["own"] = 2
    BY DEF Hash
  <2>3. QED
    BY <1>4, <2>1, <2>2 DEF PropertiesCache, PropertyOffset
<1>6. PropertyIndex(cache, 2) = 2
  <2>1. 2 \in ToSet(cache)
    BY <1>5 DEF ToSet
  <2>2. (CHOOSE i \in DOMAIN cache : cache[i] = 2) = 3
    BY <1>5
  <2>3. QED
    BY <2>1, <2>2 DEF PropertyIndex
<1>7. Writes(r, hash) = {TRUE, r.value}
  <2>1. Writes(r, 2) = IF PropertyIndex(cache, 2) \in {-1, 0} \/ trouble[b] = "refused" THEN {FALSE}
                      ELSE {TRUE, r.value}
    BY <1>2, <1>4 DEF Writes
  <2>2. ~ (PropertyIndex(cache, 2) \in {-1, 0})
    BY <1>6
  <2>3. QED
    BY <1>3, <2>1, <2>2
<1>8. Writes(r, hash) = {TRUE}
  BY <1>2, <1>7, Zenon
<1>9. QED
  BY <1>1, <1>8, Zenon

\* As long as something is awaited it is on the device, and its class is known.
LEMMA NothingFails ==
    ASSUME Source, DeviceInv, LoadStack, GoingInv, Smooth, phase = "load"
    PROVE  /\ ~ InflateUnknown
           /\ InflateBlock => UNCHANGED returned
<1>1. Dumped \subseteq Recorded(device) /\ Recorded(device) \subseteq Dumped /\ Dumped \subseteq Blocks
      /\ position \in 0 .. Len(device) /\ Len(device) \in Nat
  BY WhatIsTaken DEF Smooth, DeviceInv, LoadStack
<1>2. ASSUME At("enter")
      PROVE  More /\ Header.type \in Dumped /\ position + 1 \in DOMAIN device
  <2>1. Top = stack[1] /\ 1 \in DOMAIN stack /\ stack[1].at = "enter"
    BY <1>2, StackFacts DEF At
  <2>2. <<stack[1].block, 1>> \in Slots
    <3>1. 1 \in 1 .. Due(1)
      BY <2>1 DEF Due, Calls
    <3>2. QED
      BY <2>1, <3>1, SlotIs
  <2>3. Awaited # {}
    <3>1. SUFFICES ASSUME Awaited = {}
                   PROVE  FALSE
      OBVIOUS
    <3>2. IsFiniteSet(Slots) /\ Cardinality(Slots) = 0
      BY <3>1, FS_EmptySet DEF GoingInv
    <3>3. QED
      BY <2>2, <3>2, FS_EmptySet
  <2>4. PICK a : a \in Awaited
    BY <2>3
  <2>5. a \in Dumped /\ a \notin Taken
    <3>1. CASE position = 0
      <4>1. a = 0 /\ Taken = {}
        BY <2>4, <3>1 DEF Awaited, Taken
      <4>2. QED
        BY <4>1, DumpedClosed DEF Smooth
    <3>2. CASE position # 0
      <4>1. a \in (UNION {Kids(b) : b \in Taken}) \ Taken
        BY <2>4, <3>2 DEF Awaited
      <4>2. QED
        BY <4>1 DEF Kids
    <3>3. QED
      BY <3>1, <3>2
  <2>6. Place(device, a) \in 1 .. Len(device) /\ Place(device, a) > position
    BY <1>1, <2>5, WhatIsTaken
  <2>7. More /\ position + 1 \in 1 .. Len(device)
    BY <1>1, <2>6 DEF More
  <2>8. QED
    BY <1>1, <2>7, WhatIsTaken DEF Header
<1>3. ~ InflateUnknown
  <2>1. SUFFICES ASSUME InflateUnknown
                 PROVE  FALSE
    OBVIOUS
  <2>2. At("enter") /\ (More => trouble[Header.type] = "unknown")
    BY <2>1 DEF InflateUnknown
  <2>3. QED
    BY <1>2, <2>2 DEF Smooth
<1>4. InflateBlock => UNCHANGED returned
  <2>1. SUFFICES ASSUME InflateBlock
                 PROVE  UNCHANGED returned
    OBVIOUS
  <2>2. At("enter")
    BY <2>1 DEF InflateBlock
  <2>3. PICK b \in Blocks : b = Header.type /\ b \in Dumped
    BY <1>1, <1>2, <2>2
  <2>4. Header = Record(b) /\ trouble[b] = "none"
    BY <1>2, <2>2, <2>3 DEF Smooth, DeviceInv, Header
  <2>5. PICK write \in [Header.properties -> BOOLEAN] :
            /\ \A hash \in DOMAIN write : write[hash] \in Writes(Header, hash)
            /\ (\E hash \in DOMAIN write : ~ write[hash]) \/ UNCHANGED returned
    BY <2>1 DEF InflateBlock
  <2>6. \A hash \in DOMAIN write : write[hash]
    BY <2>4, <2>5, WholeIsWritten
  <2>7. QED
    BY <2>5, <2>6
<1>5. QED
  BY <1>3, <1>4

(* Every step of inflate keeps what is known.                              *)
LEMMA LoadStep ==
    ASSUME Source, LoadInv, phase = "load", Inflate
    PROVE  LoadInv' /\ phase' \in {"load", "crashed"}
<1>1. /\ DeviceInv /\ LoadStack /\ BuiltInv /\ (Going => GoingInv) /\ (Smooth => Going)
  BY DEF LoadInv
<1>2. LoadSame /\ (stopped => stopped') /\ phase' \in {"load", "crashed"}
  BY DEF Inflate, InflateCanceled, InflateUnknown, InflateBlock, InflateChild, ChildFailed,
     ChildDone, InflateDone, Loading, LoadSame
<1>3. DeviceInv' /\ (Smooth' => Smooth /\ ~ stopped')
  <2>1. /\ DeviceInv' /\ Dumped' = Dumped /\ UNCHANGED <<whole, serializable, trouble>>
    BY <1>1, <1>2, DeviceStays
  <2>2. QED
    BY <1>2, <2>1 DEF Smooth
<1>4. returned = Nothing /\ phase = "load" => Going
  BY DEF Going, Nothing
<1>5. SUFFICES /\ LoadStack' /\ BuiltInv' /\ (Going' => GoingInv') /\ (Smooth' => Going')
               /\ phase' = "crashed" => stopped'
  BY <1>2, <1>3 DEF LoadInv
<1>6. CASE InflateCanceled
  <2>1. stopped' /\ phase' = "load"
    BY <1>6 DEF InflateCanceled
  <2>2. LoadStack' /\ BuiltInv' /\ ~ Going'
    BY <1>1, <1>6, CanceledStep DEF Going
  <2>3. QED
    BY <1>3, <2>1, <2>2
<1>7. CASE InflateUnknown
  <2>1. phase' = "load"
    BY <1>7 DEF InflateUnknown
  <2>2. LoadStack' /\ BuiltInv' /\ ~ Going'
    BY <1>1, <1>7, UnknownStep DEF Going
  <2>3. ~ Smooth
    BY <1>1, <1>7, NothingFails
  <2>4. QED
    BY <1>3, <2>1, <2>2, <2>3
<1>8. CASE InflateBlock
  <2>1. phase' = "load" /\ returned = Nothing
    BY <1>8 DEF InflateBlock, At
  <2>2. LoadStack' /\ BuiltInv'
    BY <1>1, <1>8, BlockStep
  <2>3. Going' => GoingInv'
    <3>1. Going' => returned'.result # "Failed"
      BY DEF Going
    <3>2. QED
      BY <1>1, <1>4, <1>8, <2>1, <3>1, GoingBlock
  <2>4. Smooth => Going'
    <3>1. Smooth => returned' = returned
      BY <1>1, <1>4, <1>8, <2>1, NothingFails
    <3>2. QED
      BY <2>1, <3>1 DEF Going, Nothing
  <2>5. QED
    BY <1>3, <2>1, <2>2, <2>3, <2>4
<1>9. CASE InflateChild
  <2>1. phase' = "load" /\ returned = Nothing /\ returned' = returned
    BY <1>9 DEF InflateChild, At
  <2>2. LoadStack' /\ BuiltInv' /\ GoingInv'
    BY <1>1, <1>4, <1>9, <2>1, ChildStep, GoingChild
  <2>3. Going'
    BY <2>1 DEF Going, Nothing
  <2>4. QED
    BY <2>1, <2>2, <2>3
<1>10. CASE ChildFailed
  <2>1. phase' = "load" /\ ~ Going
    BY <1>10 DEF ChildFailed, Going
  <2>2. LoadStack' /\ BuiltInv' /\ ~ Going'
    BY <1>1, <1>10, FailedStep DEF Going
  <2>3. QED
    BY <1>1, <1>3, <2>1, <2>2
<1>11. CASE ChildDone
  <2>1. LoadStack' /\ BuiltInv' /\ returned' = Nothing
    BY <1>1, <1>11, ChildDoneStep
  <2>2. CASE returned.result = "Canceled"
    <3>1. stopped /\ ~ Going /\ returned.block = NoBlock
      BY <1>1, <2>2 DEF LoadStack, Going
    <3>2. phase' = "crashed"
      BY <1>11, <3>1 DEF ChildDone
    <3>3. QED
      BY <1>1, <1>2, <1>3, <2>1, <3>1, <3>2 DEF Going
  <2>3. CASE returned.result # "Canceled"
    <3>1. returned.result = "Success" /\ phase' = phase
      BY <1>1, <1>11, <2>3, ChildDoneStep
    <3>2. Going /\ Going'
      BY <2>1, <3>1 DEF Going, Nothing
    <3>3. GoingInv'
      BY <1>1, <1>11, <2>3, <3>2, GoingAdded
    <3>4. QED
      BY <2>1, <3>1, <3>2, <3>3
  <2>4. QED
    BY <2>2, <2>3
<1>12. CASE InflateDone
  <2>1. phase' = "load" /\ returned = Nothing
    BY <1>12 DEF InflateDone, At
  <2>2. LoadStack' /\ BuiltInv' /\ returned'.result = "Success" /\ GoingInv'
    BY <1>1, <1>4, <1>12, <2>1, InflateDoneStep, GoingDone
  <2>3. Going'
    BY <2>1, <2>2 DEF Going
  <2>4. QED
    BY <2>1, <2>2, <2>3
<1>13. QED
  BY <1>6, <1>7, <1>8, <1>9, <1>10, <1>11, <1>12 DEF Inflate

(* inflate is called for the root.                                         *)
LEMMA LoadStarts ==
    ASSUME Source, DumpInv, StartLoading
    PROVE  LoadInv'
<1>1. DeviceInv'
  BY DeviceLoaded
<1>2. /\ position = 0 /\ position' = 0 /\ built' = <<>> /\ kept' = {} /\ phase' = "load"
      /\ stack' = <<Call(NoBlock)>> /\ returned' = Nothing
  BY DEF StartLoading, DumpInv
<1>3. /\ stack' \in Seq(LoadCall) /\ DOMAIN stack' = {1} /\ stack'[1] = Call(NoBlock) /\ stack' # <<>>
      /\ Call(NoBlock).at = "enter" /\ Call(NoBlock).block = NoBlock
  <2>1. Call(NoBlock) \in LoadCall /\ Call(NoBlock).at = "enter" /\ Call(NoBlock).block = NoBlock
    BY DEF Call, LoadCall
  <2>2. QED
    BY <1>2, <2>1
<1>4. Taken' = {} /\ Calls' = {} /\ InHand' = {} /\ DOMAIN built' = {}
  <2>1. Taken' = {}
    BY <1>2 DEF Taken
  <2>2. Calls' = {}
    BY <1>3 DEF Calls
  <2>3. InHand' = {}
    BY <1>2, <2>2 DEF InHand, Nothing
  <2>4. QED
    BY <1>2, <2>1, <2>2, <2>3
<1>5. LoadStack'
  <2>1. position' \in 0 .. Len(device')
    BY <1>1, <1>2 DEF DeviceInv
  <2>2. (\A k \in DOMAIN stack : LoadCallFits(k))'
    BY <1>3 DEF LoadCallFits
  <2>3. returned'.result = "none" /\ returned' = Nothing
    BY <1>2 DEF Nothing
  <2>4. QED
    BY <1>3, <2>1, <2>2, <2>3 DEF LoadStack, LoadCall
<1>6. BuiltInv'
  BY <1>2, <1>4 DEF BuiltInv, OnlyTakenIsBuilt, BuiltType, ChildrenAreBuilt, OneParent, OthersHaveParents
<1>7. GoingInv'
  <2>1. Awaited' = {0}
    BY <1>2 DEF Awaited
  <2>2. Slots' = {<<NoBlock, 1>>}
    <3>1. Due(1)' = 1
      BY <1>4 DEF Due
    <3>2. \A s : s \in Slots' <=> \E i \in 1 .. 1 : s = <<NoBlock, i>>
      BY <1>3, <3>1, SlotIs
    <3>3. QED
      BY <3>2
  <2>3. IsFiniteSet(Slots') /\ Cardinality(Slots') = Cardinality(Awaited')
    BY <2>1, <2>2, FS_Singleton
  <2>4. InStep'
    BY <1>4 DEF InStep
  <2>5. QED
    BY <1>4, <2>3, <2>4 DEF GoingInv
<1>8. Going'
  BY <1>2 DEF Going, Nothing
<1>9. QED
  BY <1>1, <1>2, <1>5, <1>6, <1>7, <1>8 DEF LoadInv

-----------------------------------------------------------------------------
(* The invariant.                                                          *)

\* Nothing changes, but that the load is over.
LEMMA LoadRests ==
    ASSUME LoadInv, stack = <<>> \/ phase' = phase,
           phase' = phase \/ (phase = "load" /\ phase' = "done"),
           UNCHANGED <<source, device, position, stack, returned, built, kept, stopped, whole, cut>>
    PROVE  LoadInv'
<1>1. /\ UNCHANGED <<parent, serializable, trouble, device, position, stack, returned, built, kept>>
      /\ UNCHANGED <<stopped, whole, cut>> /\ LoadSame
  BY DEF source, LoadSame
<1>2. /\ DeviceInv' /\ Dumped' = Dumped
      /\ \A b, c : After(b, c)' = After(b, c) /\ Kids(b)' = Kids(b)
      /\ \A b, m : KidsNb(b)' = KidsNb(b) /\ Kid(b, m)' = Kid(b, m)
      /\ \A b : Ascending(Kids(b))' = Ascending(Kids(b))
  BY <1>1, DeviceStays, SameKids DEF LoadInv
<1>3. Taken' = Taken /\ Calls' = Calls
  BY <1>1 DEF Taken, Calls
<1>4. InHand' = InHand
  BY <1>1, <1>3 DEF InHand
<1>5. LoadStack'
  <2>1. \A k : LoadCallFits(k)' = LoadCallFits(k)
    BY <1>1, <1>2, <1>3 DEF LoadCallFits
  <2>2. QED
    BY <1>1, <1>3, <2>1 DEF LoadInv, LoadStack
<1>6. BuiltInv'
  BY <1>1, <1>2, <1>3, <1>4, BuiltStays DEF LoadInv
<1>7. GoingInv' = GoingInv
  <2>1. \A k : Due(k)' = Due(k)
    BY <1>1, <1>3 DEF Due
  <2>2. Slots' = Slots /\ Awaited' = Awaited
    BY <1>1, <1>2, <1>3, <2>1 DEF Slots, Awaited
  <2>3. \A k, n : ChildrenAdded(k, n)' = ChildrenAdded(k, n)
    BY <1>1 DEF ChildrenAdded
  <2>4. \A k, n : CallInStep(k, n)' = CallInStep(k, n)
    BY <1>1, <1>2, <1>3, <2>3 DEF CallInStep
  <2>5. InStep' = InStep
    BY <1>1, <1>2, <1>3, <2>4 DEF InStep
  <2>6. QED
    BY <1>1, <1>2, <1>3, <2>2, <2>5 DEF GoingInv
<1>8. Smooth' = Smooth /\ Going' = Going
  <2>1. Smooth' = Smooth
    BY <1>1, <1>2 DEF Smooth
  <2>2. phase' \in {"load", "done"} <=> phase \in {"load", "done"}
    OBVIOUS
  <2>3. QED
    BY <1>1, <2>1, <2>2 DEF Going
<1>9. /\ phase' = "crashed" => stopped'
      /\ phase' = "done" => stack' = <<>>
  BY <1>1 DEF LoadInv
<1>10. QED
  BY <1>2, <1>5, <1>6, <1>7, <1>8, <1>9 DEF LoadInv

LEMMA V1Invariant == FileSpec => []V1Inv
<1>1. FileInit => V1Inv
  BY DumpStarts DEF FileInit, Init, V1Inv
<1>2. V1Inv /\ [FileNext]_<<vars, fileVars>> => V1Inv'
  <2> SUFFICES ASSUME V1Inv, [FileNext]_<<vars, fileVars>>
               PROVE  V1Inv'
    OBVIOUS
  <2>1. Source
    BY DEF V1Inv
  <2>2. Source'
    <3>1. UNCHANGED source
      BY DEF FileNext, Open, StartLoading, Refuse, Deflate, DeflateCanceled, DeflateSkipped, DeflateBlock,
         DeflateChild, DeflateNext, DeflateDone, Dumping, Inflate, InflateCanceled, InflateUnknown,
         InflateBlock, InflateChild, ChildFailed, ChildDone, InflateDone, Finish, Loading, vars
    <3>2. QED
      BY <2>1, <3>1 DEF Source, source
  <2>3. CASE Open
    <3>1. StartLoading
      BY <2>3 DEF Open
    <3>2. phase = "dump" /\ phase' = "load"
      BY <3>1 DEF StartLoading
    <3>3. LoadInv'
      BY <2>1, <3>1, <3>2, LoadStarts DEF V1Inv
    <3>4. QED
      BY <2>2, <3>2, <3>3 DEF V1Inv
  <2>4. CASE Refuse
    <3>1. phase = "dump" /\ phase' = "refused" /\ built' = built /\ returned' = returned
      BY <2>4 DEF Refuse
    <3>2. built = <<>> /\ returned.block = NoBlock
      BY <3>1 DEF V1Inv, DumpInv, DumpStack, Nothing
    <3>3. QED
      BY <2>2, <3>1, <3>2 DEF V1Inv
  <2>5. CASE Deflate
    <3>1. phase = "dump" /\ phase' = "dump"
      BY <2>5 DEF Deflate, DeflateCanceled, DeflateSkipped, DeflateBlock,
         DeflateChild, DeflateNext, DeflateDone, Dumping
    <3>2. DumpInv'
      BY <2>1, <2>5, <3>1, DumpStep DEF V1Inv
    <3>3. QED
      BY <2>2, <3>1, <3>2 DEF V1Inv
  <2>6. CASE Inflate
    <3>1. phase = "load"
      BY <2>6 DEF Inflate, InflateCanceled, InflateUnknown, InflateBlock, InflateChild, ChildFailed,
         ChildDone, InflateDone, Loading
    <3>2. LoadInv' /\ phase' \in {"load", "crashed"}
      BY <2>1, <2>6, <3>1, LoadStep DEF V1Inv
    <3>3. QED
      BY <2>2, <3>2 DEF V1Inv
  <2>7. CASE Finish
    <3>1. /\ phase = "load" /\ phase' = "done" /\ stack = <<>>
          /\ UNCHANGED <<source, device, position, stack, returned, built, kept, stopped, whole, cut>>
      BY <2>7 DEF Finish, Loading
    <3>2. LoadInv'
      BY <3>1, LoadRests DEF V1Inv
    <3>3. QED
      BY <2>2, <3>1, <3>2 DEF V1Inv
  <2>8. CASE UNCHANGED vars
    <3>1. /\ phase' = phase
          /\ UNCHANGED <<source, device, position, stack, returned, built, kept, stopped, whole, cut>>
      BY <2>8 DEF vars
    <3>2. CASE phase = "dump"
      <4>1. UNCHANGED <<parent, serializable, trouble>>
        BY <3>1 DEF source
      <4>2. DumpInv' = DumpInv
        BY <3>1, <4>1 DEF DumpInv, DumpStack, DumpOrder, DumpCallFits, DumpCallIsLast, DumpGoesOn,
           Dumped, Record, CountToWrite, CountAll, Children, ChildrenOf
      <4>3. QED
        BY <2>2, <3>1, <3>2, <4>2 DEF V1Inv
    <3>3. CASE phase \in {"load", "done", "crashed"}
      <4>1. LoadInv'
        <5>1. LoadInv
          BY <3>3 DEF V1Inv
        <5>2. QED
          BY <3>1, <5>1, LoadRests
      <4>2. QED
        BY <2>2, <3>1, <3>3, <4>1 DEF V1Inv
    <3>4. CASE phase = "refused"
      BY <2>2, <3>1, <3>4 DEF V1Inv
    <3>5. QED
      BY <3>2, <3>3, <3>4 DEF V1Inv
  <2>9. QED
    BY <2>3, <2>4, <2>5, <2>6, <2>7, <2>8 DEF FileNext
<1>3. QED
  BY <1>1, <1>2, PTL DEF FileSpec

-----------------------------------------------------------------------------
(* What was loaded.                                                        *)

\* Lost has what is below the block that was cut, and no more.
LEMMA LostClosed ==
    ASSUME Source
    PROVE  /\ Lost \subseteq Blocks
           /\ \A c \in Blocks \ {0} : parent[c] = cut \/ parent[c] \in Lost => c \in Lost
           /\ \A S \in SUBSET Blocks :
                 (\A c \in Blocks \ {0} : parent[c] = cut \/ parent[c] \in S => c \in S) => Lost \subseteq S
BY DEF Lost

\* When inflate has returned Success, no child of what was taken is missing.
LEMMA NothingAwaited ==
    ASSUME Source, LoadInv, phase = "done", returned.result = "Success"
    PROVE  /\ DOMAIN built = Taken /\ 0 \in Taken /\ position \in 0 .. Len(device)
           /\ \A b \in Taken : Kids(b) \subseteq Taken /\ built[b] = Ascending(Kids(b))
           /\ (Owning \cap Taken) \ {cut} \subseteq kept
<1>1. stack = <<>> /\ DeviceInv /\ LoadStack /\ BuiltInv /\ GoingInv
  BY DEF LoadInv, Going
<1>2. position \in 0 .. Len(device) /\ Len(device) \in Nat /\ Dumped \subseteq Blocks
  BY <1>1, WhatIsTaken DEF LoadStack
<1>3. Awaited = {}
  <2>1. DOMAIN stack = {}
    BY <1>1
  <2>2. Slots = {}
    BY <2>1, SlotIs
  <2>3. Awaited \in SUBSET Blocks
    <3>1. \A b : \A c \in Kids(b) : c \in Blocks
      BY <1>1, <1>2, KidsAre
    <3>2. 0 \in Blocks
      BY SizeAssumption DEF Blocks
    <3>3. QED
      BY <3>1, <3>2 DEF Awaited
  <2>4. Cardinality(Awaited) = 0 /\ IsFiniteSet(Awaited)
    BY <1>1, <2>2, <2>3, BlocksAreFinite, FS_EmptySet DEF GoingInv
  <2>5. QED
    BY <2>4, FS_EmptySet
<1>4. position # 0 /\ Awaited = (UNION {Kids(b) : b \in Taken}) \ Taken
  BY <1>3 DEF Awaited
<1>5. \A b \in Taken : Kids(b) \subseteq Taken
  <2>1. \A R, S : S \in R => S \subseteq UNION R
    OBVIOUS
  <2>2. \A b \in Taken : Kids(b) \in {Kids(x) : x \in Taken}
    OBVIOUS
  <2>3. QED
    BY <1>3, <1>4, <2>1, <2>2
<1>6. \A b \in Taken : built[b] = Ascending(Kids(b))
  <2>1. InStep
    BY <1>1, <1>3 DEF GoingInv
  <2>2. DOMAIN stack = {}
    BY <1>1
  <2>3. QED
    BY <2>1, <2>2 DEF InStep
<1>7. 0 \in Taken
  <2>1. 1 \in 1 .. position /\ device # <<>>
    BY <1>2, <1>4
  <2>2. device[1].type = 0
    BY <1>1, <2>1 DEF DeviceInv, Ordered
  <2>3. QED
    BY <2>1, <2>2 DEF Taken
<1>8. QED
  BY <1>1, <1>2, <1>5, <1>6, <1>7 DEF GoingInv

\* Either no record was cut before the number of children, and all was read.
LEMMA WholeTree ==
    ASSUME Source, LoadInv, phase = "done", returned.result = "Success",
           \A i \in 1 .. position : device[i].childrenNb = CountToWrite(device[i].type)
    PROVE  /\ built = [b \in Dumped |-> DumpedChildren(b)]
           /\ (Owning \cap Dumped) \ {cut} \subseteq kept
<1>1. /\ DOMAIN built = Taken /\ 0 \in Taken /\ position \in 0 .. Len(device)
      /\ \A b \in Taken : Kids(b) \subseteq Taken /\ built[b] = Ascending(Kids(b))
      /\ (Owning \cap Taken) \ {cut} \subseteq kept
  BY NothingAwaited
<1>2. DeviceInv /\ BuiltInv
  BY DEF LoadInv
<1>3. Taken \subseteq Dumped /\ Dumped \subseteq Blocks /\ DOMAIN device = 1 .. Len(device) /\ Len(device) \in Nat
  BY <1>1, <1>2, WhatIsTaken
<1>4. \A b \in Taken : Kids(b) = ChildrenOf(b) \cap Dumped
  <2>1. SUFFICES ASSUME NEW b \in Taken
                 PROVE  Kids(b) = ChildrenOf(b) \cap Dumped
    OBVIOUS
  <2>2. PICK i \in 1 .. position : device[i].type = b
    BY <2>1 DEF Taken
  <2>3. i \in DOMAIN device
    BY <1>1, <1>3, <2>2
  <2>4. QED
    BY <1>1, <1>2, <2>2, <2>3, KidsAre
<1>5. Taken = Dumped
  <2>1. \A c \in serializable \ {0} : parent[c] \in Taken => c \in Taken
    <3>1. SUFFICES ASSUME NEW c \in serializable \ {0}, parent[c] \in Taken
                   PROVE  c \in Taken
      OBVIOUS
    <3>2. c \in Dumped
      BY <1>3, <3>1, DumpedClosed
    <3>3. c \in ChildrenOf(parent[c])
      BY <1>3, <3>1, <3>2 DEF ChildrenOf
    <3>4. QED
      BY <1>1, <1>4, <3>1, <3>2, <3>3
  <2>2. Dumped \subseteq Taken
    <3>1. Taken \in SUBSET Blocks
      BY <1>3
    <3>2. QED
      BY <1>1, <2>1, <3>1, DumpedClosed
  <2>3. QED
    BY <1>3, <2>2
<1>6. \A b \in Dumped : built[b] = DumpedChildren(b)
  BY <1>1, <1>4, <1>5 DEF DumpedChildren
<1>7. built = [b \in Dumped |-> built[b]]
  BY <1>1, <1>2, <1>5 DEF BuiltInv, BuiltType
<1>8. QED
  BY <1>1, <1>5, <1>6, <1>7

\* Or the last one was, and what was below its block is missing.
LEMMA CutTree ==
    ASSUME Source, LoadInv, phase = "done", returned.result = "Success",
           NEW i \in 1 .. position, device[i].childrenNb # CountToWrite(device[i].type)
    PROVE  /\ ~ whole
           /\ built = [b \in Dumped \ Lost |-> IF b = cut THEN <<>> ELSE DumpedChildren(b)]
           /\ (Owning \cap DOMAIN built) \ {cut} \subseteq kept
<1>1. /\ DOMAIN built = Taken /\ 0 \in Taken /\ position \in 0 .. Len(device)
      /\ \A b \in Taken : Kids(b) \subseteq Taken /\ built[b] = Ascending(Kids(b))
      /\ (Owning \cap Taken) \ {cut} \subseteq kept
  BY NothingAwaited
<1>2. DeviceInv /\ BuiltInv
  BY DEF LoadInv
<1>3. /\ Taken \subseteq Dumped /\ Dumped \subseteq Blocks /\ DOMAIN device = 1 .. Len(device) /\ Len(device) \in Nat
      /\ Taken \subseteq Recorded(device)
      /\ \A k, l \in DOMAIN device : device[k].type = device[l].type => k = l
      /\ \A c \in Blocks \ {0} : parent[c] \in Blocks /\ parent[c] < c
  BY <1>1, <1>2, WhatIsTaken DEF Source
<1>4. i \in DOMAIN device /\ ~ whole /\ device[i].type = cut /\ device[i].childrenNb = 0 /\ cut \in Taken
  <2>1. i \in DOMAIN device
    BY <1>1, <1>3
  <2>2. device[i].type \in Taken
    BY DEF Taken
  <2>3. QED
    BY <1>2, <2>1, <2>2 DEF DeviceInv
<1>5. Kids(cut) = {}
  BY <1>3, <1>4 DEF Kids
<1>6. \A b \in Taken \ {cut} : Kids(b) = ChildrenOf(b) \cap Dumped
  <2>1. SUFFICES ASSUME NEW b \in Taken \ {cut}
                 PROVE  Kids(b) = ChildrenOf(b) \cap Dumped
    OBVIOUS
  <2>2. PICK j \in 1 .. position : device[j].type = b
    BY <2>1 DEF Taken
  <2>3. j \in DOMAIN device
    BY <1>1, <1>3, <2>2
  <2>4. device[j].childrenNb = CountToWrite(b)
    BY <1>2, <2>1, <2>2, <2>3 DEF DeviceInv
  <2>5. QED
    BY <1>1, <1>2, <2>2, <2>3, <2>4, KidsAre
<1>7. cut \in Blocks /\ cut \notin Lost
  <2>1. cut \in Blocks
    BY <1>3, <1>4
  <2>2. PICK S : S = {b \in Blocks : b > cut}
    OBVIOUS
  <2>3. \A c \in Blocks \ {0} : parent[c] = cut \/ parent[c] \in S => c \in S
    <3>1. SUFFICES ASSUME NEW c \in Blocks \ {0}, parent[c] = cut \/ parent[c] \in S
                   PROVE  c \in S
      OBVIOUS
    <3>2. PICK p : p = parent[c]
      OBVIOUS
    <3>3. p \in Int /\ c \in Int /\ cut \in Int /\ p < c /\ (p = cut \/ p > cut)
      BY <1>3, <2>1, <2>2, <3>1, <3>2, SizeAssumption DEF Blocks
    <3>4. c > cut
      BY <3>3
    <3>5. QED
      BY <2>2, <3>4
  <2>4. cut \notin S
    BY <2>1, <2>2 DEF Blocks
  <2>5. S \in SUBSET Blocks
    BY <2>2
  <2>6. QED
    BY <2>1, <2>3, <2>4, <2>5, LostClosed
<1>8. Taken \cap Lost = {}
  <2>1. ASSUME NEW c \in Blocks \ {0}, c \in Taken
        PROVE  parent[c] # cut /\ parent[c] \in Taken
    <3>1. c \in Kids(parent[c])
      BY <1>1, <1>2, <1>3, <2>1, KidsAre
    <3>2. parent[c] \in Recorded(device) /\ Place(device, parent[c]) < Place(device, c)
      BY <1>1, <1>2, <1>3, <2>1, WhatIsTaken
    <3>3. Place(device, c) \in 1 .. Len(device) /\ Place(device, c) <= position
      BY <1>1, <1>2, <1>3, <2>1, WhatIsTaken
    <3>4. Place(device, parent[c]) \in 1 .. Len(device)
      BY <1>1, <1>2, <3>2, WhatIsTaken
    <3>5. Place(device, parent[c]) <= position
      BY <1>1, <1>3, <3>2, <3>3, <3>4
    <3>6. QED
      BY <1>1, <1>2, <1>5, <3>1, <3>2, <3>5, WhatIsTaken
  <2>2. Blocks \ Taken \in SUBSET Blocks
    OBVIOUS
  <2>3. \A c \in Blocks \ {0} : parent[c] = cut \/ parent[c] \in Blocks \ Taken => c \in Blocks \ Taken
    BY <2>1
  <2>4. Lost \subseteq Blocks \ Taken
    BY <2>2, <2>3, LostClosed
  <2>5. QED
    BY <2>4
<1>9. Dumped \subseteq Taken \cup Lost
  <2>1. ASSUME NEW c \in serializable \ {0}, parent[c] \in Taken \cup Lost
        PROVE  c \in Taken \cup Lost
    <3>1. c \in Blocks
      BY <2>1 DEF Source
    <3>2. CASE parent[c] = cut \/ parent[c] \in Lost
      BY <2>1, <3>1, <3>2, LostClosed
    <3>3. CASE parent[c] \in Taken \ {cut}
      <4>1. c \in Dumped
        BY <1>3, <2>1, <3>3, DumpedClosed
      <4>2. c \in ChildrenOf(parent[c])
        BY <2>1, <3>1 DEF ChildrenOf
      <4>3. QED
        BY <1>1, <1>6, <3>3, <4>1, <4>2
    <3>4. QED
      BY <2>1, <3>2, <3>3
  <2>2. Taken \cup Lost \in SUBSET Blocks
    BY <1>3, LostClosed
  <2>3. QED
    BY <1>1, <2>1, <2>2, DumpedClosed
<1>10. Taken = Dumped \ Lost
  BY <1>3, <1>8, <1>9
<1>11. ASSUME NEW b \in Taken
       PROVE  built[b] = IF b = cut THEN <<>> ELSE DumpedChildren(b)
  <2>1. CASE b = cut
    <3>1. built[b] \in [1 .. KidsNb(b) -> Kids(b)]
      BY <1>1, <1>2, <1>11, KidsInOrder
    <3>2. KidsNb(b) = 0
      BY <1>5, <2>1, FS_EmptySet DEF KidsNb
    <3>3. PICK s : s = built[b]
      OBVIOUS
    <3>4. s = <<>>
      <4>1. s \in Seq(Blocks)
        BY <1>1, <1>2, <1>11, <3>3 DEF BuiltInv, BuiltType
      <4>2. DOMAIN s = 1 .. 0
        BY <3>1, <3>2, <3>3
      <4>3. Len(s) \in Nat /\ DOMAIN s = 1 .. Len(s)
        BY <4>1
      <4>4. 1 \notin 1 .. Len(s)
        BY <4>2, <4>3
      <4>5. Len(s) = 0
        BY <4>3, <4>4
      <4>6. QED
        BY <4>1, <4>5
    <3>5. QED
      BY <2>1, <3>3, <3>4
  <2>2. CASE b # cut
    BY <1>1, <1>6, <1>11, <2>2 DEF DumpedChildren
  <2>3. QED
    BY <2>1, <2>2
<1>12. built = [b \in Taken |-> built[b]]
  BY <1>1, <1>2 DEF BuiltInv, BuiltType
<1>13. built = [b \in Dumped \ Lost |-> IF b = cut THEN <<>> ELSE DumpedChildren(b)]
  BY <1>10, <1>11, <1>12
<1>14. QED
  BY <1>1, <1>4, <1>13

(* inflate never returns Success with a tree that is not the one that was  *)
(* to be dumped, up to the record in which the device was cut: neither a   *)
(* dump that was stopped nor a device without its end is taken for         *)
(* another tree.                                                           *)
THEOREM SuccessMeansWholeHolds == FileSpec => []SuccessMeansWhole
<1>1. V1Inv => SuccessMeansWhole
  <2> SUFFICES ASSUME V1Inv, phase = "done", returned.result = "Success"
               PROVE  LET tree == [b \in Dumped |-> DumpedChildren(b)]
                      IN  \/ built = tree /\ (Owning \cap Dumped) \ {cut} \subseteq kept
                          \/ /\ ~ whole
                             /\ built = [b \in Dumped \ Lost |-> IF b = cut THEN <<>> ELSE tree[b]]
                             /\ (Owning \cap DOMAIN built) \ {cut} \subseteq kept
    BY DEF SuccessMeansWhole
  <2>1. Source /\ LoadInv
    BY DEF V1Inv
  <2>2. CASE \A i \in 1 .. position : device[i].childrenNb = CountToWrite(device[i].type)
    BY <2>1, <2>2, WholeTree
  <2>3. CASE \E i \in 1 .. position : device[i].childrenNb # CountToWrite(device[i].type)
    <3>1. PICK tree : tree = [b \in Dumped |-> DumpedChildren(b)]
      OBVIOUS
    <3>2. /\ ~ whole
          /\ built = [b \in Dumped \ Lost |-> IF b = cut THEN <<>> ELSE DumpedChildren(b)]
          /\ (Owning \cap DOMAIN built) \ {cut} \subseteq kept
      BY <2>1, <2>3, CutTree
    <3>3. built = [b \in Dumped \ Lost |-> IF b = cut THEN <<>> ELSE tree[b]]
      BY <3>1, <3>2
    <3>4. QED
      BY <3>1, <3>2, <3>3
  <2>4. QED
    BY <2>2, <2>3
<1>2. QED
  BY <1>1, V1Invariant, PTL

(* What was dumped is loaded with Success, if nobody stops it and each     *)
(* class is known and takes its properties; and without a stop, loading    *)
(* never crashes.                                                          *)
THEOREM CompleteDumpLoadsHolds == FileSpec => []CompleteDumpLoads
<1>1. V1Inv => CompleteDumpLoads
  <2> SUFFICES ASSUME V1Inv, ~ stopped
               PROVE  /\ phase # "crashed"
                      /\ phase = "done" /\ whole /\ 0 \in serializable
                                        /\ (\A b \in Dumped : trouble[b] = "none")
                           => returned.result = "Success"
    BY DEF CompleteDumpLoads
  <2>1. phase # "crashed"
    BY DEF V1Inv, LoadInv
  <2>2. ASSUME phase = "done", whole, 0 \in serializable, \A b \in Dumped : trouble[b] = "none"
        PROVE  returned.result = "Success"
    <3>1. LoadInv
      BY <2>2 DEF V1Inv
    <3>2. Going /\ LoadStack /\ stack = <<>>
      BY <2>2, <3>1 DEF LoadInv, Smooth
    <3>3. returned # Nothing /\ returned \in {Nothing} \cup [result : Result, block : Taken \cup {NoBlock}]
      BY <3>2 DEF LoadStack
    <3>4. returned.result \in Result
      BY <3>3
    <3>5. QED
      BY <3>2, <3>4 DEF Going, Result
  <2>3. QED
    BY <2>1, <2>2
<1>2. QED
  BY <1>1, V1Invariant, PTL

(* Each block that inflate creates, whatever fails later, is held by a     *)
(* call in progress or by the caller, or is below one that is.             *)
THEOREM NothingIsLostHolds == FileSpec => []NothingIsLost
<1>1. V1Inv => NothingIsLost
  <2> SUFFICES ASSUME V1Inv, phase # "dump",
                      NEW H, H = {returned.block} \cup {stack[i].block : i \in DOMAIN stack}
               PROVE  DOMAIN built = UNION {Below(b) : b \in H}
    BY DEF NothingIsLost
  <2>1. CASE phase \in {"load", "done", "crashed"}
    <3>1. Source /\ DeviceInv /\ LoadStack /\ BuiltInv /\ position \in 0 .. Len(device)
      BY <2>1 DEF V1Inv, LoadInv, LoadStack
    <3>2. InHand \subseteq H
      BY DEF InHand, Calls
    <3>3. QED
      BY <3>1, <3>2, AllIsHeld
  <2>2. CASE phase = "refused"
    <3>1. DOMAIN built = {}
      BY <2>2 DEF V1Inv
    <3>2. \A b : Below(b) = {}
      BY <3>1 DEF Below
    <3>3. QED
      BY <3>1, <3>2
  <2>3. QED
    BY <2>1, <2>2 DEF V1Inv
<1>2. QED
  BY <1>1, V1Invariant, PTL
=============================================================================
