--------------------------- MODULE BlockTreeProofs ---------------------------
(***************************************************************************)
(* The lists of the libraries and the pointers of the blocks agree after   *)
(* every call, for any number of blocks and libraries, as long as a block  *)
(* changes library only through insertBlock. No library is ever inside of  *)
(* itself, so findChildren and totalSize end, and are exact.               *)
(***************************************************************************)
EXTENDS BlockTree, RecursionLemmas, SequenceTheorems, FiniteSetTheorems, TLAPS

-----------------------------------------------------------------------------
(* The lists, position by position.                                        *)

LEMMA InsertAtEach ==
    ASSUME NEW S, NEW s \in Seq(S), NEW e \in S, NEW i \in 1 .. Len(s) + 1
    PROVE  /\ InsertAt(s, i, e) \in Seq(S)
           /\ Len(InsertAt(s, i, e)) = Len(s) + 1
           /\ \A j \in 1 .. Len(s) + 1 :
                 InsertAt(s, i, e)[j] = IF j < i THEN s[j] ELSE IF j = i THEN e ELSE s[j - 1]
<1> DEFINE l == SubSeq(s, 1, i - 1)
           r == SubSeq(s, i, Len(s))
<1>1. /\ l \in Seq(S) /\ Len(l) = i - 1 /\ \A j \in 1 .. i - 1 : l[j] = s[j]
      /\ r \in Seq(S) /\ Len(r) = Len(s) + 1 - i /\ \A j \in 1 .. Len(s) + 1 - i : r[j] = s[i + j - 1]
  BY SubSeqProperties
<1>2. /\ <<e>> \in Seq(S) /\ Len(<<e>>) = 1 /\ <<e>>[1] = e
  OBVIOUS
<1> HIDE DEF l, r
<1>3. /\ l \o <<e>> \in Seq(S) /\ Len(l \o <<e>>) = i
      /\ \A j \in 1 .. i : (l \o <<e>>)[j] = IF j < i THEN s[j] ELSE e
  BY <1>1, <1>2, ConcatProperties
<1> DEFINE k == l \o <<e>>
<1>4. InsertAt(s, i, e) = k \o r
  BY DEF InsertAt, l, r
<1> HIDE DEF k
<1>5. k \in Seq(S) /\ Len(k) = i /\ \A j \in 1 .. i : k[j] = IF j < i THEN s[j] ELSE e
  BY <1>3 DEF k
<1> DEFINE c == k \o r
<1>6. /\ c \in Seq(S) /\ Len(c) = Len(k) + Len(r)
      /\ \A j \in 1 .. Len(k) + Len(r) :
            c[j] = IF j <= Len(k) THEN k[j] ELSE r[j - Len(k)]
  BY <1>1, <1>5, ConcatProperties
<1>7. Len(k) + Len(r) = Len(s) + 1
  BY <1>1, <1>5
<1> HIDE DEF c
<1>8. ASSUME NEW j \in 1 .. Len(s) + 1
      PROVE  c[j] = IF j < i THEN s[j] ELSE IF j = i THEN e ELSE s[j - 1]
  <2>1. CASE j <= i
    BY <1>5, <1>6, <1>7, <2>1
  <2>2. CASE j > i
    <3>1. j - i \in 1 .. Len(s) + 1 - i /\ i + (j - i) - 1 = j - 1
      BY <2>2
    <3>2. r[j - i] = s[j - 1]
      BY <1>1, <3>1
    <3>3. QED
      BY <1>5, <1>6, <1>7, <2>2, <3>2
  <2>3. QED
    BY <2>1, <2>2
<1>9. QED
  BY <1>4, <1>6, <1>7, <1>8 DEF c

LEMMA RemoveAtEach ==
    ASSUME NEW S, NEW s \in Seq(S), NEW i \in 1 .. Len(s)
    PROVE  /\ RemoveAt(s, i) \in Seq(S)
           /\ Len(RemoveAt(s, i)) = Len(s) - 1
           /\ \A j \in 1 .. Len(s) - 1 :
                 RemoveAt(s, i)[j] = IF j < i THEN s[j] ELSE s[j + 1]
<1> DEFINE l == SubSeq(s, 1, i - 1)
           r == SubSeq(s, i + 1, Len(s))
<1>1. /\ l \in Seq(S) /\ Len(l) = i - 1 /\ \A j \in 1 .. i - 1 : l[j] = s[j]
      /\ r \in Seq(S) /\ Len(r) = Len(s) - i /\ \A j \in 1 .. Len(s) - i : r[j] = s[i + j]
  BY SubSeqProperties
<1>2. RemoveAt(s, i) = l \o r
  BY DEF RemoveAt, l, r
<1> HIDE DEF l, r
<1> DEFINE c == l \o r
<1>3. /\ c \in Seq(S) /\ Len(c) = Len(l) + Len(r)
      /\ \A j \in 1 .. Len(l) + Len(r) :
            c[j] = IF j <= Len(l) THEN l[j] ELSE r[j - Len(l)]
  BY <1>1, ConcatProperties
<1>4. Len(l) + Len(r) = Len(s) - 1
  BY <1>1
<1> HIDE DEF c
<1>5. ASSUME NEW j \in 1 .. Len(s) - 1
      PROVE  c[j] = IF j < i THEN s[j] ELSE s[j + 1]
  <2>0. /\ j \in Int /\ i \in Int /\ Len(l) = i - 1
        /\ c[j] = IF j <= i - 1 THEN l[j] ELSE r[j - (i - 1)]
    BY <1>1, <1>3, <1>4
  <2>1. CASE j < i
    <3>1. j \in 1 .. i - 1
      BY <2>0, <2>1
    <3>2. QED
      BY <1>1, <2>0, <2>1, <3>1
  <2>2. CASE j >= i
    <3>1. j - (i - 1) \in 1 .. Len(s) - i /\ i + (j - (i - 1)) = j + 1
      BY <2>2
    <3>2. r[j - (i - 1)] = s[j + 1]
      BY <1>1, <3>1
    <3>3. QED
      BY <2>0, <2>2, <3>2
  <2>3. QED
    BY <2>0, <2>1, <2>2
<1>6. QED
  BY <1>2, <1>3, <1>4, <1>5 DEF c

(* A block that is at one position of a list is found there, and one that  *)
(* is at none is not found.                                                *)
LEMMA IndexOfOnce ==
    ASSUME NEW s \in Seq(Blocks), NEW b \in Blocks
    PROVE  /\ \A i \in DOMAIN s :
                 (\A j \in DOMAIN s : s[j] = b <=> j = i) => IndexOf(s, b) = i - 1
           /\ (\A j \in DOMAIN s : s[j] # b) => IndexOf(s, b) = -1
<1> DEFINE I == {i \in 1 .. Len(s) : s[i] = b}
<1>1. IndexOf(s, b) = (IF I # {} THEN Min(I) ELSE 0) - 1
  BY DEF IndexOf, SelectInSeq
<1>2. DOMAIN s = 1 .. Len(s) /\ Len(s) \in Nat
  OBVIOUS
<1>3. ASSUME NEW i \in DOMAIN s, \A j \in DOMAIN s : s[j] = b <=> j = i
      PROVE  IndexOf(s, b) = i - 1
  <2>1. I = {i}
    BY <1>2, <1>3
  <2> HIDE DEF I
  <2>2. Min(I) = i
    BY <2>1, <1>2 DEF Min
  <2>3. QED
    BY <1>1, <2>1, <2>2
<1>4. ASSUME \A j \in DOMAIN s : s[j] # b
      PROVE  IndexOf(s, b) = -1
  <2>1. I = {}
    BY <1>2, <1>4
  <2>2. QED
    BY <1>1, <2>1
<1>5. QED
  BY <1>3, <1>4

LEMMA Positions ==
    ASSUME NEW s \in Seq(Blocks), IsInjective(s)
    PROVE  /\ \A x \in Blocks :
                 /\ IndexOf(s, x) \in Int /\ -1 <= IndexOf(s, x) /\ IndexOf(s, x) < Len(s)
                 /\ IndexOf(s, x) # -1 => s[IndexOf(s, x) + 1] = x
           /\ \A i \in DOMAIN s : s[i] \in Blocks /\ IndexOf(s, s[i]) = i - 1
<1>1. /\ DOMAIN s = 1 .. Len(s) /\ Len(s) \in Nat
      /\ \A i \in DOMAIN s : s[i] \in Blocks
  OBVIOUS
<1>2. ASSUME NEW i \in DOMAIN s
      PROVE  IndexOf(s, s[i]) = i - 1
  <2>1. \A j \in DOMAIN s : s[j] = s[i] <=> j = i
    BY DEF IsInjective
  <2>2. QED
    BY <1>1, <2>1, IndexOfOnce
<1>3. ASSUME NEW x \in Blocks
      PROVE  /\ IndexOf(s, x) \in Int /\ -1 <= IndexOf(s, x) /\ IndexOf(s, x) < Len(s)
             /\ IndexOf(s, x) # -1 => s[IndexOf(s, x) + 1] = x
  <2>1. CASE \E i \in DOMAIN s : s[i] = x
    <3>1. PICK i \in DOMAIN s : s[i] = x
      BY <2>1
    <3>2. IndexOf(s, x) = i - 1
      BY <1>2, <3>1
    <3>3. QED
      BY <1>1, <3>1, <3>2
  <2>2. CASE \A i \in DOMAIN s : s[i] # x
    <3>1. IndexOf(s, x) = -1
      BY <2>2, IndexOfOnce
    <3>2. QED
      BY <1>1, <3>1
  <2>3. QED
    BY <2>1, <2>2
<1>4. QED
  BY <1>1, <1>2, <1>3

(* Positions that fit a list are the positions in it.                      *)
LEMMA PositionsFit ==
    ASSUME NEW s \in Seq(Blocks), NEW f \in [Blocks -> Int],
           \A i \in DOMAIN s : f[s[i]] = i - 1,
           \A x \in Blocks : f[x] # -1 => f[x] + 1 \in DOMAIN s /\ s[f[x] + 1] = x
    PROVE  IsInjective(s) /\ \A x \in Blocks : IndexOf(s, x) = f[x]
<1>1. /\ DOMAIN s = 1 .. Len(s) /\ Len(s) \in Nat
      /\ \A i \in DOMAIN s : s[i] \in Blocks /\ i \in Int
  OBVIOUS
<1>2. IsInjective(s)
  <2>1. ASSUME NEW i \in DOMAIN s, NEW j \in DOMAIN s, s[i] = s[j]
        PROVE  i = j
    <3>1. i - 1 = j - 1
      BY <2>1
    <3>2. QED
      BY <1>1, <3>1
  <2>2. QED
    BY <2>1 DEF IsInjective
<1>3. ASSUME NEW x \in Blocks
      PROVE  IndexOf(s, x) = f[x]
  <2>1. CASE f[x] = -1
    <3>1. \A j \in DOMAIN s : s[j] # x
      BY <1>1, <2>1
    <3>2. QED
      BY <2>1, <3>1, IndexOfOnce
  <2>2. CASE f[x] # -1
    <3>1. f[x] + 1 \in DOMAIN s /\ s[f[x] + 1] = x
      BY <2>2
    <3>2. IndexOf(s, s[f[x] + 1]) = (f[x] + 1) - 1
      BY <1>2, <3>1, Positions
    <3>3. QED
      BY <3>1, <3>2
  <2>3. QED
    BY <2>1, <2>2
<1>4. QED
  BY <1>2, <1>3

(* What the list operations do to the positions.                           *)
LEMMA InsertPositions ==
    ASSUME NEW s \in Seq(Blocks), IsInjective(s), NEW e \in Blocks, IndexOf(s, e) = -1,
           NEW i \in Nat, i <= Len(s)
    PROVE  LET t == InsertAt(s, i + 1, e)
           IN  /\ t \in Seq(Blocks) /\ Len(t) = Len(s) + 1 /\ IsInjective(t)
               /\ \A x \in Blocks :
                     IndexOf(t, x) = IF x = e THEN i
                                     ELSE IF IndexOf(s, x) >= i THEN IndexOf(s, x) + 1
                                     ELSE IndexOf(s, x)
<1> DEFINE m == i + 1
           t == InsertAt(s, m, e)
           f == [x \in Blocks |-> IF x = e THEN i
                                   ELSE IF IndexOf(s, x) >= i THEN IndexOf(s, x) + 1
                                   ELSE IndexOf(s, x)]
<1>1. \A x \in Blocks : /\ IndexOf(s, x) \in Int /\ -1 <= IndexOf(s, x) /\ IndexOf(s, x) < Len(s)
                        /\ IndexOf(s, x) # -1 => s[IndexOf(s, x) + 1] = x
  BY Positions
<1>2. f \in [Blocks -> Int]
  BY <1>1
<1>3. \A x \in Blocks : f[x] = IF x = e THEN i
                               ELSE IF IndexOf(s, x) >= i THEN IndexOf(s, x) + 1
                               ELSE IndexOf(s, x)
  OBVIOUS
<1>4. /\ DOMAIN s = 1 .. Len(s) /\ Len(s) \in Nat /\ m \in Nat /\ m = i + 1
      /\ m \in 1 .. Len(s) + 1
  OBVIOUS
<1> HIDE DEF m, f
<1>5. /\ t \in Seq(Blocks) /\ Len(t) = Len(s) + 1
      /\ \A j \in 1 .. Len(s) + 1 :
            t[j] = IF j < m THEN s[j] ELSE IF j = m THEN e ELSE s[j - 1]
  <2>1. m \in 1 .. Len(s) + 1
    BY <1>4
  <2>2. QED
    BY <2>1, InsertAtEach
<1> HIDE DEF t
<1>6. DOMAIN t = 1 .. Len(s) + 1
  BY <1>5
<1>7. \A j \in DOMAIN s : s[j] \in Blocks /\ IndexOf(s, s[j]) = j - 1 /\ s[j] # e
  <2>1. \A j \in DOMAIN s : s[j] \in Blocks /\ IndexOf(s, s[j]) = j - 1
    BY Positions
  <2>2. \A j \in DOMAIN s : j - 1 # -1
    BY <1>4
  <2>3. QED
    BY <2>1, <2>2
<1>8. ASSUME NEW j \in DOMAIN t
      PROVE  f[t[j]] = j - 1
  <2>1. CASE j < m
    <3>1. j \in DOMAIN s /\ t[j] = s[j]
      BY <1>4, <1>5, <1>6, <2>1
    <3>2. f[s[j]] = j - 1
      BY <1>3, <1>4, <1>7, <2>1, <3>1
    <3>3. QED
      BY <3>1, <3>2
  <2>2. CASE j = m
    BY <1>3, <1>4, <1>5, <1>6, <2>2
  <2>3. CASE j > m
    <3>1. j - 1 \in DOMAIN s /\ t[j] = s[j - 1]
      BY <1>4, <1>5, <1>6, <2>3
    <3>2. IndexOf(s, s[j - 1]) = (j - 1) - 1 /\ s[j - 1] # e /\ s[j - 1] \in Blocks
      BY <1>7, <3>1
    <3>3. f[s[j - 1]] = j - 1
      BY <1>3, <1>4, <1>6, <2>3, <3>2
    <3>4. QED
      BY <3>1, <3>3
  <2>4. QED
    BY <1>4, <1>6, <2>1, <2>2, <2>3
<1>9. ASSUME NEW x \in Blocks, f[x] # -1
      PROVE  f[x] + 1 \in DOMAIN t /\ t[f[x] + 1] = x
  <2>1. CASE x = e
    BY <1>3, <1>4, <1>5, <1>6, <2>1
  <2>2. CASE x # e /\ IndexOf(s, x) >= i
    <3> DEFINE k == IndexOf(s, x)
    <3>1. f[x] = k + 1 /\ k \in Int /\ i <= k /\ k < Len(s) /\ s[k + 1] = x
      BY <1>1, <1>3, <2>2
    <3> HIDE DEF k
    <3>2. k + 2 \in 1 .. Len(s) + 1 /\ ~(k + 2 < m) /\ k + 2 # m /\ (k + 2) - 1 = k + 1
          /\ f[x] + 1 = k + 2
      BY <1>4, <3>1
    <3>3. t[k + 2] = s[k + 1]
      BY <1>5, <3>2
    <3>4. QED
      BY <1>6, <3>1, <3>2, <3>3
  <2>3. CASE x # e /\ ~(IndexOf(s, x) >= i)
    <3> DEFINE k == IndexOf(s, x)
    <3>1. f[x] = k /\ k \in Int /\ -1 <= k /\ k < i /\ k # -1 /\ s[k + 1] = x
      BY <1>1, <1>3, <1>9, <2>3
    <3> HIDE DEF k
    <3>2. k + 1 \in 1 .. Len(s) + 1 /\ k + 1 < m
      BY <1>4, <3>1
    <3>3. QED
      BY <1>5, <1>6, <3>1, <3>2
  <2>4. QED
    BY <2>1, <2>2, <2>3
<1>10. IsInjective(t) /\ \A x \in Blocks : IndexOf(t, x) = f[x]
  <2>1. \A j \in DOMAIN t : f[t[j]] = j - 1
    BY <1>8
  <2>2. \A x \in Blocks : f[x] # -1 => f[x] + 1 \in DOMAIN t /\ t[f[x] + 1] = x
    BY <1>9
  <2>3. QED
    BY <1>2, <1>5, <2>1, <2>2, PositionsFit
<1>11. QED
  BY <1>3, <1>5, <1>10 DEF t, m

LEMMA RemovePositions ==
    ASSUME NEW s \in Seq(Blocks), IsInjective(s), NEW e \in Blocks, IndexOf(s, e) # -1
    PROVE  LET t == RemoveAt(s, IndexOf(s, e) + 1)
           IN  /\ t \in Seq(Blocks) /\ Len(t) = Len(s) - 1 /\ IsInjective(t)
               /\ \A x \in Blocks :
                     IndexOf(t, x) = IF x = e THEN -1
                                     ELSE IF IndexOf(s, x) > IndexOf(s, e) THEN IndexOf(s, x) - 1
                                     ELSE IndexOf(s, x)
<1> DEFINE m == IndexOf(s, e) + 1
           t == RemoveAt(s, m)
           f == [x \in Blocks |-> IF x = e THEN -1
                                   ELSE IF IndexOf(s, x) > IndexOf(s, e) THEN IndexOf(s, x) - 1
                                   ELSE IndexOf(s, x)]
<1>1. \A x \in Blocks : /\ IndexOf(s, x) \in Int /\ -1 <= IndexOf(s, x) /\ IndexOf(s, x) < Len(s)
                        /\ IndexOf(s, x) # -1 => s[IndexOf(s, x) + 1] = x
  BY Positions
<1>2. f \in [Blocks -> Int]
  BY <1>1
<1>3. \A x \in Blocks : f[x] = IF x = e THEN -1
                               ELSE IF IndexOf(s, x) > IndexOf(s, e) THEN IndexOf(s, x) - 1
                               ELSE IndexOf(s, x)
  OBVIOUS
<1>4. /\ DOMAIN s = 1 .. Len(s) /\ Len(s) \in Nat /\ m \in Nat /\ m = IndexOf(s, e) + 1
      /\ m \in 1 .. Len(s) /\ s[m] = e
  BY <1>1
<1> HIDE DEF m, f
<1>5. /\ t \in Seq(Blocks) /\ Len(t) = Len(s) - 1
      /\ \A j \in 1 .. Len(s) - 1 : t[j] = IF j < m THEN s[j] ELSE s[j + 1]
  BY <1>4, RemoveAtEach
<1> HIDE DEF t
<1>6. DOMAIN t = 1 .. Len(s) - 1
  BY <1>4, <1>5
<1>7. \A j \in DOMAIN s : s[j] \in Blocks /\ IndexOf(s, s[j]) = j - 1
  BY Positions
<1>8. ASSUME NEW j \in DOMAIN t
      PROVE  f[t[j]] = j - 1
  <2>1. CASE j < m
    <3>1. j \in DOMAIN s /\ t[j] = s[j] /\ j # m
      BY <1>4, <1>5, <1>6, <2>1
    <3>2. IndexOf(s, s[j]) = j - 1 /\ s[j] \in Blocks /\ s[j] # e
      BY <1>1, <1>4, <1>7, <3>1
    <3>3. f[s[j]] = j - 1
      <4>1. ~(IndexOf(s, s[j]) > IndexOf(s, e))
        BY <1>1, <1>4, <1>6, <2>1, <3>2
      <4>2. QED
        BY <1>3, <3>2, <4>1
    <3>4. QED
      BY <3>1, <3>3
  <2>2. CASE j >= m
    <3>1. j + 1 \in DOMAIN s /\ t[j] = s[j + 1] /\ j + 1 # m
      BY <1>4, <1>5, <1>6, <2>2
    <3>2. IndexOf(s, s[j + 1]) = (j + 1) - 1 /\ s[j + 1] \in Blocks /\ s[j + 1] # e
      BY <1>1, <1>4, <1>7, <3>1
    <3>3. f[s[j + 1]] = j - 1
      <4>1. IndexOf(s, s[j + 1]) > IndexOf(s, e)
        BY <1>1, <1>4, <1>6, <2>2, <3>1, <3>2
      <4>2. f[s[j + 1]] = ((j + 1) - 1) - 1
        BY <1>3, <3>2, <4>1
      <4>3. QED
        BY <1>4, <1>6, <4>2
    <3>4. QED
      BY <3>1, <3>3
  <2>3. QED
    BY <1>4, <1>6, <2>1, <2>2
<1>9. ASSUME NEW x \in Blocks, f[x] # -1
      PROVE  f[x] + 1 \in DOMAIN t /\ t[f[x] + 1] = x
  <2> DEFINE k == IndexOf(s, x)
  <2>1. /\ x # e /\ k # m - 1 /\ k \in Int /\ 0 <= k /\ k < Len(s) /\ s[k + 1] = x
        /\ f[x] = IF k > m - 1 THEN k - 1 ELSE k
    <3>1. x # e
      BY <1>3, <1>9
    <3>2. k \in Int /\ -1 <= k /\ k < Len(s) /\ (k # -1 => s[k + 1] = x)
      BY <1>1
    <3>3. f[x] = IF k > m - 1 THEN k - 1 ELSE k
      BY <1>3, <1>4, <1>1, <3>1
    <3>4. k # -1
      BY <1>4, <1>9, <3>2, <3>3
    <3>5. k # m - 1
      BY <1>4, <3>1, <3>2, <3>4
    <3>6. QED
      BY <3>1, <3>2, <3>3, <3>4, <3>5
  <2> HIDE DEF k
  <2>2. CASE k > m - 1
    <3>1. k \in 1 .. Len(s) - 1 /\ ~(k < m) /\ f[x] + 1 = k
      BY <1>4, <2>1, <2>2
    <3>2. QED
      BY <1>5, <1>6, <2>1, <3>1
  <2>3. CASE k < m - 1
    <3>1. k + 1 \in 1 .. Len(s) - 1 /\ k + 1 < m /\ f[x] = k
      BY <1>4, <2>1, <2>3
    <3>2. QED
      BY <1>5, <1>6, <2>1, <3>1
  <2>4. QED
    BY <1>4, <2>1, <2>2, <2>3
<1>10. IsInjective(t) /\ \A x \in Blocks : IndexOf(t, x) = f[x]
  <2>1. \A j \in DOMAIN t : f[t[j]] = j - 1
    BY <1>8
  <2>2. \A x \in Blocks : f[x] # -1 => f[x] + 1 \in DOMAIN t /\ t[f[x] + 1] = x
    BY <1>9
  <2>3. QED
    BY <1>2, <1>5, <2>1, <2>2, PositionsFit
<1>11. QED
  BY <1>3, <1>5, <1>10 DEF t, m

LEMMA AppendIsInsertAtEnd ==
    ASSUME NEW S, NEW s \in Seq(S), NEW e \in S
    PROVE  Append(s, e) = InsertAt(s, Len(s) + 1, e)
<1> DEFINE a == Append(s, e)
           t == InsertAt(s, Len(s) + 1, e)
<1>1. Len(s) \in Nat /\ Len(s) + 1 \in 1 .. Len(s) + 1
  OBVIOUS
<1>2. /\ a \in Seq(S) /\ Len(a) = Len(s) + 1
      /\ \A j \in 1 .. Len(s) : a[j] = s[j]
      /\ a[Len(s) + 1] = e
  BY AppendProperties
<1>3. /\ t \in Seq(S) /\ Len(t) = Len(s) + 1
      /\ \A j \in 1 .. Len(s) + 1 :
            t[j] = IF j < Len(s) + 1 THEN s[j] ELSE IF j = Len(s) + 1 THEN e ELSE s[j - 1]
  BY <1>1, InsertAtEach
<1> HIDE DEF a, t
<1>4. \A j \in 1 .. Len(a) : a[j] = t[j]
  BY <1>1, <1>2, <1>3
<1>5. a = t
  BY <1>2, <1>3, <1>4, SeqEqual
<1>6. QED
  BY <1>5 DEF a, t

LEMMA MovePositions ==
    ASSUME NEW s \in Seq(Blocks), IsInjective(s), NEW b \in Blocks, IndexOf(s, b) # -1,
           NEW to \in Nat, to < Len(s)
    PROVE  LET from == IndexOf(s, b)
               t == MoveItem(s, from, to)
           IN  /\ t \in Seq(Blocks) /\ Len(t) = Len(s) /\ IsInjective(t)
               /\ \A x \in Blocks :
                     LET p == IndexOf(s, x)
                         q == IF p > from THEN p - 1 ELSE p
                     IN  IndexOf(t, x) = IF x = b THEN to
                                         ELSE IF q >= to THEN q + 1
                                         ELSE q
<1> DEFINE from == IndexOf(s, b)
           r == RemoveAt(s, from + 1)
           t == InsertAt(r, to + 1, b)
<1>1. s[from + 1] = b
  BY Positions
<1>2. Len(s) \in Nat
  OBVIOUS
<1>3. /\ r \in Seq(Blocks) /\ Len(r) = Len(s) - 1 /\ IsInjective(r)
      /\ \A x \in Blocks :
            IndexOf(r, x) = IF x = b THEN -1
                            ELSE IF IndexOf(s, x) > from THEN IndexOf(s, x) - 1
                            ELSE IndexOf(s, x)
  BY RemovePositions
<1>4. MoveItem(s, from, to) = t
  BY <1>1 DEF MoveItem
<1> HIDE DEF r
<1>5. IndexOf(r, b) = -1 /\ to <= Len(r)
  BY <1>2, <1>3
<1>6. /\ t \in Seq(Blocks) /\ Len(t) = Len(r) + 1 /\ IsInjective(t)
      /\ \A x \in Blocks :
            IndexOf(t, x) = IF x = b THEN to
                            ELSE IF IndexOf(r, x) >= to THEN IndexOf(r, x) + 1
                            ELSE IndexOf(r, x)
  BY <1>3, <1>5, InsertPositions
<1> HIDE DEF t
<1>7. QED
  BY <1>2, <1>3, <1>4, <1>6

LEMMA SwapPositions ==
    ASSUME NEW s \in Seq(Blocks), IsInjective(s),
           NEW a \in Blocks, IndexOf(s, a) # -1, NEW b \in Blocks, IndexOf(s, b) # -1, a # b
    PROVE  LET t == SwapItems(s, IndexOf(s, a), IndexOf(s, b))
           IN  /\ t \in Seq(Blocks) /\ Len(t) = Len(s) /\ IsInjective(t)
               /\ \A x \in Blocks :
                     IndexOf(t, x) = IF x = a THEN IndexOf(s, b)
                                     ELSE IF x = b THEN IndexOf(s, a)
                                     ELSE IndexOf(s, x)
<1> DEFINE i == IndexOf(s, a) + 1
           j == IndexOf(s, b) + 1
           t == [s EXCEPT ![i] = s[j], ![j] = s[i]]
           f == [x \in Blocks |-> IF x = a THEN IndexOf(s, b)
                                   ELSE IF x = b THEN IndexOf(s, a)
                                   ELSE IndexOf(s, x)]
<1>1. \A x \in Blocks : /\ IndexOf(s, x) \in Int /\ -1 <= IndexOf(s, x) /\ IndexOf(s, x) < Len(s)
                        /\ IndexOf(s, x) # -1 => s[IndexOf(s, x) + 1] = x
  BY Positions
<1>2. f \in [Blocks -> Int]
  BY <1>1
<1>3. \A x \in Blocks : f[x] = IF x = a THEN IndexOf(s, b)
                               ELSE IF x = b THEN IndexOf(s, a)
                               ELSE IndexOf(s, x)
  OBVIOUS
<1>4. /\ DOMAIN s = 1 .. Len(s) /\ Len(s) \in Nat
      /\ i \in 1 .. Len(s) /\ s[i] = a /\ i = IndexOf(s, a) + 1
      /\ j \in 1 .. Len(s) /\ s[j] = b /\ j = IndexOf(s, b) + 1
  BY <1>1
<1>5. SwapItems(s, IndexOf(s, a), IndexOf(s, b)) = t
  BY DEF SwapItems
<1> HIDE DEF i, j, f
<1>6. /\ t \in Seq(Blocks) /\ Len(t) = Len(s)
      /\ \A k \in 1 .. Len(s) : t[k] = IF k = j THEN a ELSE IF k = i THEN b ELSE s[k]
  BY <1>4
<1> HIDE DEF t
<1>7. DOMAIN t = 1 .. Len(s)
  BY <1>6
<1>8. \A k \in DOMAIN s : s[k] \in Blocks /\ IndexOf(s, s[k]) = k - 1
  BY Positions
<1>9. ASSUME NEW k \in DOMAIN t
      PROVE  f[t[k]] = k - 1
  <2>1. IndexOf(s, s[k]) = k - 1 /\ s[k] \in Blocks /\ k \in 1 .. Len(s)
    BY <1>4, <1>7, <1>8
  <2>2. CASE k = j
    BY <1>1, <1>3, <1>4, <1>6, <2>1, <2>2
  <2>3. CASE k = i /\ k # j
    BY <1>1, <1>3, <1>4, <1>6, <2>1, <2>3
  <2>4. CASE k # i /\ k # j
    <3>1. s[k] # a /\ s[k] # b
      BY <1>1, <1>4, <2>1, <2>4
    <3>2. QED
      BY <1>3, <1>6, <2>1, <2>4, <3>1
  <2>5. QED
    BY <2>2, <2>3, <2>4
<1>10. ASSUME NEW x \in Blocks, f[x] # -1
       PROVE  f[x] + 1 \in DOMAIN t /\ t[f[x] + 1] = x
  <2>1. CASE x = a
    BY <1>1, <1>3, <1>4, <1>6, <1>7, <2>1
  <2>2. CASE x = b
    <3>1. f[x] + 1 = i
      BY <1>3, <1>4, <2>2
    <3>2. i # j
      BY <1>4
    <3>3. QED
      BY <1>4, <1>6, <1>7, <2>2, <3>1, <3>2
  <2>3. CASE x # a /\ x # b
    <3> DEFINE k == IndexOf(s, x) + 1
    <3>1. k \in 1 .. Len(s) /\ s[k] = x /\ f[x] + 1 = k
      BY <1>1, <1>3, <1>4, <1>10, <2>3
    <3> HIDE DEF k
    <3>2. k # i /\ k # j
      BY <1>4, <2>3, <3>1
    <3>3. QED
      BY <1>6, <1>7, <3>1, <3>2
  <2>4. QED
    BY <2>1, <2>2, <2>3
<1>11. IsInjective(t) /\ \A x \in Blocks : IndexOf(t, x) = f[x]
  <2>1. \A k \in DOMAIN t : f[t[k]] = k - 1
    BY <1>9
  <2>2. \A x \in Blocks : f[x] # -1 => f[x] + 1 \in DOMAIN t /\ t[f[x] + 1] = x
    BY <1>10
  <2>3. QED
    BY <1>2, <1>6, <2>1, <2>2, PositionsFit
<1>12. QED
  BY <1>3, <1>5, <1>6, <1>11

-----------------------------------------------------------------------------
(* The calls on a tree, field by field.                                    *)

LEMMA TreeFields ==
    ASSUME NEW t \in Tree
    PROVE  /\ t.kids \in [Libraries -> Seq(Blocks)] /\ t.mirror \in [Libraries -> Seq(Blocks)]
           /\ t.parent \in [Blocks -> Libraries \cup {NoLibrary}]
           /\ t.index \in [Blocks -> Nat \cup {-1}] /\ t.seen \in [Blocks -> Nat \cup {-1}]
           /\ t.placed \in [Blocks -> BOOLEAN] /\ t.wild \in BOOLEAN
  BY DEF Tree

(* indexBlocks gives the blocks behind an offset their positions.          *)
Reindexed(t, r, lib, start) ==
    /\ r \in Tree
    /\ r.kids = t.kids /\ r.parent = t.parent /\ r.placed = t.placed
    /\ r.mirror = t.mirror /\ r.wild = t.wild
    /\ \A x \in Blocks :
          /\ r.index[x] = IF IndexOf(t.kids[lib], x) >= start
                          THEN IndexOf(t.kids[lib], x) ELSE t.index[x]
          /\ r.seen[x] = IF r.index[x] # t.index[x] THEN r.index[x] ELSE t.seen[x]

LEMMA IndexBlocksEach ==
    ASSUME NEW t \in Tree, NEW lib \in Libraries, NEW start \in Nat, IsInjective(t.kids[lib])
    PROVE  Reindexed(t, IndexBlocks(t, lib, start), lib, start)
<1> DEFINE new(x) == IF IndexOf(t.kids[lib], x) >= start
                     THEN IndexOf(t.kids[lib], x) ELSE t.index[x]
           index == [x \in Blocks |-> new(x)]
           seen == [x \in Blocks |-> IF new(x) # t.index[x] THEN new(x) ELSE t.seen[x]]
           r == [t EXCEPT !.index = index, !.seen = seen]
<1>1. /\ t.kids[lib] \in Seq(Blocks)
      /\ \A x \in Blocks : t.index[x] \in Nat \cup {-1} /\ t.seen[x] \in Nat \cup {-1}
  BY TreeFields
<1>2. \A x \in Blocks : IndexOf(t.kids[lib], x) \in Int /\ -1 <= IndexOf(t.kids[lib], x)
  BY <1>1, Positions
<1>3. \A x \in Blocks : new(x) \in Nat \cup {-1}
  BY <1>1, <1>2
<1>4. /\ \A x \in Blocks : index[x] = new(x)
      /\ \A x \in Blocks : seen[x] = IF index[x] # t.index[x] THEN index[x] ELSE t.seen[x]
  OBVIOUS
<1>5. IndexBlocks(t, lib, start) = r
  BY TreeFields DEF IndexBlocks
<1>6. index \in [Blocks -> Nat \cup {-1}] /\ seen \in [Blocks -> Nat \cup {-1}]
  <2> HIDE DEF new
  <2>1. QED
    BY <1>1, <1>3
<1> HIDE DEF index, seen
<1>7. /\ r \in Tree /\ r.index = index /\ r.seen = seen
      /\ r.kids = t.kids /\ r.parent = t.parent /\ r.placed = t.placed
      /\ r.mirror = t.mirror /\ r.wild = t.wild
  BY <1>6 DEF Tree
<1> HIDE DEF r
<1>8. QED
  BY <1>4, <1>5, <1>7 DEF Reindexed

(* Block::index sets and announces one index.                              *)
IndexSet(t, r, b, i) ==
    /\ r \in Tree
    /\ r.kids = t.kids /\ r.parent = t.parent /\ r.placed = t.placed
    /\ r.mirror = t.mirror /\ r.wild = t.wild
    /\ r.index = [t.index EXCEPT ![b] = i]
    /\ r.seen = [t.seen EXCEPT ![b] = IF t.index[b] # i THEN i ELSE @]

LEMMA SetIndexEach ==
    ASSUME NEW t \in Tree, NEW b \in Blocks, NEW i \in Nat \cup {-1}
    PROVE  IndexSet(t, SetIndex(t, b, i), b, i)
  BY DEF SetIndex, Tree, IndexSet

LEMMA ReleaseEach ==
    ASSUME NEW t \in Tree, NEW b \in Blocks, t.index[b] # -1
    PROVE  LET r == Release(t, b)
           IN  /\ r \in Tree /\ r.kids = t.kids /\ r.mirror = t.mirror /\ r.wild = t.wild
               /\ r.parent = [t.parent EXCEPT ![b] = NoLibrary]
               /\ r.placed = [t.placed EXCEPT ![b] = FALSE]
               /\ r.index = [t.index EXCEPT ![b] = -1]
               /\ r.seen = [t.seen EXCEPT ![b] = -1]
<1> DEFINE u == SetIndex(t, b, -1)
<1>1. IndexSet(t, u, b, -1)
  BY SetIndexEach
<1> DEFINE r == [u EXCEPT !.parent[b] = NoLibrary, !.placed[b] = FALSE]
<1>2. Release(t, b) = r
  BY DEF Release
<1> HIDE DEF u
<1>3. /\ r \in Tree /\ r.kids = u.kids /\ r.mirror = u.mirror /\ r.wild = u.wild
      /\ r.parent = [u.parent EXCEPT ![b] = NoLibrary]
      /\ r.placed = [u.placed EXCEPT ![b] = FALSE]
      /\ r.index = u.index /\ r.seen = u.seen
  BY <1>1 DEF Tree, IndexSet
<1> HIDE DEF r
<1>4. QED
  BY <1>1, <1>2, <1>3 DEF IndexSet

(* removeBlock takes a block out of a list that has it; the block goes     *)
(* free if the index it has is its place in this list.                     *)
Removed(t, r, lib, b) ==
    LET i == IndexOf(t.kids[lib], b)
        rest == RemoveAt(t.kids[lib], i + 1)
    IN  /\ r \in Tree /\ r.wild = t.wild
        /\ \A l \in Libraries :
              /\ r.kids[l] = IF l = lib THEN rest ELSE t.kids[l]
              /\ r.mirror[l] = IF l = lib THEN rest ELSE t.mirror[l]
        /\ \A x \in Blocks \ {b} :
              /\ r.parent[x] = t.parent[x] /\ r.placed[x] = t.placed[x]
              /\ r.index[x] = IF IndexOf(t.kids[lib], x) > i
                              THEN IndexOf(t.kids[lib], x) - 1 ELSE t.index[x]
              /\ r.seen[x] = IF r.index[x] # t.index[x] THEN r.index[x] ELSE t.seen[x]
        /\ IF t.index[b] = i
           THEN /\ r.parent[b] = NoLibrary /\ r.placed[b] = FALSE
                /\ r.index[b] = -1 /\ r.seen[b] = -1
           ELSE /\ r.parent[b] = t.parent[b] /\ r.placed[b] = t.placed[b]
                /\ r.index[b] = t.index[b] /\ r.seen[b] = t.seen[b]

LEMMA RemoveBlockEach ==
    ASSUME NEW t \in Tree, NEW lib \in Libraries, NEW b \in Blocks,
           IsInjective(t.kids[lib]), IndexOf(t.kids[lib], b) # -1,
           t.mirror[lib] = t.kids[lib]
    PROVE  Removed(t, RemoveBlock(t, lib, b), lib, b)
<1> DEFINE i == IndexOf(t.kids[lib], b)
           rest == RemoveAt(t.kids[lib], i + 1)
           cut == [t EXCEPT !.kids[lib] = rest]
           taken == IndexBlocks(cut, lib, i)
           free == IF taken.index[b] = i THEN Release(taken, b) ELSE taken
           r == [free EXCEPT !.mirror[lib] = rest]
<1>1. /\ t.kids[lib] \in Seq(Blocks) /\ i \in Nat
      /\ \A x \in Blocks : IndexOf(t.kids[lib], x) \in Int /\ IndexOf(t.kids[lib], x) >= -1
      /\ \A x \in Blocks \ {b} : IndexOf(t.kids[lib], x) # i
  <2>1. t.kids[lib] \in Seq(Blocks)
    BY TreeFields
  <2>2. \A x \in Blocks : /\ IndexOf(t.kids[lib], x) \in Int /\ -1 <= IndexOf(t.kids[lib], x)
                          /\ IndexOf(t.kids[lib], x) # -1 =>
                                t.kids[lib][IndexOf(t.kids[lib], x) + 1] = x
    BY <2>1, Positions
  <2>3. QED
    BY <2>1, <2>2
<1>2. RemoveBlock(t, lib, b) = [free EXCEPT !.mirror[lib] = RemoveAt(@, i + 1)]
  BY DEF RemoveBlock, RemovedIndex
<1>3. /\ rest \in Seq(Blocks) /\ IsInjective(rest)
      /\ \A x \in Blocks :
            IndexOf(rest, x) = IF x = b THEN -1
                               ELSE IF IndexOf(t.kids[lib], x) > i THEN IndexOf(t.kids[lib], x) - 1
                               ELSE IndexOf(t.kids[lib], x)
  BY <1>1, RemovePositions
<1> HIDE DEF rest, i
<1>4. /\ cut \in Tree /\ cut.kids = [t.kids EXCEPT ![lib] = rest] /\ cut.kids[lib] = rest
      /\ cut.parent = t.parent /\ cut.placed = t.placed /\ cut.index = t.index
      /\ cut.seen = t.seen /\ cut.mirror = t.mirror /\ cut.wild = t.wild
  BY <1>3 DEF Tree
<1> HIDE DEF cut
<1>5. /\ taken \in Tree
      /\ taken.kids = cut.kids /\ taken.parent = cut.parent /\ taken.placed = cut.placed
      /\ taken.mirror = cut.mirror /\ taken.wild = cut.wild
      /\ \A x \in Blocks :
            /\ taken.index[x] = IF IndexOf(rest, x) >= i THEN IndexOf(rest, x) ELSE cut.index[x]
            /\ taken.seen[x] = IF taken.index[x] # cut.index[x] THEN taken.index[x] ELSE cut.seen[x]
  BY <1>1, <1>3, <1>4, IndexBlocksEach DEF Reindexed
<1> HIDE DEF taken
<1>6. /\ taken.index[b] = t.index[b] /\ taken.seen[b] = t.seen[b]
      /\ \A x \in Blocks \ {b} :
            /\ taken.index[x] = IF IndexOf(t.kids[lib], x) > i
                                THEN IndexOf(t.kids[lib], x) - 1 ELSE t.index[x]
            /\ taken.seen[x] = IF taken.index[x] # t.index[x] THEN taken.index[x] ELSE t.seen[x]
  BY <1>1, <1>3, <1>4, <1>5
<1>7. /\ free \in Tree /\ free.kids = taken.kids /\ free.mirror = taken.mirror
      /\ free.wild = taken.wild
      /\ \A x \in Blocks \ {b} :
            /\ free.parent[x] = taken.parent[x] /\ free.placed[x] = taken.placed[x]
            /\ free.index[x] = taken.index[x] /\ free.seen[x] = taken.seen[x]
      /\ IF t.index[b] = i
         THEN /\ free.parent[b] = NoLibrary /\ free.placed[b] = FALSE
              /\ free.index[b] = -1 /\ free.seen[b] = -1
         ELSE free = taken
  <2>1. CASE t.index[b] = i
    <3>1. free = Release(taken, b) /\ taken.index[b] # -1
      BY <1>1, <1>6, <2>1
    <3> DEFINE l == Release(taken, b)
    <3>2. /\ l \in Tree /\ l.kids = taken.kids /\ l.mirror = taken.mirror /\ l.wild = taken.wild
          /\ l.parent = [taken.parent EXCEPT ![b] = NoLibrary]
          /\ l.placed = [taken.placed EXCEPT ![b] = FALSE]
          /\ l.index = [taken.index EXCEPT ![b] = -1]
          /\ l.seen = [taken.seen EXCEPT ![b] = -1]
      BY <1>5, <3>1, ReleaseEach
    <3> HIDE DEF l
    <3>3. /\ \A x \in Blocks \ {b} :
               /\ l.parent[x] = taken.parent[x] /\ l.placed[x] = taken.placed[x]
               /\ l.index[x] = taken.index[x] /\ l.seen[x] = taken.seen[x]
          /\ l.parent[b] = NoLibrary /\ l.placed[b] = FALSE /\ l.index[b] = -1 /\ l.seen[b] = -1
      BY <1>5, <3>2, TreeFields
    <3>4. QED
      BY <2>1, <3>1, <3>2, <3>3 DEF l
  <2>2. CASE t.index[b] # i
    BY <1>5, <1>6, <2>2
  <2>3. QED
    BY <2>1, <2>2
<1>8. RemoveBlock(t, lib, b) = r
  BY <1>2, <1>4, <1>5, <1>7 DEF rest
<1> HIDE DEF free
<1>9. /\ r \in Tree /\ r.wild = t.wild
      /\ r.kids = [t.kids EXCEPT ![lib] = rest] /\ r.mirror = [t.mirror EXCEPT ![lib] = rest]
      /\ r.parent = free.parent /\ r.placed = free.placed
      /\ r.index = free.index /\ r.seen = free.seen
  BY <1>3, <1>4, <1>5, <1>7 DEF Tree
<1> HIDE DEF r
<1>10. \A x \in Blocks \ {b} :
         /\ r.parent[x] = t.parent[x] /\ r.placed[x] = t.placed[x]
         /\ r.index[x] = IF IndexOf(t.kids[lib], x) > i
                         THEN IndexOf(t.kids[lib], x) - 1 ELSE t.index[x]
         /\ r.seen[x] = IF r.index[x] # t.index[x] THEN r.index[x] ELSE t.seen[x]
  BY <1>4, <1>5, <1>6, <1>7, <1>9
<1>11. IF t.index[b] = i
       THEN /\ r.parent[b] = NoLibrary /\ r.placed[b] = FALSE
            /\ r.index[b] = -1 /\ r.seen[b] = -1
       ELSE /\ r.parent[b] = t.parent[b] /\ r.placed[b] = t.placed[b]
            /\ r.index[b] = t.index[b] /\ r.seen[b] = t.seen[b]
  BY <1>4, <1>5, <1>6, <1>7, <1>9
<1>12. \A l \in Libraries : /\ r.kids[l] = IF l = lib THEN rest ELSE t.kids[l]
                            /\ r.mirror[l] = IF l = lib THEN rest ELSE t.mirror[l]
  BY <1>9, TreeFields
<1>13. QED
  BY <1>8, <1>9, <1>10, <1>11, <1>12 DEF Removed, i, rest

-----------------------------------------------------------------------------
(* A tree between two calls: nothing was read outside of a list, the       *)
(* watchers and the views are up to date, and each list has the blocks     *)
(* that point to its library, at the positions that they say.              *)
Sound(t) ==
    /\ t \in Tree /\ ~t.wild
    /\ t.mirror = t.kids /\ t.seen = t.index
    /\ \A x \in Blocks : /\ t.placed[x] <=> t.parent[x] # NoLibrary
                         /\ t.index[x] = -1 <=> t.parent[x] = NoLibrary
    /\ \A l \in Libraries :
          /\ IsInjective(t.kids[l])
          /\ \A x \in Blocks :
                IndexOf(t.kids[l], x) = IF t.parent[x] = l THEN t.index[x] ELSE -1

LEMMA SoundFields ==
    ASSUME NEW t, t \in Tree, ~t.wild, t.mirror = t.kids,
           \A x \in Blocks : /\ t.seen[x] = t.index[x]
                             /\ t.placed[x] <=> t.parent[x] # NoLibrary
                             /\ t.index[x] = -1 <=> t.parent[x] = NoLibrary,
           \A l \in Libraries :
             /\ IsInjective(t.kids[l])
             /\ \A x \in Blocks :
                   IndexOf(t.kids[l], x) = IF t.parent[x] = l THEN t.index[x] ELSE -1
    PROVE  Sound(t)
<1>1. t.seen = t.index
  BY TreeFields
<1>2. QED
  BY <1>1 DEF Sound

(* b has no library now, the other blocks are where they were, and no      *)
(* library got one.                                                        *)
HasLeft(t, r, b) ==
    /\ Sound(r)
    /\ \A x \in Blocks : r.parent[x] = IF x = b THEN NoLibrary ELSE t.parent[x]
    /\ \A l \in Libraries : t.kids[l] = <<>> => r.kids[l] = <<>>

(* removeBlock of a block from its library.                                *)
LEMMA RemoveBlockKeeps ==
    ASSUME NEW t, Sound(t), NEW lib \in Libraries, NEW b \in Blocks, t.parent[b] = lib
    PROVE  HasLeft(t, RemoveBlock(t, lib, b), b)
<1> DEFINE r == RemoveBlock(t, lib, b)
           i == IndexOf(t.kids[lib], b)
           rest == RemoveAt(t.kids[lib], i + 1)
<1>1. /\ t \in Tree /\ ~t.wild /\ t.mirror = t.kids /\ t.seen = t.index
      /\ IsInjective(t.kids[lib]) /\ i = t.index[b] /\ i # -1 /\ NoLibrary \notin Libraries
      /\ t.kids[lib] \in Seq(Blocks) /\ t.mirror[lib] = t.kids[lib]
  BY TreeFields, BlocksAssumption DEF Sound
<1>2. /\ r \in Tree /\ r.wild = t.wild
      /\ \A l \in Libraries :
            /\ r.kids[l] = IF l = lib THEN rest ELSE t.kids[l]
            /\ r.mirror[l] = IF l = lib THEN rest ELSE t.mirror[l]
      /\ \A x \in Blocks \ {b} :
            /\ r.parent[x] = t.parent[x] /\ r.placed[x] = t.placed[x]
            /\ r.index[x] = IF IndexOf(t.kids[lib], x) > i
                            THEN IndexOf(t.kids[lib], x) - 1 ELSE t.index[x]
            /\ r.seen[x] = IF r.index[x] # t.index[x] THEN r.index[x] ELSE t.seen[x]
      /\ IF t.index[b] = i
         THEN /\ r.parent[b] = NoLibrary /\ r.placed[b] = FALSE
              /\ r.index[b] = -1 /\ r.seen[b] = -1
         ELSE /\ r.parent[b] = t.parent[b] /\ r.placed[b] = t.placed[b]
              /\ r.index[b] = t.index[b] /\ r.seen[b] = t.seen[b]
  <2>1. /\ t \in Tree /\ IsInjective(t.kids[lib]) /\ IndexOf(t.kids[lib], b) # -1
        /\ t.mirror[lib] = t.kids[lib]
    BY <1>1
  <2>2. Removed(t, r, lib, b)
    BY <2>1, RemoveBlockEach
  <2> HIDE DEF r
  <2>3. QED
    BY <2>2 DEF Removed
<1>3. /\ rest \in Seq(Blocks) /\ Len(rest) = Len(t.kids[lib]) - 1 /\ IsInjective(rest)
      /\ \A x \in Blocks :
            IndexOf(rest, x) = IF x = b THEN -1
                               ELSE IF IndexOf(t.kids[lib], x) > i THEN IndexOf(t.kids[lib], x) - 1
                               ELSE IndexOf(t.kids[lib], x)
  BY <1>1, RemovePositions
<1>4. \A l \in Libraries : /\ IsInjective(t.kids[l])
                           /\ \A x \in Blocks : IndexOf(t.kids[l], x) =
                                 IF t.parent[x] = l THEN t.index[x] ELSE -1
  BY DEF Sound
<1>5. \A x \in Blocks : /\ t.index[x] \in Nat \cup {-1}
                        /\ t.index[x] = -1 <=> t.parent[x] = NoLibrary
                        /\ t.placed[x] <=> t.parent[x] # NoLibrary
  BY <1>1, TreeFields DEF Sound
<1>6. \A x \in Blocks \ {b} : t.index[x] # i \/ t.parent[x] # lib
  <2>1. ASSUME NEW x \in Blocks, t.parent[x] = lib, t.index[x] = i
        PROVE  x = b
    <3>1. IndexOf(t.kids[lib], x) = i
      BY <1>4, <2>1
    <3>2. QED
      BY <1>1, <3>1, Positions
  <2>2. QED
    BY <2>1
<1> HIDE DEF r, rest
<1>7. /\ \A l \in Libraries : r.kids[l] = IF l = lib THEN rest ELSE t.kids[l]
      /\ r.mirror = r.kids
      /\ r.parent[b] = NoLibrary /\ r.placed[b] = FALSE
      /\ r.index[b] = -1 /\ r.seen[b] = -1
  BY <1>1, <1>2, TreeFields
<1>8. \A x \in Blocks : /\ r.seen[x] = r.index[x]
                        /\ r.placed[x] <=> r.parent[x] # NoLibrary
                        /\ r.index[x] = -1 <=> r.parent[x] = NoLibrary
  <2> SUFFICES ASSUME NEW x \in Blocks, x # b
               PROVE  /\ r.seen[x] = r.index[x]
                      /\ r.placed[x] <=> r.parent[x] # NoLibrary
                      /\ r.index[x] = -1 <=> r.parent[x] = NoLibrary
    BY <1>7
  <2>1. r.seen[x] = r.index[x]
    BY <1>1, <1>2
  <2>2. r.index[x] = -1 <=> t.index[x] = -1
    BY <1>1, <1>2, <1>4, <1>5
  <2>3. QED
    BY <1>2, <1>5, <2>1, <2>2
<1>9. ASSUME NEW l \in Libraries, NEW x \in Blocks
      PROVE  IndexOf(r.kids[l], x) = IF r.parent[x] = l THEN r.index[x] ELSE -1
  <2>1. CASE x = b
    <3>1. IndexOf(r.kids[l], b) = -1
      BY <1>1, <1>3, <1>4, <1>7
    <3>2. QED
      BY <1>1, <1>7, <2>1, <3>1
  <2>2. CASE x # b /\ l = lib
    BY <1>1, <1>2, <1>3, <1>4, <1>5, <1>7, <2>2
  <2>3. CASE x # b /\ l # lib
    BY <1>1, <1>2, <1>4, <1>5, <1>7, <2>3
  <2>4. QED
    BY <2>1, <2>2, <2>3
<1>10. Sound(r)
  <2>1. \A l \in Libraries : IsInjective(r.kids[l])
    BY <1>3, <1>4, <1>7
  <2>2. \A l \in Libraries :
          /\ IsInjective(r.kids[l])
          /\ \A x \in Blocks :
                IndexOf(r.kids[l], x) = IF r.parent[x] = l THEN r.index[x] ELSE -1
    BY <1>9, <2>1
  <2>3. QED
    BY <1>1, <1>2, <1>7, <1>8, <2>2, SoundFields
<1>11. \A x \in Blocks : r.parent[x] = IF x = b THEN NoLibrary ELSE t.parent[x]
  BY <1>1, <1>2, <1>7
<1>12. \A l \in Libraries : t.kids[l] = <<>> => r.kids[l] = <<>>
  <2>1. t.kids[lib] # <<>>
    BY <1>1, Positions
  <2>2. QED
    BY <1>7, <2>1
<1>13. QED
  BY <1>10, <1>11, <1>12 DEF r, HasLeft

(* A tree in which lib lists b at i already, b is nowhere else, and b has  *)
(* announced i; all that is left is to give the blocks behind b their      *)
(* positions and to tell the views.                                        *)
Entering(t, u, lib, b, i) ==
    /\ u \in Tree /\ ~u.wild
    /\ u.kids[lib] = InsertAt(t.kids[lib], i + 1, b) /\ u.mirror[lib] = t.kids[lib]
    /\ u.parent[b] = lib /\ u.placed[b] /\ u.seen[b] = i /\ u.index[b] \in {i, -1}
    /\ \A x \in Blocks \ {b} :
          /\ u.parent[x] = t.parent[x] /\ u.placed[x] = t.placed[x] /\ u.seen[x] = u.index[x]
          /\ u.index[x] = -1 <=> t.parent[x] = NoLibrary
          /\ t.parent[x] = lib => u.index[x] = t.index[x]
    /\ \A l \in Libraries \ {lib} :
          /\ u.mirror[l] = u.kids[l] /\ IsInjective(u.kids[l])
          /\ t.kids[l] = <<>> => u.kids[l] = <<>>
          /\ \A x \in Blocks :
                IndexOf(u.kids[l], x) = IF x # b /\ t.parent[x] = l THEN u.index[x] ELSE -1

(* What insertBlock and addBlock have done when the block has its library. *)
LEMMA EntersLibrary ==
    ASSUME NEW t, Sound(t), NEW lib \in Libraries, NEW b \in Blocks, t.parent[b] # lib,
           NEW i \in Nat, i <= Len(t.kids[lib])
    PROVE  Entering(t, SetLibrary(SetIndex([t EXCEPT !.kids[lib] = InsertAt(@, i + 1, b)], b, i),
                                  b, lib), lib, b, i)
<1> DEFINE new == InsertAt(t.kids[lib], i + 1, b)
           listed == [t EXCEPT !.kids[lib] = InsertAt(@, i + 1, b)]
           added == SetIndex(listed, b, i)
           u == SetLibrary(added, b, lib)
<1>1. /\ t \in Tree /\ ~t.wild /\ t.mirror = t.kids /\ t.seen = t.index
      /\ NoLibrary \notin Libraries /\ t.kids[lib] \in Seq(Blocks)
      /\ \A l \in Libraries : /\ IsInjective(t.kids[l])
                              /\ \A x \in Blocks : IndexOf(t.kids[l], x) =
                                    IF t.parent[x] = l THEN t.index[x] ELSE -1
      /\ \A x \in Blocks : /\ t.index[x] \in Nat \cup {-1}
                           /\ t.index[x] = -1 <=> t.parent[x] = NoLibrary
                           /\ t.placed[x] <=> t.parent[x] # NoLibrary
  BY TreeFields, BlocksAssumption DEF Sound
<1>2. new \in Seq(Blocks) /\ IsInjective(new)
  <2>1. IndexOf(t.kids[lib], b) = -1 /\ IsInjective(t.kids[lib])
    BY <1>1
  <2>2. QED
    BY <1>1, <2>1, InsertPositions
<1> HIDE DEF new
<1>3. /\ listed \in Tree /\ listed.kids = [t.kids EXCEPT ![lib] = new]
      /\ listed.parent = t.parent /\ listed.placed = t.placed /\ listed.index = t.index
      /\ listed.seen = t.seen /\ listed.mirror = t.mirror /\ listed.wild = t.wild
  BY <1>1, <1>2 DEF new, Tree
<1> HIDE DEF listed
<1>4. IndexSet(listed, added, b, i)
  BY <1>3, SetIndexEach
<1> HIDE DEF added
<1>5. /\ added \in Tree /\ ~added.wild /\ added.parent = t.parent /\ added.placed = t.placed
      /\ added.mirror = t.kids
      /\ \A l \in Libraries : added.kids[l] = IF l = lib THEN new ELSE t.kids[l]
      /\ added.index[b] = i /\ added.seen[b] = i
      /\ \A x \in Blocks \ {b} : added.index[x] = t.index[x] /\ added.seen[x] = t.index[x]
  BY <1>1, <1>3, <1>4, TreeFields DEF IndexSet
<1>6. CASE t.parent[b] = NoLibrary
  <2> DEFINE left == [added EXCEPT !.placed[b] = TRUE]
             v == [left EXCEPT !.parent[b] = lib]
  <2>1. u = v
    BY <1>5, <1>6 DEF SetLibrary
  <2>2. /\ v \in Tree /\ v.kids = added.kids /\ v.mirror = added.mirror /\ v.wild = added.wild
        /\ v.index = added.index /\ v.seen = added.seen
        /\ v.parent = [added.parent EXCEPT ![b] = lib]
        /\ v.placed = [added.placed EXCEPT ![b] = TRUE]
    BY <1>5 DEF Tree
  <2> HIDE DEF v
  <2>3. /\ v.parent[b] = lib /\ v.placed[b]
        /\ \A x \in Blocks \ {b} : v.parent[x] = t.parent[x] /\ v.placed[x] = t.placed[x]
    BY <1>1, <1>5, <2>2, TreeFields
  <2>4. \A x \in Blocks \ {b} :
          /\ v.parent[x] = t.parent[x] /\ v.placed[x] = t.placed[x] /\ v.seen[x] = v.index[x]
          /\ v.index[x] = -1 <=> t.parent[x] = NoLibrary
          /\ t.parent[x] = lib => v.index[x] = t.index[x]
    BY <1>1, <1>5, <2>2, <2>3
  <2>5. \A l \in Libraries \ {lib} :
          /\ v.mirror[l] = v.kids[l] /\ IsInjective(v.kids[l])
          /\ t.kids[l] = <<>> => v.kids[l] = <<>>
          /\ \A x \in Blocks :
                IndexOf(v.kids[l], x) = IF x # b /\ t.parent[x] = l THEN v.index[x] ELSE -1
    BY <1>1, <1>5, <1>6, <2>2
  <2>6. Entering(t, v, lib, b, i)
    BY <1>1, <1>5, <2>2, <2>3, <2>4, <2>5 DEF Entering, new
  <2>7. QED
    BY <2>1, <2>6 DEF u, added, listed
<1>7. CASE t.parent[b] # NoLibrary
  <2> DEFINE old == t.parent[b]
             bare == [added EXCEPT !.index[b] = -1]
             left == RemoveBlock(bare, old, b)
             v == [left EXCEPT !.parent[b] = lib]
             rest == RemoveAt(t.kids[old], t.index[b] + 1)
  <2>1. u = v
    BY <1>1, <1>5, <1>7 DEF SetLibrary, Leave
  <2>2. /\ old \in Libraries /\ old # lib /\ IndexOf(t.kids[old], b) = t.index[b]
        /\ t.index[b] # -1 /\ t.index[b] \in Nat
    BY <1>1, <1>7, TreeFields
  <2>3. /\ bare \in Tree /\ bare.kids = added.kids /\ bare.mirror = added.mirror
        /\ bare.wild = added.wild /\ bare.seen = added.seen /\ bare.parent = added.parent
        /\ bare.placed = added.placed /\ bare.index = [added.index EXCEPT ![b] = -1]
    BY <1>5 DEF Tree
  <2> HIDE DEF bare, old
  <2>4. /\ bare.kids[old] = t.kids[old] /\ bare.mirror[old] = t.kids[old] /\ bare.index[b] = -1
        /\ \A x \in Blocks \ {b} : bare.index[x] = t.index[x] /\ bare.seen[x] = t.index[x]
        /\ bare.seen[b] = i
    BY <1>1, <1>5, <2>2, <2>3, TreeFields
  <2>5. Removed(bare, left, old, b)
    BY <1>1, <2>2, <2>3, <2>4, RemoveBlockEach
  <2> HIDE DEF left
  <2>6. /\ left \in Tree /\ ~left.wild
        /\ \A l \in Libraries :
              /\ left.kids[l] = IF l = old THEN rest ELSE added.kids[l]
              /\ left.mirror[l] = IF l = old THEN rest ELSE t.kids[l]
        /\ \A x \in Blocks \ {b} :
              /\ left.parent[x] = t.parent[x] /\ left.placed[x] = t.placed[x]
              /\ left.index[x] = IF IndexOf(t.kids[old], x) > t.index[b]
                                 THEN IndexOf(t.kids[old], x) - 1 ELSE t.index[x]
              /\ left.seen[x] = IF left.index[x] # t.index[x] THEN left.index[x] ELSE t.index[x]
        /\ left.parent[b] = t.parent[b] /\ left.placed[b] = t.placed[b]
        /\ left.index[b] = -1 /\ left.seen[b] = i
    BY <1>5, <2>2, <2>3, <2>4, <2>5 DEF Removed
  <2>7. /\ v \in Tree /\ v.kids = left.kids /\ v.mirror = left.mirror /\ v.wild = left.wild
        /\ v.index = left.index /\ v.seen = left.seen /\ v.placed = left.placed
        /\ v.parent = [left.parent EXCEPT ![b] = lib]
    BY <2>6 DEF Tree
  <2> HIDE DEF v
  <2>8. /\ v.parent[b] = lib /\ v.placed[b]
        /\ \A x \in Blocks \ {b} : v.parent[x] = t.parent[x]
    BY <1>1, <1>7, <2>6, <2>7, TreeFields
  <2>9. /\ rest \in Seq(Blocks) /\ IsInjective(rest)
        /\ \A x \in Blocks :
              IndexOf(rest, x) = IF x = b THEN -1
                                 ELSE IF IndexOf(t.kids[old], x) > t.index[b]
                                 THEN IndexOf(t.kids[old], x) - 1
                                 ELSE IndexOf(t.kids[old], x)
    <3>1. t.kids[old] \in Seq(Blocks) /\ IsInjective(t.kids[old]) /\ IndexOf(t.kids[old], b) # -1
      BY <1>1, <2>2, TreeFields
    <3>2. QED
      BY <2>2, <3>1, RemovePositions
  <2>10. \A x \in Blocks \ {b} : t.parent[x] = old => t.index[x] # t.index[b]
    <3>1. t.kids[old] \in Seq(Blocks) /\ IsInjective(t.kids[old])
      BY <1>1, <2>2, TreeFields
    <3>2. \A x \in Blocks : IndexOf(t.kids[old], x) # -1 =>
                             t.kids[old][IndexOf(t.kids[old], x) + 1] = x
      BY <3>1, Positions
    <3>3. QED
      BY <1>1, <2>2, <3>2
  <2> HIDE DEF rest
  <2>11. \A x \in Blocks \ {b} :
          /\ v.parent[x] = t.parent[x] /\ v.placed[x] = t.placed[x] /\ v.seen[x] = v.index[x]
          /\ v.index[x] = -1 <=> t.parent[x] = NoLibrary
          /\ t.parent[x] = lib => v.index[x] = t.index[x]
    <3> TAKE x \in Blocks \ {b}
    <3>1. v.index[x] = -1 <=> t.index[x] = -1
      BY <1>1, <2>2, <2>6, <2>7
    <3>2. t.parent[x] = lib => v.index[x] = t.index[x]
      BY <1>1, <2>2, <2>6, <2>7
    <3>3. v.seen[x] = v.index[x]
      BY <2>6, <2>7
    <3>4. QED
      BY <1>1, <2>6, <2>7, <2>8, <3>1, <3>2, <3>3
  <2>12. ASSUME NEW l \in Libraries \ {lib}
         PROVE  /\ v.mirror[l] = v.kids[l] /\ IsInjective(v.kids[l])
                /\ t.kids[l] = <<>> => v.kids[l] = <<>>
                /\ \A x \in Blocks :
                      IndexOf(v.kids[l], x) = IF x # b /\ t.parent[x] = l THEN v.index[x] ELSE -1
    <3>1. CASE l = old
      <4>1. v.kids[l] = rest /\ v.mirror[l] = rest
        BY <2>2, <2>6, <2>7, <3>1
      <4>2. t.kids[old] # <<>>
        <5>1. t.kids[old] \in Seq(Blocks) /\ IsInjective(t.kids[old])
          BY <1>1, <2>2, TreeFields
        <5>2. QED
          BY <2>2, <5>1, Positions
      <4>3. \A x \in Blocks :
              IndexOf(rest, x) = IF x # b /\ t.parent[x] = l THEN v.index[x] ELSE -1
        BY <1>1, <2>2, <2>6, <2>7, <2>9, <3>1
      <4>4. QED
        BY <2>9, <3>1, <4>1, <4>2, <4>3
    <3>2. CASE l # old
      <4>1. v.kids[l] = t.kids[l] /\ v.mirror[l] = t.kids[l]
        BY <1>5, <2>6, <2>7, <3>2
      <4>2. \A x \in Blocks :
              IndexOf(t.kids[l], x) = IF x # b /\ t.parent[x] = l THEN v.index[x] ELSE -1
        BY <1>1, <2>2, <2>6, <2>7, <3>2 DEF old
      <4>3. QED
        BY <1>1, <4>1, <4>2
    <3>3. QED
      BY <3>1, <3>2
  <2>13. v.kids[lib] = new /\ v.mirror[lib] = t.kids[lib]
    BY <1>5, <2>2, <2>6, <2>7
  <2>14. Entering(t, v, lib, b, i)
    BY <2>6, <2>7, <2>8, <2>11, <2>12, <2>13 DEF Entering, new
  <2>15. QED
    BY <2>1, <2>14 DEF u, added, listed
<1>8. QED
  BY <1>6, <1>7

(* b is in lib now, the other blocks are where they were, and no other     *)
(* library got one.                                                        *)
Entered(t, r, lib, b) ==
    /\ Sound(r)
    /\ \A x \in Blocks : r.parent[x] = IF x = b THEN lib ELSE t.parent[x]
    /\ \A l \in Libraries \ {lib} : t.kids[l] = <<>> => r.kids[l] = <<>>

(* blockAdded and blockInserted tell the views where b is now.             *)
ViewsTold(v, lib, b, i) == [v EXCEPT !.mirror[lib] = InsertAt(@, i + 1, b)]

(* Once the positions are given and the views told, the tree is sound.     *)
LEMMA EnteringIsSound ==
    ASSUME NEW t, Sound(t), NEW lib \in Libraries, NEW b \in Blocks, t.parent[b] # lib,
           NEW i \in Nat, i <= Len(t.kids[lib]),
           NEW u, Entering(t, u, lib, b, i), NEW v, Reindexed(u, v, lib, i)
    PROVE  Entered(t, ViewsTold(v, lib, b, i), lib, b)
<1> DEFINE new == InsertAt(t.kids[lib], i + 1, b)
           r == [v EXCEPT !.mirror[lib] = InsertAt(@, i + 1, b)]
<1>1. /\ t \in Tree /\ NoLibrary \notin Libraries /\ t.kids[lib] \in Seq(Blocks)
      /\ IsInjective(t.kids[lib])
      /\ \A x \in Blocks : /\ IndexOf(t.kids[lib], x) = IF t.parent[x] = lib THEN t.index[x] ELSE -1
                           /\ t.placed[x] <=> t.parent[x] # NoLibrary
                           /\ t.index[x] = -1 <=> t.parent[x] = NoLibrary
                           /\ t.index[x] \in Nat \cup {-1}
  BY TreeFields, BlocksAssumption DEF Sound
<1>2. /\ new \in Seq(Blocks) /\ IsInjective(new)
      /\ \A x \in Blocks :
            IndexOf(new, x) = IF x = b THEN i
                              ELSE IF IndexOf(t.kids[lib], x) >= i THEN IndexOf(t.kids[lib], x) + 1
                              ELSE IndexOf(t.kids[lib], x)
  <2>1. IndexOf(t.kids[lib], b) = -1
    BY <1>1
  <2>2. QED
    BY <1>1, <2>1, InsertPositions
<1>3. /\ u \in Tree /\ ~u.wild /\ u.kids[lib] = new /\ u.mirror[lib] = t.kids[lib]
      /\ u.parent[b] = lib /\ u.placed[b] /\ u.seen[b] = i /\ u.index[b] \in {i, -1}
      /\ \A x \in Blocks \ {b} :
            /\ u.parent[x] = t.parent[x] /\ u.placed[x] = t.placed[x] /\ u.seen[x] = u.index[x]
            /\ u.index[x] = -1 <=> t.parent[x] = NoLibrary
            /\ t.parent[x] = lib => u.index[x] = t.index[x]
      /\ \A l \in Libraries \ {lib} :
            /\ u.mirror[l] = u.kids[l] /\ IsInjective(u.kids[l])
            /\ t.kids[l] = <<>> => u.kids[l] = <<>>
            /\ \A x \in Blocks :
                  IndexOf(u.kids[l], x) = IF x # b /\ t.parent[x] = l THEN u.index[x] ELSE -1
  BY DEF Entering
<1>4. /\ r \in Tree /\ r.mirror = [v.mirror EXCEPT ![lib] = new] /\ r.kids = u.kids
      /\ r.parent = u.parent /\ r.placed = u.placed /\ r.wild = u.wild
      /\ v.mirror = u.mirror
      /\ \A x \in Blocks :
            /\ r.index[x] = IF IndexOf(u.kids[lib], x) >= i
                            THEN IndexOf(u.kids[lib], x) ELSE u.index[x]
            /\ r.seen[x] = IF r.index[x] # u.index[x] THEN r.index[x] ELSE u.seen[x]
  <2>1. v \in Tree /\ v.mirror[lib] = t.kids[lib]
    BY <1>3 DEF Reindexed
  <2>2. r = [v EXCEPT !.mirror[lib] = new]
    BY <2>1
  <2> HIDE DEF r, new
  <2>3. /\ r \in Tree /\ r.mirror = [v.mirror EXCEPT ![lib] = new] /\ r.kids = v.kids
        /\ r.parent = v.parent /\ r.placed = v.placed /\ r.wild = v.wild
        /\ r.index = v.index /\ r.seen = v.seen
    BY <1>2, <2>1, <2>2 DEF Tree
  <2>4. QED
    BY <2>3 DEF Reindexed
<1> HIDE DEF new, r
<1>5. r.mirror = r.kids
  <2>1. \A l \in Libraries : r.mirror[l] = r.kids[l]
    BY <1>3, <1>4, TreeFields
  <2>2. r.mirror \in [Libraries -> Seq(Blocks)] /\ r.kids \in [Libraries -> Seq(Blocks)]
    BY <1>4, TreeFields
  <2>3. QED
    BY <2>1, <2>2
<1>6. /\ r.index[b] = i /\ r.seen[b] = i /\ r.parent[b] = lib /\ r.placed[b]
      /\ \A x \in Blocks \ {b} :
            /\ r.parent[x] = t.parent[x] /\ r.placed[x] = t.placed[x] /\ r.seen[x] = r.index[x]
            /\ r.index[x] = IF t.parent[x] = lib THEN IndexOf(new, x) ELSE u.index[x]
  <2>1. \A x \in Blocks : IndexOf(u.kids[lib], x) = IndexOf(new, x)
    BY <1>3
  <2>2. /\ r.index[b] = i /\ r.seen[b] = i /\ r.parent[b] = lib /\ r.placed[b]
    BY <1>2, <1>3, <1>4, <2>1
  <2>3. ASSUME NEW x \in Blocks \ {b}
        PROVE  r.index[x] = IF t.parent[x] = lib THEN IndexOf(new, x) ELSE u.index[x]
    <3>1. CASE t.parent[x] = lib
      BY <1>1, <1>2, <1>3, <1>4, <2>1, <3>1
    <3>2. CASE t.parent[x] # lib
      BY <1>1, <1>2, <1>3, <1>4, <2>1, <3>2
    <3>3. QED
      BY <3>1, <3>2
  <2>4. \A x \in Blocks \ {b} :
           r.parent[x] = t.parent[x] /\ r.placed[x] = t.placed[x] /\ r.seen[x] = r.index[x]
    BY <1>3, <1>4
  <2>5. QED
    BY <2>2, <2>3, <2>4
<1>7. \A x \in Blocks : /\ r.seen[x] = r.index[x]
                        /\ r.placed[x] <=> r.parent[x] # NoLibrary
                        /\ r.index[x] = -1 <=> r.parent[x] = NoLibrary
  <2> SUFFICES ASSUME NEW x \in Blocks, x # b
               PROVE  /\ r.seen[x] = r.index[x]
                      /\ r.placed[x] <=> r.parent[x] # NoLibrary
                      /\ r.index[x] = -1 <=> r.parent[x] = NoLibrary
    BY <1>1, <1>6
  <2>1. r.index[x] = -1 <=> t.parent[x] = NoLibrary
    BY <1>1, <1>2, <1>3, <1>6
  <2>2. QED
    BY <1>1, <1>6, <2>1
<1>8. ASSUME NEW l \in Libraries
      PROVE  /\ IsInjective(r.kids[l])
             /\ \A x \in Blocks :
                   IndexOf(r.kids[l], x) = IF r.parent[x] = l THEN r.index[x] ELSE -1
  <2>1. CASE l = lib
    <3>1. r.kids[l] = new
      BY <1>3, <1>4, <2>1
    <3>2. \A x \in Blocks : IndexOf(new, x) = IF r.parent[x] = l THEN r.index[x] ELSE -1
      BY <1>1, <1>2, <1>6, <2>1
    <3>3. QED
      BY <1>2, <3>1, <3>2
  <2>2. CASE l # lib
    <3>1. r.kids[l] = u.kids[l] /\ IsInjective(u.kids[l])
      BY <1>3, <1>4, <2>2
    <3>2. \A x \in Blocks : IndexOf(u.kids[l], x) = IF r.parent[x] = l THEN r.index[x] ELSE -1
      BY <1>3, <1>6, <2>2
    <3>3. QED
      BY <3>1, <3>2
  <2>3. QED
    BY <2>1, <2>2
<1>9. Sound(r)
  BY <1>3, <1>4, <1>5, <1>7, <1>8, SoundFields
<1>10. \A l \in Libraries \ {lib} : t.kids[l] = <<>> => r.kids[l] = <<>>
  BY <1>3, <1>4
<1>11. Entered(t, r, lib, b)
  BY <1>6, <1>9, <1>10 DEF Entered
<1>12. QED
  BY <1>11 DEF r, ViewsTold

LEMMA InsertBlockKeeps ==
    ASSUME NEW t, Sound(t), NEW lib \in Libraries, NEW b \in Blocks, t.parent[b] # lib,
           NEW i \in Nat, i <= Len(t.kids[lib])
    PROVE  Entered(t, InsertBlock(t, lib, b, i), lib, b)
<1> DEFINE u == SetLibrary(SetIndex([t EXCEPT !.kids[lib] = InsertAt(@, i + 1, b)], b, i), b, lib)
           v == IndexBlocks(u, lib, i)
<1>1. InsertBlock(t, lib, b, i) = ViewsTold(v, lib, b, i)
  BY DEF InsertBlock, ViewsTold
<1>2. Entering(t, u, lib, b, i)
  BY EntersLibrary
<1> HIDE DEF u
<1>3. u \in Tree /\ IsInjective(u.kids[lib])
  <2>1. /\ t \in Tree /\ t.kids[lib] \in Seq(Blocks) /\ IsInjective(t.kids[lib])
        /\ IndexOf(t.kids[lib], b) = -1
    BY TreeFields DEF Sound
  <2>2. IsInjective(InsertAt(t.kids[lib], i + 1, b))
    BY <2>1, InsertPositions
  <2>3. QED
    BY <1>2, <2>2 DEF Entering
<1>4. Reindexed(u, v, lib, i)
  BY <1>3, IndexBlocksEach
<1> HIDE DEF v
<1>5. QED
  BY <1>1, <1>2, <1>4, EnteringIsSound

(* addBlock puts a block without a library at the end, where no block is   *)
(* behind it that would need a new position.                               *)
LEMMA AddBlockKeeps ==
    ASSUME NEW t, Sound(t), NEW lib \in Libraries, NEW b \in Blocks, t.parent[b] = NoLibrary
    PROVE  Entered(t, AddBlock(t, lib, b), lib, b)
<1> DEFINE i == Len(t.kids[lib])
           listed == [t EXCEPT !.kids[lib] = InsertAt(@, i + 1, b)]
           added == SetIndex(listed, b, i)
           u == SetLibrary(added, b, lib)
<1>1. /\ t \in Tree /\ t.kids[lib] \in Seq(Blocks) /\ i \in Nat /\ i <= Len(t.kids[lib])
      /\ t.parent[b] # lib /\ IsInjective(t.kids[lib])
      /\ \A x \in Blocks : IndexOf(t.kids[lib], x) = IF t.parent[x] = lib THEN t.index[x] ELSE -1
  BY TreeFields, BlocksAssumption DEF Sound
<1>2. [t EXCEPT !.kids[lib] = Append(@, b)] = listed
  <2>1. Append(t.kids[lib], b) = InsertAt(t.kids[lib], i + 1, b)
    BY <1>1, AppendIsInsertAtEnd
  <2>2. QED
    BY <1>1, <2>1
<1>3. AddBlock(t, lib, b) = ViewsTold(u, lib, b, i)
  BY <1>2 DEF AddBlock, ViewsTold
<1> HIDE DEF i
<1>4. Entering(t, u, lib, b, i)
  BY <1>1, EntersLibrary
<1>5. u.index[b] = i
  <2>1. listed \in Tree /\ listed.parent = t.parent
    <3>1. InsertAt(t.kids[lib], i + 1, b) \in Seq(Blocks)
      BY <1>1, InsertPositions
    <3>2. QED
      BY <1>1, <3>1 DEF Tree
  <2> HIDE DEF listed
  <2>2. added \in Tree /\ added.parent = t.parent /\ added.index[b] = i
    BY <1>1, <2>1, TreeFields DEF SetIndex, Tree
  <2> HIDE DEF added
  <2>3. u = [[added EXCEPT !.placed[b] = TRUE] EXCEPT !.parent[b] = lib]
    BY <2>1, <2>2 DEF SetLibrary
  <2>4. u.index = added.index
    BY <2>2, <2>3 DEF Tree
  <2>5. QED
    BY <2>2, <2>4
<1> HIDE DEF u
<1>6. Reindexed(u, u, lib, i)
  <2> DEFINE new == InsertAt(t.kids[lib], i + 1, b)
  <2>1. /\ new \in Seq(Blocks) /\ IsInjective(new)
        /\ \A x \in Blocks :
              IndexOf(new, x) = IF x = b THEN i
                                ELSE IF IndexOf(t.kids[lib], x) >= i THEN IndexOf(t.kids[lib], x) + 1
                                ELSE IndexOf(t.kids[lib], x)
    BY <1>1, InsertPositions
  <2>2. u \in Tree /\ u.kids[lib] = new
    BY <1>4 DEF Entering
  <2> HIDE DEF new
  <2>3. \A x \in Blocks : IndexOf(t.kids[lib], x) \in Int /\ IndexOf(t.kids[lib], x) < i
    BY <1>1, Positions DEF i
  <2>4. QED
    BY <1>1, <1>5, <2>1, <2>2, <2>3 DEF Reindexed
<1>7. i <= Len(t.kids[lib])
  BY <1>1
<1>8. QED
  BY <1>1, <1>3, <1>4, <1>6, <1>7, EnteringIsSound

(* Swapping and moving changes no pointer.                                 *)
Rearranged(t, r) ==
    /\ Sound(r) /\ r.parent = t.parent
    /\ \A l \in Libraries : t.kids[l] = <<>> => r.kids[l] = <<>>

(* A tree where only the list of one library differs, and the indices are  *)
(* the positions in it.                                                    *)
LEMMA Rearranges ==
    ASSUME NEW t, Sound(t), NEW lib \in Libraries,
           NEW new \in Seq(Blocks), IsInjective(new), Len(new) = Len(t.kids[lib]),
           NEW r \in Tree, r.parent = t.parent, r.placed = t.placed, r.wild = t.wild,
           \A l \in Libraries : /\ r.kids[l] = IF l = lib THEN new ELSE t.kids[l]
                                /\ r.mirror[l] = r.kids[l],
           \A x \in Blocks : /\ r.index[x] = IF t.parent[x] = lib THEN IndexOf(new, x) ELSE t.index[x]
                             /\ IndexOf(new, x) = -1 <=> t.parent[x] # lib
                             /\ r.seen[x] = r.index[x]
    PROVE  Rearranged(t, r)
<1>1. /\ t \in Tree /\ ~t.wild /\ NoLibrary \notin Libraries /\ t.kids[lib] \in Seq(Blocks)
      /\ \A l \in Libraries : /\ IsInjective(t.kids[l])
                              /\ \A x \in Blocks : IndexOf(t.kids[l], x) =
                                    IF t.parent[x] = l THEN t.index[x] ELSE -1
      /\ \A x \in Blocks : /\ t.index[x] = -1 <=> t.parent[x] = NoLibrary
                           /\ t.placed[x] <=> t.parent[x] # NoLibrary
  BY TreeFields, BlocksAssumption DEF Sound
<1>2. r.mirror = r.kids
  BY TreeFields
<1>3. \A x \in Blocks : /\ r.seen[x] = r.index[x]
                        /\ r.placed[x] <=> r.parent[x] # NoLibrary
                        /\ r.index[x] = -1 <=> r.parent[x] = NoLibrary
  <2> TAKE x \in Blocks
  <2>1. r.index[x] = -1 <=> r.parent[x] = NoLibrary
    <3>1. CASE t.parent[x] = lib
      BY <1>1, <3>1
    <3>2. CASE t.parent[x] # lib
      BY <1>1, <3>2
    <3>3. QED
      BY <3>1, <3>2
  <2>2. QED
    BY <1>1, <2>1
<1>4. ASSUME NEW l \in Libraries
      PROVE  /\ IsInjective(r.kids[l])
             /\ \A x \in Blocks :
                   IndexOf(r.kids[l], x) = IF r.parent[x] = l THEN r.index[x] ELSE -1
  <2>1. CASE l = lib
    BY <2>1
  <2>2. CASE l # lib
    BY <1>1, <2>2
  <2>3. QED
    BY <2>1, <2>2
<1>5. Sound(r)
  BY <1>1, <1>2, <1>3, <1>4, SoundFields
<1>6. t.kids[lib] = <<>> => new = <<>>
  BY <1>1
<1>7. QED
  BY <1>5, <1>6 DEF Rearranged

LEMMA SwapBlocksKeeps ==
    ASSUME NEW t, Sound(t), NEW lib \in Libraries, NEW a \in Blocks, NEW b \in Blocks,
           a # b, t.parent[a] = lib, t.parent[b] = lib
    PROVE  Rearranged(t, SwapBlocks(t, lib, a, b))
<1> DEFINE i == t.index[a]
           j == t.index[b]
           new == SwapItems(t.kids[lib], i, j)
           swapped == [t EXCEPT !.kids[lib] = SwapItems(@, i, j), !.mirror[lib] = SwapItems(@, i, j)]
           half == SetIndex(swapped, a, j)
           r == SetIndex(half, b, i)
<1>1. /\ t \in Tree /\ t.mirror = t.kids /\ t.seen = t.index /\ t.kids[lib] \in Seq(Blocks)
      /\ IsInjective(t.kids[lib]) /\ NoLibrary \notin Libraries
      /\ \A x \in Blocks : /\ IndexOf(t.kids[lib], x) = IF t.parent[x] = lib THEN t.index[x] ELSE -1
                           /\ t.index[x] = -1 <=> t.parent[x] = NoLibrary
                           /\ t.index[x] \in Nat \cup {-1}
  BY TreeFields, BlocksAssumption DEF Sound
<1>2. /\ i \in Nat /\ j \in Nat /\ i = IndexOf(t.kids[lib], a) /\ j = IndexOf(t.kids[lib], b)
      /\ IndexOf(t.kids[lib], a) # -1 /\ IndexOf(t.kids[lib], b) # -1
  BY <1>1
<1>3. /\ new \in Seq(Blocks) /\ Len(new) = Len(t.kids[lib]) /\ IsInjective(new)
      /\ \A x \in Blocks : IndexOf(new, x) = IF x = a THEN j ELSE IF x = b THEN i
                                             ELSE IndexOf(t.kids[lib], x)
  BY <1>1, <1>2, SwapPositions
<1>4. SwapBlocks(t, lib, a, b) = r
  BY <1>2 DEF SwapBlocks
<1> HIDE DEF new
<1>5. swapped = [t EXCEPT !.kids[lib] = new, !.mirror[lib] = new]
  BY <1>1 DEF new
<1> HIDE DEF swapped, i, j
<1>6. /\ swapped \in Tree /\ swapped.kids = [t.kids EXCEPT ![lib] = new]
      /\ swapped.mirror = [t.mirror EXCEPT ![lib] = new]
      /\ swapped.parent = t.parent /\ swapped.placed = t.placed /\ swapped.index = t.index
      /\ swapped.seen = t.seen /\ swapped.wild = t.wild
  BY <1>1, <1>3, <1>5 DEF Tree
<1>7. IndexSet(swapped, half, a, j)
  BY <1>2, <1>6, SetIndexEach
<1> HIDE DEF half
<1>8. IndexSet(half, r, b, i)
  <2>1. half \in Tree
    BY <1>7 DEF IndexSet
  <2>2. QED
    BY <1>2, <2>1, SetIndexEach
<1> HIDE DEF r
<1>9. \A l \in Libraries : /\ r.kids[l] = IF l = lib THEN new ELSE t.kids[l]
                           /\ r.mirror[l] = r.kids[l]
  BY <1>1, <1>6, <1>7, <1>8, TreeFields DEF IndexSet
<1>10. \A x \in Blocks : /\ r.index[x] = IF x = a THEN j ELSE IF x = b THEN i ELSE t.index[x]
                         /\ r.seen[x] = r.index[x]
  BY <1>1, <1>6, <1>7, <1>8, TreeFields DEF IndexSet
<1>11. \A x \in Blocks : /\ r.index[x] = IF t.parent[x] = lib THEN IndexOf(new, x) ELSE t.index[x]
                         /\ IndexOf(new, x) = -1 <=> t.parent[x] # lib
                         /\ r.seen[x] = r.index[x]
  BY <1>1, <1>2, <1>3, <1>10
<1>12. r.parent = t.parent /\ r.placed = t.placed /\ r.wild = t.wild
  BY <1>6, <1>7, <1>8 DEF IndexSet
<1>13. Rearranged(t, r)
  <2>1. r \in Tree
    BY <1>8 DEF IndexSet
  <2>2. QED
    BY <1>3, <1>9, <1>11, <1>12, <2>1, Rearranges
<1>14. QED
  BY <1>4, <1>13

LEMMA MoveBlockKeeps ==
    ASSUME NEW t, Sound(t), NEW lib \in Libraries, NEW b \in Blocks, t.parent[b] = lib,
           NEW to \in Nat, to < Len(t.kids[lib])
    PROVE  Rearranged(t, MoveBlock(t, lib, b, to))
<1> DEFINE from == t.index[b]
           first == IF from < to THEN from ELSE to
           new == MoveItem(t.kids[lib], from, to)
           moved == [t EXCEPT !.kids[lib] = MoveItem(@, from, to), !.mirror[lib] = MoveItem(@, from, to)]
           r == IndexBlocks(moved, lib, first)
<1>1. /\ t \in Tree /\ t.mirror = t.kids /\ t.seen = t.index /\ t.kids[lib] \in Seq(Blocks)
      /\ IsInjective(t.kids[lib]) /\ NoLibrary \notin Libraries
      /\ \A x \in Blocks : /\ IndexOf(t.kids[lib], x) = IF t.parent[x] = lib THEN t.index[x] ELSE -1
                           /\ t.index[x] = -1 <=> t.parent[x] = NoLibrary
                           /\ t.index[x] \in Nat \cup {-1}
  BY TreeFields, BlocksAssumption DEF Sound
<1>2. /\ from \in Nat /\ from = IndexOf(t.kids[lib], b) /\ IndexOf(t.kids[lib], b) # -1
      /\ first \in Nat
  BY <1>1
<1>3. CASE from = to
  BY <1>2, <1>3 DEF MoveBlock, Rearranged
<1>4. CASE from # to
  <2>1. MoveBlock(t, lib, b, to) = r
    BY <1>2, <1>4 DEF MoveBlock
  <2>2. /\ new \in Seq(Blocks) /\ Len(new) = Len(t.kids[lib]) /\ IsInjective(new)
        /\ \A x \in Blocks :
              LET p == IndexOf(t.kids[lib], x)
                  q == IF p > from THEN p - 1 ELSE p
              IN  IndexOf(new, x) = IF x = b THEN to ELSE IF q >= to THEN q + 1 ELSE q
    BY <1>1, <1>2, MovePositions
  <2> HIDE DEF new
  <2>3. moved = [t EXCEPT !.kids[lib] = new, !.mirror[lib] = new]
    BY <1>1 DEF new
  <2> HIDE DEF moved
  <2>4. /\ moved \in Tree /\ moved.kids = [t.kids EXCEPT ![lib] = new]
        /\ moved.mirror = [t.mirror EXCEPT ![lib] = new] /\ moved.kids[lib] = new
        /\ moved.parent = t.parent /\ moved.placed = t.placed /\ moved.index = t.index
        /\ moved.seen = t.seen /\ moved.wild = t.wild
    BY <1>1, <2>2, <2>3 DEF Tree
  <2>5. Reindexed(moved, r, lib, first)
    BY <1>2, <2>2, <2>4, IndexBlocksEach
  <2> HIDE DEF r
  <2>6. \A l \in Libraries : /\ r.kids[l] = IF l = lib THEN new ELSE t.kids[l]
                             /\ r.mirror[l] = r.kids[l]
    BY <1>1, <2>4, <2>5, TreeFields DEF Reindexed
  <2>7. \A x \in Blocks : /\ IndexOf(t.kids[lib], x) \in Int /\ IndexOf(t.kids[lib], x) >= -1
                          /\ IndexOf(t.kids[lib], x) = from => x = b
    BY <1>1, <1>2, Positions
  <2>8. ASSUME NEW x \in Blocks
        PROVE  /\ r.index[x] = IF t.parent[x] = lib THEN IndexOf(new, x) ELSE t.index[x]
               /\ IndexOf(new, x) = -1 <=> t.parent[x] # lib
               /\ r.seen[x] = r.index[x]
    <3>1. r.seen[x] = r.index[x]
      BY <1>1, <2>4, <2>5 DEF Reindexed
    <3>2. r.index[x] = IF IndexOf(new, x) >= first THEN IndexOf(new, x) ELSE t.index[x]
      BY <2>4, <2>5 DEF Reindexed
    <3>3. IndexOf(new, x) < first => IndexOf(new, x) = IndexOf(t.kids[lib], x)
      BY <1>2, <2>2, <2>7
    <3>4. IndexOf(new, x) = -1 <=> IndexOf(t.kids[lib], x) = -1
      BY <1>2, <2>2, <2>7
    <3>5. IndexOf(new, x) \in Int
      BY <1>2, <2>2, <2>7
    <3>6. QED
      BY <1>1, <1>2, <3>1, <3>2, <3>3, <3>4, <3>5
  <2>9. r \in Tree /\ r.parent = t.parent /\ r.placed = t.placed /\ r.wild = t.wild
    BY <2>4, <2>5 DEF Reindexed
  <2>10. Rearranged(t, r)
    BY <2>2, <2>6, <2>8, <2>9, Rearranges
  <2>11. QED
    BY <2>1, <2>10
<1>5. QED
  BY <1>3, <1>4

-----------------------------------------------------------------------------
(* The destructions in progress.                                           *)

\* What a call of destroy or clear has done to the tree so far: a block that is
\* being destroyed has the flag, and a library that is past its loop is empty.
FrameFits(t, flagged, f) ==
    /\ f.call = "clear" => f.at = "clearing"
    /\ f.call = "destroy" => f.block \in flagged
    /\ f.at # "clearing" /\ f.block \in Libraries => t.kids[f.block] = <<>>

StackFits == \A k \in DOMAIN stack : FrameFits(tree, dying, stack[k])

DeletedLeftNothing(t, flagged, gone) ==
    \A x \in gone : /\ x \in flagged
                    /\ t.parent[x] = NoLibrary
                    /\ x \in Libraries => t.kids[x] = <<>>

BlockTreeInv ==
    /\ Sound(tree)
    /\ dying \subseteq Blocks /\ deleted \subseteq Blocks /\ stack \in Seq(Frame)
    /\ StackFits
    /\ DeletedLeftNothing(tree, dying, deleted)

(* A library without blocks is the library of none.                        *)
LEMMA EmptyHasNone ==
    ASSUME NEW t, Sound(t), NEW l \in Libraries, t.kids[l] = <<>>
    PROVE  \A x \in Blocks : t.parent[x] # l
<1> SUFFICES ASSUME NEW x \in Blocks, t.parent[x] = l
             PROVE  FALSE
  OBVIOUS
<1>1. /\ t \in Tree /\ IsInjective(t.kids[l]) /\ IndexOf(t.kids[l], x) = t.index[x]
      /\ t.index[x] # -1 /\ t.kids[l] \in Seq(Blocks)
  BY TreeFields, BlocksAssumption DEF Sound
<1>2. /\ IndexOf(t.kids[l], x) \in Int /\ -1 <= IndexOf(t.kids[l], x)
      /\ IndexOf(t.kids[l], x) < Len(t.kids[l])
  BY <1>1, Positions
<1>3. Len(t.kids[l]) = 0
  OBVIOUS
<1>4. QED
  BY <1>1, <1>2, <1>3

LEMMA HoldsItsBlocks ==
    ASSUME Sound(tree), NEW lib \in Libraries, NEW b \in Blocks
    PROVE  Holds(lib, b) <=> tree.parent[b] = lib
<1>1. /\ tree \in Tree /\ IsInjective(tree.kids[lib]) /\ NoLibrary \notin Libraries
      /\ IndexOf(tree.kids[lib], b) = IF tree.parent[b] = lib THEN tree.index[b] ELSE -1
      /\ tree.index[b] = -1 <=> tree.parent[b] = NoLibrary
      /\ tree.kids[lib] \in Seq(Blocks)
  BY TreeFields, BlocksAssumption DEF Sound
<1>2. DOMAIN tree.kids[lib] = 1 .. Len(tree.kids[lib]) /\ Len(tree.kids[lib]) \in Nat
  BY <1>1
<1>3. Holds(lib, b) => IndexOf(tree.kids[lib], b) # -1
  <2> SUFFICES ASSUME NEW i \in 1 .. Len(tree.kids[lib]), tree.kids[lib][i] = b
               PROVE  IndexOf(tree.kids[lib], b) # -1
    BY DEF Holds, Contains
  <2>1. IndexOf(tree.kids[lib], tree.kids[lib][i]) = i - 1
    BY <1>1, <1>2, Positions
  <2>2. QED
    BY <1>2, <2>1
<1>4. IndexOf(tree.kids[lib], b) # -1 => Holds(lib, b)
  <2> SUFFICES ASSUME IndexOf(tree.kids[lib], b) # -1
               PROVE  Holds(lib, b)
    OBVIOUS
  <2> DEFINE i == IndexOf(tree.kids[lib], b) + 1
  <2>1. i \in 1 .. Len(tree.kids[lib]) /\ tree.kids[lib][i] = b
    BY <1>1, <1>2, Positions
  <2>2. QED
    BY <2>1 DEF Holds, Contains
<1>5. QED
  BY <1>1, <1>3, <1>4

(* A call of the program on libraries and blocks that are not being        *)
(* deleted leaves the destructions around it as they are.                  *)
LEMMA UpdateKeeps ==
    ASSUME BlockTreeInv, NEW t, Update(t), Sound(t),
           \A x \in deleted : t.parent[x] = tree.parent[x],
           \A l \in Libraries : l \in dying /\ tree.kids[l] = <<>> => t.kids[l] = <<>>
    PROVE  BlockTreeInv'
<1>1. tree' = t /\ UNCHANGED <<dying, deleted, stack>>
  BY DEF Update
<1>2. ASSUME NEW k \in DOMAIN stack
      PROVE  FrameFits(t, dying, stack[k])
  <2>1. FrameFits(tree, dying, stack[k]) /\ stack[k] \in Frame
    BY DEF BlockTreeInv, StackFits
  <2>2. stack[k].at # "clearing" => stack[k].call = "destroy"
    BY <2>1 DEF FrameFits, Frame
  <2>3. QED
    BY <2>1, <2>2 DEF FrameFits
<1>3. StackFits'
  BY <1>1, <1>2 DEF StackFits
<1>4. DeletedLeftNothing(t, dying, deleted)
  BY DEF BlockTreeInv, DeletedLeftNothing
<1>5. QED
  BY <1>1, <1>3, <1>4 DEF BlockTreeInv

(* What a program may call it on is not being deleted, and was not.        *)
LEMMA EnteredFits ==
    ASSUME BlockTreeInv, NEW lib \in Libraries, NEW b \in Blocks, Usable(lib), Usable(b),
           NEW t, Update(t), Entered(tree, t, lib, b)
    PROVE  BlockTreeInv'
<1>1. deleted \subseteq Blocks
  BY DEF BlockTreeInv
<1>2. /\ Sound(t)
      /\ \A x \in deleted : t.parent[x] = tree.parent[x]
      /\ \A l \in Libraries : l \in dying /\ tree.kids[l] = <<>> => t.kids[l] = <<>>
  BY <1>1 DEF Entered, Usable
<1>3. QED
  BY <1>2, UpdateKeeps

LEMMA RearrangedFits ==
    ASSUME BlockTreeInv, NEW t, Update(t), Rearranged(tree, t)
    PROVE  BlockTreeInv'
<1>1. /\ Sound(t)
      /\ \A x \in deleted : t.parent[x] = tree.parent[x]
      /\ \A l \in Libraries : l \in dying /\ tree.kids[l] = <<>> => t.kids[l] = <<>>
  BY DEF Rearranged
<1>2. QED
  BY <1>1, UpdateKeeps

LEMMA AddKeeps ==
    ASSUME BlockTreeInv, "addBlock" \notin Reparent,
           NEW lib \in Libraries, NEW b \in Blocks, Add(lib, b)
    PROVE  BlockTreeInv'
<1>1. Sound(tree) /\ tree.parent[b] = NoLibrary
  BY DEF BlockTreeInv, Add, MayEnter
<1>2. Entered(tree, AddBlock(tree, lib, b), lib, b)
  BY <1>1, AddBlockKeeps
<1>3. Update(AddBlock(tree, lib, b)) /\ Usable(lib) /\ Usable(b)
  BY DEF Add, MayEnter
<1>4. QED
  BY <1>2, <1>3, EnteredFits

LEMMA InsertKeeps ==
    ASSUME BlockTreeInv, NEW lib \in Libraries, NEW b \in Blocks, NEW i \in Nat, Insert(lib, b, i)
    PROVE  BlockTreeInv'
<1>1. Sound(tree)
  BY DEF BlockTreeInv
<1>2. tree.parent[b] # lib /\ i <= Len(tree.kids[lib])
  BY <1>1, HoldsItsBlocks DEF Insert, MayEnter
<1>3. Entered(tree, InsertBlock(tree, lib, b, i), lib, b)
  BY <1>1, <1>2, InsertBlockKeeps
<1>4. Update(InsertBlock(tree, lib, b, i)) /\ Usable(lib) /\ Usable(b)
  BY DEF Insert, MayEnter
<1>5. QED
  BY <1>3, <1>4, EnteredFits

LEMMA RemoveFromKeeps ==
    ASSUME BlockTreeInv, NEW lib \in Libraries, NEW b \in Blocks, RemoveFrom(lib, b)
    PROVE  BlockTreeInv'
<1> DEFINE r == RemoveBlock(tree, lib, b)
<1>1. Sound(tree) /\ deleted \subseteq Blocks
  BY DEF BlockTreeInv
<1>2. tree.parent[b] = lib /\ Update(r) /\ Usable(b)
  BY <1>1, HoldsItsBlocks DEF RemoveFrom
<1>3. HasLeft(tree, r, b)
  BY <1>1, <1>2, RemoveBlockKeeps
<1> HIDE DEF r
<1>4. \A x \in deleted : r.parent[x] = tree.parent[x]
  BY <1>1, <1>2, <1>3 DEF HasLeft, Usable
<1>5. QED
  BY <1>2, <1>3, <1>4, UpdateKeeps DEF HasLeft

LEMMA SwapKeeps ==
    ASSUME BlockTreeInv, NEW lib \in Libraries, NEW a \in Blocks, NEW b \in Blocks, Swap(lib, a, b)
    PROVE  BlockTreeInv'
<1>1. Sound(tree)
  BY DEF BlockTreeInv
<1>2. a # b /\ tree.parent[a] = lib /\ tree.parent[b] = lib /\ Update(SwapBlocks(tree, lib, a, b))
  BY <1>1, HoldsItsBlocks DEF Swap
<1>3. Rearranged(tree, SwapBlocks(tree, lib, a, b))
  BY <1>1, <1>2, SwapBlocksKeeps
<1>4. QED
  BY <1>2, <1>3, RearrangedFits

LEMMA MoveKeeps ==
    ASSUME BlockTreeInv, NEW lib \in Libraries, NEW b \in Blocks, NEW i \in Nat, Move(lib, b, i)
    PROVE  BlockTreeInv'
<1>1. Sound(tree)
  BY DEF BlockTreeInv
<1>2. tree.parent[b] = lib /\ i < Len(tree.kids[lib]) /\ Update(MoveBlock(tree, lib, b, i))
  BY <1>1, HoldsItsBlocks DEF Move
<1>3. Rearranged(tree, MoveBlock(tree, lib, b, i))
  BY <1>1, <1>2, MoveBlockKeeps
<1>4. QED
  BY <1>2, <1>3, RearrangedFits

-----------------------------------------------------------------------------
(* What is on the stack after a call and after a return.                   *)
LEMMA Called ==
    ASSUME NEW s \in Seq(Frame), NEW f \in Frame
    PROVE  /\ <<f>> \o s \in Seq(Frame)
           /\ \A k \in DOMAIN (<<f>> \o s) :
                 (<<f>> \o s)[k] = f \/ \E j \in DOMAIN s : (<<f>> \o s)[k] = s[j]
<1> DEFINE c == <<f>> \o s
<1>1. <<f>> \in Seq(Frame) /\ Len(<<f>>) = 1 /\ <<f>>[1] = f
  OBVIOUS
<1>2. /\ c \in Seq(Frame) /\ Len(c) = 1 + Len(s)
      /\ \A k \in 1 .. 1 + Len(s) : c[k] = IF k <= 1 THEN <<f>>[k] ELSE s[k - 1]
  BY <1>1, ConcatProperties
<1> HIDE DEF c
<1>3. DOMAIN c = 1 .. 1 + Len(s) /\ DOMAIN s = 1 .. Len(s) /\ Len(s) \in Nat
  BY <1>2
<1>4. ASSUME NEW k \in DOMAIN c
      PROVE  c[k] = f \/ \E j \in DOMAIN s : c[k] = s[j]
  <2>1. CASE k = 1
    BY <1>1, <1>2, <1>3, <2>1
  <2>2. CASE k # 1
    <3>1. k - 1 \in DOMAIN s /\ c[k] = s[k - 1]
      BY <1>2, <1>3, <2>2
    <3>2. QED
      BY <3>1
  <2>3. QED
    BY <2>1, <2>2
<1>5. QED
  BY <1>2, <1>4 DEF c

LEMMA Returned ==
    ASSUME NEW s \in Seq(Frame), s # <<>>
    PROVE  /\ Tail(s) \in Seq(Frame) /\ Head(s) \in Frame
           /\ \E k \in DOMAIN s : Head(s) = s[k]
           /\ \A k \in DOMAIN Tail(s) : \E j \in DOMAIN s : Tail(s)[k] = s[j]
<1>1. /\ Tail(s) \in Seq(Frame) /\ Head(s) \in Frame /\ Head(s) = s[1]
      /\ DOMAIN s = 1 .. Len(s) /\ Len(s) \in Nat /\ 1 \in DOMAIN s
      /\ DOMAIN Tail(s) = 1 .. Len(s) - 1 /\ \A k \in DOMAIN Tail(s) : Tail(s)[k] = s[k + 1]
  OBVIOUS
<1>2. \A k \in DOMAIN Tail(s) : k + 1 \in DOMAIN s
  BY <1>1
<1>3. QED
  BY <1>1, <1>2

(* The step to a next point of the call on top, which leaves the tree.     *)
LEMMA GotoKeeps ==
    ASSUME BlockTreeInv, stack # <<>>, NEW point \in {"notify", "detach"}, Goto(point),
           Top.call = "destroy", Top.block \in Libraries => tree.kids[Top.block] = <<>>,
           UNCHANGED <<tree, dying, deleted>>
    PROVE  BlockTreeInv'
<1> DEFINE f == [Top EXCEPT !.at = point]
<1>1. /\ stack \in Seq(Frame) /\ Top \in Frame /\ Tail(stack) \in Seq(Frame)
      /\ \E k \in DOMAIN stack : Top = stack[k]
      /\ \A k \in DOMAIN Tail(stack) : \E j \in DOMAIN stack : Tail(stack)[k] = stack[j]
  BY Returned DEF BlockTreeInv, Top
<1>2. Top \in [call : {"destroy", "clear"}, block : Blocks, at : {"clearing", "notify", "detach"}]
  BY <1>1 DEF Frame
<1>3. /\ f \in Frame /\ f.call = Top.call /\ f.block = Top.block /\ f.at = point
  BY <1>2 DEF Frame
<1>4. FrameFits(tree, dying, Top)
  BY <1>1 DEF BlockTreeInv, StackFits
<1> HIDE DEF f
<1>5. FrameFits(tree, dying, f)
  BY <1>3, <1>4 DEF FrameFits
<1>6. /\ stack' \in Seq(Frame)
      /\ \A k \in DOMAIN stack' : stack'[k] = f \/ \E j \in DOMAIN Tail(stack) : stack'[k] = Tail(stack)[j]
  <2>1. stack' = <<f>> \o Tail(stack)
    BY DEF Goto, f
  <2>2. QED
    BY <1>1, <1>3, <2>1, Called
<1>7. \A k \in DOMAIN stack' : FrameFits(tree, dying, stack'[k])
  BY <1>1, <1>5, <1>6 DEF BlockTreeInv, StackFits
<1>8. QED
  BY <1>6, <1>7 DEF BlockTreeInv, StackFits

LEMMA StartDestroyKeeps ==
    ASSUME BlockTreeInv, NEW b \in Blocks, StartDestroy(b)
    PROVE  BlockTreeInv'
<1> DEFINE f == [call |-> "destroy", block |-> b,
                 at |-> IF b \in Libraries THEN "clearing" ELSE "notify"]
<1>1. /\ stack \in Seq(Frame) /\ stack' = <<f>> \o stack /\ dying' = dying \cup {b}
      /\ UNCHANGED <<tree, deleted>>
  BY DEF BlockTreeInv, StartDestroy, Call
<1>2. f \in Frame /\ FrameFits(tree, dying', f)
  BY <1>1 DEF Frame, FrameFits
<1> HIDE DEF f
<1>3. /\ stack' \in Seq(Frame)
      /\ \A k \in DOMAIN stack' : stack'[k] = f \/ \E j \in DOMAIN stack : stack'[k] = stack[j]
  BY <1>1, <1>2, Called
<1>4. \A j \in DOMAIN stack : FrameFits(tree, dying', stack[j])
  BY <1>1 DEF BlockTreeInv, StackFits, FrameFits
<1>5. StackFits'
  BY <1>1, <1>2, <1>3, <1>4 DEF StackFits
<1>6. DeletedLeftNothing(tree, dying, deleted) /\ dying \subseteq dying'
  BY <1>1 DEF BlockTreeInv
<1>7. DeletedLeftNothing(tree, dying', deleted)
  BY <1>6 DEF DeletedLeftNothing
<1>8. QED
  BY <1>1, <1>3, <1>5, <1>7 DEF BlockTreeInv

LEMMA ClearKeeps ==
    ASSUME BlockTreeInv, NEW lib \in Libraries, Clear(lib)
    PROVE  BlockTreeInv'
<1> DEFINE f == [call |-> "clear", block |-> lib,
                 at |-> IF lib \in Libraries THEN "clearing" ELSE "notify"]
<1>1. /\ stack \in Seq(Frame) /\ stack' = <<f>> \o stack /\ UNCHANGED <<tree, dying, deleted>>
  BY DEF BlockTreeInv, Clear, Call
<1>2. f \in Frame /\ FrameFits(tree, dying, f)
  BY BlocksAssumption DEF Frame, FrameFits
<1> HIDE DEF f
<1>3. /\ stack' \in Seq(Frame)
      /\ \A k \in DOMAIN stack' : stack'[k] = f \/ \E j \in DOMAIN stack : stack'[k] = stack[j]
  BY <1>1, <1>2, Called
<1>4. StackFits'
  BY <1>1, <1>2, <1>3 DEF BlockTreeInv, StackFits
<1>5. QED
  BY <1>1, <1>3, <1>4 DEF BlockTreeInv

(* The return of a call, which takes its frame with it.                    *)
LEMMA DetachKeeps ==
    ASSUME BlockTreeInv, Detach
    PROVE  BlockTreeInv'
<1> DEFINE b == Top.block
           t == IF LeavesItsLibrary(b) THEN RemoveBlock(tree, tree.parent[b], b) ELSE tree
<1>1. /\ stack \in Seq(Frame) /\ stack # <<>> /\ Top.at = "detach" /\ tree' = t
      /\ deleted' = deleted \cup (IF b \in Deletable THEN WithQtChildren(t, b) ELSE {})
      /\ stack' = Tail(stack) /\ dying' = dying
  BY DEF BlockTreeInv, Detach, At
<1>2. /\ Top \in Frame /\ Tail(stack) \in Seq(Frame)
      /\ \E k \in DOMAIN stack : Top = stack[k]
      /\ \A k \in DOMAIN Tail(stack) : \E j \in DOMAIN stack : Tail(stack)[k] = stack[j]
  BY <1>1, Returned DEF Top
<1>3. FrameFits(tree, dying, Top)
  BY <1>2 DEF BlockTreeInv, StackFits
<1>4. b \in Blocks /\ b \in dying /\ (b \in Libraries => tree.kids[b] = <<>>)
  BY <1>1, <1>2, <1>3 DEF Frame, FrameFits
<1>5. Sound(tree) /\ tree \in Tree
  BY DEF BlockTreeInv, Sound
<1> HIDE DEF b
<1>6. /\ Sound(t) /\ t.parent[b] = NoLibrary
      /\ \A x \in Blocks \ {b} : t.parent[x] = tree.parent[x]
      /\ \A l \in Libraries : tree.kids[l] = <<>> => t.kids[l] = <<>>
  <2>1. CASE LeavesItsLibrary(b)
    <3> DEFINE r == RemoveBlock(tree, tree.parent[b], b)
    <3>1. tree.parent[b] \in Libraries
      BY <1>4, <1>5, <2>1, TreeFields DEF LeavesItsLibrary
    <3>2. HasLeft(tree, r, b)
      BY <1>4, <1>5, <3>1, RemoveBlockKeeps
    <3>3. t = r
      BY <2>1
    <3> HIDE DEF r, t
    <3>4. QED
      BY <1>4, <3>2, <3>3 DEF HasLeft
  <2>2. CASE ~LeavesItsLibrary(b)
    BY <1>5, <2>2 DEF LeavesItsLibrary
  <2>3. QED
    BY <2>1, <2>2
<1> HIDE DEF t
<1>7. \A j \in DOMAIN stack : FrameFits(t, dying, stack[j])
  BY <1>6 DEF BlockTreeInv, StackFits, FrameFits
<1>8. StackFits'
  BY <1>1, <1>2, <1>7 DEF StackFits
<1>9. WithQtChildren(t, b) = {b}
  <2>1. b \in Libraries => \A x \in Blocks : t.parent[x] # b
    BY <1>4, <1>6, EmptyHasNone
  <2>2. \A x \in Blocks : t.parent[x] \in Libraries \cup {NoLibrary}
    BY <1>6, TreeFields DEF Sound
  <2>3. b # NoLibrary
    BY <1>4, BlocksAssumption
  <2>4. QED
    BY <1>4, <2>1, <2>2, <2>3 DEF WithQtChildren
<1>10. DeletedLeftNothing(t, dying, deleted \cup {b})
  BY <1>4, <1>6 DEF BlockTreeInv, DeletedLeftNothing
<1>11. deleted' \subseteq deleted \cup {b}
  BY <1>1, <1>9
<1>12. DeletedLeftNothing(t, dying, deleted') /\ deleted' \subseteq Blocks
  BY <1>4, <1>10, <1>11 DEF BlockTreeInv, DeletedLeftNothing
<1>13. QED
  BY <1>1, <1>2, <1>6, <1>8, <1>12 DEF BlockTreeInv

LEMMA ClearedKeeps ==
    ASSUME BlockTreeInv, Cleared
    PROVE  BlockTreeInv'
<1>1. /\ stack \in Seq(Frame) /\ stack # <<>> /\ Top.at = "clearing" /\ tree.kids[Top.block] = <<>>
      /\ UNCHANGED <<tree, dying, deleted>>
  BY DEF BlockTreeInv, Cleared, At
<1>2. /\ Top \in Frame /\ Tail(stack) \in Seq(Frame)
      /\ \A k \in DOMAIN Tail(stack) : \E j \in DOMAIN stack : Tail(stack)[k] = stack[j]
  BY <1>1, Returned DEF Top
<1>3. CASE Top.call = "clear"
  <2>1. stack' = Tail(stack)
    BY <1>3 DEF Cleared
  <2>2. StackFits'
    BY <1>1, <1>2, <2>1 DEF BlockTreeInv, StackFits
  <2>3. QED
    BY <1>1, <1>2, <2>1, <2>2 DEF BlockTreeInv
<1>4. CASE Top.call # "clear"
  <2>1. Goto("notify") /\ Top.call = "destroy"
    BY <1>2, <1>4 DEF Cleared, Frame
  <2>2. QED
    BY <1>1, <2>1, GotoKeeps
<1>5. QED
  BY <1>3, <1>4

LEMMA NotifyDeletedKeeps ==
    ASSUME BlockTreeInv, NotifyDeleted
    PROVE  BlockTreeInv'
<1>1. /\ stack \in Seq(Frame) /\ stack # <<>> /\ Top.at = "notify" /\ Goto("detach")
      /\ UNCHANGED <<tree, dying, deleted>>
  BY DEF BlockTreeInv, NotifyDeleted, At
<1>2. Top \in Frame /\ \E k \in DOMAIN stack : Top = stack[k]
  BY <1>1, Returned DEF Top
<1>3. FrameFits(tree, dying, Top)
  BY <1>2 DEF BlockTreeInv, StackFits
<1>4. Top.call = "destroy" /\ (Top.block \in Libraries => tree.kids[Top.block] = <<>>)
  BY <1>1, <1>2, <1>3 DEF Frame, FrameFits
<1>5. QED
  BY <1>1, <1>4, GotoKeeps

LEMMA DestroyLastKeeps ==
    ASSUME BlockTreeInv, DestroyLast
    PROVE  BlockTreeInv'
<1>1. /\ stack \in Seq(Frame) /\ stack # <<>> /\ Top.at = "clearing" /\ tree.kids[Top.block] # <<>>
      /\ StartDestroy(Last(tree.kids[Top.block]))
  BY DEF BlockTreeInv, DestroyLast, At
<1>2. Top \in Frame
  BY <1>1, Returned DEF Top
<1>3. tree.kids[Top.block] \in Seq(Blocks)
  BY <1>1, <1>2, TreeFields DEF BlockTreeInv, Sound, Frame
<1>4. Last(tree.kids[Top.block]) \in Blocks
  BY <1>1, <1>3 DEF Last
<1>5. QED
  BY <1>1, <1>4, StartDestroyKeeps

-----------------------------------------------------------------------------
(* The theorems.  The program gives addBlock no block of another library:  *)
(* one that it did would end up without an index there.                    *)

LEMMA BlockTreeInvInit ==
    ASSUME Init
    PROVE  BlockTreeInv
<1>1. /\ tree.kids = [l \in Libraries |-> <<>>] /\ tree.parent = [b \in Blocks |-> NoLibrary]
      /\ tree.index = [b \in Blocks |-> -1] /\ tree.seen = [b \in Blocks |-> -1]
      /\ tree.placed = [b \in Blocks |-> FALSE] /\ tree.mirror = [l \in Libraries |-> <<>>]
      /\ tree.wild = FALSE /\ tree \in Tree
  BY DEF Init, Tree
<1>2. <<>> \in Seq(Blocks) /\ IsInjective(<<>>)
  BY DEF IsInjective
<1>3. ASSUME NEW x \in Blocks
      PROVE  IndexOf(<<>>, x) = -1
  <2>1. \A j \in DOMAIN <<>> : <<>>[j] # x
    OBVIOUS
  <2>2. QED
    BY <1>2, <2>1, IndexOfOnce
<1>4. NoLibrary \notin Libraries
  BY BlocksAssumption
<1>5. \A l \in Libraries : tree.kids[l] = <<>>
  BY <1>1
<1>6. \A x \in Blocks : tree.parent[x] = NoLibrary /\ tree.index[x] = -1 /\ tree.placed[x] = FALSE
  BY <1>1
<1>7. Sound(tree)
  BY <1>1, <1>2, <1>3, <1>4, <1>5, <1>6 DEF Sound
<1>8. QED
  BY <1>7 DEF Init, BlockTreeInv, StackFits, DeletedLeftNothing

LEMMA BlockTreeInvNext ==
    ASSUME "addBlock" \notin Reparent, BlockTreeInv, [Next]_vars
    PROVE  BlockTreeInv'
<1>1. CASE Program
  <2>1. ASSUME NEW lib \in Libraries, NEW b \in Blocks, Add(lib, b) \/ RemoveFrom(lib, b)
        PROVE  BlockTreeInv'
    BY <2>1, AddKeeps, RemoveFromKeeps
  <2>2. ASSUME NEW lib \in Libraries, NEW b \in Blocks, NEW i \in 0 .. Cardinality(Blocks),
               Insert(lib, b, i) \/ Move(lib, b, i)
        PROVE  BlockTreeInv'
    <3>1. i \in Nat
      OBVIOUS
    <3>2. QED
      BY <2>2, <3>1, InsertKeeps, MoveKeeps
  <2>3. ASSUME NEW lib \in Libraries, NEW b \in Blocks, NEW a \in Blocks, Swap(lib, a, b)
        PROVE  BlockTreeInv'
    BY <2>3, SwapKeeps
  <2>4. ASSUME NEW b \in Blocks, Destroy(b)
        PROVE  BlockTreeInv'
    BY <2>4, StartDestroyKeeps DEF Destroy
  <2>5. ASSUME NEW lib \in Libraries, Clear(lib)
        PROVE  BlockTreeInv'
    BY <2>5, ClearKeeps
  <2>6. QED
    BY <1>1, <2>1, <2>2, <2>3, <2>4, <2>5 DEF Program
<1>2. CASE Destruction
  BY <1>2, DestroyLastKeeps, ClearedKeeps, NotifyDeletedKeeps, DetachKeeps DEF Destruction
<1>3. CASE UNCHANGED vars
  BY <1>3 DEF vars, BlockTreeInv, StackFits
<1>4. QED
  BY <1>1, <1>2, <1>3 DEF Next

(* The invariant holds in every state: no call, and no step of a           *)
(* destruction, leaves a list, a pointer, an index or a signal behind.     *)
THEOREM BlockTreeInvHolds ==
    ASSUME "addBlock" \notin Reparent
    PROVE  Spec => []BlockTreeInv
<1>1. Init => BlockTreeInv
  BY BlockTreeInvInit
<1>2. BlockTreeInv /\ [Next]_vars => BlockTreeInv'
  BY BlockTreeInvNext
<1>3. QED
  BY <1>1, <1>2, PTL DEF Spec

LEMMA SoundIsConsistent ==
    ASSUME Sound(tree)
    PROVE  TreeIsConsistent
<1>1. /\ tree \in Tree /\ NoLibrary \notin Libraries
      /\ \A l \in Libraries : tree.kids[l] \in Seq(Blocks) /\ IsInjective(tree.kids[l])
      /\ \A x \in Blocks : tree.parent[x] \in Libraries \cup {NoLibrary}
      /\ \A x \in Blocks : tree.index[x] = -1 <=> tree.parent[x] = NoLibrary
      /\ \A l \in Libraries : \A x \in Blocks :
            IndexOf(tree.kids[l], x) = IF tree.parent[x] = l THEN tree.index[x] ELSE -1
  BY TreeFields, BlocksAssumption DEF Sound
<1>2. ASSUME NEW b \in Blocks, NEW lib \in Libraries, tree.parent[b] = lib
      PROVE  /\ tree.index[b] + 1 \in DOMAIN tree.kids[lib]
             /\ tree.kids[lib][tree.index[b] + 1] = b
  <2>1. /\ IndexOf(tree.kids[lib], b) \in Int /\ -1 <= IndexOf(tree.kids[lib], b)
        /\ IndexOf(tree.kids[lib], b) < Len(tree.kids[lib])
        /\ IndexOf(tree.kids[lib], b) # -1 =>
              tree.kids[lib][IndexOf(tree.kids[lib], b) + 1] = b
    BY <1>1, Positions
  <2>2. tree.index[b] = IndexOf(tree.kids[lib], b) /\ tree.index[b] # -1
    BY <1>1, <1>2
  <2>3. DOMAIN tree.kids[lib] = 1 .. Len(tree.kids[lib]) /\ Len(tree.kids[lib]) \in Nat
    BY <1>1
  <2>4. QED
    BY <2>1, <2>2, <2>3
<1>3. IndexIsPosition
  BY <1>1, <1>2 DEF IndexIsPosition
<1>4. ASSUME NEW lib \in Libraries, NEW i \in DOMAIN tree.kids[lib]
      PROVE  /\ tree.parent[tree.kids[lib][i]] = lib
             /\ tree.index[tree.kids[lib][i]] = i - 1
  <2>1. tree.kids[lib][i] \in Blocks /\ IndexOf(tree.kids[lib], tree.kids[lib][i]) = i - 1
    BY <1>1, Positions
  <2>2. i \in 1 .. Len(tree.kids[lib])
    BY <1>1
  <2>3. i - 1 # -1
    BY <2>2
  <2>4. QED
    BY <1>1, <2>1, <2>3
<1>5. ListsAgree
  BY <1>4 DEF ListsAgree
<1>6. QED
  BY <1>3, <1>5 DEF TreeIsConsistent

(* The state keeps its types, and no call looks for a block in a list that *)
(* does not have it: every access to a list is inside of its bounds.       *)
THEOREM TypeOKHolds ==
    ASSUME "addBlock" \notin Reparent
    PROVE  Spec => [](TypeOK /\ ~tree.wild)
<1>1. BlockTreeInv => TypeOK /\ ~tree.wild
  BY DEF BlockTreeInv, Sound, TypeOK
<1>2. QED
  BY <1>1, BlockTreeInvHolds, PTL

(* The lists of the libraries and the pointers and indices of the blocks   *)
(* agree after every call, and between the steps of a destruction.         *)
THEOREM TreeIsConsistentHolds ==
    ASSUME "addBlock" \notin Reparent
    PROVE  Spec => []TreeIsConsistent
<1>1. BlockTreeInv => TreeIsConsistent
  BY SoundIsConsistent DEF BlockTreeInv
<1>2. QED
  BY <1>1, BlockTreeInvHolds, PTL

(* What follows indexChanged knows the indices after every call.           *)
THEOREM SignalsAreAccurate ==
    ASSUME "addBlock" \notin Reparent
    PROVE  Spec => []WatchersAreAccurate
<1>1. BlockTreeInv => WatchersAreAccurate
  BY DEF BlockTreeInv, Sound, WatchersAreAccurate
<1>2. QED
  BY <1>1, BlockTreeInvHolds, PTL

(* What applies blockAdded, blockRemoved, blocksSwapped and blockMoved to  *)
(* a copy of a library has in it what the library has, after every call.   *)
THEOREM MirrorIsAccurateHolds ==
    ASSUME "addBlock" \notin Reparent
    PROVE  Spec => []MirrorIsAccurate
<1>1. BlockTreeInv => MirrorIsAccurate
  BY DEF BlockTreeInv, Sound, MirrorIsAccurate
<1>2. QED
  BY <1>1, BlockTreeInvHolds, PTL

(* blockInserted came last from the blocks that have a library, and from   *)
(* no other.                                                               *)
THEOREM InsertionIsAnnouncedHolds ==
    ASSUME "addBlock" \notin Reparent
    PROVE  Spec => []InsertionIsAnnounced
<1>1. BlockTreeInv => InsertionIsAnnounced
  BY DEF BlockTreeInv, Sound, InsertionIsAnnounced
<1>2. QED
  BY <1>1, BlockTreeInvHolds, PTL

(* A deleted block had left its library and had no blocks any more, so no  *)
(* list, no pointer and no deletion by Qt reaches it again.                *)
THEOREM DeletedIsForgottenHolds ==
    ASSUME "addBlock" \notin Reparent
    PROVE  Spec => []DeletedIsForgotten
<1>1. ASSUME BlockTreeInv
      PROVE  DeletedIsForgotten
  <2>1. ASSUME NEW b \in deleted
        PROVE  \A x \in Blocks : tree.parent[x] # b
    <3>1. Sound(tree) /\ b \in Blocks /\ b # NoLibrary /\ (b \in Libraries => tree.kids[b] = <<>>)
      BY <1>1, BlocksAssumption DEF BlockTreeInv, DeletedLeftNothing
    <3>2. \A x \in Blocks : tree.parent[x] \in Libraries \cup {NoLibrary}
      BY <3>1, TreeFields DEF Sound
    <3>3. QED
      BY <3>1, <3>2, EmptyHasNone
  <2>2. QED
    BY <1>1, <2>1 DEF BlockTreeInv, DeletedLeftNothing, DeletedIsForgotten
<1>2. QED
  BY <1>1, BlockTreeInvHolds, PTL

-----------------------------------------------------------------------------
(* The way up from a block.                                                *)

Parents == [Blocks -> Libraries \cup {NoLibrary}]

IsWayUp(f, p, x) ==
    /\ f \in [Nat -> Blocks \cup {NoLibrary}] /\ f[0] = x
    /\ \A n \in Nat : f[n + 1] = IF f[n] = NoLibrary THEN NoLibrary ELSE p[f[n]]

WayUp(p, x) == CHOOSE f : IsWayUp(f, p, x)

LEMMA WayUpExists ==
    ASSUME NEW p \in Parents, NEW x \in Blocks \cup {NoLibrary}
    PROVE  IsWayUp(WayUp(p, x), p, x)
<1> DEFINE S == Blocks \cup {NoLibrary}
           next == [k \in Nat |-> [y \in S |-> IF y = NoLibrary THEN NoLibrary ELSE p[y]]]
<1>1. next \in [Nat -> [S -> S]]
  <2>1. \A y \in S : (IF y = NoLibrary THEN NoLibrary ELSE p[y]) \in S
    BY BlocksAssumption DEF Parents
  <2>2. QED
    BY <2>1
<1>2. PICK f : IsEndless(f, S, x, next)
  <2> HIDE DEF next
  <2>1. QED
    BY <1>1, EndlessExists
<1>3. IsWayUp(f, p, x)
  BY <1>2 DEF IsEndless, IsWayUp
<1>4. QED
  BY <1>3 DEF WayUp

(* There is one way up.                                                    *)
LEMMA WayUpIsOne ==
    ASSUME NEW p, NEW x, NEW f, f[0] = x,
           \A n \in Nat : f[n + 1] = IF f[n] = NoLibrary THEN NoLibrary ELSE p[f[n]],
           NEW g, IsWayUp(g, p, x)
    PROVE  \A n \in Nat : f[n] = g[n]
<1> DEFINE T == {n \in Nat : f[n] # g[n]}
<1>1. SUFFICES ASSUME T # {}
               PROVE  FALSE
  OBVIOUS
<1>2. PICK n \in T : \A k \in T : n <= k
  BY <1>1, LeastNumber
<1>3. n \in Nat /\ f[n] # g[n] /\ n # 0
  BY <1>2 DEF IsWayUp
<1>4. n - 1 \in Nat /\ (n - 1) + 1 = n /\ f[n - 1] = g[n - 1]
  BY <1>2, <1>3
<1>5. /\ f[n] = IF f[n - 1] = NoLibrary THEN NoLibrary ELSE p[f[n - 1]]
      /\ g[n] = IF g[n - 1] = NoLibrary THEN NoLibrary ELSE p[g[n - 1]]
  BY <1>4 DEF IsWayUp
<1>6. QED
  BY <1>3, <1>4, <1>5

(* The way up of a block goes on as that of its library.                   *)
LEMMA WayUpShifts ==
    ASSUME NEW p \in Parents, NEW x \in Blocks, NEW n \in Nat
    PROVE  WayUp(p, x)[n + 1] = WayUp(p, p[x])[n]
<1>1. PICK f : f = WayUp(p, x)
  OBVIOUS
<1>2. PICK y : y = p[x]
  OBVIOUS
<1>3. x \in Blocks \cup {NoLibrary} /\ y \in Blocks \cup {NoLibrary} /\ x # NoLibrary
  BY <1>2, BlocksAssumption DEF Parents
<1>4. IsWayUp(f, p, x) /\ IsWayUp(WayUp(p, y), p, y)
  BY <1>1, <1>3, WayUpExists
<1>5. PICK g : g = [k \in Nat |-> f[k + 1]]
  OBVIOUS
<1>6. IsWayUp(g, p, y)
  <2>1. \A k \in Nat : k + 1 \in Nat /\ g[k] = f[k + 1]
    BY <1>5
  <2>2. g \in [Nat -> Blocks \cup {NoLibrary}]
    BY <1>4, <1>5 DEF IsWayUp
  <2>3. g[0] = y
    <3>1. 0 \in Nat /\ g[0] = f[0 + 1]
      BY <2>1
    <3>2. QED
      BY <1>2, <1>3, <1>4, <3>1 DEF IsWayUp
  <2>4. \A k \in Nat : g[k + 1] = IF g[k] = NoLibrary THEN NoLibrary ELSE p[g[k]]
    BY <1>4, <2>1 DEF IsWayUp
  <2>5. QED
    BY <2>2, <2>3, <2>4 DEF IsWayUp
<1>7. g[n] = WayUp(p, y)[n]
  BY <1>4, <1>6, WayUpIsOne DEF IsWayUp
<1>8. QED
  BY <1>1, <1>2, <1>5, <1>7

-----------------------------------------------------------------------------
(* No block is above itself: blocks have ranks that grow on the way down.  *)

Ranked(p, rank) ==
    /\ rank \in [Blocks -> Nat]
    /\ \A x \in Blocks : p[x] # NoLibrary => rank[p[x]] < rank[x]

NoCycle(p) == \E rank : Ranked(p, rank)

LEMMA RanksFall ==
    ASSUME NEW p \in Parents, NEW rank, Ranked(p, rank), NEW x \in Blocks, NEW f, IsWayUp(f, p, x),
           NEW m \in Nat, NEW n \in Nat, m <= n, f[n] # NoLibrary
    PROVE  /\ f[m] \in Blocks /\ (m # 0 => f[m] \in Libraries)
           /\ m < n => rank[f[n]] < rank[f[m]]
<1> DEFINE T == {i \in Nat : /\ m <= i /\ f[i] # NoLibrary
                             /\ ~ /\ f[m] \in Blocks /\ f[i] \in Blocks
                                  /\ m < i => rank[f[i]] < rank[f[m]]}
<1>1. \A i \in Nat : f[i] \in Blocks \cup {NoLibrary}
  BY DEF IsWayUp
<1>2. ASSUME T # {}
      PROVE  FALSE
  <2>1. PICK i \in T : \A k \in T : i <= k
    BY <1>2, LeastNumber
  <2>2. /\ i \in Nat /\ m <= i /\ f[i] # NoLibrary /\ f[i] \in Blocks
        /\ ~ (f[m] \in Blocks /\ (m < i => rank[f[i]] < rank[f[m]]))
    BY <1>1, <2>1
  <2>3. m < i
    BY <1>1, <2>2
  <2>4. i - 1 \in Nat /\ m <= i - 1 /\ (i - 1) + 1 = i /\ i - 1 \notin T
    BY <2>1, <2>2, <2>3
  <2>5. f[i] = IF f[i - 1] = NoLibrary THEN NoLibrary ELSE p[f[i - 1]]
    BY <2>4 DEF IsWayUp
  <2>6. f[i - 1] # NoLibrary /\ f[i] = p[f[i - 1]] /\ f[i - 1] \in Blocks
    BY <1>1, <2>2, <2>4, <2>5
  <2>7. rank[f[i]] < rank[f[i - 1]] /\ rank[f[i]] \in Nat /\ rank[f[i - 1]] \in Nat
    BY <2>2, <2>6 DEF Ranked
  <2>8. f[m] \in Blocks /\ (m < i - 1 => rank[f[i - 1]] < rank[f[m]])
    BY <2>4, <2>6
  <2>9. rank[f[m]] \in Nat
    BY <2>8 DEF Ranked
  <2>10. CASE m = i - 1
    BY <2>2, <2>7, <2>8, <2>10
  <2>11. CASE m < i - 1
    BY <2>2, <2>7, <2>8, <2>9, <2>11
  <2>12. QED
    BY <2>4, <2>10, <2>11
<1>3. f[m] \in Blocks /\ (m < n => rank[f[n]] < rank[f[m]])
  BY <1>2
<1>4. ASSUME m # 0
      PROVE  f[m] \in Libraries
  <2>1. m - 1 \in Nat /\ (m - 1) + 1 = m
    BY <1>4
  <2>2. f[m] = IF f[m - 1] = NoLibrary THEN NoLibrary ELSE p[f[m - 1]]
    BY <2>1 DEF IsWayUp
  <2>3. f[m] # NoLibrary
    BY <1>3, BlocksAssumption
  <2>4. f[m] = p[f[m - 1]] /\ f[m - 1] \in Blocks
    BY <1>1, <2>1, <2>2, <2>3
  <2>5. QED
    BY <2>3, <2>4 DEF Parents
<1>5. QED
  BY <1>3, <1>4

LEMMA LibrariesAreFinite == IsFiniteSet(Libraries) /\ Cardinality(Libraries) \in Nat
BY BlocksAssumption, FS_Subset, FS_CardinalityType

(* The way up passes each library once at most, so it is not longer than   *)
(* there are libraries.                                                    *)
LEMMA WayUpIsShort ==
    ASSUME NEW p \in Parents, NoCycle(p), NEW x \in Blocks,
           NEW f, IsWayUp(f, p, x), NEW n \in Nat, f[n] # NoLibrary
    PROVE  n <= Cardinality(Libraries)
<1>1. PICK rank : Ranked(p, rank)
  BY DEF NoCycle
<1>2. PICK g : g = [i \in 1 .. n |-> f[i]]
  OBVIOUS
<1>3. ASSUME NEW i \in 1 .. n
      PROVE  f[i] # NoLibrary /\ f[i] \in Libraries /\ f[i] \in Blocks
  <2>1. i \in Nat /\ i <= n /\ i # 0
    OBVIOUS
  <2>2. QED
    BY <1>1, <2>1, RanksFall, BlocksAssumption
<1>4. ASSUME NEW i \in 1 .. n, NEW j \in 1 .. n, i < j
      PROVE  f[i] # f[j]
  <2>1. rank[f[j]] < rank[f[i]]
    BY <1>1, <1>3, <1>4, RanksFall
  <2>2. rank[f[j]] \in Nat
    BY <1>1, <1>3 DEF Ranked
  <2>3. QED
    BY <2>1, <2>2
<1>5. \A i, j \in 1 .. n : f[i] = f[j] => i = j
  <2> TAKE i, j \in 1 .. n
  <2>1. i = j \/ i < j \/ j < i
    OBVIOUS
  <2>2. QED
    BY <1>4, <2>1
<1>6. g \in Injection(1 .. n, Libraries)
  BY <1>2, <1>3, <1>5 DEF Injection, IsInjective
<1>7. Cardinality(1 .. n) <= Cardinality(Libraries)
  BY <1>6, LibrariesAreFinite, FS_Injection
<1>8. Cardinality(1 .. n) = n
  <2>1. 1 \in Int /\ n \in Int /\ (IF 1 > n THEN 0 ELSE n - 1 + 1) = n
    OBVIOUS
  <2>2. QED
    BY <2>1, FS_Interval
<1>9. QED
  BY <1>7, <1>8

(* A block enters a library that it is not above: what is in the block     *)
(* gets ranks behind the library's.                                        *)
LEMMA EnteringMakesNoCycle ==
    ASSUME NEW p \in Parents, NoCycle(p), NEW lib \in Libraries, NEW b \in Blocks,
           \A n \in Nat : WayUp(p, lib)[n] # b,
           NEW q \in Parents, \A x \in Blocks : q[x] = IF x = b THEN lib ELSE p[x]
    PROVE  NoCycle(q)
<1>1. PICK rank : Ranked(p, rank)
  BY DEF NoCycle
<1>2. PICK inside : inside = {x \in Blocks : \E n \in Nat : WayUp(p, x)[n] = b}
  OBVIOUS
<1>3. PICK new : new = [x \in Blocks |-> IF x \in inside THEN rank[x] + rank[lib] + 1 ELSE rank[x]]
  OBVIOUS
<1>4. lib \in Blocks /\ lib \notin inside /\ lib # NoLibrary /\ b # NoLibrary
  BY <1>2, BlocksAssumption
<1>5. \A x \in Blocks : rank[x] \in Nat
  BY <1>1 DEF Ranked
<1>6. new \in [Blocks -> Nat]
  BY <1>3, <1>4, <1>5
<1>7. \A x \in Blocks : IsWayUp(WayUp(p, x), p, x)
  BY WayUpExists
<1>8. b \in inside
  BY <1>2, <1>7 DEF IsWayUp
<1>9. ASSUME NEW x \in Blocks, x # b, p[x] # NoLibrary
      PROVE  p[x] \in Blocks /\ (p[x] \in inside <=> x \in inside)
  <2>1. p[x] \in Blocks
    BY <1>9, BlocksAssumption DEF Parents
  <2>2. \A n \in Nat : WayUp(p, x)[n + 1] = WayUp(p, p[x])[n]
    BY WayUpShifts
  <2>3. ASSUME p[x] \in inside
        PROVE  x \in inside
    <3>1. PICK n \in Nat : WayUp(p, p[x])[n] = b
      BY <1>2, <2>3
    <3>2. n + 1 \in Nat /\ WayUp(p, x)[n + 1] = b
      BY <2>2, <3>1
    <3>3. QED
      BY <1>2, <3>2
  <2>4. ASSUME x \in inside
        PROVE  p[x] \in inside
    <3>1. PICK n \in Nat : WayUp(p, x)[n] = b
      BY <1>2, <2>4
    <3>2. WayUp(p, x)[0] = x
      BY <1>7 DEF IsWayUp
    <3>3. n - 1 \in Nat /\ (n - 1) + 1 = n
      BY <1>9, <3>1, <3>2
    <3>4. WayUp(p, p[x])[n - 1] = b
      BY <2>2, <3>1, <3>3
    <3>5. QED
      BY <1>2, <2>1, <3>3, <3>4
  <2>5. QED
    BY <2>1, <2>3, <2>4
<1>10. ASSUME NEW x \in Blocks, q[x] # NoLibrary
       PROVE  new[q[x]] < new[x]
  <2>1. CASE x = b
    <3>1. q[x] = lib /\ new[lib] = rank[lib] /\ new[x] = rank[x] + rank[lib] + 1
      BY <1>3, <1>4, <1>8, <2>1
    <3>2. QED
      BY <1>4, <1>5, <3>1
  <2>2. CASE x # b
    <3>1. q[x] = p[x] /\ p[x] \in Blocks /\ (p[x] \in inside <=> x \in inside)
      BY <1>9, <1>10, <2>2
    <3>2. rank[p[x]] < rank[x]
      BY <1>1, <1>10, <3>1 DEF Ranked
    <3>3. CASE x \in inside
      <4>1. new[q[x]] = rank[p[x]] + rank[lib] + 1 /\ new[x] = rank[x] + rank[lib] + 1
        BY <1>3, <3>1, <3>3
      <4>2. QED
        BY <1>4, <1>5, <3>1, <3>2, <4>1
    <3>4. CASE x \notin inside
      BY <1>3, <3>1, <3>2, <3>4
    <3>5. QED
      BY <3>3, <3>4
  <2>3. QED
    BY <2>1, <2>2
<1>11. QED
  BY <1>6, <1>10 DEF NoCycle, Ranked

LEMMA LeavingMakesNoCycle ==
    ASSUME NEW p, NoCycle(p), NEW q, \A x \in Blocks : q[x] \in {p[x], NoLibrary}
    PROVE  NoCycle(q)
<1>1. PICK rank : Ranked(p, rank)
  BY DEF NoCycle
<1>2. Ranked(q, rank)
  BY <1>1 DEF Ranked
<1>3. QED
  BY <1>2 DEF NoCycle

(* Above has all of the way up.                                            *)
LEMMA AboveHasWayUp ==
    ASSUME tree.parent \in Parents, NoCycle(tree.parent), NEW x \in Blocks,
           NEW n \in Nat, WayUp(tree.parent, x)[n] # NoLibrary
    PROVE  WayUp(tree.parent, x)[n] \in Above(x)
<1> DEFINE Is(up) == up = [k \in Nat |->
                              IF k = 0 THEN {x}
                              ELSE up[k - 1] \cup {tree.parent[y] : y \in up[k - 1] \ {NoLibrary}}]
           S == SUBSET (Blocks \cup {NoLibrary})
           next == [k \in Nat |-> [U \in S |-> U \cup {tree.parent[y] : y \in U \ {NoLibrary}}]]
<1>1. PICK p : p = tree.parent /\ p \in Parents
  OBVIOUS
<1>2. Above(x) = (CHOOSE up : Is(up))[Cardinality(Libraries)]
  BY DEF Above
<1>3. \E up : Is(up)
  <2>1. next \in [Nat -> [S -> S]]
    <3>1. ASSUME NEW U \in S
          PROVE  U \cup {tree.parent[y] : y \in U \ {NoLibrary}} \in S
      BY BlocksAssumption DEF Parents
    <3>2. QED
      BY <3>1
  <2>2. {x} \in S
    OBVIOUS
  <2>3. PICK up : IsEndless(up, S, {x}, next)
    <3> HIDE DEF S, next
    <3>1. QED
      BY <2>1, <2>2, EndlessExists
  <2>4. ASSUME NEW k \in Nat, k # 0
        PROVE  up[k] = up[k - 1] \cup {tree.parent[y] : y \in up[k - 1] \ {NoLibrary}}
    <3>1. k - 1 \in Nat /\ (k - 1) + 1 = k
      BY <2>4
    <3>2. up[k - 1] \in S /\ up[k] = next[k - 1][up[k - 1]]
      BY <2>3, <3>1 DEF IsEndless
    <3>3. QED
      BY <3>1, <3>2
  <2>5. up = [k \in Nat |-> up[k]] /\ up[0] = {x}
    BY <2>3 DEF IsEndless
  <2>6. Is(up)
    BY <2>4, <2>5
  <2>7. QED
    BY <2>6
<1>4. PICK up : up = CHOOSE u : Is(u)
  OBVIOUS
<1>5. Is(up)
  BY <1>3, <1>4
<1>6. up[0] = {x}
  BY <1>5
<1>7. ASSUME NEW k \in Nat
      PROVE  up[k + 1] = up[k] \cup {p[y] : y \in up[k] \ {NoLibrary}}
  <2>1. k + 1 \in Nat /\ (k + 1) - 1 = k /\ k + 1 # 0
    OBVIOUS
  <2>2. up[k + 1] = up[(k + 1) - 1] \cup {tree.parent[y] : y \in up[(k + 1) - 1] \ {NoLibrary}}
    BY <1>5, <2>1
  <2>3. QED
    BY <1>1, <2>1, <2>2
<1> HIDE DEF Is
<1>8. PICK f : f = WayUp(p, x)
  OBVIOUS
<1>9. IsWayUp(f, p, x)
  BY <1>1, <1>8, WayUpExists
<1>10. ASSUME NEW m \in Nat, m >= n
       PROVE  f[n] \in up[m]
  <2> DEFINE T == {i \in Nat : f[i] # NoLibrary /\ f[i] \notin up[i]}
             V == {j \in Nat : j >= n /\ f[n] \notin up[j]}
  <2>1. T # {} => FALSE
    <3> SUFFICES ASSUME T # {}
                 PROVE  FALSE
      OBVIOUS
    <3>1. PICK i \in T : \A k \in T : i <= k
      BY LeastNumber
    <3>2. i \in Nat /\ f[i] # NoLibrary /\ f[i] \notin up[i] /\ i # 0
      BY <1>6, <1>9, <3>1 DEF IsWayUp
    <3>3. i - 1 \in Nat /\ (i - 1) + 1 = i /\ i - 1 \notin T
      BY <3>1, <3>2
    <3>4. f[i] = IF f[i - 1] = NoLibrary THEN NoLibrary ELSE p[f[i - 1]]
      BY <1>9, <3>3 DEF IsWayUp
    <3>5. f[i - 1] # NoLibrary /\ f[i] = p[f[i - 1]] /\ f[i - 1] \in up[i - 1]
      BY <3>2, <3>3, <3>4
    <3>6. up[i] = up[i - 1] \cup {p[y] : y \in up[i - 1] \ {NoLibrary}}
      BY <1>7, <3>3
    <3>7. QED
      BY <3>2, <3>5, <3>6
  <2>2. f[n] \in up[n]
    BY <1>1, <1>8, <2>1
  <2>3. V # {} => FALSE
    <3> SUFFICES ASSUME V # {}
                 PROVE  FALSE
      OBVIOUS
    <3>1. PICK i \in V : \A k \in V : i <= k
      BY LeastNumber
    <3>2. i \in Nat /\ i >= n /\ f[n] \notin up[i] /\ i # n
      BY <2>2, <3>1
    <3>3. i - 1 \in Nat /\ (i - 1) + 1 = i /\ i - 1 >= n /\ i - 1 \notin V
      BY <3>1, <3>2
    <3>4. up[i] = up[i - 1] \cup {p[y] : y \in up[i - 1] \ {NoLibrary}}
      BY <1>7, <3>3
    <3>5. QED
      BY <3>2, <3>3, <3>4
  <2>4. QED
    BY <1>10, <2>3
<1>11. Cardinality(Libraries) \in Nat /\ n <= Cardinality(Libraries)
  BY <1>1, <1>8, <1>9, WayUpIsShort, LibrariesAreFinite
<1>12. QED
  BY <1>1, <1>2, <1>4, <1>8, <1>10, <1>11

-----------------------------------------------------------------------------
(* What a step does to the pointers to libraries.                          *)
ParentsStep ==
    \/ \A x \in Blocks : tree'.parent[x] \in {tree.parent[x], NoLibrary}
    \/ \E lib \in Libraries, b \in Blocks :
           /\ b \notin Above(lib)
           /\ \A x \in Blocks : tree'.parent[x] = IF x = b THEN lib ELSE tree.parent[x]

LEMMA EveryParentsStep ==
    ASSUME "addBlock" \notin Reparent, BlockTreeInv, [Next]_vars
    PROVE  ParentsStep
<1>1. Sound(tree)
  BY DEF BlockTreeInv
<1>2. ASSUME NEW lib \in Libraries, NEW b \in Blocks, Add(lib, b)
      PROVE  ParentsStep
  <2>1. tree.parent[b] = NoLibrary /\ b \notin Above(lib) /\ tree' = AddBlock(tree, lib, b)
    BY <1>2 DEF Add, MayEnter, Update
  <2>2. Entered(tree, AddBlock(tree, lib, b), lib, b)
    BY <1>1, <2>1, AddBlockKeeps
  <2>3. QED
    BY <2>1, <2>2 DEF Entered, ParentsStep
<1>3. ASSUME NEW lib \in Libraries, NEW b \in Blocks, NEW i \in Nat, Insert(lib, b, i)
      PROVE  ParentsStep
  <2>1. tree.parent[b] # lib /\ i <= Len(tree.kids[lib])
    BY <1>1, <1>3, HoldsItsBlocks DEF Insert, MayEnter
  <2>2. b \notin Above(lib) /\ tree' = InsertBlock(tree, lib, b, i)
    BY <1>3 DEF Insert, MayEnter, Update
  <2>3. Entered(tree, InsertBlock(tree, lib, b, i), lib, b)
    BY <1>1, <2>1, InsertBlockKeeps
  <2>4. QED
    BY <2>2, <2>3 DEF Entered, ParentsStep
<1>4. ASSUME NEW lib \in Libraries, NEW b \in Blocks, RemoveFrom(lib, b)
      PROVE  ParentsStep
  <2>1. tree.parent[b] = lib /\ tree' = RemoveBlock(tree, lib, b)
    BY <1>1, <1>4, HoldsItsBlocks DEF RemoveFrom, Update
  <2>2. HasLeft(tree, RemoveBlock(tree, lib, b), b)
    BY <1>1, <2>1, RemoveBlockKeeps
  <2>3. QED
    BY <2>1, <2>2 DEF HasLeft, ParentsStep
<1>5. ASSUME NEW lib \in Libraries, NEW a \in Blocks, NEW b \in Blocks, Swap(lib, a, b)
      PROVE  ParentsStep
  <2>1. a # b /\ tree.parent[a] = lib /\ tree.parent[b] = lib /\ tree' = SwapBlocks(tree, lib, a, b)
    BY <1>1, <1>5, HoldsItsBlocks DEF Swap, Update
  <2>2. Rearranged(tree, SwapBlocks(tree, lib, a, b))
    BY <1>1, <2>1, SwapBlocksKeeps
  <2>3. QED
    BY <2>1, <2>2 DEF Rearranged, ParentsStep
<1>6. ASSUME NEW lib \in Libraries, NEW b \in Blocks, NEW i \in Nat, Move(lib, b, i)
      PROVE  ParentsStep
  <2>1. tree.parent[b] = lib /\ i < Len(tree.kids[lib]) /\ tree' = MoveBlock(tree, lib, b, i)
    BY <1>1, <1>6, HoldsItsBlocks DEF Move, Update
  <2>2. Rearranged(tree, MoveBlock(tree, lib, b, i))
    BY <1>1, <2>1, MoveBlockKeeps
  <2>3. QED
    BY <2>1, <2>2 DEF Rearranged, ParentsStep
<1>7. ASSUME Detach
      PROVE  ParentsStep
  <2> DEFINE b == Top.block
  <2>1. stack \in Seq(Frame) /\ stack # <<>>
    BY <1>7 DEF BlockTreeInv, Detach, At
  <2>2. b \in Blocks
    BY <2>1, Returned DEF Top, Frame
  <2>3. tree' = IF LeavesItsLibrary(b) THEN RemoveBlock(tree, tree.parent[b], b) ELSE tree
    BY <1>7 DEF Detach
  <2> HIDE DEF b
  <2>4. CASE LeavesItsLibrary(b)
    <3>1. tree.parent[b] \in Libraries
      BY <1>1, <2>2, <2>4, TreeFields DEF LeavesItsLibrary, Sound
    <3>2. HasLeft(tree, RemoveBlock(tree, tree.parent[b], b), b)
      BY <1>1, <2>2, <3>1, RemoveBlockKeeps
    <3>3. QED
      BY <2>3, <2>4, <3>2 DEF HasLeft, ParentsStep
  <2>5. CASE ~LeavesItsLibrary(b)
    BY <2>3, <2>5 DEF ParentsStep
  <2>6. QED
    BY <2>4, <2>5
<1>8. CASE tree' = tree
  BY <1>8 DEF ParentsStep
<1>9. CASE Program
  <2>1. \A i \in 0 .. Cardinality(Blocks) : i \in Nat
    OBVIOUS
  <2>2. (\E b \in Blocks : Destroy(b)) \/ (\E lib \in Libraries : Clear(lib)) => tree' = tree
    BY DEF Destroy, StartDestroy, Clear
  <2>3. QED
    BY <1>2, <1>3, <1>4, <1>5, <1>6, <1>8, <1>9, <2>1, <2>2 DEF Program
<1>10. CASE Destruction
  <2>1. DestroyLast \/ Cleared \/ NotifyDeleted => tree' = tree
    BY DEF DestroyLast, StartDestroy, Cleared, NotifyDeleted
  <2>2. QED
    BY <1>7, <1>8, <1>10, <2>1 DEF Destruction
<1>11. CASE UNCHANGED vars
  BY <1>8, <1>11 DEF vars
<1>12. QED
  BY <1>9, <1>10, <1>11 DEF Next

(* No library is ever inside of itself, however blocks are added, inserted *)
(* into others, moved and destroyed: the way up from every block ends.     *)
THEOREM NoCycleHolds ==
    ASSUME "addBlock" \notin Reparent
    PROVE  Spec => []NoCycle(tree.parent)
<1>1. Init => NoCycle(tree.parent)
  <2> SUFFICES ASSUME Init
               PROVE  NoCycle(tree.parent)
    OBVIOUS
  <2>1. \A x \in Blocks : tree.parent[x] = NoLibrary
    BY DEF Init
  <2>2. Ranked(tree.parent, [x \in Blocks |-> 0])
    BY <2>1 DEF Ranked
  <2>3. QED
    BY <2>2 DEF NoCycle
<1>2. BlockTreeInv /\ BlockTreeInv' /\ NoCycle(tree.parent) /\ [Next]_vars => NoCycle(tree.parent)'
  <2> SUFFICES ASSUME BlockTreeInv, BlockTreeInv', NoCycle(tree.parent), [Next]_vars
               PROVE  NoCycle(tree'.parent)
    BY DEF NoCycle, Ranked
  <2>1. tree.parent \in Parents /\ tree'.parent \in Parents
    BY TreeFields DEF BlockTreeInv, Sound, Parents
  <2>2. ParentsStep
    BY EveryParentsStep
  <2>3. CASE \A x \in Blocks : tree'.parent[x] \in {tree.parent[x], NoLibrary}
    BY <2>3, LeavingMakesNoCycle
  <2>4. ASSUME NEW lib \in Libraries, NEW b \in Blocks, b \notin Above(lib),
               \A x \in Blocks : tree'.parent[x] = IF x = b THEN lib ELSE tree.parent[x]
        PROVE  NoCycle(tree'.parent)
    <3>1. lib \in Blocks /\ b # NoLibrary
      BY BlocksAssumption
    <3>2. \A n \in Nat : WayUp(tree.parent, lib)[n] # b
      BY <2>1, <2>4, <3>1, AboveHasWayUp
    <3>3. QED
      BY <2>1, <2>4, <3>2, EnteringMakesNoCycle
  <2>5. QED
    BY <2>2, <2>3, <2>4 DEF ParentsStep
<1>3. QED
  BY <1>1, <1>2, BlockTreeInvHolds, PTL DEF Spec

-----------------------------------------------------------------------------
(* The levels at which a library is above a block.                         *)
LEMMA LevelsUpIs ==
    ASSUME tree.parent \in Parents, NoCycle(tree.parent), NEW x \in Blocks, NEW lib \in Libraries
    PROVE  LevelsUp(x, lib) = {n \in Nat : WayUp(tree.parent, x)[n] = lib}
<1> DEFINE Is(up) == up = [n \in Nat |->
                              IF n = 0 THEN x
                              ELSE IF up[n - 1] = NoLibrary THEN NoLibrary ELSE tree.parent[up[n - 1]]]
<1>1. PICK p : p = tree.parent /\ p \in Parents /\ NoCycle(p)
  OBVIOUS
<1>2. PICK f : f = WayUp(p, x)
  OBVIOUS
<1>3. IsWayUp(f, p, x)
  BY <1>1, <1>2, WayUpExists
<1>4. PICK up : up = CHOOSE u : Is(u)
  OBVIOUS
<1>5. LevelsUp(x, lib) = {n \in 0 .. Cardinality(Libraries) : up[n] = lib}
  BY <1>4 DEF LevelsUp
<1>6. Is(f)
  <2>1. ASSUME NEW n \in Nat, n # 0
        PROVE  f[n] = IF f[n - 1] = NoLibrary THEN NoLibrary ELSE tree.parent[f[n - 1]]
    <3>1. n - 1 \in Nat /\ (n - 1) + 1 = n
      BY <2>1
    <3>2. QED
      BY <1>1, <1>3, <3>1 DEF IsWayUp
  <2>2. f[0] = x /\ f = [n \in Nat |-> f[n]]
    BY <1>3 DEF IsWayUp
  <2>3. QED
    BY <2>1, <2>2
<1>7. Is(up)
  BY <1>4, <1>6
<1>8. up[0] = x
  BY <1>7
<1>9. ASSUME NEW n \in Nat
      PROVE  up[n + 1] = IF up[n] = NoLibrary THEN NoLibrary ELSE p[up[n]]
  <2>1. n + 1 \in Nat /\ n + 1 # 0 /\ (n + 1) - 1 = n
    OBVIOUS
  <2>2. up[n + 1] = IF up[(n + 1) - 1] = NoLibrary THEN NoLibrary ELSE tree.parent[up[(n + 1) - 1]]
    BY <1>7, <2>1
  <2>3. QED
    BY <1>1, <2>1, <2>2
<1>10. \A n \in Nat : up[n] = f[n]
  BY <1>3, <1>8, <1>9, WayUpIsOne
<1>11. \A n \in Nat : f[n] = lib => n \in 0 .. Cardinality(Libraries)
  <2> SUFFICES ASSUME NEW n \in Nat, f[n] = lib
               PROVE  n \in 0 .. Cardinality(Libraries)
    OBVIOUS
  <2>1. f[n] # NoLibrary
    BY BlocksAssumption
  <2>2. n <= Cardinality(Libraries)
    BY <1>1, <1>3, <2>1, WayUpIsShort
  <2>3. QED
    BY <2>2, LibrariesAreFinite
<1>12. \A n \in 0 .. Cardinality(Libraries) : n \in Nat
  OBVIOUS
<1>13. QED
  BY <1>1, <1>2, <1>5, <1>10, <1>11, <1>12

(* A recursion that goes down the lists ends: blocks have heights.         *)
LEMMA HeightsExist ==
    ASSUME NEW p \in Parents, NoCycle(p)
    PROVE  \E height \in [Blocks -> Nat], top \in Nat :
               \A x \in Blocks : /\ height[x] < top
                                 /\ p[x] # NoLibrary => height[x] < height[p[x]]
<1> DEFINE C == Cardinality(Libraries)
           Ends(x) == {n \in Nat : WayUp(p, x)[n] = NoLibrary}
           Least(x) == CHOOSE n \in Ends(x) : \A m \in Ends(x) : n <= m
<1>1. C \in Nat /\ C + 1 \in Nat /\ ~ (C + 1 <= C)
  BY LibrariesAreFinite
<1>2. ASSUME NEW x \in Blocks
      PROVE  C + 1 \in Ends(x)
  <2>1. IsWayUp(WayUp(p, x), p, x)
    BY WayUpExists
  <2>2. QED
    BY <1>1, <2>1, WayUpIsShort
<1>3. ASSUME NEW x \in Blocks
      PROVE  Least(x) \in Ends(x) /\ \A m \in Ends(x) : Least(x) <= m
  <2>1. \E n \in Ends(x) : \A m \in Ends(x) : n <= m
    <3>1. Ends(x) \subseteq Nat /\ Ends(x) # {}
      BY <1>2
    <3> HIDE DEF Ends
    <3>2. QED
      BY <3>1, LeastNumber
  <2> HIDE DEF Ends
  <2>2. QED
    BY <2>1
<1> HIDE DEF Least
<1>4. PICK height : height = [x \in Blocks |-> C + 1 - Least(x)]
  OBVIOUS
<1>5. ASSUME NEW x \in Blocks
      PROVE  Least(x) \in Nat /\ Least(x) <= C + 1
  BY <1>2, <1>3
<1>6. ASSUME NEW x \in Blocks, p[x] # NoLibrary
      PROVE  Least(p[x]) < Least(x)
  <2>1. p[x] \in Blocks /\ x # NoLibrary
    BY <1>6, BlocksAssumption DEF Parents
  <2>2. Least(x) # 0
    <3>1. WayUp(p, x)[0] = x
      BY WayUpExists DEF IsWayUp
    <3>2. QED
      BY <1>3, <2>1, <3>1
  <2>3. PICK n \in Nat : Least(x) = n + 1
    <3>1. Least(x) - 1 \in Nat /\ Least(x) = (Least(x) - 1) + 1
      BY <1>5, <2>2
    <3>2. QED
      BY <3>1
  <2>4. WayUp(p, p[x])[n] = NoLibrary
    BY <1>3, <2>3, WayUpShifts
  <2>5. Least(p[x]) <= n /\ Least(p[x]) \in Nat
    BY <1>3, <1>5, <2>1, <2>4
  <2>6. QED
    BY <2>3, <2>5
<1> HIDE DEF Ends, C
<1>7. height \in [Blocks -> Nat] /\ \A x \in Blocks : height[x] < C + 2
  BY <1>1, <1>4, <1>5
<1>8. ASSUME NEW x \in Blocks, p[x] # NoLibrary
      PROVE  height[x] < height[p[x]]
  <2>1. p[x] \in Blocks
    BY <1>8, BlocksAssumption DEF Parents
  <2>2. QED
    BY <1>1, <1>4, <1>5, <1>6, <1>8, <2>1
<1>9. C + 2 \in Nat
  BY <1>1
<1>10. QED
  BY <1>7, <1>8, <1>9

-----------------------------------------------------------------------------
(* The blocks of a library, and what is in each of them.                   *)

LEMMA KidsAreOwn ==
    ASSUME Sound(tree), NEW l \in Libraries
    PROVE  /\ tree.parent \in Parents
           /\ tree.kids[l] \in Seq(Blocks) /\ IsInjective(tree.kids[l])
           /\ \A b \in Blocks : tree.parent[b] = l <=> \E j \in DOMAIN tree.kids[l] : tree.kids[l][j] = b
<1>1. /\ tree \in Tree /\ tree.parent \in Parents
      /\ tree.kids[l] \in Seq(Blocks) /\ IsInjective(tree.kids[l])
  BY TreeFields DEF Sound, Parents
<1>2. DOMAIN tree.kids[l] = 1 .. Len(tree.kids[l])
  BY <1>1
<1>3. \A b \in Blocks : tree.parent[b] = l <=> \E j \in DOMAIN tree.kids[l] : tree.kids[l][j] = b
  BY <1>2, HoldsItsBlocks DEF Holds, Contains
<1>4. QED
  BY <1>1, <1>3

\* x is in a block, or is the block, some levels down.
Within(p, x, b, n) == n \in Nat /\ WayUp(p, x)[n] = b

(* What is in a block of a library is in no other of them and is not the   *)
(* library.                                                                *)
LEMMA KidsAreApart ==
    ASSUME NEW p \in Parents, NoCycle(p), NEW x \in Blocks, NEW l \in Libraries,
           NEW b \in Blocks, p[b] = l, NEW m, Within(p, x, b, m)
    PROVE  /\ x # l
           /\ \A c \in Blocks : \A n : p[c] = l /\ Within(p, x, c, n) => c = b
<1>1. PICK rank : Ranked(p, rank)
  BY DEF NoCycle
<1>2. PICK f : f = WayUp(p, x)
  OBVIOUS
<1>3. IsWayUp(f, p, x) /\ l # NoLibrary /\ l \in Blocks
  BY <1>2, WayUpExists, BlocksAssumption
<1>4. ASSUME NEW c \in Blocks, p[c] = l, NEW i \in Nat, f[i] = l, NEW j \in Nat, i <= j, f[j] = c
      PROVE  FALSE
  <2>1. rank[l] < rank[c] /\ rank[l] \in Nat /\ rank[c] \in Nat /\ c # NoLibrary
    BY <1>1, <1>3, <1>4, BlocksAssumption DEF Ranked
  <2>2. i < j => rank[c] < rank[l]
    BY <1>1, <1>3, <1>4, <2>1, RanksFall
  <2>3. i = j => c = l
    BY <1>4
  <2>4. QED
    BY <1>4, <2>1, <2>2, <2>3
<1>5. ASSUME NEW c \in Blocks, p[c] = l, NEW i \in Nat, f[i] = c
      PROVE  i + 1 \in Nat /\ f[i + 1] = l
  BY <1>3, <1>5, BlocksAssumption DEF IsWayUp
<1>6. m \in Nat /\ f[m] = b
  BY <1>2 DEF Within
<1>7. x # l
  <2> SUFFICES ASSUME x = l
               PROVE  FALSE
    OBVIOUS
  <2>1. f[0] = l /\ 0 \in Nat /\ 0 <= m
    BY <1>3, <1>6 DEF IsWayUp
  <2>2. QED
    BY <1>4, <1>6, <2>1
<1>8. ASSUME NEW c \in Blocks, NEW n, p[c] = l, Within(p, x, c, n)
      PROVE  c = b
  <2>1. n \in Nat /\ f[n] = c
    BY <1>2, <1>8 DEF Within
  <2>2. m + 1 \in Nat /\ n + 1 \in Nat /\ f[m + 1] = l /\ f[n + 1] = l
    BY <1>5, <1>6, <1>8, <2>1
  <2>3. ~ (m + 1 <= n) /\ ~ (n + 1 <= m)
    BY <1>4, <1>6, <1>8, <2>1, <2>2
  <2>4. m = n
    BY <1>6, <2>1, <2>3
  <2>5. QED
    BY <1>6, <2>1, <2>4
<1>9. QED
  BY <1>7, <1>8

(* What is in a library, and is not it, is in one of its blocks, one level *)
(* less down.                                                              *)
LEMMA WithinOneKid ==
    ASSUME NEW p \in Parents, NEW x \in Blocks, NEW l \in Libraries, NEW n \in Nat
    PROVE  Within(p, x, l, n + 1) <=> \E b \in Blocks : p[b] = l /\ Within(p, x, b, n)
<1>1. PICK f : f = WayUp(p, x)
  OBVIOUS
<1>2. IsWayUp(f, p, x) /\ l # NoLibrary /\ n + 1 \in Nat
  BY <1>1, WayUpExists, BlocksAssumption
<1>3. f[n + 1] = IF f[n] = NoLibrary THEN NoLibrary ELSE p[f[n]]
  BY <1>2 DEF IsWayUp
<1>4. f[n] \in Blocks \cup {NoLibrary}
  BY <1>2 DEF IsWayUp
<1>5. f[n + 1] = l <=> (f[n] \in Blocks /\ p[f[n]] = l)
  BY <1>2, <1>3, <1>4, BlocksAssumption
<1>6. QED
  BY <1>1, <1>2, <1>5 DEF Within

-----------------------------------------------------------------------------
(* findChildren and totalSize take in the blocks of a library one by one.  *)

FindStep(F, class, at) ==
    FoldLeft(LAMBDA found, b :
                 found \o IF b \in Libraries THEN F[<<b, at[2] - 1>>] ELSE Found(b, class),
             Found(at[1], class), IF at[2] = 0 THEN <<>> ELSE tree.kids[at[1]])

\* What findChildren appends for a block.
Part(F, class, depth, b) == IF b \in Libraries THEN F[<<b, depth - 1>>] ELSE Found(b, class)

\* f[k] is base and the first k of the parts of s.
IsGathering(f, base, part, s) ==
    /\ f \in [0 .. Len(s) -> Seq(Blocks)] /\ f[0] = base
    /\ \A k \in 1 .. Len(s) : f[k] = f[k - 1] \o part[s[k]]

\* The blocks that findChildren goes through.
Visited(at) == IF at[2] = 0 THEN <<>> ELSE tree.kids[at[1]]

ArePartsOf(part, F, class, at) ==
    /\ part \in [ToSet(Visited(at)) -> Seq(Blocks)]
    /\ \A b \in ToSet(Visited(at)) : part[b] = Part(F, class, at[2], b)

LEMMA FindGathers ==
    ASSUME NEW F, NEW class, NEW at, Found(at[1], class) \in Seq(Blocks),
           NEW s \in Seq(Blocks), s = Visited(at),
           NEW part, ArePartsOf(part, F, class, at)
    PROVE  \E f : /\ IsGathering(f, Found(at[1], class), part, s)
                  /\ FindStep(F, class, at) = f[Len(s)]
<1>1. PICK base : base = Found(at[1], class) /\ base \in Seq(Blocks)
  OBVIOUS
<1>2. PICK n \in Nat : n = Len(s) /\ DOMAIN s = 1 .. n
  OBVIOUS
<1> DEFINE Is(iter) == iter = [U \in SUBSET DOMAIN s |->
               IF U = {} THEN base
               ELSE iter[U \ {Max(U)}]
                    \o IF s[Max(U)] \in Libraries THEN F[<<s[Max(U)], at[2] - 1>>]
                       ELSE Found(s[Max(U)], class)]
<1>3. FindStep(F, class, at) = (CHOOSE iter : Is(iter))[DOMAIN s]
  BY <1>1 DEF FindStep, Visited, FoldLeft, MapThenFoldSet
<1>4. \A k \in 1 .. n : s[k] \in ToSet(s) /\ part[s[k]] = Part(F, class, at[2], s[k])
                        /\ part[s[k]] \in Seq(Blocks)
  BY <1>2 DEF ToSet, ArePartsOf
<1>5. PICK op : op = [k \in 1 .. n |-> [v \in Seq(Blocks) |-> v \o part[s[k]]]]
  OBVIOUS
<1>6. op \in [1 .. n -> [Seq(Blocks) -> Seq(Blocks)]]
  <2>1. ASSUME NEW k \in 1 .. n, NEW v \in Seq(Blocks)
        PROVE  v \o part[s[k]] \in Seq(Blocks)
    BY <1>4
  <2>2. QED
    BY <1>5, <2>1
<1>7. PICK iter : IsFold(iter, Seq(Blocks), base, n, op)
  BY <1>1, <1>6, FoldExists
<1>8. ASSUME NEW U \in SUBSET (1 .. n), U # {}
      PROVE  iter[U] = iter[U \ {Max(U)}] \o part[s[Max(U)]]
  <2>1. Max(U) \in 1 .. n /\ U \ {Max(U)} \in SUBSET (1 .. n)
    BY <1>8, MaxIsGreatest
  <2>2. iter[U \ {Max(U)}] \in Seq(Blocks) /\ iter[U] = op[Max(U)][iter[U \ {Max(U)}]]
    BY <1>7, <1>8, <2>1 DEF IsFold
  <2>3. QED
    BY <1>5, <2>1, <2>2
<1>9. Is(iter)
  <2>1. ASSUME NEW U \in SUBSET DOMAIN s, U # {}
        PROVE  iter[U] = iter[U \ {Max(U)}]
                         \o IF s[Max(U)] \in Libraries THEN F[<<s[Max(U)], at[2] - 1>>]
                            ELSE Found(s[Max(U)], class)
    <3>1. Max(U) \in 1 .. n
      BY <1>2, <2>1, MaxIsGreatest
    <3>2. part[s[Max(U)]] = IF s[Max(U)] \in Libraries THEN F[<<s[Max(U)], at[2] - 1>>]
                            ELSE Found(s[Max(U)], class)
      BY <1>4, <3>1 DEF Part
    <3>3. QED
      BY <1>2, <1>8, <2>1, <3>2
  <2>2. iter[{}] = base
    BY <1>7 DEF IsFold
  <2>3. iter = [U \in SUBSET DOMAIN s |-> iter[U]]
    BY <1>2, <1>7 DEF IsFold
  <2>4. QED
    BY <2>1, <2>2, <2>3
<1>10. PICK it : it = CHOOSE i : Is(i)
  OBVIOUS
<1>11. Is(it)
  BY <1>9, <1>10
<1>12. \A U \in SUBSET (1 .. n) :
           it[U] = IF U = {} THEN base ELSE it[U \ {Max(U)}] \o part[s[Max(U)]]
  <2> SUFFICES ASSUME NEW U \in SUBSET (1 .. n)
               PROVE  it[U] = IF U = {} THEN base ELSE it[U \ {Max(U)}] \o part[s[Max(U)]]
    OBVIOUS
  <2>1. it[U] = IF U = {} THEN base
                ELSE it[U \ {Max(U)}]
                     \o IF s[Max(U)] \in Libraries THEN F[<<s[Max(U)], at[2] - 1>>]
                        ELSE Found(s[Max(U)], class)
    BY <1>2, <1>11
  <2>2. U # {} => Max(U) \in 1 .. n
    BY MaxIsGreatest
  <2>3. QED
    BY <1>4, <2>1, <2>2 DEF Part
<1> HIDE DEF Is
<1>13. PICK f : f = [k \in 0 .. n |-> it[1 .. k]]
  OBVIOUS
<1>14. f[0] = base
  <2>1. 1 .. 0 = {} /\ 0 \in 0 .. n
    OBVIOUS
  <2>2. QED
    BY <1>12, <1>13, <2>1
<1>15. ASSUME NEW k \in 1 .. n
       PROVE  f[k] = f[k - 1] \o part[s[k]]
  <2>1. k \in 1 .. k /\ k - 1 \in 0 .. n /\ k \in 0 .. n /\ 1 .. k \in SUBSET (1 .. n)
    OBVIOUS
  <2>2. Max(1 .. k) = k
    <3>1. Max(1 .. k) \in 1 .. k /\ k <= Max(1 .. k)
      BY <2>1, MaxIsGreatest
    <3>2. QED
      BY <3>1
  <2>3. (1 .. k) \ {k} = 1 .. (k - 1)
    OBVIOUS
  <2>4. it[1 .. k] = it[(1 .. k) \ {Max(1 .. k)}] \o part[s[Max(1 .. k)]]
    BY <1>12, <2>1
  <2>5. QED
    BY <1>13, <2>1, <2>2, <2>3, <2>4
<1>16. \A k \in 0 .. n : f[k] \in Seq(Blocks)
  <2>1. ASSUME NEW k \in 0 .. n, k # 0, f[k - 1] \in Seq(Blocks)
        PROVE  f[k] \in Seq(Blocks)
    <3>1. k \in 1 .. n
      BY <2>1
    <3>2. part[s[k]] \in Seq(Blocks) /\ f[k] = f[k - 1] \o part[s[k]]
      BY <1>4, <1>15, <3>1
    <3>3. QED
      BY <2>1, <3>2
  <2>2. QED
    BY <1>1, <1>14, <2>1, IterationIsTyped
<1>17. f \in [0 .. n -> Seq(Blocks)]
  BY <1>13, <1>16
<1>18. IsGathering(f, base, part, s)
  BY <1>2, <1>14, <1>15, <1>17 DEF IsGathering
<1>19. FindStep(F, class, at) = f[n]
  BY <1>2, <1>3, <1>10, <1>13
<1>20. QED
  BY <1>1, <1>2, <1>18, <1>19

(* Sequences that are put one after the other.                             *)
LEMMA JoinedApart ==
    ASSUME NEW s \in Seq(Blocks), NEW t \in Seq(Blocks)
    PROVE  /\ s \o t \in Seq(Blocks)
           /\ ToSet(s \o t) = ToSet(s) \cup ToSet(t)
           /\ IsInjective(s) /\ IsInjective(t) /\ ToSet(s) \cap ToSet(t) = {} => IsInjective(s \o t)
<1>1. PICK m \in Nat, n \in Nat : m = Len(s) /\ n = Len(t) /\ DOMAIN s = 1 .. m /\ DOMAIN t = 1 .. n
  OBVIOUS
<1>2. PICK u : u = s \o t
  OBVIOUS
<1>3. /\ u \in Seq(Blocks) /\ Len(u) = m + n /\ DOMAIN u = 1 .. m + n
      /\ \A i \in 1 .. m + n : u[i] = IF i <= m THEN s[i] ELSE t[i - m]
  BY <1>1, <1>2
<1>4. ToSet(u) = ToSet(s) \cup ToSet(t)
  <2>1. ASSUME NEW i \in 1 .. m
        PROVE  i \in 1 .. m + n /\ u[i] = s[i]
    BY <1>3
  <2>2. ASSUME NEW i \in 1 .. n
        PROVE  i + m \in 1 .. m + n /\ u[i + m] = t[i]
    <3>1. i + m \in 1 .. m + n /\ ~ (i + m <= m) /\ (i + m) - m = i
      OBVIOUS
    <3>2. QED
      BY <1>3, <3>1
  <2>3. ASSUME NEW i \in 1 .. m + n
        PROVE  u[i] \in ToSet(s) \cup ToSet(t)
    <3>1. CASE i <= m
      <4>1. i \in 1 .. m /\ u[i] = s[i]
        BY <1>3, <3>1
      <4>2. QED
        BY <1>1, <4>1 DEF ToSet
    <3>2. CASE ~ (i <= m)
      <4>1. i - m \in 1 .. n /\ u[i] = t[i - m]
        BY <1>3, <3>2
      <4>2. QED
        BY <1>1, <4>1 DEF ToSet
    <3>3. QED
      BY <3>1, <3>2
  <2>4. ToSet(s) \subseteq ToSet(u)
    BY <1>1, <1>3, <2>1 DEF ToSet
  <2>5. ToSet(t) \subseteq ToSet(u)
    <3>1. ToSet(t) = {t[i] : i \in 1 .. n} /\ ToSet(u) = {u[i] : i \in 1 .. m + n}
      BY <1>1, <1>3 DEF ToSet
    <3>2. QED
      BY <2>2, <3>1
  <2>6. ToSet(u) \subseteq ToSet(s) \cup ToSet(t)
    <3>1. ToSet(u) = {u[i] : i \in 1 .. m + n}
      BY <1>3 DEF ToSet
    <3>2. QED
      BY <2>3, <3>1
  <2>7. QED
    BY <2>4, <2>5, <2>6
<1>5. ASSUME IsInjective(s), IsInjective(t), ToSet(s) \cap ToSet(t) = {}
      PROVE  IsInjective(u)
  <2>1. ASSUME NEW i \in 1 .. m + n, NEW j \in 1 .. m + n, i <= j, u[i] = u[j]
        PROVE  i = j
    <3>1. CASE j <= m
      <4>1. i \in 1 .. m /\ j \in 1 .. m /\ s[i] = s[j]
        BY <1>3, <2>1, <3>1
      <4>2. QED
        BY <1>1, <1>5, <4>1 DEF IsInjective
    <3>2. CASE ~ (i <= m)
      <4>1. i - m \in 1 .. n /\ j - m \in 1 .. n /\ t[i - m] = t[j - m]
        BY <1>3, <2>1, <3>2
      <4>2. i - m = j - m
        BY <1>1, <1>5, <4>1 DEF IsInjective
      <4>3. QED
        BY <4>2
    <3>3. CASE i <= m /\ ~ (j <= m)
      <4>1. i \in 1 .. m /\ j - m \in 1 .. n /\ s[i] = t[j - m]
        BY <1>3, <2>1, <3>3
      <4>2. s[i] \in ToSet(s) /\ t[j - m] \in ToSet(t)
        BY <1>1, <4>1 DEF ToSet
      <4>3. QED
        BY <1>5, <4>1, <4>2
    <3>4. QED
      BY <3>1, <3>2, <3>3
  <2>2. \A i, j \in 1 .. m + n : u[i] = u[j] => i = j
    <3> TAKE i, j \in 1 .. m + n
    <3>1. i <= j \/ j <= i
      OBVIOUS
    <3>2. QED
      BY <2>1, <3>1
  <2>3. QED
    BY <1>3, <2>2 DEF IsInjective
<1>6. QED
  BY <1>2, <1>3, <1>4, <1>5

(* What is gathered from parts that have nothing in common.                *)
AreApart(base, part, s) ==
    /\ base \in Seq(Blocks) /\ IsInjective(base)
    /\ part \in [ToSet(s) -> Seq(Blocks)]
    /\ \A b \in ToSet(s) : IsInjective(part[b]) /\ ToSet(base) \cap ToSet(part[b]) = {}
    /\ \A b, c \in ToSet(s) : b # c => ToSet(part[b]) \cap ToSet(part[c]) = {}

Gathered(base, part, s) == ToSet(base) \cup UNION {ToSet(part[b]) : b \in ToSet(s)}

LEMMA GatheringIs ==
    ASSUME NEW base, NEW s \in Seq(Blocks), IsInjective(s), NEW part, AreApart(base, part, s),
           NEW f, IsGathering(f, base, part, s)
    PROVE  IsInjective(f[Len(s)]) /\ ToSet(f[Len(s)]) = Gathered(base, part, s)
<1> USE DEF AreApart
<1>1. PICK n \in Nat : n = Len(s) /\ DOMAIN s = 1 .. n
  OBVIOUS
<1>2. ToSet(s) = {s[k] : k \in 1 .. n}
  BY <1>1 DEF ToSet
<1> DEFINE Taken(k) == ToSet(base) \cup UNION {ToSet(part[s[i]]) : i \in 1 .. k}
           T == {k \in 0 .. n : ~ (IsInjective(f[k]) /\ ToSet(f[k]) = Taken(k))}
<1>3. T # {} => FALSE
  <2> SUFFICES ASSUME T # {}
               PROVE  FALSE
    OBVIOUS
  <2>1. PICK k \in T : \A i \in T : k <= i
    <3>1. T \subseteq Nat
      OBVIOUS
    <3> HIDE DEF T
    <3>2. QED
      BY <3>1, LeastNumber
  <2>2. k \in 0 .. n /\ ~ (IsInjective(f[k]) /\ ToSet(f[k]) = Taken(k))
    BY <2>1
  <2>3. f[0] = base /\ f \in [0 .. n -> Seq(Blocks)]
    BY <1>1 DEF IsGathering
  <2>4. Taken(0) = ToSet(base)
    OBVIOUS
  <2>5. k # 0
    BY <2>2, <2>3, <2>4
  <2>6. k - 1 \in 0 .. n /\ k \in 1 .. n /\ k - 1 \notin T
    <3>1. k - 1 \in 0 .. n /\ k \in 1 .. n /\ ~ (k <= k - 1)
      BY <2>2, <2>5
    <3> HIDE DEF T
    <3>2. QED
      BY <2>1, <3>1
  <2>7. IsInjective(f[k - 1]) /\ ToSet(f[k - 1]) = Taken(k - 1) /\ f[k - 1] \in Seq(Blocks)
    BY <2>3, <2>6
  <2>8. s[k] \in ToSet(s) /\ part[s[k]] \in Seq(Blocks) /\ IsInjective(part[s[k]])
    BY <1>2, <2>6
  <2>9. f[k] = f[k - 1] \o part[s[k]]
    BY <1>1, <2>6 DEF IsGathering
  <2>10. 1 .. k = (1 .. (k - 1)) \cup {k}
    BY <2>6
  <2>11. Taken(k) = Taken(k - 1) \cup ToSet(part[s[k]])
    BY <2>10
  <2>12. ToSet(f[k - 1]) \cap ToSet(part[s[k]]) = {}
    <3>1. ASSUME NEW i \in 1 .. (k - 1)
          PROVE  ToSet(part[s[i]]) \cap ToSet(part[s[k]]) = {}
      <4>1. i \in 1 .. n /\ i # k
        BY <2>6
      <4>2. s[i] # s[k]
        BY <1>1, <2>6, <4>1 DEF IsInjective
      <4>3. s[i] \in ToSet(s)
        BY <1>2, <4>1
      <4>4. QED
        BY <2>8, <4>2, <4>3
    <3>2. ToSet(base) \cap ToSet(part[s[k]]) = {}
      BY <2>8
    <3>3. QED
      BY <2>7, <3>1, <3>2
  <2> HIDE DEF Taken, T
  <2>13. IsInjective(f[k]) /\ ToSet(f[k]) = Taken(k)
    BY <2>7, <2>8, <2>9, <2>11, <2>12, JoinedApart
  <2>14. QED
    BY <2>2, <2>13
<1>4. IsInjective(f[n]) /\ ToSet(f[n]) = Taken(n)
  <2>1. n \in 0 .. n
    OBVIOUS
  <2>2. QED
    BY <1>3, <2>1
<1>5. UNION {ToSet(part[s[i]]) : i \in 1 .. n} = UNION {ToSet(part[b]) : b \in ToSet(s)}
  BY <1>2
<1>6. QED
  BY <1>1, <1>4, <1>5 DEF Gathered

-----------------------------------------------------------------------------
(* The recursion of findChildren ends, since blocks have heights.          *)

LEMMA GatheringIsOne ==
    ASSUME NEW base, NEW s \in Seq(Blocks), NEW part,
           NEW f, IsGathering(f, base, part, s), NEW g, IsGathering(g, base, part, s)
    PROVE  f[Len(s)] = g[Len(s)]
<1>1. PICK n \in Nat : n = Len(s)
  OBVIOUS
<1> DEFINE T == {k \in 0 .. n : f[k] # g[k]}
<1>2. T # {} => FALSE
  <2> SUFFICES ASSUME T # {}
               PROVE  FALSE
    OBVIOUS
  <2>1. PICK k \in T : \A i \in T : k <= i
    <3>1. T \subseteq Nat
      OBVIOUS
    <3> HIDE DEF T
    <3>2. QED
      BY <3>1, LeastNumber
  <2>2. k \in 0 .. n /\ f[k] # g[k] /\ k # 0
    BY <2>1 DEF IsGathering
  <2>3. k - 1 \in 0 .. n /\ k \in 1 .. n /\ f[k - 1] = g[k - 1]
    BY <2>1, <2>2
  <2>4. f[k] = f[k - 1] \o part[s[k]] /\ g[k] = g[k - 1] \o part[s[k]]
    BY <1>1, <2>3 DEF IsGathering
  <2>5. QED
    BY <2>2, <2>3, <2>4
<1>3. n \in 0 .. n
  OBVIOUS
<1>4. QED
  BY <1>1, <1>2, <1>3

LEMMA FoundIs ==
    ASSUME NEW b \in Blocks, NEW class
    PROVE  /\ Found(b, class) \in Seq(Blocks) /\ IsInjective(Found(b, class))
           /\ ToSet(Found(b, class)) = {x \in {b} : FastInherits(x, class)}
<1>1. CASE FastInherits(b, class)
  <2>1. Found(b, class) = <<b>>
    BY <1>1 DEF Found
  <2>2. <<b>> \in Seq(Blocks) /\ DOMAIN <<b>> = {1} /\ <<b>>[1] = b
    OBVIOUS
  <2>3. QED
    BY <1>1, <2>1, <2>2 DEF IsInjective, ToSet
<1>2. CASE ~FastInherits(b, class)
  <2>1. Found(b, class) = <<>>
    BY <1>2 DEF Found
  <2>2. <<>> \in Seq(Blocks) /\ DOMAIN <<>> = {}
    OBVIOUS
  <2>3. QED
    BY <1>2, <2>1, <2>2 DEF IsInjective, ToSet
<1>3. QED
  BY <1>1, <1>2

LEMMA VisitedAreKids ==
    ASSUME Sound(tree), NEW at \in Libraries \X Int
    PROVE  /\ Visited(at) \in Seq(Blocks) /\ IsInjective(Visited(at))
           /\ ToSet(Visited(at)) = {b \in Blocks : at[2] # 0 /\ tree.parent[b] = at[1]}
<1>1. PICK l \in Libraries : l = at[1]
  OBVIOUS
<1>2. CASE at[2] = 0
  <2>1. <<>> \in Seq(Blocks) /\ DOMAIN <<>> = {}
    OBVIOUS
  <2>2. Visited(at) = <<>>
    BY <1>2 DEF Visited
  <2>3. QED
    BY <1>2, <2>1, <2>2 DEF IsInjective, ToSet
<1>3. CASE at[2] # 0
  <2>1. PICK s : s = tree.kids[l]
    OBVIOUS
  <2>2. /\ s \in Seq(Blocks) /\ IsInjective(s)
        /\ \A b \in Blocks : tree.parent[b] = l <=> \E j \in DOMAIN s : s[j] = b
    BY <2>1, KidsAreOwn
  <2>3. ToSet(s) = {b \in Blocks : tree.parent[b] = l}
    <3>1. \A j \in DOMAIN s : s[j] \in Blocks
      BY <2>2
    <3>2. QED
      BY <2>2, <3>1 DEF ToSet
  <2>4. Visited(at) = s
    BY <1>1, <1>3, <2>1 DEF Visited
  <2>5. QED
    BY <1>1, <1>3, <2>2, <2>3, <2>4
<1>4. QED
  BY <1>2, <1>3

LEMMA FindStepGathers ==
    ASSUME Sound(tree), NEW at \in Libraries \X Int, NEW F, NEW class,
           NEW part, ArePartsOf(part, F, class, at)
    PROVE  \E f : /\ IsGathering(f, Found(at[1], class), part, Visited(at))
                  /\ FindStep(F, class, at) = f[Len(Visited(at))]
                  /\ FindStep(F, class, at) \in Seq(Blocks)
<1>1. at[1] \in Blocks
  BY BlocksAssumption
<1>2. Found(at[1], class) \in Seq(Blocks)
  BY <1>1, FoundIs
<1>3. PICK s \in Seq(Blocks) : s = Visited(at)
  BY VisitedAreKids
<1>4. PICK f : /\ IsGathering(f, Found(at[1], class), part, s)
               /\ FindStep(F, class, at) = f[Len(s)]
  BY <1>2, <1>3, FindGathers
<1>5. f[Len(s)] \in Seq(Blocks)
  <2>1. Len(s) \in 0 .. Len(s)
    BY <1>3
  <2>2. QED
    BY <1>4, <2>1 DEF IsGathering
<1>6. QED
  BY <1>3, <1>4, <1>5

LEMMA PartsExist ==
    ASSUME Sound(tree), NEW at \in Libraries \X Int, NEW class, NEW F,
           \A b \in ToSet(Visited(at)) \cap Libraries : F[<<b, at[2] - 1>>] \in Seq(Blocks)
    PROVE  \E part : ArePartsOf(part, F, class, at)
<1>1. ASSUME NEW b \in ToSet(Visited(at))
      PROVE  Part(F, class, at[2], b) \in Seq(Blocks)
  <2>1. b \in Blocks
    BY VisitedAreKids
  <2>2. QED
    BY <2>1, FoundIs DEF Part
<1>2. PICK part : part = [b \in ToSet(Visited(at)) |-> Part(F, class, at[2], b)]
  OBVIOUS
<1>3. ArePartsOf(part, F, class, at)
  BY <1>1, <1>2 DEF ArePartsOf
<1>4. QED
  BY <1>3

LEMMA FindExists ==
    ASSUME Sound(tree), NoCycle(tree.parent), NEW class
    PROVE  \E find \in [Libraries \X Int -> Seq(Blocks)] :
               find = [at \in Libraries \X Int |-> FindStep(find, class, at)]
<1>1. PICK p : p = tree.parent /\ p \in Parents /\ NoCycle(p)
  BY TreeFields DEF Sound, Parents
<1>2. PICK D, V : D = Libraries \X Int /\ V = Seq(Blocks)
  OBVIOUS
<1>3. PICK step : step = [F \in [D -> V] |-> [at \in D |-> FindStep(F, class, at)]]
  OBVIOUS
<1>4. step \in [[D -> V] -> [D -> V]]
  <2>1. ASSUME NEW F \in [D -> V], NEW at \in D
        PROVE  FindStep(F, class, at) \in V
    <3>1. PICK part : ArePartsOf(part, F, class, at)
      <4>1. at \in Libraries \X Int /\ at[2] - 1 \in Int
        BY <1>2
      <4>2. \A b \in ToSet(Visited(at)) \cap Libraries : F[<<b, at[2] - 1>>] \in Seq(Blocks)
        BY <1>2, <4>1
      <4>3. QED
        BY <4>1, <4>2, PartsExist
    <3>2. QED
      BY <1>2, <3>1, FindStepGathers
  <2>2. QED
    BY <1>3, <2>1
<1>5. PICK height \in [Blocks -> Nat], top \in Nat :
          \A x \in Blocks : height[x] < top /\ (p[x] # NoLibrary => height[x] < height[p[x]])
  BY <1>1, HeightsExist
<1>6. PICK h : h = [at \in D |-> height[at[1]]]
  OBVIOUS
<1>7. \A at \in D : h[at] = height[at[1]] /\ at[1] \in Blocks
  BY <1>2, <1>6, BlocksAssumption
<1>8. h \in [D -> Nat] /\ \A at \in D : h[at] < top
  BY <1>5, <1>6, <1>7
<1>9. ASSUME NEW F \in [D -> V], NEW G \in [D -> V], NEW at \in D,
             \A q \in D : h[q] < h[at] => F[q] = G[q]
      PROVE  step[F][at] = step[G][at]
  <2>1. PICK part : ArePartsOf(part, F, class, at)
    <3>1. at \in Libraries \X Int /\ at[2] - 1 \in Int
      BY <1>2
    <3>2. \A b \in ToSet(Visited(at)) \cap Libraries : F[<<b, at[2] - 1>>] \in Seq(Blocks)
      BY <1>2, <3>1
    <3>3. QED
      BY <3>1, <3>2, PartsExist
  <2>3. ASSUME NEW b \in ToSet(Visited(at))
        PROVE  part[b] = Part(G, class, at[2], b)
    <3>1. b \in Blocks /\ p[b] = at[1]
      BY <1>1, <1>2, VisitedAreKids
    <3>2. at[1] # NoLibrary /\ height[b] < height[at[1]]
      BY <1>2, <1>5, <3>1, BlocksAssumption
    <3>3. ASSUME b \in Libraries
          PROVE  F[<<b, at[2] - 1>>] = G[<<b, at[2] - 1>>]
      <4>1. <<b, at[2] - 1>> \in D /\ <<b, at[2] - 1>>[1] = b
        BY <1>2, <3>3
      <4>2. h[<<b, at[2] - 1>>] < h[at]
        BY <1>7, <3>2, <4>1
      <4>3. QED
        BY <1>9, <4>1, <4>2
    <3>4. QED
      BY <2>1, <3>3 DEF Part, ArePartsOf
  <2>4. ArePartsOf(part, G, class, at)
    BY <2>1, <2>3 DEF ArePartsOf
  <2>5. PICK f : /\ IsGathering(f, Found(at[1], class), part, Visited(at))
                 /\ FindStep(F, class, at) = f[Len(Visited(at))]
    BY <1>2, <2>1, FindStepGathers
  <2>6. PICK g : /\ IsGathering(g, Found(at[1], class), part, Visited(at))
                 /\ FindStep(G, class, at) = g[Len(Visited(at))]
    BY <1>2, <2>4, FindStepGathers
  <2>7. Visited(at) \in Seq(Blocks)
    BY <1>2, VisitedAreKids
  <2>8. FindStep(F, class, at) = FindStep(G, class, at)
    BY <2>5, <2>6, <2>7, GatheringIsOne
  <2>9. QED
    BY <1>3, <2>8
<1>10. V # {}
  <2>1. <<>> \in Seq(Blocks)
    OBVIOUS
  <2>2. QED
    BY <1>2, <2>1
<1>11. PICK find \in [D -> V] : step[find] = find
  <2>1. IsRecursion(step, D, V, h, top)
    BY <1>4, <1>5, <1>8, <1>9, <1>10 DEF IsRecursion
  <2>2. QED
    BY <2>1, RecursionExists
<1>12. QED
  BY <1>2, <1>3, <1>11

-----------------------------------------------------------------------------
(* What findChildren finds.                                                *)

FoundBelow(class, b, depth) ==
    {x \in Blocks : FastInherits(x, class)
                    /\ \E n : Within(tree.parent, x, b, n) /\ (depth < 0 \/ n <= depth)}

LEMMA OnlyItselfIsWithin ==
    ASSUME NEW p \in Parents, NoCycle(p), NEW x \in Blocks, NEW b \in Blocks
    PROVE  /\ Within(p, b, b, 0)
           /\ \A n : (n = 0 \/ b \notin Libraries) /\ Within(p, x, b, n) => n = 0 /\ x = b
<1>1. PICK rank : Ranked(p, rank)
  BY DEF NoCycle
<1>2. WayUp(p, b)[0] = b /\ WayUp(p, x)[0] = x
  BY WayUpExists DEF IsWayUp
<1>3. IsWayUp(WayUp(p, x), p, x)
  BY WayUpExists
<1>4. ASSUME NEW n, n = 0 \/ b \notin Libraries, Within(p, x, b, n)
      PROVE  n = 0 /\ x = b
  <2>1. n \in Nat /\ WayUp(p, x)[n] = b /\ b # NoLibrary
    BY <1>4, BlocksAssumption DEF Within
  <2>2. n # 0 => b \in Libraries
    BY <1>1, <1>3, <2>1, RanksFall
  <2>3. QED
    BY <1>2, <1>4, <2>1, <2>2
<1>5. QED
  BY <1>2, <1>4 DEF Within

LEMMA FoundBelowBlock ==
    ASSUME tree.parent \in Parents, NoCycle(tree.parent), NEW class,
           NEW b \in Blocks \ Libraries, NEW depth \in Int
    PROVE  FoundBelow(class, b, depth) = {x \in {b} : FastInherits(x, class)}
<1>1. PICK p : p = tree.parent /\ p \in Parents /\ NoCycle(p)
  OBVIOUS
<1>2. Within(p, b, b, 0) /\ \A x \in Blocks : \A n : Within(p, x, b, n) => x = b
  BY <1>1, OnlyItselfIsWithin
<1>3. depth < 0 \/ 0 <= depth
  OBVIOUS
<1>4. QED
  BY <1>1, <1>2, <1>3 DEF FoundBelow

LEMMA FoundOneLevelDown ==
    ASSUME tree.parent \in Parents, NoCycle(tree.parent), NEW class,
           NEW l \in Libraries, NEW depth \in Int, NEW x \in Blocks
    PROVE  x \in FoundBelow(class, l, depth) <=>
               \/ x = l /\ FastInherits(x, class)
               \/ depth # 0 /\ \E b \in Blocks : tree.parent[b] = l /\ x \in FoundBelow(class, b, depth - 1)
<1>1. PICK p : p = tree.parent /\ p \in Parents /\ NoCycle(p)
  OBVIOUS
<1>2. l \in Blocks
  BY BlocksAssumption
<1>3. ASSUME x \in FoundBelow(class, l, depth)
      PROVE  \/ x = l /\ FastInherits(x, class)
             \/ depth # 0 /\ \E b \in Blocks : p[b] = l /\ x \in FoundBelow(class, b, depth - 1)
  <2>1. PICK n : FastInherits(x, class) /\ Within(p, x, l, n) /\ (depth < 0 \/ n <= depth)
    BY <1>1, <1>3 DEF FoundBelow
  <2>2. n \in Nat
    BY <2>1 DEF Within
  <2>3. CASE n = 0
    BY <1>1, <1>2, <2>1, <2>3, OnlyItselfIsWithin
  <2>4. CASE n # 0
    <3>1. n - 1 \in Nat /\ (n - 1) + 1 = n /\ depth # 0 /\ (depth - 1 < 0 \/ n - 1 <= depth - 1)
      BY <2>1, <2>2, <2>4
    <3>2. PICK b \in Blocks : p[b] = l /\ Within(p, x, b, n - 1)
      BY <1>1, <2>1, <3>1, WithinOneKid
    <3>3. x \in FoundBelow(class, b, depth - 1)
      BY <1>1, <2>1, <3>1, <3>2 DEF FoundBelow
    <3>4. QED
      BY <3>1, <3>2, <3>3
  <2>5. QED
    BY <2>3, <2>4
<1>4. ASSUME x = l, FastInherits(x, class)
      PROVE  x \in FoundBelow(class, l, depth)
  <2>1. Within(p, x, l, 0)
    BY <1>1, <1>2, <1>4, OnlyItselfIsWithin
  <2>2. depth < 0 \/ 0 <= depth
    OBVIOUS
  <2>3. QED
    BY <1>1, <1>4, <2>1, <2>2 DEF FoundBelow
<1>5. ASSUME depth # 0, NEW b \in Blocks, p[b] = l, x \in FoundBelow(class, b, depth - 1)
      PROVE  x \in FoundBelow(class, l, depth)
  <2>1. PICK n : FastInherits(x, class) /\ Within(p, x, b, n) /\ (depth - 1 < 0 \/ n <= depth - 1)
    BY <1>1, <1>5 DEF FoundBelow
  <2>2. n \in Nat
    BY <2>1 DEF Within
  <2>3. Within(p, x, l, n + 1)
    BY <1>1, <1>5, <2>1, <2>2, WithinOneKid
  <2>4. depth < 0 \/ n + 1 <= depth
    BY <1>5, <2>1, <2>2
  <2>5. QED
    BY <1>1, <2>1, <2>3, <2>4 DEF FoundBelow
<1>6. QED
  BY <1>1, <1>3, <1>4, <1>5

(* Each library gives what is found one level less down.                   *)
IsExact(s, class, b, depth) ==
    s \in Seq(Blocks) /\ IsInjective(s) /\ ToSet(s) = FoundBelow(class, b, depth)

LEMMA FindStepIsExact ==
    ASSUME Sound(tree), NoCycle(tree.parent), NEW class, NEW at \in Libraries \X Int,
           NEW F,
           \A b \in ToSet(Visited(at)) \cap Libraries :
               IsExact(F[<<b, at[2] - 1>>], class, b, at[2] - 1)
    PROVE  IsExact(FindStep(F, class, at), class, at[1], at[2])
<1>1. PICK p : p = tree.parent /\ p \in Parents /\ NoCycle(p)
  BY TreeFields DEF Sound, Parents
<1>2. PICK l \in Libraries, depth \in Int : l = at[1] /\ depth = at[2]
  OBVIOUS
<1>3. l \in Blocks /\ depth - 1 \in Int
  BY BlocksAssumption
<1>4. PICK s \in Seq(Blocks) : s = Visited(at)
  BY VisitedAreKids
<1>5. IsInjective(s) /\ ToSet(s) = {b \in Blocks : depth # 0 /\ p[b] = l}
  BY <1>1, <1>2, <1>4, VisitedAreKids
<1>6. PICK part : ArePartsOf(part, F, class, at)
  <2>1. \A b \in ToSet(Visited(at)) \cap Libraries : F[<<b, at[2] - 1>>] \in Seq(Blocks)
    BY DEF IsExact
  <2>2. QED
    BY <2>1, PartsExist
<1>7. part \in [ToSet(s) -> Seq(Blocks)]
  BY <1>4, <1>6 DEF ArePartsOf
<1>8. ASSUME NEW b \in ToSet(s)
      PROVE  IsInjective(part[b]) /\ ToSet(part[b]) = FoundBelow(class, b, depth - 1)
  <2>1. part[b] = IF b \in Libraries THEN F[<<b, depth - 1>>] ELSE Found(b, class)
    BY <1>2, <1>4, <1>6 DEF ArePartsOf, Part
  <2>2. CASE b \in Libraries
    BY <1>2, <1>4, <2>1, <2>2 DEF IsExact
  <2>3. CASE b \notin Libraries
    <3>1. b \in Blocks \ Libraries
      BY <1>5, <2>3
    <3>2. part[b] = Found(b, class)
      BY <2>1, <2>3
    <3>3. IsInjective(part[b]) /\ ToSet(part[b]) = {x \in {b} : FastInherits(x, class)}
      BY <3>1, <3>2, FoundIs
    <3>4. FoundBelow(class, b, depth - 1) = {x \in {b} : FastInherits(x, class)}
      BY <1>1, <1>3, <3>1, FoundBelowBlock
    <3>5. QED
      BY <3>3, <3>4
  <2>4. QED
    BY <2>2, <2>3
<1>9. PICK base : base = Found(l, class)
  OBVIOUS
<1>10. /\ base \in Seq(Blocks) /\ IsInjective(base)
       /\ ToSet(base) = {x \in {l} : FastInherits(x, class)}
  BY <1>3, <1>9, FoundIs
<1>11. ASSUME NEW b \in ToSet(s), NEW x \in ToSet(part[b])
       PROVE  /\ x # l
              /\ \A c \in ToSet(s) : x \in ToSet(part[c]) => c = b
  <2>1. \A c \in ToSet(s) : c \in Blocks /\ p[c] = l
    BY <1>5
  <2>2. x \in Blocks /\ \A c \in ToSet(s) : x \in ToSet(part[c]) => \E n : Within(p, x, c, n)
    BY <1>1, <1>8, <1>11 DEF FoundBelow
  <2>3. PICK m : Within(p, x, b, m)
    BY <1>11, <2>2
  <2>4. x # l /\ \A c \in Blocks : \A n : p[c] = l /\ Within(p, x, c, n) => c = b
    BY <1>1, <2>1, <2>2, <2>3, KidsAreApart
  <2>5. QED
    BY <2>1, <2>2, <2>4
<1>12. PICK f : /\ IsGathering(f, base, part, s)
                /\ FindStep(F, class, at) = f[Len(s)]
  BY <1>2, <1>4, <1>6, <1>9, FindStepGathers
<1>13. \A b \in ToSet(s) : IsInjective(part[b]) /\ ToSet(base) \cap ToSet(part[b]) = {}
  BY <1>8, <1>10, <1>11
<1>14. \A b, c \in ToSet(s) : b # c => ToSet(part[b]) \cap ToSet(part[c]) = {}
  BY <1>11
<1>15. IsInjective(f[Len(s)]) /\ ToSet(f[Len(s)]) = Gathered(base, part, s)
  <2>1. AreApart(base, part, s)
    BY <1>7, <1>10, <1>13, <1>14 DEF AreApart
  <2>2. QED
    BY <1>5, <1>12, <2>1, GatheringIs
<1>16. ASSUME NEW x
       PROVE  x \in ToSet(f[Len(s)]) <=> x \in FoundBelow(class, l, depth)
  <2>1. x \in ToSet(f[Len(s)]) <=> \/ x = l /\ FastInherits(x, class)
                                   \/ \E b \in ToSet(s) : x \in FoundBelow(class, b, depth - 1)
    BY <1>8, <1>10, <1>15 DEF Gathered
  <2>2. (\E b \in ToSet(s) : x \in FoundBelow(class, b, depth - 1)) <=>
            (depth # 0 /\ \E b \in Blocks : p[b] = l /\ x \in FoundBelow(class, b, depth - 1))
    BY <1>5
  <2>3. x \in ToSet(f[Len(s)]) \/ x \in FoundBelow(class, l, depth) => x \in Blocks
    BY <1>3, <2>1 DEF FoundBelow
  <2>4. ASSUME x \in Blocks
        PROVE  x \in FoundBelow(class, l, depth) <=>
                   \/ x = l /\ FastInherits(x, class)
                   \/ depth # 0 /\ \E b \in Blocks : p[b] = l /\ x \in FoundBelow(class, b, depth - 1)
    <3>1. x \in FoundBelow(class, l, depth) <=>
              \/ x = l /\ FastInherits(x, class)
              \/ depth # 0 /\ \E b \in Blocks :
                     tree.parent[b] = l /\ x \in FoundBelow(class, b, depth - 1)
      BY <1>1, <2>4, FoundOneLevelDown
    <3>2. QED
      BY <1>1, <3>1
  <2>5. QED
    BY <2>1, <2>2, <2>3, <2>4
<1>17. FindStep(F, class, at) \in Seq(Blocks)
  BY <1>6, FindStepGathers
<1>18. QED
  BY <1>2, <1>12, <1>15, <1>16, <1>17 DEF IsExact

LEMMA FindIsExact ==
    ASSUME Sound(tree), NoCycle(tree.parent), NEW class, NEW l \in Libraries, NEW depth \in Int
    PROVE  IsExact(FindChildren(tree, l, class, depth), class, l, depth)
<1>1. PICK p : p = tree.parent /\ p \in Parents /\ NoCycle(p)
  BY TreeFields DEF Sound, Parents
<1> DEFINE Is(find) == find = [at \in Libraries \X Int |-> FindStep(find, class, at)]
<1>2. FindChildren(tree, l, class, depth) = (CHOOSE find : Is(find))[<<l, depth>>]
  BY DEF FindChildren, FindStep
<1>3. \E find \in [Libraries \X Int -> Seq(Blocks)] : Is(find)
  BY FindExists
<1>4. PICK find : find = CHOOSE g : Is(g)
  OBVIOUS
<1>5. Is(find)
  BY <1>3, <1>4
<1> HIDE DEF Is
<1>6. PICK height \in [Blocks -> Nat], top \in Nat :
          \A x \in Blocks : height[x] < top /\ (p[x] # NoLibrary => height[x] < height[p[x]])
  BY <1>1, HeightsExist
<1> DEFINE T == {n \in Nat : \E at \in Libraries \X Int :
                                 height[at[1]] = n /\ ~IsExact(find[at], class, at[1], at[2])}
<1>7. ASSUME T # {}
      PROVE  FALSE
  <2>1. PICK n \in T : \A m \in T : n <= m
    <3>1. T \subseteq Nat
      OBVIOUS
    <3> HIDE DEF T
    <3>2. QED
      BY <1>7, <3>1, LeastNumber
  <2>2. PICK at \in Libraries \X Int : height[at[1]] = n /\ ~IsExact(find[at], class, at[1], at[2])
    BY <2>1
  <2>3. ASSUME NEW b \in ToSet(Visited(at)) \cap Libraries
        PROVE  IsExact(find[<<b, at[2] - 1>>], class, b, at[2] - 1)
    <3>1. b \in Blocks /\ p[b] = at[1] /\ at[1] \in Blocks /\ at[1] # NoLibrary
      BY <1>1, VisitedAreKids, BlocksAssumption
    <3>2. height[b] \in Nat /\ height[b] < n
      BY <1>6, <2>2, <3>1
    <3>3. height[b] \notin T
      <4>1. ~ (n <= height[b]) /\ n \in Nat
        BY <2>1, <3>2
      <4> HIDE DEF T
      <4>2. QED
        BY <2>1, <4>1
    <3>4. PICK below \in Libraries \X Int : below = <<b, at[2] - 1>>
      <4>1. b \in Libraries /\ at[2] - 1 \in Int
        OBVIOUS
      <4>2. QED
        BY <4>1
    <3>5. IsExact(find[below], class, below[1], below[2])
      BY <3>2, <3>3, <3>4
    <3>6. QED
      BY <3>4, <3>5
  <2>4. IsExact(FindStep(find, class, at), class, at[1], at[2])
    BY <2>3, FindStepIsExact
  <2>5. find[at] = FindStep(find, class, at)
    BY <1>5 DEF Is
  <2>6. QED
    BY <2>2, <2>4, <2>5
<1>8. IsExact(find[<<l, depth>>], class, l, depth)
  <2>1. PICK at \in Libraries \X Int : at = <<l, depth>>
    OBVIOUS
  <2>2. height[at[1]] \in Nat
    BY BlocksAssumption
  <2>3. IsExact(find[at], class, at[1], at[2])
    BY <1>7, <2>2
  <2>4. QED
    BY <2>1, <2>3
<1>9. QED
  BY <1>2, <1>4, <1>8

-----------------------------------------------------------------------------
(* totalSize, in the same way.                                             *)

SizeStep(F, l) ==
    FoldLeft(LAMBDA n, b : IF b \in Libraries THEN n + F[b] ELSE n,
             Len(tree.kids[l]), tree.kids[l])

\* f[k] is the size of s and of its first k blocks.
IsCounting(f, part, s) ==
    /\ f \in [0 .. Len(s) -> Nat] /\ f[0] = Len(s)
    /\ \A k \in 1 .. Len(s) : f[k] = f[k - 1] + part[s[k]]

AreSizesOf(part, F, s) ==
    /\ part \in [ToSet(s) -> Nat]
    /\ \A b \in ToSet(s) : part[b] = IF b \in Libraries THEN F[b] ELSE 0

LEMMA SizeCounts ==
    ASSUME NEW F, NEW l, NEW s \in Seq(Blocks), s = tree.kids[l], NEW part, AreSizesOf(part, F, s)
    PROVE  \E f : IsCounting(f, part, s) /\ SizeStep(F, l) = f[Len(s)]
<1>1. PICK n \in Nat : n = Len(s) /\ DOMAIN s = 1 .. n
  OBVIOUS
<1> DEFINE Is(iter) == iter = [U \in SUBSET DOMAIN s |->
               IF U = {} THEN n
               ELSE IF s[Max(U)] \in Libraries THEN iter[U \ {Max(U)}] + F[s[Max(U)]]
               ELSE iter[U \ {Max(U)}]]
<1>2. SizeStep(F, l) = (CHOOSE iter : Is(iter))[DOMAIN s]
  BY <1>1 DEF SizeStep, FoldLeft, MapThenFoldSet
<1>3. \A k \in 1 .. n : /\ part[s[k]] = IF s[k] \in Libraries THEN F[s[k]] ELSE 0
                        /\ part[s[k]] \in Nat
  BY <1>1 DEF ToSet, AreSizesOf
<1>4. PICK op : op = [k \in 1 .. n |-> [v \in Nat |-> v + part[s[k]]]]
  OBVIOUS
<1>5. op \in [1 .. n -> [Nat -> Nat]]
  <2>1. ASSUME NEW k \in 1 .. n, NEW v \in Nat
        PROVE  v + part[s[k]] \in Nat
    BY <1>3
  <2>2. QED
    BY <1>4, <2>1
<1>6. PICK iter : IsFold(iter, Nat, n, n, op)
  BY <1>5, FoldExists
<1>7. ASSUME NEW U \in SUBSET (1 .. n), U # {}
      PROVE  /\ iter[U] = iter[U \ {Max(U)}] + part[s[Max(U)]]
             /\ iter[U \ {Max(U)}] \in Nat /\ Max(U) \in 1 .. n
  <2>1. Max(U) \in 1 .. n /\ U \ {Max(U)} \in SUBSET (1 .. n)
    BY <1>7, MaxIsGreatest
  <2>2. iter[U \ {Max(U)}] \in Nat /\ iter[U] = op[Max(U)][iter[U \ {Max(U)}]]
    BY <1>6, <1>7, <2>1 DEF IsFold
  <2>3. QED
    BY <1>4, <2>1, <2>2
<1>8. Is(iter)
  <2>1. ASSUME NEW U \in SUBSET DOMAIN s, U # {}
        PROVE  iter[U] = IF s[Max(U)] \in Libraries THEN iter[U \ {Max(U)}] + F[s[Max(U)]]
                         ELSE iter[U \ {Max(U)}]
    <3>1. /\ iter[U] = iter[U \ {Max(U)}] + part[s[Max(U)]]
          /\ iter[U \ {Max(U)}] \in Nat /\ Max(U) \in 1 .. n
      BY <1>1, <1>7, <2>1
    <3>2. part[s[Max(U)]] = IF s[Max(U)] \in Libraries THEN F[s[Max(U)]] ELSE 0
      BY <1>3, <3>1
    <3>3. QED
      BY <3>1, <3>2
  <2>2. iter[{}] = n
    BY <1>6 DEF IsFold
  <2>3. iter = [U \in SUBSET DOMAIN s |-> iter[U]]
    BY <1>1, <1>6 DEF IsFold
  <2>4. QED
    BY <2>1, <2>2, <2>3
<1>9. PICK it : it = CHOOSE i : Is(i)
  OBVIOUS
<1>10. Is(it)
  BY <1>8, <1>9
<1>11. ASSUME NEW U \in SUBSET (1 .. n)
       PROVE  it[U] = IF U = {} THEN n
                      ELSE IF s[Max(U)] \in Libraries THEN it[U \ {Max(U)}] + F[s[Max(U)]]
                      ELSE it[U \ {Max(U)}]
  BY <1>1, <1>10
<1> HIDE DEF Is
<1>12. PICK f : f = [k \in 0 .. n |-> it[1 .. k]]
  OBVIOUS
<1>13. f[0] = n
  <2>1. 1 .. 0 = {} /\ 0 \in 0 .. n
    OBVIOUS
  <2>2. QED
    BY <1>11, <1>12, <2>1
<1>14. ASSUME NEW k \in 1 .. n
       PROVE  f[k] = IF s[k] \in Libraries THEN f[k - 1] + F[s[k]] ELSE f[k - 1]
  <2>1. k \in 1 .. k /\ k - 1 \in 0 .. n /\ k \in 0 .. n /\ 1 .. k \in SUBSET (1 .. n)
    OBVIOUS
  <2>2. Max(1 .. k) = k
    <3>1. Max(1 .. k) \in 1 .. k /\ k <= Max(1 .. k)
      BY <2>1, MaxIsGreatest
    <3>2. QED
      BY <3>1
  <2>3. (1 .. k) \ {k} = 1 .. (k - 1)
    OBVIOUS
  <2>4. it[1 .. k] = IF s[k] \in Libraries THEN it[1 .. (k - 1)] + F[s[k]] ELSE it[1 .. (k - 1)]
    BY <1>11, <2>1, <2>2, <2>3
  <2>5. QED
    BY <1>12, <2>1, <2>4
<1>15. ASSUME NEW k \in 1 .. n, f[k - 1] \in Nat
       PROVE  f[k] = f[k - 1] + part[s[k]] /\ f[k] \in Nat
  BY <1>3, <1>14, <1>15
<1>16. \A k \in 0 .. n : f[k] \in Nat
  <2>1. ASSUME NEW k \in 0 .. n, k # 0, f[k - 1] \in Nat
        PROVE  f[k] \in Nat
    <3>1. k \in 1 .. n
      BY <2>1
    <3>2. QED
      BY <1>15, <2>1, <3>1
  <2>2. QED
    BY <1>13, <2>1, IterationIsTyped
<1>17. \A k \in 1 .. n : f[k] = f[k - 1] + part[s[k]]
  <2> TAKE k \in 1 .. n
  <2>1. k - 1 \in 0 .. n
    OBVIOUS
  <2>2. QED
    BY <1>15, <1>16, <2>1
<1>18. IsCounting(f, part, s)
  BY <1>1, <1>12, <1>13, <1>16, <1>17 DEF IsCounting
<1>19. SizeStep(F, l) = f[n]
  BY <1>1, <1>2, <1>9, <1>12
<1>20. QED
  BY <1>1, <1>18, <1>19

LEMMA CountingIsOne ==
    ASSUME NEW s \in Seq(Blocks), NEW part,
           NEW f, IsCounting(f, part, s), NEW g, IsCounting(g, part, s)
    PROVE  f[Len(s)] = g[Len(s)]
<1>1. PICK n \in Nat : n = Len(s)
  OBVIOUS
<1> DEFINE T == {k \in 0 .. n : f[k] # g[k]}
<1>2. T # {} => FALSE
  <2> SUFFICES ASSUME T # {}
               PROVE  FALSE
    OBVIOUS
  <2>1. PICK k \in T : \A i \in T : k <= i
    <3>1. T \subseteq Nat
      OBVIOUS
    <3> HIDE DEF T
    <3>2. QED
      BY <3>1, LeastNumber
  <2>2. k \in 0 .. n /\ f[k] # g[k] /\ k # 0
    BY <2>1 DEF IsCounting
  <2>3. k - 1 \in 0 .. n /\ k \in 1 .. n /\ f[k - 1] = g[k - 1]
    BY <2>1, <2>2
  <2>4. f[k] = f[k - 1] + part[s[k]] /\ g[k] = g[k - 1] + part[s[k]]
    BY <1>1, <2>3 DEF IsCounting
  <2>5. QED
    BY <2>2, <2>3, <2>4
<1>3. n \in 0 .. n
  OBVIOUS
<1>4. QED
  BY <1>1, <1>2, <1>3

LEMMA SizesExist ==
    ASSUME Sound(tree), NEW l \in Libraries, NEW F,
           \A b \in ToSet(tree.kids[l]) \cap Libraries : F[b] \in Nat
    PROVE  \E part : AreSizesOf(part, F, tree.kids[l])
<1>1. PICK part : part = [b \in ToSet(tree.kids[l]) |-> IF b \in Libraries THEN F[b] ELSE 0]
  OBVIOUS
<1>2. AreSizesOf(part, F, tree.kids[l])
  BY <1>1 DEF AreSizesOf
<1>3. QED
  BY <1>2

LEMMA SizeExists ==
    ASSUME Sound(tree), NoCycle(tree.parent)
    PROVE  \E size \in [Libraries -> Nat] : size = [l \in Libraries |-> SizeStep(size, l)]
<1>1. PICK p : p = tree.parent /\ p \in Parents /\ NoCycle(p)
  BY TreeFields DEF Sound, Parents
<1>2. PICK step : step = [F \in [Libraries -> Nat] |-> [l \in Libraries |-> SizeStep(F, l)]]
  OBVIOUS
<1>3. \A l \in Libraries : tree.kids[l] \in Seq(Blocks)
  BY KidsAreOwn
<1>4. step \in [[Libraries -> Nat] -> [Libraries -> Nat]]
  <2>1. ASSUME NEW F \in [Libraries -> Nat], NEW l \in Libraries
        PROVE  SizeStep(F, l) \in Nat
    <3>1. PICK s \in Seq(Blocks) : s = tree.kids[l]
      BY <1>3
    <3>2. PICK part : AreSizesOf(part, F, s)
      BY <3>1, SizesExist
    <3>3. PICK f : IsCounting(f, part, s) /\ SizeStep(F, l) = f[Len(s)]
      BY <3>1, <3>2, SizeCounts
    <3>4. Len(s) \in 0 .. Len(s)
      BY <3>1
    <3>5. QED
      BY <3>3, <3>4 DEF IsCounting
  <2>2. QED
    BY <1>2, <2>1
<1>5. PICK height \in [Blocks -> Nat], top \in Nat :
          \A x \in Blocks : height[x] < top /\ (p[x] # NoLibrary => height[x] < height[p[x]])
  BY <1>1, HeightsExist
<1>6. PICK h : h = [l \in Libraries |-> height[l]]
  OBVIOUS
<1>7. h \in [Libraries -> Nat] /\ \A l \in Libraries : h[l] < top /\ h[l] = height[l]
  BY <1>5, <1>6, BlocksAssumption
<1>8. ASSUME NEW F \in [Libraries -> Nat], NEW G \in [Libraries -> Nat], NEW l \in Libraries,
             \A q \in Libraries : h[q] < h[l] => F[q] = G[q]
      PROVE  step[F][l] = step[G][l]
  <2>1. PICK s \in Seq(Blocks) : s = tree.kids[l]
    BY <1>3
  <2>2. PICK part : AreSizesOf(part, F, s)
    BY <2>1, SizesExist
  <2>3. ASSUME NEW b \in ToSet(s)
        PROVE  part[b] = IF b \in Libraries THEN G[b] ELSE 0
    <3>1. b \in Blocks /\ p[b] = l
      BY <1>1, <2>1, KidsAreOwn DEF ToSet
    <3>2. l # NoLibrary /\ height[b] < height[l]
      BY <1>5, <3>1, BlocksAssumption
    <3>3. b \in Libraries => F[b] = G[b]
      BY <1>7, <1>8, <3>2
    <3>4. QED
      BY <2>2, <3>3 DEF AreSizesOf
  <2>4. AreSizesOf(part, G, s)
    BY <2>2, <2>3 DEF AreSizesOf
  <2>5. PICK f : IsCounting(f, part, s) /\ SizeStep(F, l) = f[Len(s)]
    BY <2>1, <2>2, SizeCounts
  <2>6. PICK g : IsCounting(g, part, s) /\ SizeStep(G, l) = g[Len(s)]
    BY <2>1, <2>4, SizeCounts
  <2>7. SizeStep(F, l) = SizeStep(G, l)
    BY <2>5, <2>6, CountingIsOne
  <2>8. QED
    BY <1>2, <2>7
<1>9. IsRecursion(step, Libraries, Nat, h, top)
  BY <1>4, <1>5, <1>7, <1>8 DEF IsRecursion
<1>10. PICK size \in [Libraries -> Nat] : step[size] = size
  BY <1>9, RecursionExists
<1>11. QED
  BY <1>2, <1>10

-----------------------------------------------------------------------------
(* What totalSize counts.                                                  *)

Inside(b) == {x \in Blocks \ {b} : \E n : Within(tree.parent, x, b, n)}

LEMMA InsideIsFinite ==
    ASSUME NEW U, \A x \in U : x \in Blocks
    PROVE  IsFiniteSet(U) /\ Cardinality(U) \in Nat
<1>1. IsFiniteSet(Blocks) /\ U \in SUBSET Blocks
  BY BlocksAssumption
<1>2. IsFiniteSet(U)
  BY <1>1, FS_Subset
<1>3. QED
  BY <1>2, FS_CardinalityType

\* All that is inside of the blocks of s.
AllInside(s) == UNION {Inside(b) : b \in ToSet(s)}

LEMMA CountingIs ==
    ASSUME NEW s \in Seq(Blocks), IsInjective(s), NEW part,
           \A b \in ToSet(s) : part[b] = Cardinality(Inside(b)),
           \A b, c \in ToSet(s) : b # c => Inside(b) \cap Inside(c) = {},
           NEW f, IsCounting(f, part, s)
    PROVE  f[Len(s)] = Len(s) + Cardinality(AllInside(s))
<1>1. PICK n \in Nat : n = Len(s) /\ DOMAIN s = 1 .. n
  OBVIOUS
<1>2. ToSet(s) = {s[k] : k \in 1 .. n}
  BY <1>1 DEF ToSet
<1> DEFINE Taken(k) == UNION {Inside(s[i]) : i \in 1 .. k}
           T == {k \in 0 .. n : f[k] # n + Cardinality(Taken(k))}
<1>3. T # {} => FALSE
  <2> SUFFICES ASSUME T # {}
               PROVE  FALSE
    OBVIOUS
  <2>1. PICK k \in T : \A i \in T : k <= i
    <3>1. T \subseteq Nat
      OBVIOUS
    <3> HIDE DEF T
    <3>2. QED
      BY <3>1, LeastNumber
  <2>2. k \in 0 .. n /\ f[k] # n + Cardinality(Taken(k))
    BY <2>1
  <2>3. k # 0
    <3>1. Taken(0) = {}
      OBVIOUS
    <3>2. Cardinality(Taken(0)) = 0 /\ f[0] = n
      BY <1>1, <3>1, FS_EmptySet DEF IsCounting
    <3> HIDE DEF Taken
    <3>3. QED
      BY <2>2, <3>2
  <2>4. k - 1 \in 0 .. n /\ k \in 1 .. n /\ k - 1 \notin T
    <3>1. k - 1 \in 0 .. n /\ k \in 1 .. n /\ ~ (k <= k - 1)
      BY <2>2, <2>3
    <3> HIDE DEF T
    <3>2. QED
      BY <2>1, <3>1
  <2>5. f[k - 1] = n + Cardinality(Taken(k - 1))
    BY <2>4
  <2>6. s[k] \in ToSet(s) /\ f[k] = f[k - 1] + Cardinality(Inside(s[k]))
    BY <1>1, <1>2, <2>4 DEF IsCounting
  <2>7. 1 .. k = (1 .. (k - 1)) \cup {k}
    BY <2>4
  <2>8. Taken(k) = Taken(k - 1) \cup Inside(s[k])
    BY <2>7
  <2>9. Taken(k - 1) \cap Inside(s[k]) = {}
    <3>1. ASSUME NEW i \in 1 .. (k - 1)
          PROVE  Inside(s[i]) \cap Inside(s[k]) = {}
      <4>1. i \in 1 .. n /\ i # k
        BY <2>4
      <4>2. s[i] # s[k]
        BY <1>1, <2>4, <4>1 DEF IsInjective
      <4>3. s[i] \in ToSet(s)
        BY <1>2, <4>1
      <4>4. QED
        BY <2>6, <4>2, <4>3
    <3>2. QED
      BY <3>1
  <2>10. (\A x \in Taken(k - 1) : x \in Blocks) /\ \A x \in Inside(s[k]) : x \in Blocks
    BY DEF Inside
  <2>11. PICK U, V : U = Taken(k - 1) /\ V = Inside(s[k])
    OBVIOUS
  <2>12. /\ IsFiniteSet(U) /\ Cardinality(U) \in Nat
         /\ IsFiniteSet(V) /\ Cardinality(V) \in Nat
    BY <2>10, <2>11, InsideIsFinite
  <2>13. Cardinality(U \cup V) = Cardinality(U) + Cardinality(V) - Cardinality(U \cap V)
    BY <2>12, FS_Union
  <2>14. Cardinality(U \cap V) = 0
    BY <2>9, <2>11, FS_EmptySet
  <2> HIDE DEF Taken, T
  <2>15. QED
    BY <2>2, <2>5, <2>6, <2>8, <2>11, <2>12, <2>13, <2>14
<1>4. n \in 0 .. n
  OBVIOUS
<1>5. Taken(n) = AllInside(s)
  BY <1>2 DEF AllInside
<1>6. QED
  BY <1>1, <1>3, <1>4, <1>5

(* A list that lists nothing twice is as long as the set of what it lists. *)
LEMMA LengthOfInjective ==
    ASSUME NEW s \in Seq(Blocks), IsInjective(s)
    PROVE  IsFiniteSet(ToSet(s)) /\ Cardinality(ToSet(s)) = Len(s)
<1>1. PICK n \in Nat : n = Len(s) /\ DOMAIN s = 1 .. n
  OBVIOUS
<1>2. PICK g : g = [k \in 1 .. n |-> s[k]]
  OBVIOUS
<1>3. g \in Bijection(1 .. n, ToSet(s))
  BY <1>1, <1>2 DEF Bijection, Injection, Surjection, IsInjective, ToSet
<1>4. IsFiniteSet(1 .. n) /\ Cardinality(1 .. n) = n
  <2>1. 1 \in Int /\ n \in Int /\ (IF 1 > n THEN 0 ELSE n - 1 + 1) = n
    OBVIOUS
  <2>2. QED
    BY <2>1, FS_Interval
<1>5. ExistsBijection(1 .. n, ToSet(s))
  BY <1>3 DEF ExistsBijection
<1>6. QED
  BY <1>1, <1>4, <1>5, FS_Bijection

CountsInside(F, l) == \A b \in ToSet(tree.kids[l]) \cap Libraries : F[b] = Cardinality(Inside(b))

LEMMA SizeStepIsExact ==
    ASSUME Sound(tree), NoCycle(tree.parent), NEW l \in Libraries, NEW F, CountsInside(F, l)
    PROVE  SizeStep(F, l) = Cardinality(Inside(l))
<1>1. PICK p : p = tree.parent /\ p \in Parents /\ NoCycle(p)
  BY TreeFields DEF Sound, Parents
<1>2. PICK s \in Seq(Blocks) : s = tree.kids[l] /\ IsInjective(s)
  BY KidsAreOwn
<1>3. l \in Blocks
  BY BlocksAssumption
<1>4. ToSet(s) = {b \in Blocks : p[b] = l}
  <2>1. \A b \in Blocks : p[b] = l <=> \E j \in DOMAIN s : s[j] = b
    BY <1>1, <1>2, KidsAreOwn
  <2>2. \A j \in DOMAIN s : s[j] \in Blocks
    BY <1>2
  <2>3. QED
    BY <2>1, <2>2 DEF ToSet
<1>5. \A b \in Blocks : \A x \in Inside(b) : x \in Blocks /\ x # b /\ \E n : Within(p, x, b, n)
  BY <1>1 DEF Inside
<1>6. \A b \in Blocks : IsFiniteSet(Inside(b)) /\ Cardinality(Inside(b)) \in Nat
  BY <1>5, InsideIsFinite
<1>7. \A b \in ToSet(s) \cap Libraries : F[b] \in Nat
  BY <1>2, <1>4, <1>6 DEF CountsInside
<1>8. PICK part : AreSizesOf(part, F, s)
  BY <1>2, <1>7, SizesExist
<1>9. ASSUME NEW b \in ToSet(s)
      PROVE  part[b] = Cardinality(Inside(b))
  <2>1. part[b] = IF b \in Libraries THEN F[b] ELSE 0
    BY <1>8 DEF AreSizesOf
  <2>2. CASE b \in Libraries
    BY <1>2, <2>1, <2>2 DEF CountsInside
  <2>3. CASE b \notin Libraries
    <3>1. Inside(b) = {}
      BY <1>1, <1>4, <1>5, <2>3, OnlyItselfIsWithin
    <3>2. QED
      BY <2>1, <2>3, <3>1, FS_EmptySet
  <2>4. QED
    BY <2>2, <2>3
<1>10. ASSUME NEW b \in ToSet(s), NEW x \in Blocks, NEW m, Within(p, x, b, m)
       PROVE  x # l /\ \A c \in ToSet(s) : \A n : Within(p, x, c, n) => c = b
  <2>1. b \in Blocks /\ p[b] = l /\ \A c \in ToSet(s) : c \in Blocks /\ p[c] = l
    BY <1>4
  <2>2. x # l /\ \A c \in Blocks : \A n : p[c] = l /\ Within(p, x, c, n) => c = b
    BY <1>1, <1>10, <2>1, KidsAreApart
  <2>3. QED
    BY <2>1, <2>2
<1>11. \A b, c \in ToSet(s) : b # c => Inside(b) \cap Inside(c) = {}
  BY <1>4, <1>5, <1>10
<1>12. PICK f : IsCounting(f, part, s) /\ SizeStep(F, l) = f[Len(s)]
  <2>1. s \in Seq(Blocks) /\ s = tree.kids[l]
    BY <1>2
  <2>2. QED
    BY <1>8, <2>1, SizeCounts
<1>13. f[Len(s)] = Len(s) + Cardinality(AllInside(s))
  BY <1>2, <1>9, <1>11, <1>12, CountingIs
<1>14. \A b \in ToSet(s) : Within(p, b, b, 0)
  BY <1>1, <1>4, OnlyItselfIsWithin
<1>15. ToSet(s) \cap AllInside(s) = {}
  <2>1. ASSUME NEW x \in ToSet(s), NEW b \in ToSet(s), x \in Inside(b)
        PROVE  FALSE
    <3>1. x \in Blocks /\ x # b /\ Within(p, x, x, 0) /\ \E n : Within(p, x, b, n)
      BY <1>4, <1>5, <1>14, <2>1
    <3>2. QED
      BY <1>10, <3>1
  <2>2. QED
    BY <2>1 DEF AllInside
<1>16. Inside(l) = ToSet(s) \cup AllInside(s)
  <2>1. ASSUME NEW x \in Inside(l)
        PROVE  x \in ToSet(s) \cup AllInside(s)
    <3>1. PICK n : x \in Blocks /\ x # l /\ Within(p, x, l, n)
      BY <1>3, <1>5, <2>1
    <3>2. n \in Nat /\ n # 0
      BY <1>1, <1>3, <3>1, OnlyItselfIsWithin DEF Within
    <3>3. n - 1 \in Nat /\ (n - 1) + 1 = n
      BY <3>2
    <3>4. PICK b \in Blocks : p[b] = l /\ Within(p, x, b, n - 1)
      BY <1>1, <3>1, <3>3, WithinOneKid
    <3>5. b \in ToSet(s) /\ (x = b \/ x \in Inside(b))
      BY <1>1, <1>4, <3>1, <3>4 DEF Inside
    <3>6. QED
      BY <3>5 DEF AllInside
  <2>2. ASSUME NEW x, NEW b \in ToSet(s), x = b \/ x \in Inside(b)
        PROVE  x \in Inside(l)
    <3>1. b \in Blocks /\ p[b] = l
      BY <1>4
    <3>2. x \in Blocks
      BY <1>5, <2>2, <3>1
    <3>3. PICK n : Within(p, x, b, n)
      BY <1>5, <1>14, <2>2, <3>1
    <3>4. n \in Nat
      BY <3>3 DEF Within
    <3>5. Within(p, x, l, n + 1)
      BY <1>1, <3>1, <3>2, <3>3, <3>4, WithinOneKid
    <3>6. x # l
      BY <1>10, <3>2, <3>3
    <3>7. QED
      BY <1>1, <3>2, <3>5, <3>6 DEF Inside
  <2>3. QED
    BY <2>1, <2>2 DEF AllInside
<1>17. IsFiniteSet(ToSet(s)) /\ Cardinality(ToSet(s)) = Len(s) /\ Len(s) \in Nat
  BY <1>2, LengthOfInjective
<1>18. PICK U, V : U = ToSet(s) /\ V = AllInside(s)
  OBVIOUS
<1>19. IsFiniteSet(V) /\ Cardinality(V) \in Nat
  <2>1. \A x \in V : x \in Blocks
    BY <1>4, <1>5, <1>18 DEF AllInside
  <2>2. QED
    BY <2>1, InsideIsFinite
<1>20. Cardinality(U \cup V) = Cardinality(U) + Cardinality(V) - Cardinality(U \cap V)
  BY <1>17, <1>18, <1>19, FS_Union
<1>21. Cardinality(U \cap V) = 0
  BY <1>15, <1>18, FS_EmptySet
<1>22. QED
  BY <1>12, <1>13, <1>16, <1>17, <1>18, <1>19, <1>20, <1>21

LEMMA SizeIsExact ==
    ASSUME Sound(tree), NoCycle(tree.parent), NEW lib \in Libraries
    PROVE  TotalSize(tree, lib) = Cardinality(Inside(lib))
<1>1. PICK p : p = tree.parent /\ p \in Parents /\ NoCycle(p)
  BY TreeFields DEF Sound, Parents
<1> DEFINE Is(size) == size = [l \in Libraries |-> SizeStep(size, l)]
<1>2. TotalSize(tree, lib) = (CHOOSE size : Is(size))[lib]
  BY DEF TotalSize, SizeStep
<1>3. \E size \in [Libraries -> Nat] : Is(size)
  BY SizeExists
<1>4. PICK size : size = CHOOSE g : Is(g)
  OBVIOUS
<1>5. Is(size)
  BY <1>3, <1>4
<1> HIDE DEF Is
<1>6. PICK height \in [Blocks -> Nat], top \in Nat :
          \A x \in Blocks : height[x] < top /\ (p[x] # NoLibrary => height[x] < height[p[x]])
  BY <1>1, HeightsExist
<1> DEFINE T == {n \in Nat : \E l \in Libraries :
                                 height[l] = n /\ size[l] # Cardinality(Inside(l))}
<1>7. ASSUME T # {}
      PROVE  FALSE
  <2>1. PICK n \in T : \A m \in T : n <= m
    <3>1. T \subseteq Nat
      OBVIOUS
    <3> HIDE DEF T
    <3>2. QED
      BY <1>7, <3>1, LeastNumber
  <2>2. PICK l \in Libraries : height[l] = n /\ size[l] # Cardinality(Inside(l))
    BY <2>1
  <2>3. ASSUME NEW b \in ToSet(tree.kids[l]) \cap Libraries
        PROVE  size[b] = Cardinality(Inside(b))
    <3>1. b \in Blocks /\ p[b] = l /\ l \in Blocks /\ l # NoLibrary
      BY <1>1, KidsAreOwn, BlocksAssumption DEF ToSet
    <3>2. height[b] \in Nat /\ height[b] < n
      BY <1>6, <2>2, <3>1
    <3>3. height[b] \notin T
      <4>1. ~ (n <= height[b]) /\ n \in Nat
        BY <2>1, <3>2
      <4> HIDE DEF T
      <4>2. QED
        BY <2>1, <4>1
    <3>4. QED
      BY <3>2, <3>3
  <2>4. SizeStep(size, l) = Cardinality(Inside(l))
    BY <2>3, SizeStepIsExact DEF CountsInside
  <2>5. size[l] = SizeStep(size, l)
    BY <1>5 DEF Is
  <2>6. QED
    BY <2>2, <2>4, <2>5
<1>8. size[lib] = Cardinality(Inside(lib))
  <2>1. height[lib] \in Nat
    BY BlocksAssumption
  <2>2. QED
    BY <1>7, <2>1
<1>9. QED
  BY <1>2, <1>4, <1>8

-----------------------------------------------------------------------------
LEMMA QueriesAreExactInTrees ==
    ASSUME Sound(tree), NoCycle(tree.parent)
    PROVE  QueriesAreExact
<1>1. tree.parent \in Parents
  BY TreeFields DEF Sound, Parents
<1>2. ASSUME NEW x \in Blocks, NEW lib \in Libraries
      PROVE  \A n : n \in LevelsUp(x, lib) <=> Within(tree.parent, x, lib, n)
  BY <1>1, LevelsUpIs DEF Within
<1>3. ASSUME NEW lib \in Libraries
      PROVE  TotalSize(tree, lib) = Cardinality({b \in Blocks \ {lib} : LevelsUp(b, lib) # {}})
  <2>1. {b \in Blocks \ {lib} : LevelsUp(b, lib) # {}} = Inside(lib)
    BY <1>2 DEF Inside
  <2>2. QED
    BY <2>1, SizeIsExact
<1>4. ASSUME NEW lib \in Libraries, NEW class \in Classes, NEW maxDepth \in {-1, 0, 1}
      PROVE  LET found == FindChildren(tree, lib, class, maxDepth)
             IN  /\ IsInjective(found)
                 /\ ToSet(found) = {b \in Blocks : FastInherits(b, class) /\
                        \E n \in LevelsUp(b, lib) : maxDepth = -1 \/ n <= maxDepth}
  <2>1. maxDepth \in Int
    OBVIOUS
  <2>2. IsExact(FindChildren(tree, lib, class, maxDepth), class, lib, maxDepth)
    BY <2>1, FindIsExact
  <2>3. FoundBelow(class, lib, maxDepth)
            = {b \in Blocks : FastInherits(b, class) /\
                   \E n \in LevelsUp(b, lib) : maxDepth = -1 \/ n <= maxDepth}
    <3>1. maxDepth < 0 <=> maxDepth = -1
      OBVIOUS
    <3>2. QED
      BY <1>2, <3>1 DEF FoundBelow
  <2>4. QED
    BY <2>2, <2>3 DEF IsExact
<1>5. QED
  BY <1>3, <1>4 DEF QueriesAreExact

(* findChildren with any class and any depth, negative ones for no limit,  *)
(* finds after every call, and between the steps of a destruction, the     *)
(* blocks of the class that are in the library, at most that deep, each    *)
(* once.                                                                   *)
THEOREM SearchesAreExactHolds ==
    ASSUME "addBlock" \notin Reparent, NEW class, NEW lib \in Libraries, NEW maxDepth \in Int
    PROVE  Spec => []IsExact(FindChildren(tree, lib, class, maxDepth), class, lib, maxDepth)
<1>1. BlockTreeInv /\ NoCycle(tree.parent)
         => IsExact(FindChildren(tree, lib, class, maxDepth), class, lib, maxDepth)
  BY FindIsExact DEF BlockTreeInv
<1>2. QED
  BY <1>1, BlockTreeInvHolds, NoCycleHolds, PTL

(* The lists that findChildren and totalSize go down agree with the way up *)
(* from the blocks: findChildren finds, and totalSize counts, just what    *)
(* has the library above it, also between the steps of a destruction.      *)
THEOREM QueriesAreExactHolds ==
    ASSUME "addBlock" \notin Reparent
    PROVE  Spec => []QueriesAreExact
<1>1. BlockTreeInv /\ NoCycle(tree.parent) => QueriesAreExact
  BY QueriesAreExactInTrees DEF BlockTreeInv
<1>2. QED
  BY <1>1, BlockTreeInvHolds, NoCycleHolds, PTL
=============================================================================
