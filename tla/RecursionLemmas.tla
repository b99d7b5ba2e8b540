---------------------------- MODULE RecursionLemmas ----------------------------
(***************************************************************************)
(* A recursive function is a CHOOSE: what can be said of its values rests  *)
(* on its existence.  The lemmas show it for the forms of recursion that   *)
(* the models use; each step of a recursion is given as a function.        *)
(***************************************************************************)
EXTENDS FiniteSetsExt, WellFoundedInduction, TLAPS

(* Every set of numbers that is not empty has a least one.                 *)
LEMMA LeastNumber ==
    ASSUME NEW T, T \subseteq Nat, T # {}
    PROVE  \E x \in T : \A y \in T : x <= y
<1>1. \E R : R = {ss \in Nat \X Nat : ss[1] < ss[2]} /\ IsWellFoundedOn(R, Nat)
  <2>1. OpToRel(<, Nat) = {ss \in Nat \X Nat : ss[1] < ss[2]}
    BY DEF OpToRel
  <2>2. QED
    BY <2>1, NatLessThanWellFounded
<1>2. PICK R : R = {ss \in Nat \X Nat : ss[1] < ss[2]} /\ IsWellFoundedOn(R, Nat)
  BY <1>1
<1>3. PICK x \in T : \A y \in T : ~ (<<y, x>> \in R)
  BY <1>2, WFMin
<1>4. ASSUME NEW y \in T
      PROVE  x <= y
  <2>1. x \in Nat /\ y \in Nat /\ ~ (<<y, x>> \in R)
    BY <1>3
  <2>2. ~ (y < x)
    BY <1>2, <2>1
  <2>3. QED
    BY <2>1, <2>2
<1>5. QED
  BY <1>4

(* What is iterated exists: next[k][w] comes after w, the value of k.      *)
IsIteration(f, S, first, next, n) ==
    /\ f \in [0 .. n -> S] /\ f[0] = first
    /\ \A k \in 0 .. n : k # 0 => f[k] = next[k - 1][f[k - 1]]

LEMMA IterationExists ==
    ASSUME NEW S, NEW first \in S, NEW next \in [Nat -> [S -> S]], NEW n \in Nat
    PROVE  \E f : IsIteration(f, S, first, next, n)
<1> DEFINE T == {m \in Nat : ~ \E f : IsIteration(f, S, first, next, m)}
<1>1. SUFFICES ASSUME T # {}
               PROVE  FALSE
  OBVIOUS
<1>2. PICK m \in T : \A k \in T : m <= k
  BY <1>1, LeastNumber
<1>3. m \in Nat /\ ~ \E f : IsIteration(f, S, first, next, m)
  BY <1>2
<1>4. CASE m = 0
  <2>1. PICK f : f = [k \in 0 .. 0 |-> first]
    OBVIOUS
  <2>2. IsIteration(f, S, first, next, 0)
    BY <2>1 DEF IsIteration
  <2>3. QED
    BY <1>3, <1>4, <2>2
<1>5. CASE m # 0
  <2>1. m - 1 \in Nat /\ ~ (m - 1 \in T)
    BY <1>2, <1>3, <1>5
  <2>2. PICK f : IsIteration(f, S, first, next, m - 1)
    BY <2>1
  <2>3. PICK g : g = [k \in 0 .. m |-> IF k = m THEN next[m - 1][f[m - 1]] ELSE f[k]]
    OBVIOUS
  <2>4. f \in [0 .. m - 1 -> S] /\ f[m - 1] \in S
    BY <2>1, <2>2 DEF IsIteration
  <2>5. next[m - 1][f[m - 1]] \in S
    BY <2>1, <2>4
  <2>6. g \in [0 .. m -> S]
    <3>1. \A k \in 0 .. m : k # m => k \in 0 .. m - 1
      BY <1>3
    <3>2. QED
      BY <2>3, <2>4, <2>5, <3>1
  <2>7. g[0] = first
    BY <1>3, <1>5, <2>2, <2>3 DEF IsIteration
  <2>8. ASSUME NEW k \in 0 .. m, k # 0
        PROVE  g[k] = next[k - 1][g[k - 1]]
    <3>1. k - 1 \in 0 .. m /\ k - 1 # m /\ g[k - 1] = f[k - 1]
      BY <1>3, <2>3, <2>8
    <3>2. CASE k = m
      BY <2>3, <3>1, <3>2
    <3>3. CASE k # m
      <4>1. k \in 0 .. m - 1 /\ g[k] = f[k]
        BY <1>3, <2>3, <3>3
      <4>2. QED
        BY <2>2, <2>8, <3>1, <4>1 DEF IsIteration
    <3>4. QED
      BY <3>2, <3>3
  <2>9. QED
    BY <1>3, <2>6, <2>7, <2>8 DEF IsIteration
<1>6. QED
  BY <1>4, <1>5

(* What holds of the first value and is passed on holds of every value.    *)
LEMMA IterationIsTyped ==
    ASSUME NEW f, NEW S, NEW n \in Nat, f[0] \in S,
           \A k \in 0 .. n : k # 0 /\ f[k - 1] \in S => f[k] \in S
    PROVE  \A k \in 0 .. n : f[k] \in S
<1> DEFINE T == {k \in 0 .. n : f[k] \notin S}
<1>1. SUFFICES ASSUME T # {}
               PROVE  FALSE
  OBVIOUS
<1>2. PICK m \in T : \A k \in T : m <= k
  <2>1. T \subseteq Nat
    OBVIOUS
  <2> HIDE DEF T
  <2>2. QED
    BY <1>1, <2>1, LeastNumber
<1>3. m \in 0 .. n /\ f[m] \notin S /\ m # 0
  BY <1>2
<1>4. m - 1 \in 0 .. n /\ m - 1 \notin T
  BY <1>2, <1>3
<1>5. QED
  BY <1>3, <1>4

(* The same over all numbers.                                              *)
IsEndless(f, S, first, next) ==
    f \in [Nat -> S] /\ f[0] = first /\ \A k \in Nat : f[k + 1] = next[k][f[k]]

LEMMA SameIteration ==
    ASSUME NEW S, NEW first \in S, NEW next, NEW m \in Nat, NEW n \in Nat, m <= n,
           NEW f, IsIteration(f, S, first, next, m), NEW g, IsIteration(g, S, first, next, n)
    PROVE  f[m] = g[m]
<1> DEFINE T == {k \in 0 .. m : f[k] # g[k]}
<1>1. SUFFICES ASSUME T # {}
               PROVE  FALSE
  OBVIOUS
<1>2. PICK k \in T : \A i \in T : k <= i
  <2>1. T \subseteq Nat
    OBVIOUS
  <2> HIDE DEF T
  <2>2. QED
    BY <1>1, <2>1, LeastNumber
<1>3. k \in 0 .. m /\ k \in 0 .. n /\ f[k] # g[k] /\ k # 0
  BY <1>2 DEF IsIteration
<1>4. k - 1 \in 0 .. m /\ f[k - 1] = g[k - 1]
  BY <1>2, <1>3
<1>5. f[k] = next[k - 1][f[k - 1]] /\ g[k] = next[k - 1][g[k - 1]]
  BY <1>3 DEF IsIteration
<1>6. QED
  BY <1>3, <1>4, <1>5

LEMMA EndlessExists ==
    ASSUME NEW S, NEW first \in S, NEW next \in [Nat -> [S -> S]]
    PROVE  \E f : IsEndless(f, S, first, next)
<1> DEFINE upTo(n) == CHOOSE g : IsIteration(g, S, first, next, n)
           f == [n \in Nat |-> upTo(n)[n]]
<1>1. \A n \in Nat : IsIteration(upTo(n), S, first, next, n)
  BY IterationExists
<1> HIDE DEF upTo
<1>2. \A n \in Nat : f[n] \in S
  BY <1>1 DEF IsIteration
<1>3. f[0] = first
  BY <1>1 DEF IsIteration
<1>4. ASSUME NEW k \in Nat
      PROVE  f[k + 1] = next[k][f[k]]
  <2>1. k + 1 \in Nat /\ k + 1 \in 0 .. k + 1 /\ k + 1 # 0 /\ (k + 1) - 1 = k /\ k <= k + 1
    OBVIOUS
  <2>2. upTo(k + 1)[k + 1] = next[k][upTo(k + 1)[k]]
    BY <1>1, <2>1 DEF IsIteration
  <2>3. upTo(k)[k] = upTo(k + 1)[k]
    BY <1>1, <2>1, SameIteration
  <2>4. QED
    BY <2>1, <2>2, <2>3
<1> HIDE DEF f
<1>5. IsEndless([n \in Nat |-> f[n]], S, first, next)
  BY <1>2, <1>3, <1>4 DEF IsEndless
<1>6. QED
  BY <1>5

-----------------------------------------------------------------------------
LEMMA MaxIsGreatest ==
    ASSUME NEW n \in Nat, NEW U \in SUBSET (1 .. n), U # {}
    PROVE  Max(U) \in U /\ \A x \in U : x <= Max(U)
<1> DEFINE T == {n - x : x \in U}
<1>1. PICK d \in T : \A e \in T : d <= e
  <2>1. T \subseteq Nat
    <3>1. \A x \in U : n - x \in Nat
      OBVIOUS
    <3>2. QED
      BY <3>1
  <2>2. T # {}
    OBVIOUS
  <2> HIDE DEF T
  <2>3. QED
    BY <2>1, <2>2, LeastNumber
<1>2. PICK m \in U : d = n - m
  BY <1>1
<1>3. \A x \in U : m >= x
  <2> TAKE x \in U
  <2>1. n - m <= n - x
    BY <1>1, <1>2
  <2>2. QED
    BY <2>1
<1>4. \E x \in U : \A y \in U : x >= y
  BY <1>3
<1>5. Max(U) \in U /\ \A y \in U : Max(U) >= y
  BY <1>4 DEF Max
<1>6. QED
  BY <1>5

(* The fold of a sequence of n elements from the left exists: op[k] takes  *)
(* in element k.                                                           *)
IsFold(iter, V, base, n, op) ==
    /\ iter \in [SUBSET (1 .. n) -> V]
    /\ \A U \in SUBSET (1 .. n) :
           iter[U] = IF U = {} THEN base ELSE op[Max(U)][iter[U \ {Max(U)}]]

LEMMA FoldExists ==
    ASSUME NEW V, NEW base \in V, NEW n \in Nat, NEW op \in [1 .. n -> [V -> V]]
    PROVE  \E iter : IsFold(iter, V, base, n, op)
<1> DEFINE S == [SUBSET (1 .. n) -> V]
           next == [k \in Nat |-> [g \in S |->
                       [U \in SUBSET (1 .. n) |->
                            IF k + 1 \in U THEN op[k + 1][g[U \ {k + 1}]] ELSE g[U]]]]
           first == [U \in SUBSET (1 .. n) |-> base]
<1>1. first \in S /\ next \in [Nat -> [S -> S]]
  <2>1. ASSUME NEW k \in Nat, NEW g \in S, NEW U \in SUBSET (1 .. n)
        PROVE  (IF k + 1 \in U THEN op[k + 1][g[U \ {k + 1}]] ELSE g[U]) \in V
    <3>1. U \ {k + 1} \in SUBSET (1 .. n)
      OBVIOUS
    <3>2. g[U \ {k + 1}] \in V /\ g[U] \in V
      BY <3>1
    <3>3. k + 1 \in U => op[k + 1][g[U \ {k + 1}]] \in V
      <4>1. ASSUME k + 1 \in U
            PROVE  op[k + 1] \in [V -> V]
        BY <4>1
      <4>2. QED
        BY <3>2, <4>1
    <3>4. QED
      BY <3>2, <3>3
  <2>2. QED
    BY <2>1
<1>2. PICK f : IsIteration(f, S, first, next, n)
  <2> HIDE DEF S, next, first
  <2>1. QED
    BY <1>1, IterationExists
<1>3. ASSUME NEW k \in 1 .. n, NEW U \in SUBSET (1 .. n)
      PROVE  f[k][U] = IF k \in U THEN op[k][f[k - 1][U \ {k}]] ELSE f[k - 1][U]
  <2>1. k \in 0 .. n /\ k # 0 /\ k - 1 \in 0 .. n /\ k - 1 \in Nat /\ (k - 1) + 1 = k
    OBVIOUS
  <2>2. f[k - 1] \in S /\ f[k] = next[k - 1][f[k - 1]]
    BY <1>2, <2>1 DEF IsIteration
  <2>3. PICK g : g = f[k - 1]
    OBVIOUS
  <2>4. next[k - 1][g][U] = IF k \in U THEN op[k][g[U \ {k}]] ELSE g[U]
    BY <2>1, <2>2, <2>3
  <2>5. QED
    BY <2>2, <2>3, <2>4
<1>4. ASSUME NEW U \in SUBSET (1 .. n), NEW k \in 0 .. n, \A x \in U : x <= k
      PROVE  f[n][U] = f[k][U]
  <2> DEFINE T == {j \in k .. n : f[j][U] # f[k][U]}
  <2>1. SUFFICES ASSUME T # {}
                 PROVE  FALSE
    OBVIOUS
  <2>2. PICK j \in T : \A i \in T : j <= i
    <3>1. T \subseteq Nat
      OBVIOUS
    <3> HIDE DEF T
    <3>2. QED
      BY <2>1, <3>1, LeastNumber
  <2>3. j \in k .. n /\ f[j][U] # f[k][U] /\ j # k
    BY <2>2
  <2>4. j - 1 \in k .. n /\ j \in 1 .. n /\ j \notin U /\ ~ (j <= j - 1)
    BY <1>4, <2>3
  <2>5. f[j - 1][U] = f[k][U]
    BY <2>2, <2>4
  <2>6. QED
    BY <1>3, <2>3, <2>4, <2>5
<1>5. f[n] \in S
  BY <1>2 DEF IsIteration
<1>6. ASSUME NEW U \in SUBSET (1 .. n)
      PROVE  f[n][U] = IF U = {} THEN base ELSE op[Max(U)][f[n][U \ {Max(U)}]]
  <2>1. CASE U = {}
    <3>1. f[n][U] = f[0][U]
      BY <1>4, <2>1
    <3>2. f[0] = first
      BY <1>2 DEF IsIteration
    <3>3. QED
      BY <2>1, <3>1, <3>2
  <2>2. CASE U # {}
    <3>1. PICK m : m = Max(U)
      OBVIOUS
    <3>2. m \in U /\ \A x \in U : x <= m
      BY <2>2, <3>1, MaxIsGreatest
    <3>3. m \in 1 .. n /\ m \in 0 .. n /\ m - 1 \in 0 .. n
      BY <3>2
    <3>4. f[n][U] = op[m][f[m - 1][U \ {m}]]
      BY <1>3, <1>4, <3>2, <3>3
    <3>5. U \ {m} \in SUBSET (1 .. n) /\ \A x \in U \ {m} : x <= m - 1
      BY <3>2, <3>3
    <3>6. f[n][U \ {m}] = f[m - 1][U \ {m}]
      BY <1>4, <3>3, <3>5
    <3>7. QED
      BY <2>2, <3>1, <3>4, <3>6
  <2>3. QED
    BY <2>1, <2>2
<1>7. IsFold(f[n], V, base, n, op)
  BY <1>5, <1>6 DEF IsFold
<1>8. QED
  BY <1>7

(* Recursion along a height: step computes the values of a function from   *)
(* its values at lower places.                                             *)
IsRecursion(step, D, V, height, top) ==
    /\ V # {} /\ step \in [[D -> V] -> [D -> V]]
    /\ height \in [D -> Nat] /\ top \in Nat /\ \A p \in D : height[p] < top
    /\ \A f, g \in [D -> V] : \A p \in D :
           (\A q \in D : height[q] < height[p] => f[q] = g[q]) => step[f][p] = step[g][p]

LEMMA RecursionExists ==
    ASSUME NEW D, NEW V, NEW step, NEW height, NEW top, IsRecursion(step, D, V, height, top)
    PROVE  \E f \in [D -> V] : step[f] = f
<1> USE DEF IsRecursion
<1> DEFINE S == [D -> V]
           next == [k \in Nat |-> step]
<1>1. PICK v \in V : TRUE
  OBVIOUS
<1>2. PICK first : first = [p \in D |-> v]
  OBVIOUS
<1>3. first \in S /\ next \in [Nat -> [S -> S]]
  BY <1>2
<1>4. PICK f : IsIteration(f, S, first, next, top + 1)
  <2>1. top + 1 \in Nat
    OBVIOUS
  <2> HIDE DEF S, next
  <2>2. QED
    BY <1>3, <2>1, IterationExists
<1>5. ASSUME NEW k \in 0 .. top
      PROVE  f[k] \in S /\ f[k + 1] \in S /\ f[k + 1] = step[f[k]]
  <2>1. k \in 0 .. top + 1 /\ k + 1 \in 0 .. top + 1 /\ k + 1 # 0 /\ (k + 1) - 1 = k /\ k \in Nat
    OBVIOUS
  <2>2. f[k] \in S /\ f[k + 1] \in S /\ f[k + 1] = next[k][f[k]]
    BY <1>4, <2>1 DEF IsIteration
  <2>3. QED
    BY <2>1, <2>2
<1>6. ASSUME NEW k \in 0 .. top, NEW p \in D, height[p] < k
      PROVE  f[k][p] = f[k + 1][p]
  <2> DEFINE T == {j \in 0 .. top : \E q \in D : height[q] < j /\ f[j][q] # f[j + 1][q]}
  <2>1. SUFFICES ASSUME T # {}
                 PROVE  FALSE
    BY <1>6
  <2>2. PICK j \in T : \A i \in T : j <= i
    <3>1. T \subseteq Nat
      OBVIOUS
    <3> HIDE DEF T
    <3>2. QED
      BY <2>1, <3>1, LeastNumber
  <2>3. PICK q \in D : height[q] < j /\ f[j][q] # f[j + 1][q]
    BY <2>2
  <2>4. j \in 0 .. top /\ j # 0 /\ height[q] \in Nat
    BY <2>2, <2>3
  <2>5. j - 1 \in 0 .. top /\ (j - 1) + 1 = j /\ j - 1 \notin T
    BY <2>2, <2>4
  <2>6. \A r \in D : height[r] < height[q] => f[j - 1][r] = f[j][r]
    <3> SUFFICES ASSUME NEW r \in D, height[r] < height[q]
                 PROVE  f[j - 1][r] = f[j][r]
      OBVIOUS
    <3>1. height[r] \in Nat /\ height[r] < j - 1
      BY <2>3, <2>4
    <3>2. QED
      BY <2>5, <3>1
  <2>7. /\ f[j - 1] \in S /\ f[j] \in S /\ f[j + 1] = step[f[j]] /\ f[j] = step[f[j - 1]]
    BY <1>5, <2>4, <2>5
  <2>8. step[f[j - 1]][q] = step[f[j]][q]
    BY <2>3, <2>6, <2>7
  <2>9. QED
    BY <2>3, <2>7, <2>8
<1>7. top \in 0 .. top
  OBVIOUS
<1>8. f[top] \in S /\ f[top + 1] \in S /\ f[top + 1] = step[f[top]]
  BY <1>5, <1>7
<1>9. \A p \in D : f[top][p] = f[top + 1][p]
  BY <1>6, <1>7
<1>10. f[top] = f[top + 1]
  BY <1>8, <1>9
<1>11. QED
  BY <1>8, <1>10
====
