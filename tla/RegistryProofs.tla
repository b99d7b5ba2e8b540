--------------------------- MODULE RegistryProofs ---------------------------
(***************************************************************************)
(* The invariants of Registry, for any modules, classes, extensions and    *)
(* runners, whether or not the IDs of the classes collide.                 *)
(***************************************************************************)
EXTENDS Registry, TLAPS

(* Removing the one occurrence of x closes the gap.                        *)
LEMMA RemoveOneProperties ==
    ASSUME NEW S, NEW s \in Seq(S), NEW x, \E k \in DOMAIN s : s[k] = x
    PROVE  /\ RemoveOne(s, x) \in Seq(S)
           /\ \E i \in DOMAIN s :
               /\ s[i] = x
               /\ Len(RemoveOne(s, x)) = Len(s) - 1
               /\ \A j \in DOMAIN RemoveOne(s, x) :
                   RemoveOne(s, x)[j] = IF j < i THEN s[j] ELSE s[j + 1]
<1> DEFINE i == CHOOSE n \in DOMAIN s : s[n] = x
           a == SubSeq(s, 1, i - 1)
           c == SubSeq(s, i + 1, Len(s))
<1>1. i \in 1 .. Len(s) /\ s[i] = x
  OBVIOUS
<1>2. RemoveOne(s, x) = a \o c
  BY DEF RemoveOne, RemoveAt
<1> HIDE DEF i
<1>3. /\ a \in Seq(S) /\ Len(a) = i - 1
      /\ \A j \in 1 .. i - 1 : a[j] = s[j]
  BY <1>1
<1>4. /\ c \in Seq(S) /\ Len(c) = Len(s) - i
      /\ \A j \in 1 .. Len(s) - i : c[j] = s[i + j]
  BY <1>1
<1> HIDE DEF a, c
<1>5. /\ a \o c \in Seq(S) /\ Len(a \o c) = Len(s) - 1
      /\ \A j \in 1 .. Len(s) - 1 :
          (a \o c)[j] = IF j <= i - 1 THEN a[j] ELSE c[j - (i - 1)]
  <2>1. a \o c \in Seq(S)
    BY <1>3, <1>4
  <2>2. Len(a) = i - 1 /\ Len(a) + Len(c) = Len(s) - 1
    BY <1>1, <1>3, <1>4
  <2>3. Len(a \o c) = Len(a) + Len(c)
    <3>1. a \in Seq(S) /\ c \in Seq(S)
      BY <1>3, <1>4
    <3>2. QED
      BY ONLY <3>1
  <2>4. \A j \in 1 .. Len(a) + Len(c) :
            (a \o c)[j] = IF j <= Len(a) THEN a[j] ELSE c[j - Len(a)]
    <3>1. a \in Seq(S) /\ c \in Seq(S)
      BY <1>3, <1>4
    <3>2. QED
      BY ONLY <3>1
  <2>5. QED
    BY <2>1, <2>2, <2>3, <2>4
<1>6. ASSUME NEW j \in 1 .. Len(s) - 1
      PROVE  (a \o c)[j] = IF j < i THEN s[j] ELSE s[j + 1]
  <2>1. CASE j < i
    <3>1. j \in 1 .. i - 1
      BY <1>1, <2>1
    <3>2. (a \o c)[j] = a[j]
      BY <1>1, <1>5, <2>1
    <3>3. QED
      BY <1>3, <2>1, <3>1, <3>2
  <2>2. CASE ~(j < i)
    <3>1. j - (i - 1) \in 1 .. Len(s) - i /\ i + (j - (i - 1)) = j + 1
      BY <1>1, <2>2
    <3>2. (a \o c)[j] = c[j - (i - 1)]
      BY <1>1, <1>5, <2>2
    <3>3. c[j - (i - 1)] = s[i + (j - (i - 1))]
      BY <1>4, <3>1
    <3>4. QED
      BY <2>2, <3>1, <3>2, <3>3
  <2>3. QED
    BY <2>1, <2>2
<1> DEFINE r == a \o c
<1>7. r \in Seq(S) /\ Len(r) = Len(s) - 1
      /\ \A j \in 1 .. Len(s) - 1 : r[j] = IF j < i THEN s[j] ELSE s[j + 1]
  BY <1>5, <1>6
<1>8. RemoveOne(s, x) = r
  BY <1>2
<1> HIDE DEF r
<1>9. DOMAIN r = 1 .. Len(s) - 1 /\ DOMAIN s = 1 .. Len(s)
  BY <1>7
<1>10. QED
  BY <1>1, <1>7, <1>8, <1>9

(* Sorting gives a list of the same runners, which are not fewer.          *)
LEMMA SortType ==
    ASSUME NEW s \in Seq(Runners), NEW p \in Sort(s)
    PROVE  p \in Seq(Runners)
<1>1. p \in [1 .. Len(s) -> ToSet(s)] /\ ToSet(s) \subseteq Runners
  BY DEF Sort, ToSet
<1>2. QED
  BY <1>1

-----------------------------------------------------------------------------
\* At most one meta block enters or leaves, and while a slot hears that it is
\* about to leave it is still in the list of the module that is being cleared.
OnItsWay ==
    /\ \A m, n \in MetaBlocks : step[m] \in Between /\ step[n] \in Between => m = n
    /\ \A m \in MetaBlocks : step[m] = "leaving" =>
        clearing # None /\ \E i \in DOMAIN blocks[clearing] : blocks[clearing][i] = m

(* One step keeps the type: a block that is removed is in the list.        *)
LEMMA TypeStep == TypeOK /\ OnItsWay /\ [Next]_vars => TypeOK'
<1> SUFFICES ASSUME TypeOK, OnItsWay, [Next]_vars
             PROVE  TypeOK'
  OBVIOUS
<1> USE DEF TypeOK, Steps
<1>1. ASSUME NEW mod \in Modules, AddBlock(mod)
      PROVE  TypeOK'
  <2>1. Head(waiting[mod]) \in MetaBlocks /\ Tail(waiting[mod]) \in Seq(MetaBlocks)
    BY <1>1 DEF AddBlock
  <2>2. Append(blocks[mod], Head(waiting[mod])) \in Seq(MetaBlocks)
    BY <2>1
  <2>3. QED
    BY <1>1, <2>1, <2>2 DEF AddBlock, hashVars, extVars
<1>2. ASSUME NEW mod \in Modules, Clear(mod)
      PROVE  TypeOK'
  BY <1>2 DEF Clear, hashVars, extVars
<1>3. CASE Destroy
  BY <1>3 DEF Destroy, modVars, hashVars, extVars
<1>4. CASE Cleared
  BY <1>4 DEF Cleared, hashVars, extVars
<1>5. ASSUME NEW m \in MetaBlocks, Enter(m)
      PROVE  TypeOK'
  BY <1>5 DEF Enter, RegisterMetaBlock, Insert, Names, IDs, modVars, extVars
<1>6. ASSUME NEW m \in MetaBlocks, RemoveBlock(m)
      PROVE  TypeOK'
  <2>1. clearing \in Modules /\ \E i \in DOMAIN blocks[clearing] : blocks[clearing][i] = m
    BY <1>6 DEF RemoveBlock, OnItsWay
  <2>2. RemoveOne(blocks[clearing], m) \in Seq(MetaBlocks)
    BY <2>1, RemoveOneProperties
  <2>3. QED
    BY <1>6, <2>1, <2>2 DEF RemoveBlock, hashVars, extVars
<1>7. ASSUME NEW m \in MetaBlocks, Leave(m)
      PROVE  TypeOK'
  BY <1>7 DEF Leave, ClearExtensions, UnregisterMetaBlock, Insert, Names, IDs, modVars
<1>8. ASSUME NEW m \in MetaBlocks, Delete(m)
      PROVE  TypeOK'
  BY <1>8 DEF Delete, modVars, hashVars, extVars
<1>9. ASSUME NEW e \in Extensions, NEW m \in MetaBlocks, RegisterExtension(e, m)
      PROVE  TypeOK'
  BY <1>9 DEF RegisterExtension, StaticMetaBlock, modVars, hashVars
<1>10. ASSUME NEW e \in Extensions, NEW m \in MetaBlocks, UnregisterExtension(e, m)
       PROVE  TypeOK'
  BY <1>10 DEF UnregisterExtension, modVars, hashVars
<1>11. ASSUME NEW e \in Extensions, DeleteExtension(e)
       PROVE  TypeOK'
  BY <1>11 DEF DeleteExtension, UnregisterAll, modVars, hashVars
<1>12. ASSUME NEW m \in Tasklets, NEW r \in Runners, RegisterTaskletRunner(m, r)
       PROVE  TypeOK'
  <2>1. m \in MetaBlocks
    BY NamesAssumption
  <2>2. Append(runners[m], r) \in Seq(Runners)
    BY <2>1
  <2>3. PICK p \in Sort(Append(runners[m], r)) : runners' = [runners EXCEPT ![m] = p]
    BY <1>12 DEF RegisterTaskletRunner
  <2>4. runners' \in [MetaBlocks -> Seq(Runners)]
    BY <2>2, <2>3, SortType
  <2>5. QED
    BY <1>12, <2>1, <2>4 DEF RegisterTaskletRunner, StaticMetaBlock, modVars, hashVars, extVars
<1>13. ASSUME NEW m \in Tasklets, NEW r \in Runners, UnregisterTaskletRunner(m, r)
       PROVE  TypeOK'
  <2>1. m \in MetaBlocks
    BY NamesAssumption
  <2>2. PICK k \in DOMAIN runners[m] : runners[m][k] = r
    BY <1>13 DEF UnregisterTaskletRunner, ToSet
  <2>3. RemoveOne(runners[m], r) \in Seq(Runners)
    BY <2>1, <2>2, RemoveOneProperties
  <2>4. PICK p \in Sort(RemoveOne(runners[m], r)) : runners' = [runners EXCEPT ![m] = p]
    BY <1>13 DEF UnregisterTaskletRunner
  <2>5. runners' \in [MetaBlocks -> Seq(Runners)]
    BY <2>3, <2>4, SortType
  <2>6. QED
    BY <1>13, <2>5 DEF UnregisterTaskletRunner, modVars, hashVars, extVars
<1>14. ASSUME NEW m \in MetaBlocks, RegisterLoadable(m)
       PROVE  TypeOK'
  <2>1. ModuleOf(m) \in Modules
    BY ModulesAssumption
  <2>2. Append(waiting[ModuleOf(m)], m) \in Seq(MetaBlocks)
    BY <2>1
  <2>3. QED
    BY <1>14, <2>1, <2>2 DEF RegisterLoadable, hashVars, extVars
<1>15. CASE UNCHANGED vars
  BY <1>15 DEF vars, modVars, hashVars, extVars
<1>16. QED
  BY <1>1, <1>2, <1>3, <1>4, <1>5, <1>6, <1>7, <1>8, <1>9, <1>10, <1>11, <1>12,
     <1>13, <1>14, <1>15 DEF Next, ModuleNext, ClientNext

(* One step keeps the order of entering and leaving.                       *)
LEMMA OnItsWayStep == TypeOK /\ OnItsWay /\ [Next]_vars => OnItsWay'
<1> SUFFICES ASSUME TypeOK, OnItsWay, [Next]_vars
             PROVE  OnItsWay'
  OBVIOUS
<1> USE DEF TypeOK, OnItsWay, Between
<1>1. ASSUME NEW mod \in Modules, AddBlock(mod)
      PROVE  OnItsWay'
  <2>1. Head(waiting[mod]) \in MetaBlocks
    BY <1>1 DEF AddBlock
  <2>2. \A m \in MetaBlocks : step[m] \notin Between /\ step[m] # "leaving"
    BY <1>1 DEF AddBlock, Calm
  <2>3. QED
    BY <1>1, <2>1, <2>2 DEF AddBlock
<1>2. ASSUME NEW mod \in Modules, Clear(mod)
      PROVE  OnItsWay'
  BY <1>2 DEF Clear, Calm
<1>3. CASE Destroy
  <2> DEFINE s == blocks[clearing]
  <2>1. s \in Seq(MetaBlocks) /\ s # <<>> /\ clearing \in Modules
    BY <1>3 DEF Destroy
  <2>2. Len(s) \in DOMAIN s /\ Last(s) = s[Len(s)] /\ Last(s) \in MetaBlocks
    BY <2>1 DEF Last
  <2>3. /\ step' = [step EXCEPT ![Last(s)] = "leaving"]
        /\ UNCHANGED <<blocks, clearing>> /\ Calm
    BY <1>3 DEF Destroy, modVars
  <2>4. \A m \in MetaBlocks : step'[m] \in Between => m = Last(s)
    <3> HIDE DEF s
    <3>1. QED
      BY <2>2, <2>3 DEF Calm
  <2>5. \A m, n \in MetaBlocks : step'[m] \in Between /\ step'[n] \in Between => m = n
    BY <2>4
  <2>6. \A m \in MetaBlocks : step'[m] = "leaving" =>
            clearing # None /\ \E i \in DOMAIN s : s[i] = m
    <3> HIDE DEF s
    <3>1. clearing # None
      BY <1>3 DEF Destroy
    <3>2. QED
      BY <2>2, <2>4, <3>1
  <2>7. QED
    BY <2>3, <2>5, <2>6
<1>4. CASE Cleared
  BY <1>4 DEF Cleared, Calm
<1>5. ASSUME NEW m \in MetaBlocks, Enter(m)
      PROVE  OnItsWay'
  BY <1>5 DEF Enter, modVars
<1>6. ASSUME NEW m \in MetaBlocks, RemoveBlock(m)
      PROVE  OnItsWay'
  <2>1. \A n \in MetaBlocks : step'[n] # "leaving"
    BY <1>6 DEF RemoveBlock
  <2>2. \A n \in MetaBlocks : step'[n] \in Between => n = m
    BY <1>6 DEF RemoveBlock
  <2>3. QED
    BY <2>1, <2>2
<1>7. ASSUME NEW m \in MetaBlocks, Leave(m)
      PROVE  OnItsWay'
  BY <1>7 DEF Leave, modVars
<1>8. ASSUME NEW m \in MetaBlocks, Delete(m)
      PROVE  OnItsWay'
  BY <1>8 DEF Delete, modVars
<1>9. ASSUME NEW m \in MetaBlocks, modVars' = modVars,
             step' = step \/ step' = StaticMetaBlock(m)
      PROVE  OnItsWay'
  BY <1>9 DEF StaticMetaBlock, modVars
<1>10. ASSUME ClientNext
       PROVE  OnItsWay'
  <2>1. ASSUME NEW e \in Extensions, NEW m \in MetaBlocks,
               RegisterExtension(e, m) \/ UnregisterExtension(e, m)
        PROVE  OnItsWay'
    BY <1>9, <2>1 DEF RegisterExtension, UnregisterExtension
  <2>2. ASSUME NEW e \in Extensions, DeleteExtension(e)
        PROVE  OnItsWay'
    BY <2>2 DEF DeleteExtension, modVars
  <2>3. ASSUME NEW m \in Tasklets, NEW r \in Runners,
               RegisterTaskletRunner(m, r) \/ UnregisterTaskletRunner(m, r)
        PROVE  OnItsWay'
    BY <1>9, <2>3, NamesAssumption DEF RegisterTaskletRunner, UnregisterTaskletRunner
  <2>4. QED
    BY <1>10, <2>1, <2>2, <2>3 DEF ClientNext
<1>11. ASSUME NEW m \in MetaBlocks, RegisterLoadable(m)
       PROVE  OnItsWay'
  BY <1>11 DEF RegisterLoadable
<1>12. CASE UNCHANGED vars
  BY <1>12 DEF vars, modVars
<1>13. QED
  BY <1>1, <1>2, <1>3, <1>4, <1>5, <1>6, <1>7, <1>8, <1>10, <1>11, <1>12
     DEF Next, ModuleNext

LEMMA InitTyped == Init => TypeOK /\ OnItsWay
<1> SUFFICES ASSUME Init
             PROVE  TypeOK /\ OnItsWay
  OBVIOUS
<1>1. waiting \in [Modules -> Seq(MetaBlocks)]
  BY DEF Init
<1>2. blocks \in [Modules -> Seq(MetaBlocks)] /\ runners \in [MetaBlocks -> Seq(Runners)]
  BY DEF Init
<1>3. QED
  BY <1>1, <1>2 DEF Init, TypeOK, OnItsWay, Steps, Between

LEMMA OnItsWayInvariant == Spec => [](TypeOK /\ OnItsWay)
BY InitTyped, TypeStep, OnItsWayStep, PTL DEF Spec

(* The state stays in its type.                                            *)
THEOREM TypeCorrect == Spec => []TypeOK
BY OnItsWayInvariant, PTL

-----------------------------------------------------------------------------
(* An extension and a meta block always know of each other, or neither     *)
(* does, and both exist.                                                   *)
THEOREM ExtensionsAgreeAlways == Spec => []ExtensionsAgree
<1>1. Init => ExtensionsAgree
  BY DEF Init, ExtensionsAgree
<1>2. TypeOK /\ ExtensionsAgree /\ [Next]_vars => ExtensionsAgree'
  <2> SUFFICES ASSUME TypeOK, ExtensionsAgree, [Next]_vars
               PROVE  ExtensionsAgree'
    OBVIOUS
  <2> USE DEF TypeOK, ExtensionsAgree, Usable
  <2>1. ASSUME NEW mod \in Modules, AddBlock(mod)
        PROVE  ExtensionsAgree'
    BY <2>1 DEF AddBlock, extVars, Steps
  <2>2. ASSUME NEW mod \in Modules, Clear(mod)
        PROVE  ExtensionsAgree'
    BY <2>2 DEF Clear, extVars
  <2>3. CASE Destroy
    BY <2>3 DEF Destroy, extVars
  <2>4. CASE Cleared
    BY <2>4 DEF Cleared, extVars
  <2>5. ASSUME NEW m \in MetaBlocks, Enter(m) \/ RemoveBlock(m)
        PROVE  ExtensionsAgree'
    BY <2>5 DEF Enter, RemoveBlock, extVars
  <2>6. ASSUME NEW m \in MetaBlocks, Leave(m)
        PROVE  ExtensionsAgree'
    BY <2>6 DEF Leave, ClearExtensions
  <2>7. ASSUME NEW m \in MetaBlocks, Delete(m)
        PROVE  ExtensionsAgree'
    BY <2>7 DEF Delete, extVars
  <2>8. ASSUME NEW e \in Extensions, NEW m \in MetaBlocks, RegisterExtension(e, m)
        PROVE  ExtensionsAgree'
    BY <2>8 DEF RegisterExtension, StaticMetaBlock
  <2>9. ASSUME NEW e \in Extensions, NEW m \in MetaBlocks, UnregisterExtension(e, m)
         PROVE  ExtensionsAgree'
    BY <2>9 DEF UnregisterExtension
  <2>10. ASSUME NEW e \in Extensions, DeleteExtension(e)
         PROVE  ExtensionsAgree'
    BY <2>10 DEF DeleteExtension, UnregisterAll
  <2>11. ASSUME NEW m \in Tasklets, NEW r \in Runners, RegisterTaskletRunner(m, r)
         PROVE  ExtensionsAgree'
    BY <2>11 DEF RegisterTaskletRunner, StaticMetaBlock, extVars
  <2>12. ASSUME NEW m \in Tasklets, NEW r \in Runners, UnregisterTaskletRunner(m, r)
         PROVE  ExtensionsAgree'
    BY <2>12 DEF UnregisterTaskletRunner, extVars
  <2>13. ASSUME NEW m \in MetaBlocks, RegisterLoadable(m)
         PROVE  ExtensionsAgree'
    BY <2>13 DEF RegisterLoadable, extVars
  <2>14. CASE UNCHANGED vars
    BY <2>14 DEF vars, extVars
  <2>15. QED
    BY <2>1, <2>2, <2>3, <2>4, <2>5, <2>6, <2>7, <2>8, <2>9, <2>10, <2>11,
       <2>12, <2>13, <2>14 DEF Next, ModuleNext, ClientNext
<1>3. QED
  BY <1>1, <1>2, TypeCorrect, PTL DEF Spec

-----------------------------------------------------------------------------
New == {"absent", "made"}
Listed == {"entering", "loaded", "leaving"}

\* What a module has still to load was never in a list.  What is in a list is on
\* its way in, in, or about to leave.  Nothing is there twice, and nothing before
\* its class is registered.
WaitingIsNew ==
    \A mod \in Modules : \A i \in DOMAIN waiting[mod] :
        step[waiting[mod][i]] \in New

ListedIsIn ==
    \A mod \in Modules : \A i \in DOMAIN blocks[mod] :
        step[blocks[mod][i]] \in Listed

WaitingOnce ==
    \A mod, other \in Modules :
        \A i \in DOMAIN waiting[mod], j \in DOMAIN waiting[other] :
            waiting[mod][i] = waiting[other][j] => mod = other /\ i = j

ListedOnce ==
    \A mod, other \in Modules :
        \A i \in DOMAIN blocks[mod], j \in DOMAIN blocks[other] :
            blocks[mod][i] = blocks[other][j] => mod = other /\ i = j

RegisteredFirst ==
    /\ \A m \in MetaBlocks : m \notin registered => step[m] \in New
    /\ \A mod \in Modules : \A i \in DOMAIN waiting[mod] : waiting[mod][i] \in registered

ListsAreApart == WaitingIsNew /\ ListedIsIn /\ WaitingOnce /\ ListedOnce /\ RegisteredFirst

(* A step that leaves the lists alone, and takes no block from new to in.  *)
LEMMA SameLists ==
    ASSUME TypeOK, ListsAreApart, UNCHANGED <<registered, waiting, blocks>>,
           \A m \in MetaBlocks :
               /\ step[m] \in New => step'[m] \in New
               /\ step[m] \in Listed => step'[m] \in Listed
    PROVE  ListsAreApart'
<1>1. WaitingIsNew'
  <2> SUFFICES ASSUME NEW mod \in Modules, NEW i \in DOMAIN waiting[mod]
               PROVE  step'[waiting[mod][i]] \in New
    BY DEF WaitingIsNew
  <2>1. waiting[mod][i] \in MetaBlocks
    BY DEF TypeOK
  <2>2. step[waiting[mod][i]] \in New
    BY DEF ListsAreApart, WaitingIsNew
  <2>3. QED
    BY <2>1, <2>2
<1>2. ListedIsIn'
  <2> SUFFICES ASSUME NEW mod \in Modules, NEW i \in DOMAIN blocks[mod]
               PROVE  step'[blocks[mod][i]] \in Listed
    BY DEF ListedIsIn
  <2>1. blocks[mod][i] \in MetaBlocks
    BY DEF TypeOK
  <2>2. step[blocks[mod][i]] \in Listed
    BY DEF ListsAreApart, ListedIsIn
  <2>3. QED
    BY <2>1, <2>2
<1>3. WaitingOnce'
  BY DEF ListsAreApart, WaitingOnce
<1>4. ListedOnce'
  BY DEF ListsAreApart, ListedOnce
<1>5. RegisteredFirst'
  BY DEF ListsAreApart, RegisteredFirst
<1>6. QED
  BY <1>1, <1>2, <1>3, <1>4, <1>5 DEF ListsAreApart

(* One step keeps the lists apart.                                         *)
LEMMA ListsAreApartStep ==
    TypeOK /\ OnItsWay /\ ListsAreApart /\ [Next]_vars => ListsAreApart'
<1> SUFFICES ASSUME TypeOK, OnItsWay, ListsAreApart, [Next]_vars
             PROVE  ListsAreApart'
  OBVIOUS
<1> USE DEF TypeOK
<1>1. ASSUME NEW mod \in Modules, AddBlock(mod)
      PROVE  ListsAreApart'
  <2> DEFINE w == waiting[mod]
             s == blocks[mod]
             h == Head(w)
  <2>1. w \in Seq(MetaBlocks) /\ w # <<>> /\ s \in Seq(MetaBlocks)
    BY <1>1 DEF AddBlock
  <2>2. h = w[1] /\ h \in MetaBlocks /\ 1 \in DOMAIN w
    BY <2>1
  <2>3. /\ DOMAIN Tail(w) = 1 .. Len(w) - 1
        /\ \A i \in DOMAIN Tail(w) : Tail(w)[i] = w[i + 1] /\ i + 1 \in DOMAIN w
    BY <2>1
  <2>4. /\ DOMAIN Append(s, h) = 1 .. Len(s) + 1 /\ Len(s) \in Nat
        /\ Append(s, h)[Len(s) + 1] = h
        /\ \A i \in DOMAIN Append(s, h) : i # Len(s) + 1 =>
               i \in DOMAIN s /\ Append(s, h)[i] = s[i]
    BY <2>1, <2>2
  <2>5. /\ waiting' = [waiting EXCEPT ![mod] = Tail(w)]
        /\ blocks' = [blocks EXCEPT ![mod] = Append(s, h)]
        /\ step' = [step EXCEPT ![h] = "entering"]
    BY <1>1 DEF AddBlock
  <2>6. step[h] \in New
    BY <2>2 DEF ListsAreApart, WaitingIsNew
  <2>7. ASSUME NEW other \in Modules, NEW i \in DOMAIN waiting'[other]
        PROVE  \E j \in DOMAIN waiting[other] :
                   /\ waiting'[other][i] = waiting[other][j] /\ i \in Int
                   /\ other = mod => j = i + 1
                   /\ other # mod => j = i
    <3>1. CASE other = mod
      <4>1. i \in DOMAIN Tail(w) /\ waiting'[other][i] = Tail(w)[i]
        BY <2>5, <3>1
      <4>2. QED
        BY <2>1, <2>3, <3>1, <4>1
    <3>2. CASE other # mod
      <4>1. waiting'[other] = waiting[other] /\ waiting[other] \in Seq(MetaBlocks)
        BY <2>5, <3>2
      <4>2. QED
        BY <3>2, <4>1
    <3>3. QED
      BY <3>1, <3>2
  <2>8. ASSUME NEW other \in Modules, NEW i \in DOMAIN blocks'[other],
               ~(other = mod /\ i = Len(s) + 1)
        PROVE  i \in DOMAIN blocks[other] /\ blocks'[other][i] = blocks[other][i]
    BY <2>4, <2>5, <2>8
  <2>9. blocks'[mod][Len(s) + 1] = h
    BY <2>4, <2>5
  <2> HIDE DEF w, s, h
  <2>10. \A other \in Modules : \A i \in DOMAIN waiting'[other] : waiting'[other][i] # h
    <3> SUFFICES ASSUME NEW other \in Modules, NEW i \in DOMAIN waiting'[other],
                        waiting'[other][i] = h
                 PROVE  FALSE
      OBVIOUS
    <3>1. PICK j \in DOMAIN waiting[other] :
              waiting'[other][i] = waiting[other][j] /\ (other = mod => j = i + 1)
      BY <2>7
    <3>2. waiting[mod][1] = h /\ 1 \in DOMAIN waiting[mod]
      BY <2>2 DEF w
    <3>3. other = mod /\ j = 1
      BY <3>1, <3>2 DEF ListsAreApart, WaitingOnce
    <3>4. i \in DOMAIN Tail(w)
      BY <2>1, <2>5, <3>3
    <3>5. QED
      BY <2>3, <3>1, <3>3, <3>4
  <2>11. \A other \in Modules : \A i \in DOMAIN blocks[other] : blocks[other][i] # h
    BY <2>6 DEF ListsAreApart, ListedIsIn, New, Listed
  <2>12. WaitingIsNew'
    <3> SUFFICES ASSUME NEW other \in Modules, NEW i \in DOMAIN waiting'[other]
                 PROVE  step'[waiting'[other][i]] \in New
      BY DEF WaitingIsNew
    <3>1. PICK j \in DOMAIN waiting[other] : waiting'[other][i] = waiting[other][j]
      BY <2>7
    <3>2. waiting[other][j] \in MetaBlocks /\ step[waiting[other][j]] \in New
      BY <3>1 DEF ListsAreApart, WaitingIsNew
    <3>3. QED
      BY <2>5, <2>10, <3>1, <3>2
  <2>13. ListedIsIn'
    <3> SUFFICES ASSUME NEW other \in Modules, NEW i \in DOMAIN blocks'[other]
                 PROVE  step'[blocks'[other][i]] \in Listed
      BY DEF ListedIsIn
    <3>1. CASE other = mod /\ i = Len(s) + 1
      BY <2>2, <2>5, <2>9, <3>1 DEF Listed
    <3>2. CASE ~(other = mod /\ i = Len(s) + 1)
      <4>1. i \in DOMAIN blocks[other] /\ blocks'[other][i] = blocks[other][i]
        BY <2>8, <3>2
      <4>2. blocks[other][i] \in MetaBlocks /\ blocks[other][i] # h
        BY <2>11, <4>1
      <4>3. QED
        BY <2>5, <4>1, <4>2 DEF ListsAreApart, ListedIsIn
    <3>3. QED
      BY <3>1, <3>2
  <2>14. WaitingOnce'
    <3> SUFFICES ASSUME NEW m1 \in Modules, NEW m2 \in Modules,
                        NEW i1 \in DOMAIN waiting'[m1], NEW i2 \in DOMAIN waiting'[m2],
                        waiting'[m1][i1] = waiting'[m2][i2]
                 PROVE  m1 = m2 /\ i1 = i2
      BY DEF WaitingOnce
    <3>1. PICK j1 \in DOMAIN waiting[m1] :
              /\ waiting'[m1][i1] = waiting[m1][j1] /\ i1 \in Int
              /\ m1 = mod => j1 = i1 + 1
              /\ m1 # mod => j1 = i1
      BY <2>7
    <3>2. PICK j2 \in DOMAIN waiting[m2] :
              /\ waiting'[m2][i2] = waiting[m2][j2] /\ i2 \in Int
              /\ m2 = mod => j2 = i2 + 1
              /\ m2 # mod => j2 = i2
      BY <2>7
    <3>3. m1 = m2 /\ j1 = j2
      <4>1. waiting[m1][j1] = waiting[m2][j2]
        BY <3>1, <3>2
      <4>2. \A i \in DOMAIN waiting[m1], j \in DOMAIN waiting[m2] :
                waiting[m1][i] = waiting[m2][j] => m1 = m2 /\ i = j
        BY Zenon DEF ListsAreApart, WaitingOnce
      <4>3. QED
        BY <4>1, <4>2
    <3>4. QED
      BY <3>1, <3>2, <3>3
  <2>15. ListedOnce'
    <3> SUFFICES ASSUME NEW m1 \in Modules, NEW m2 \in Modules,
                        NEW i1 \in DOMAIN blocks'[m1], NEW i2 \in DOMAIN blocks'[m2],
                        blocks'[m1][i1] = blocks'[m2][i2]
                 PROVE  m1 = m2 /\ i1 = i2
      BY DEF ListedOnce
    <3>1. CASE m1 = mod /\ i1 = Len(s) + 1
      BY <2>8, <2>9, <2>11, <3>1
    <3>2. CASE m2 = mod /\ i2 = Len(s) + 1
      BY <2>8, <2>9, <2>11, <3>2
    <3>3. CASE ~(m1 = mod /\ i1 = Len(s) + 1) /\ ~(m2 = mod /\ i2 = Len(s) + 1)
      BY <2>8, <3>3 DEF ListsAreApart, ListedOnce
    <3>4. QED
      BY <3>1, <3>2, <3>3
  <2>16. RegisteredFirst'
    <3>1. h \in registered /\ registered' = registered
      BY <1>1, <2>2 DEF AddBlock, ListsAreApart, RegisteredFirst, w
    <3>2. \A m \in MetaBlocks : m \notin registered' => step'[m] \in New
      BY <2>5, <3>1 DEF ListsAreApart, RegisteredFirst
    <3>3. ASSUME NEW other \in Modules, NEW i \in DOMAIN waiting'[other]
          PROVE  waiting'[other][i] \in registered
      <4>1. PICK j \in DOMAIN waiting[other] : waiting'[other][i] = waiting[other][j]
        BY <2>7
      <4>2. QED
        BY <4>1 DEF ListsAreApart, RegisteredFirst
    <3>4. QED
      BY <3>1, <3>2, <3>3 DEF RegisteredFirst
  <2>17. QED
    BY <2>12, <2>13, <2>14, <2>15, <2>16 DEF ListsAreApart
<1>2. ASSUME NEW mod \in Modules, Clear(mod)
      PROVE  ListsAreApart'
  BY <1>2, SameLists DEF Clear
<1>3. CASE Destroy
  <2> DEFINE b == Last(blocks[clearing])
  <2>1. /\ clearing \in Modules /\ blocks[clearing] \in Seq(MetaBlocks)
        /\ blocks[clearing] # <<>>
    BY <1>3 DEF Destroy
  <2>2. /\ Len(blocks[clearing]) \in DOMAIN blocks[clearing]
        /\ b = blocks[clearing][Len(blocks[clearing])] /\ b \in MetaBlocks
    BY <2>1 DEF Last
  <2>3. step[b] \in Listed
    BY <2>1, <2>2 DEF ListsAreApart, ListedIsIn
  <2>4. step' = [step EXCEPT ![b] = "leaving"] /\ UNCHANGED <<registered, waiting, blocks>>
    BY <1>3 DEF Destroy, modVars
  <2> HIDE DEF b
  <2>5. \A n \in MetaBlocks : step'[n] = step[n] \/ (step[n] \in Listed /\ step'[n] \in Listed)
    BY <2>2, <2>3, <2>4 DEF Listed
  <2>6. QED
    BY <2>4, <2>5, SameLists DEF New, Listed
<1>4. CASE Cleared
  BY <1>4, SameLists DEF Cleared
<1>5. ASSUME NEW m \in MetaBlocks, Enter(m)
      PROVE  ListsAreApart'
  <2>1. /\ UNCHANGED <<registered, waiting, blocks>>
        /\ \A n \in MetaBlocks : step'[n] = step[n] \/ (step[n] \in Listed /\ step'[n] \in Listed)
    BY <1>5 DEF Enter, modVars, Listed
  <2>2. QED
    BY <2>1, SameLists DEF New, Listed
<1>6. ASSUME NEW m \in MetaBlocks, RemoveBlock(m)
      PROVE  ListsAreApart'
  <2> DEFINE s == blocks[clearing]
             r == RemoveOne(s, m)
  <2>1. PICK k \in DOMAIN s : clearing \in Modules /\ s[k] = m
    BY <1>6 DEF RemoveBlock, OnItsWay
  <2>2. s \in Seq(MetaBlocks)
    BY <2>1
  <2>3. /\ r \in Seq(MetaBlocks)
        /\ \E i \in DOMAIN s :
            /\ s[i] = m
            /\ Len(r) = Len(s) - 1
            /\ \A j \in DOMAIN r : r[j] = IF j < i THEN s[j] ELSE s[j + 1]
    <3>1. \E i \in DOMAIN s : s[i] = m
      BY <2>1
    <3> HIDE DEF s
    <3>2. QED
      BY <2>2, <3>1, RemoveOneProperties
  <2>4. PICK n \in DOMAIN s :
            /\ s[n] = m /\ Len(r) = Len(s) - 1
            /\ \A j \in DOMAIN r : r[j] = IF j < n THEN s[j] ELSE s[j + 1]
    BY <2>3
  <2>5. /\ blocks' = [blocks EXCEPT ![clearing] = r] /\ UNCHANGED <<registered, waiting>>
        /\ step[m] = "leaving" /\ step' = [step EXCEPT ![m] = "removed"]
    BY <1>6 DEF RemoveBlock
  <2> DEFINE old(i) == IF i < n THEN i ELSE i + 1
  <2>6. ASSUME NEW j \in DOMAIN r
        PROVE  j \in Int /\ old(j) \in DOMAIN s /\ r[j] = s[old(j)] /\ old(j) # n
    <3> HIDE DEF s, r
    <3>1. /\ n \in 1 .. Len(s) /\ j \in 1 .. Len(r) /\ Len(r) = Len(s) - 1
          /\ DOMAIN s = 1 .. Len(s) /\ Len(s) \in Nat
      <4>1. /\ DOMAIN s = 1 .. Len(s) /\ Len(s) \in Nat
            /\ DOMAIN r = 1 .. Len(r) /\ Len(r) \in Nat
        BY <2>2, <2>3
      <4>2. QED
        BY <2>4, <4>1
    <3>2. r[j] = IF j < n THEN s[j] ELSE s[j + 1]
      BY <2>4
    <3>3. QED
      BY <3>1, <3>2
  <2>7. ASSUME NEW mod \in Modules, NEW i \in DOMAIN blocks'[mod]
        PROVE  \E j \in DOMAIN blocks[mod] :
                   /\ blocks'[mod][i] = blocks[mod][j]
                   /\ mod = clearing => i \in Int /\ j = old(i) /\ j # n
                   /\ mod # clearing => j = i
    <3> HIDE DEF r, old
    <3>1. CASE mod = clearing
      BY <2>1, <2>5, <2>6, <3>1
    <3>2. CASE mod # clearing
      BY <2>5, <3>2
    <3>3. QED
      BY <3>1, <3>2
  <2>8. ASSUME NEW i \in Int, NEW j \in Int, old(i) = old(j)
        PROVE  i = j
    BY <2>2, <2>8
  <2> HIDE DEF r, old
  <2>9. WaitingIsNew'
    BY <2>5 DEF ListsAreApart, WaitingIsNew, New
  <2>10. ListedIsIn'
    <3> SUFFICES ASSUME NEW mod \in Modules, NEW i \in DOMAIN blocks'[mod]
                 PROVE  step'[blocks'[mod][i]] \in Listed
      BY DEF ListedIsIn
    <3>1. PICK j \in DOMAIN blocks[mod] :
              blocks'[mod][i] = blocks[mod][j] /\ (mod = clearing => j # n)
      BY <2>7
    <3>2. blocks[mod][j] # m
      BY <2>1, <2>4, <3>1 DEF ListsAreApart, ListedOnce
    <3>3. blocks[mod][j] \in MetaBlocks
      BY <3>1
    <3>4. QED
      BY <2>5, <3>1, <3>2, <3>3 DEF ListsAreApart, ListedIsIn
  <2>11. ListedOnce'
    <3> SUFFICES ASSUME NEW m1 \in Modules, NEW m2 \in Modules,
                        NEW i1 \in DOMAIN blocks'[m1], NEW i2 \in DOMAIN blocks'[m2],
                        blocks'[m1][i1] = blocks'[m2][i2]
                 PROVE  m1 = m2 /\ i1 = i2
      BY DEF ListedOnce
    <3>1. PICK j1 \in DOMAIN blocks[m1] :
              /\ blocks'[m1][i1] = blocks[m1][j1]
              /\ m1 = clearing => i1 \in Int /\ j1 = old(i1)
              /\ m1 # clearing => j1 = i1
      BY <2>7
    <3>2. PICK j2 \in DOMAIN blocks[m2] :
              /\ blocks'[m2][i2] = blocks[m2][j2]
              /\ m2 = clearing => i2 \in Int /\ j2 = old(i2)
              /\ m2 # clearing => j2 = i2
      BY <2>7
    <3>3. m1 = m2 /\ j1 = j2
      <4>1. blocks[m1][j1] = blocks[m2][j2]
        BY <3>1, <3>2
      <4>2. \A i \in DOMAIN blocks[m1], j \in DOMAIN blocks[m2] :
                blocks[m1][i] = blocks[m2][j] => m1 = m2 /\ i = j
        BY Zenon DEF ListsAreApart, ListedOnce
      <4>3. QED
        BY <4>1, <4>2
    <3>4. QED
      BY <2>8, <3>1, <3>2, <3>3
  <2>12. WaitingOnce'
    BY <2>5 DEF ListsAreApart, WaitingOnce
  <2>13. RegisteredFirst'
    BY <2>5 DEF ListsAreApart, RegisteredFirst, New
  <2>14. QED
    BY <2>9, <2>10, <2>11, <2>12, <2>13 DEF ListsAreApart
<1>7. ASSUME NEW m \in MetaBlocks, Leave(m) \/ Delete(m)
      PROVE  ListsAreApart'
  <2>1. /\ UNCHANGED <<registered, waiting, blocks>>
        /\ \A n \in MetaBlocks :
               step'[n] = step[n] \/ step[n] \in {"removed", "unregistered"}
    BY <1>7 DEF Leave, Delete, modVars
  <2>2. QED
    BY <2>1, SameLists DEF New, Listed
<1>8. CASE ClientNext
  <2>1. /\ modVars' = modVars
        /\ step' = step \/ \E m \in MetaBlocks : step' = StaticMetaBlock(m)
    BY <1>8, NamesAssumption DEF ClientNext, RegisterExtension, UnregisterExtension,
       DeleteExtension, RegisterTaskletRunner, UnregisterTaskletRunner, modVars
  <2>2. QED
    <3>1. \A n \in MetaBlocks : step'[n] = step[n] \/ (step[n] \in New /\ step'[n] \in New)
      BY <2>1 DEF StaticMetaBlock, New
    <3>2. QED
      BY <2>1, <3>1, SameLists DEF New, Listed, modVars
<1>9. ASSUME NEW m \in MetaBlocks, RegisterLoadable(m)
      PROVE  ListsAreApart'
  <2> DEFINE mod == ModuleOf(m)
             w == waiting[mod]
  <2>1. /\ mod \in Modules /\ w \in Seq(MetaBlocks)
        /\ m \notin registered /\ step[m] \in New
        /\ UNCHANGED <<blocks, step>> /\ registered' = registered \cup {m}
        /\ waiting' = [waiting EXCEPT ![mod] = Append(w, m)]
    BY <1>9, ModulesAssumption DEF RegisterLoadable, ListsAreApart, RegisteredFirst
  <2> HIDE DEF mod
  <2>2. ASSUME NEW other \in Modules, NEW i \in DOMAIN waiting'[other]
        PROVE  \/ other = mod /\ i = Len(w) + 1 /\ waiting'[other][i] = m
               \/ i \in DOMAIN waiting[other] /\ waiting'[other][i] = waiting[other][i]
    BY <2>1
  <2>3. \A other \in Modules : \A i \in DOMAIN waiting[other] :
            waiting[other][i] \in registered
    BY DEF ListsAreApart, RegisteredFirst
  <2> HIDE DEF w
  <2>4. WaitingIsNew'
    BY <2>1, <2>2 DEF ListsAreApart, WaitingIsNew
  <2>5. WaitingOnce'
    <3> SUFFICES ASSUME NEW m1 \in Modules, NEW m2 \in Modules,
                        NEW i1 \in DOMAIN waiting'[m1], NEW i2 \in DOMAIN waiting'[m2],
                        waiting'[m1][i1] = waiting'[m2][i2]
                 PROVE  m1 = m2 /\ i1 = i2
      BY DEF WaitingOnce
    <3>1. CASE waiting'[m1][i1] = m
      <4>1. ~(i1 \in DOMAIN waiting[m1] /\ waiting'[m1][i1] = waiting[m1][i1])
        BY <2>1, <2>3, <3>1
      <4>2. ~(i2 \in DOMAIN waiting[m2] /\ waiting'[m2][i2] = waiting[m2][i2])
        BY <2>1, <2>3, <3>1
      <4>3. QED
        BY ONLY <2>2, <4>1, <4>2
    <3>2. CASE waiting'[m1][i1] # m
      <4>1. i1 \in DOMAIN waiting[m1] /\ i2 \in DOMAIN waiting[m2]
            /\ waiting[m1][i1] = waiting[m2][i2]
        BY <2>2, <3>2
      <4>2. QED
        BY <4>1 DEF ListsAreApart, WaitingOnce
    <3>3. QED
      BY <3>1, <3>2
  <2>6. ListedIsIn' /\ ListedOnce'
    BY <2>1 DEF ListsAreApart, ListedIsIn, ListedOnce
  <2>7. RegisteredFirst'
    <3>1. \A n \in MetaBlocks : n \notin registered' => step'[n] \in New
      BY <2>1 DEF ListsAreApart, RegisteredFirst
    <3>2. QED
      BY <2>1, <2>2, <2>3, <3>1 DEF RegisteredFirst
  <2>8. QED
    BY <2>4, <2>5, <2>6, <2>7 DEF ListsAreApart
<1>10. CASE UNCHANGED vars
  BY <1>10, SameLists DEF vars, modVars
<1>11. QED
  BY <1>1, <1>2, <1>3, <1>4, <1>5, <1>6, <1>7, <1>8, <1>9, <1>10 DEF Next, ModuleNext

LEMMA ListsAreApartInvariant == Spec => []ListsAreApart
<1>1. Init => ListsAreApart
  <2> SUFFICES ASSUME Init
               PROVE  ListsAreApart
    OBVIOUS
  <2>1. \A mod \in Modules : DOMAIN waiting[mod] = {} /\ DOMAIN blocks[mod] = {}
    BY DEF Init
  <2>2. RegisteredFirst
    BY <2>1 DEF Init, RegisteredFirst, New
  <2>3. QED
    BY <2>1, <2>2 DEF ListsAreApart, WaitingIsNew, ListedIsIn, WaitingOnce, ListedOnce
<1>2. QED
  BY <1>1, ListsAreApartStep, OnItsWayInvariant, PTL DEF Spec

-----------------------------------------------------------------------------
(* The hashes hold meta blocks under their own names and IDs, and only     *)
(* while these are registered, also if IDs collide.                        *)
THEOREM LookupsAreLiveAlways == Spec => []LookupsAreLive
<1> DEFINE Live(m) == step[m] \in {"loaded", "leaving", "removed"}
<1>1. Init => LookupsAreLive
  BY DEF Init, LookupsAreLive
<1>2. TypeOK /\ ListsAreApart /\ LookupsAreLive /\ [Next]_vars => LookupsAreLive'
  <2> SUFFICES ASSUME TypeOK, ListsAreApart, LookupsAreLive, [Next]_vars
               PROVE  LookupsAreLive'
    OBVIOUS
  <2>1. ASSUME UNCHANGED hashVars, \A m \in MetaBlocks : Live(m) => Live(m)'
        PROVE  LookupsAreLive'
    BY <2>1 DEF LookupsAreLive, hashVars, TypeOK
  <2>2. ASSUME NEW mod \in Modules, AddBlock(mod)
        PROVE  LookupsAreLive'
    <3> DEFINE h == Head(waiting[mod])
    <3>1. 1 \in DOMAIN waiting[mod] /\ h = waiting[mod][1] /\ h \in MetaBlocks
      BY <2>2 DEF AddBlock, TypeOK
    <3>2. step[h] \in {"absent", "made"}
      BY <3>1 DEF ListsAreApart, WaitingIsNew, New
    <3>3. step' = [step EXCEPT ![h] = "entering"] /\ UNCHANGED hashVars
      BY <2>2 DEF AddBlock
    <3> HIDE DEF h
    <3>4. QED
      BY <2>1, <3>1, <3>2, <3>3 DEF TypeOK
  <2>3. ASSUME NEW mod \in Modules, Clear(mod)
        PROVE  LookupsAreLive'
    BY <2>1, <2>3 DEF Clear
  <2>4. CASE Destroy
    BY <2>1, <2>4 DEF Destroy, TypeOK
  <2>5. CASE Cleared
    BY <2>1, <2>5 DEF Cleared
  <2>6. ASSUME NEW m \in MetaBlocks, Enter(m)
        PROVE  LookupsAreLive'
    BY <2>6 DEF Enter, RegisterMetaBlock, Insert, LookupsAreLive, TypeOK, Names, IDs
  <2>7. ASSUME NEW m \in MetaBlocks, RemoveBlock(m)
        PROVE  LookupsAreLive'
    BY <2>1, <2>7 DEF RemoveBlock, TypeOK
  <2>8. ASSUME NEW m \in MetaBlocks, Leave(m)
        PROVE  LookupsAreLive'
    BY <2>8 DEF Leave, UnregisterMetaBlock, Insert, LookupsAreLive, TypeOK
  <2>9. ASSUME NEW m \in MetaBlocks, Delete(m)
        PROVE  LookupsAreLive'
    BY <2>1, <2>9 DEF Delete, TypeOK
  <2>10. CASE ClientNext
    <3>1. /\ UNCHANGED hashVars
          /\ step' = step \/ \E m \in MetaBlocks : step' = StaticMetaBlock(m)
      BY <2>10, NamesAssumption DEF ClientNext, RegisterExtension, UnregisterExtension,
         DeleteExtension, RegisterTaskletRunner, UnregisterTaskletRunner
    <3>2. QED
      BY <2>1, <3>1 DEF StaticMetaBlock, TypeOK
  <2>11. ASSUME NEW m \in MetaBlocks, RegisterLoadable(m)
         PROVE  LookupsAreLive'
    BY <2>1, <2>11 DEF RegisterLoadable
  <2>12. CASE UNCHANGED vars
    BY <2>1, <2>12 DEF vars
  <2>13. QED
    BY <2>2, <2>3, <2>4, <2>5, <2>6, <2>7, <2>8, <2>9, <2>10, <2>11, <2>12
       DEF Next, ModuleNext
<1>3. QED
  BY <1>1, <1>2, TypeCorrect, ListsAreApartInvariant, PTL DEF Spec

-----------------------------------------------------------------------------
(* What a module lists is found: by its name, and by an ID of its own.     *)
THEOREM ListedIsFoundAlways == Spec => []ListedIsFound
<1> DEFINE ByName(m) == byName[Name(m)] = m
           ByID(m) == (\A n \in MetaBlocks : ID(n) = ID(m) => n = m) => byID[ID(m)] = m
           In(m) == \E mod \in Modules : \E i \in DOMAIN blocks[mod] : blocks[mod][i] = m
           Found == \A m \in MetaBlocks : In(m) /\ step[m] # "entering" => ByName(m) /\ ByID(m)
<1>1. ASSUME TypeOK
      PROVE  Found <=> ListedIsFound
  <2>1. \A mod \in Modules : ToSet(blocks[mod]) = {blocks[mod][i] : i \in DOMAIN blocks[mod]}
    BY DEF ToSet
  <2>2. \A mod \in Modules : ToSet(blocks[mod]) \subseteq MetaBlocks
    BY <1>1, <2>1 DEF TypeOK
  <2>3. ASSUME Found, NEW mod \in Modules, NEW m \in ToSet(blocks[mod]), step[m] # "entering"
        PROVE  ByName(m) /\ ByID(m)
    <3>1. m \in MetaBlocks /\ In(m)
      BY <2>1, <2>2
    <3>2. QED
      BY <2>3, <3>1
  <2>4. ASSUME ListedIsFound, NEW m \in MetaBlocks, In(m), step[m] # "entering"
        PROVE  ByName(m) /\ ByID(m)
    <3>1. PICK mod \in Modules : m \in ToSet(blocks[mod])
      BY <2>1, <2>4
    <3>2. QED
      BY <2>4, <3>1 DEF ListedIsFound
  <2>5. Found => ListedIsFound
    <3> HIDE DEF Found, In
    <3>1. QED
      BY <2>3 DEF ListedIsFound
  <2>6. ListedIsFound => Found
    BY <2>4
  <2>7. QED
    BY <2>5, <2>6
<1>2. Init => Found
  BY DEF Init
<1>3. TypeOK /\ OnItsWay /\ ListsAreApart /\ ListsAreApart' /\ Found /\ [Next]_vars => Found'
  <2> SUFFICES ASSUME TypeOK, OnItsWay, ListsAreApart, ListsAreApart', Found, [Next]_vars
               PROVE  Found'
    OBVIOUS
  <2>1. ASSUME UNCHANGED hashVars,
               \A m \in MetaBlocks : In(m)' /\ step'[m] # "entering" =>
                                        In(m) /\ step[m] # "entering"
        PROVE  Found'
    BY <2>1 DEF hashVars
  <2>2. ASSUME NEW mod \in Modules, AddBlock(mod)
        PROVE  Found'
    <3> DEFINE h == Head(waiting[mod])
    <3>1. h \in MetaBlocks /\ blocks[mod] \in Seq(MetaBlocks)
      BY <2>2 DEF AddBlock, TypeOK
    <3>2. /\ step' = [step EXCEPT ![h] = "entering"] /\ UNCHANGED hashVars
          /\ blocks' = [blocks EXCEPT ![mod] = Append(@, h)]
      BY <2>2 DEF AddBlock
    <3> HIDE DEF h
    <3>3. \A m \in MetaBlocks : In(m)' => In(m) \/ m = h
      BY <3>1, <3>2 DEF TypeOK
    <3>4. step'[h] = "entering" /\ \A m \in MetaBlocks : m # h => step'[m] = step[m]
      BY <3>1, <3>2 DEF TypeOK
    <3> HIDE DEF In, Found
    <3>5. QED
      BY <2>1, <3>2, <3>3, <3>4
  <2>3. ASSUME NEW mod \in Modules, Clear(mod)
        PROVE  Found'
    BY <2>1, <2>3 DEF Clear
  <2>4. CASE Destroy
    <3>1. /\ UNCHANGED hashVars /\ blocks' = blocks
          /\ \A m \in MetaBlocks : step[m] # "entering"
      BY <2>4 DEF Destroy, modVars, Calm, Between
    <3>2. QED
      BY <2>1, <3>1
  <2>5. CASE Cleared
    BY <2>1, <2>5 DEF Cleared
  <2>6. ASSUME NEW m \in MetaBlocks, Enter(m)
        PROVE  Found'
    <3>1. /\ step' = [step EXCEPT ![m] = "loaded"] /\ blocks' = blocks
          /\ byName' = [byName EXCEPT ![Name(m)] = m]
          /\ byID' = [byID EXCEPT ![ID(m)] = m]
      BY <2>6 DEF Enter, RegisterMetaBlock, Insert, modVars
    <3>2. ASSUME NEW n \in MetaBlocks, In(n), step'[n] # "entering"
          PROVE  ByName(n)' /\ ByID(n)'
      <4>1. Name(n) \in Names /\ ID(n) \in IDs /\ Name(m) \in Names /\ ID(m) \in IDs
        BY DEF Names, IDs
      <4>2. CASE n = m
        BY <3>1, <4>1, <4>2 DEF TypeOK
      <4>3. CASE n # m
        <5>1. Name(n) # Name(m)
          BY <4>3, NamesAssumption
        <5>2. ByName(n) /\ ByID(n)
          BY <3>1, <3>2, <4>3 DEF TypeOK
        <5>3. QED
          BY <3>1, <4>1, <4>3, <5>1, <5>2 DEF TypeOK
      <4>4. QED
        BY <4>2, <4>3
    <3>3. QED
      BY <3>1, <3>2
  <2>7. ASSUME NEW m \in MetaBlocks, RemoveBlock(m)
        PROVE  Found'
    <3>1. PICK k \in DOMAIN blocks[clearing] : clearing \in Modules /\ blocks[clearing][k] = m
      BY <2>7 DEF RemoveBlock, OnItsWay, TypeOK
    <3> DEFINE s == blocks[clearing]
               r == RemoveOne(s, m)
    <3>2. s \in Seq(MetaBlocks) /\ \E i \in DOMAIN s : s[i] = m
      BY <3>1 DEF TypeOK
    <3>3. \A j \in DOMAIN r : \E i \in DOMAIN s : r[j] = s[i]
      <4> HIDE DEF s
      <4>1. r \in Seq(MetaBlocks)
        BY <3>2, RemoveOneProperties
      <4>2. PICK i \in DOMAIN s :
                /\ s[i] = m /\ Len(RemoveOne(s, m)) = Len(s) - 1
                /\ \A j \in DOMAIN RemoveOne(s, m) :
                    RemoveOne(s, m)[j] = IF j < i THEN s[j] ELSE s[j + 1]
        BY <3>2, RemoveOneProperties
      <4> HIDE DEF r
      <4>3. DOMAIN r = 1 .. Len(s) - 1 /\ DOMAIN s = 1 .. Len(s)
        BY <3>2, <4>1, <4>2 DEF r
      <4>4. QED
        BY <4>2, <4>3 DEF r
    <3>4. /\ UNCHANGED hashVars /\ step' = [step EXCEPT ![m] = "removed"] /\ step[m] = "leaving"
          /\ blocks' = [blocks EXCEPT ![clearing] = r]
      BY <2>7 DEF RemoveBlock
    <3> HIDE DEF r
    <3>5. \A n \in MetaBlocks : In(n)' => In(n)
      BY <3>1, <3>3, <3>4 DEF TypeOK
    <3>6. \A n \in MetaBlocks : step'[n] # "entering" => step[n] # "entering"
      BY <3>4 DEF TypeOK
    <3> HIDE DEF In, Found
    <3>7. QED
      BY <2>1, <3>4, <3>5, <3>6
  <2>8. ASSUME NEW m \in MetaBlocks, Leave(m)
        PROVE  Found'
    <3>1. /\ step' = [step EXCEPT ![m] = "unregistered"] /\ blocks' = blocks
          /\ byName' = [byName EXCEPT ![Name(m)] = None]
          /\ byID' = [byID EXCEPT ![ID(m)] = None]
      BY <2>8 DEF Leave, UnregisterMetaBlock, Insert, modVars
    <3>2. ASSUME NEW n \in MetaBlocks, In(n), step'[n] # "entering"
          PROVE  ByName(n)' /\ ByID(n)'
      <4>1. n # m
        BY <2>8, <3>2 DEF Leave, ListsAreApart, ListedIsIn, Listed
      <4>2. Name(n) # Name(m)
        BY <4>1, NamesAssumption
      <4>3. Name(n) \in Names /\ ID(n) \in IDs
        BY DEF Names, IDs
      <4>4. ByName(n) /\ ByID(n)
        BY <3>1, <3>2, <4>1 DEF TypeOK
      <4>5. QED
        BY <3>1, <4>1, <4>2, <4>3, <4>4 DEF TypeOK
    <3>3. QED
      BY <3>1, <3>2
  <2>9. ASSUME NEW m \in MetaBlocks, Delete(m)
        PROVE  Found'
    <3>1. /\ UNCHANGED hashVars /\ blocks' = blocks
          /\ step' = [step EXCEPT ![m] = "deleted"] /\ step[m] = "unregistered"
      BY <2>9 DEF Delete, modVars
    <3>2. \A n \in MetaBlocks : step'[n] # "entering" => step[n] # "entering"
      BY <3>1 DEF TypeOK
    <3>3. QED
      BY <2>1, <3>1, <3>2
  <2>10. CASE ClientNext
    <3>1. /\ UNCHANGED hashVars /\ blocks' = blocks
          /\ step' = step \/ \E m \in MetaBlocks : step' = StaticMetaBlock(m)
      BY <2>10, NamesAssumption DEF ClientNext, RegisterExtension, UnregisterExtension,
         DeleteExtension, RegisterTaskletRunner, UnregisterTaskletRunner, modVars
    <3>2. \A n \in MetaBlocks : step'[n] # "entering" => step[n] # "entering"
      BY <3>1 DEF StaticMetaBlock, TypeOK
    <3>3. QED
      BY <2>1, <3>1, <3>2
  <2>11. ASSUME NEW m \in MetaBlocks, RegisterLoadable(m)
         PROVE  Found'
    BY <2>1, <2>11 DEF RegisterLoadable
  <2>12. CASE UNCHANGED vars
    BY <2>1, <2>12 DEF vars, modVars
  <2>13. QED
    BY <2>2, <2>3, <2>4, <2>5, <2>6, <2>7, <2>8, <2>9, <2>10, <2>11, <2>12
       DEF Next, ModuleNext
<1>4. QED
  <2>1. TypeOK => (Found <=> ListedIsFound)
    BY <1>1
  <2> HIDE DEF Found
  <2>2. QED
    BY <1>2, <1>3, <2>1, OnItsWayInvariant, ListsAreApartInvariant, PTL DEF Spec
-----------------------------------------------------------------------------
(* The best of the registered runners is first, wherever equal ones went.  *)
THEOREM BestRunnerIsBestAlways == Spec => []BestRunnerIsBest
<1>1. ASSUME NEW s \in Seq(Runners), NEW p \in Sort(s), NEW r \in ToSet(p)
      PROVE  Score(Head(p)) >= Score(r)
  <2>1. p \in Seq(Runners)
    BY <1>1, SortType
  <2>2. PICK i \in DOMAIN p : p[i] = r
    BY DEF ToSet
  <2>3. 1 \in DOMAIN p /\ Head(p) = p[1] /\ i \in Nat /\ 1 <= i
    BY <2>1, <2>2
  <2>4. CASE i = 1
    <3>1. Head(p) = r /\ r \in Runners
      BY <2>1, <2>2, <2>3, <2>4
    <3>2. Score(r) \in Int
      BY <3>1, RunnersAssumption
    <3>3. QED
      BY <3>1, <3>2
  <2>5. CASE i # 1
    <3>1. 1 < i
      BY <2>3, <2>5
    <3>2. \A j, k \in DOMAIN p : j < k => Score(p[j]) >= Score(p[k])
      BY DEF Sort
    <3>3. Score(p[1]) >= Score(p[i])
      BY <2>2, <2>3, <3>1, <3>2
    <3>4. QED
      BY <2>2, <2>3, <3>3
  <2>6. QED
    BY <2>4, <2>5
<1>2. Init => BestRunnerIsBest
  BY NamesAssumption DEF Init, BestRunnerIsBest, ToSet
<1>3. TypeOK /\ OnItsWay /\ BestRunnerIsBest /\ [Next]_vars => BestRunnerIsBest'
  <2> SUFFICES ASSUME TypeOK, BestRunnerIsBest, [Next]_vars
               PROVE  BestRunnerIsBest'
    OBVIOUS
  <2>1. ASSUME runners' = runners
        PROVE  BestRunnerIsBest'
    BY <2>1 DEF BestRunnerIsBest, BestRunner
  <2>2. ASSUME NEW m \in MetaBlocks, NEW p, runners' = [runners EXCEPT ![m] = p],
               \A r \in ToSet(p) : Score(Head(p)) >= Score(r)
        PROVE  BestRunnerIsBest'
    <3> SUFFICES ASSUME NEW t \in Tasklets, NEW r \in ToSet(runners'[t])
                 PROVE  Score(Head(runners'[t])) >= Score(r)
      BY DEF BestRunnerIsBest, BestRunner
    <3>1. t \in MetaBlocks /\ runners \in [MetaBlocks -> Seq(Runners)]
      BY NamesAssumption DEF TypeOK
    <3>2. CASE t = m
      <4>1. runners'[t] = p
        BY <2>2, <3>1, <3>2
      <4>2. QED
        BY <2>2, <4>1
    <3>3. CASE t # m
      <4>1. runners'[t] = runners[t]
        BY <2>2, <3>1, <3>3
      <4>2. QED
        BY <4>1 DEF BestRunnerIsBest, BestRunner
    <3>4. QED
      BY <3>2, <3>3
  <2>3. ASSUME NEW m \in MetaBlocks, Delete(m)
        PROVE  BestRunnerIsBest'
    <3>1. ToSet(<<>>) = {}
      BY DEF ToSet
    <3>2. runners' = [runners EXCEPT ![m] = <<>>]
      BY <2>3 DEF Delete
    <3>3. QED
      BY <2>2, <3>1, <3>2
  <2>4. ASSUME NEW m \in Tasklets, NEW r \in Runners, RegisterTaskletRunner(m, r)
        PROVE  BestRunnerIsBest'
    <3>1. m \in MetaBlocks /\ Append(runners[m], r) \in Seq(Runners)
      BY NamesAssumption DEF TypeOK
    <3>2. PICK p \in Sort(Append(runners[m], r)) : runners' = [runners EXCEPT ![m] = p]
      BY <2>4 DEF RegisterTaskletRunner
    <3>3. \A q \in ToSet(p) : Score(Head(p)) >= Score(q)
      BY <1>1, <3>1, <3>2
    <3>4. QED
      BY <2>2, <3>1, <3>2, <3>3
  <2>5. ASSUME NEW m \in Tasklets, NEW r \in Runners, UnregisterTaskletRunner(m, r)
        PROVE  BestRunnerIsBest'
    <3>1. m \in MetaBlocks /\ runners[m] \in Seq(Runners)
      BY NamesAssumption DEF TypeOK
    <3>2. \E k \in DOMAIN runners[m] : runners[m][k] = r
      BY <2>5 DEF UnregisterTaskletRunner, ToSet
    <3>3. RemoveOne(runners[m], r) \in Seq(Runners)
      BY <3>1, <3>2, RemoveOneProperties
    <3>4. PICK p \in Sort(RemoveOne(runners[m], r)) : runners' = [runners EXCEPT ![m] = p]
      BY <2>5 DEF UnregisterTaskletRunner
    <3>5. \A q \in ToSet(p) : Score(Head(p)) >= Score(q)
      BY <1>1, <3>3, <3>4
    <3>6. QED
      BY <2>2, <3>1, <3>4, <3>5
  <2>6. QED
    BY <2>1, <2>3, <2>4, <2>5 DEF Next, ModuleNext, ClientNext, vars, extVars, hashVars,
       RegisterLoadable, AddBlock, Clear, Destroy, Cleared, Enter, RemoveBlock, Leave,
       RegisterExtension, UnregisterExtension, DeleteExtension
<1>4. QED
  BY <1>2, <1>3, OnItsWayInvariant, PTL DEF Spec
=============================================================================
