----------------------- MODULE ModuleLifecycleProofs -----------------------
(***************************************************************************)
(* The invariants of ModuleLifecycle, for any meta blocks, instances and   *)
(* threads, and whatever races there are on the counters.                  *)
(***************************************************************************)
EXTENDS ModuleLifecycle, FiniteSetTheorems, SequenceTheorems, TLAPS

(* What Library::clear leaves when it deletes the last block.              *)
LEMMA FrontProperties ==
    ASSUME NEW S, NEW s \in Seq(S), s # <<>>
    PROVE  /\ Front(s) \in Seq(S) /\ Len(Front(s)) = Len(s) - 1
           /\ \A i \in 1 .. Len(s) - 1 : Front(s)[i] = s[i]
<1>1. Len(s) \in Nat /\ Len(s) >= 1
  BY EmptySeq
<1>2. \A i \in 1 .. Len(s) - 1 : s[i] \in S
  BY <1>1, ElementOfSeq
<1> DEFINE n == Len(s) - 1
<1>3. n \in Int /\ 1 \in Int /\ \A i \in 1 .. n : s[i] \in S
  BY <1>1, <1>2
<1> HIDE DEF n
<1>4. /\ SubSeq(s, 1, n) \in Seq(S)
      /\ Len(SubSeq(s, 1, n)) = IF 1 <= n THEN n - 1 + 1 ELSE 0
      /\ \A i \in 1 .. n - 1 + 1 : SubSeq(s, 1, n)[i] = s[1 + i - 1]
  BY <1>3, SubSeqProperties
<1>5. n \in Nat
  BY <1>1 DEF n
<1>6. Front(s) = SubSeq(s, 1, n)
  BY DEF Front, n
<1>7. Len(SubSeq(s, 1, n)) = n /\ \A i \in 1 .. n : SubSeq(s, 1, n)[i] = s[i]
  BY <1>4, <1>5
<1>8. QED
  BY <1>4, <1>6, <1>7 DEF n

-----------------------------------------------------------------------------
(* One step keeps the type: only unload looks at the blocks by position,   *)
(* and the list is cleared when no position is remembered.                 *)
PositionOnlyWhenChecking == phase # "checking" => checked = 0

LEMMA TypeStep ==
    TypeOK /\ PositionOnlyWhenChecking /\ [Next]_vars
        => TypeOK' /\ PositionOnlyWhenChecking'
<1> SUFFICES ASSUME TypeOK, PositionOnlyWhenChecking, [Next]_vars
             PROVE  TypeOK' /\ PositionOnlyWhenChecking'
  OBVIOUS
<1> USE DEF TypeOK, PositionOnlyWhenChecking
<1>1. CASE Load
  BY <1>1 DEF Load, blockVars
<1>2. CASE LoadNext
  <2>1. loaded' \in Seq(MetaBlocks) /\ waiting' \in Seq(MetaBlocks) /\ checked = 0
    BY <1>2 DEF LoadNext
  <2>2. QED
    BY <1>2, <2>1 DEF LoadNext, blockVars
<1>3. CASE FailNext
  BY <1>3 DEF FailNext, AfterFailure, blockVars
<1>4. CASE Loaded
  BY <1>4 DEF Loaded, blockVars
<1>5. CASE Unload
  BY <1>5 DEF Unload, blockVars
<1>6. CASE CheckNext
  BY <1>6 DEF CheckNext, blockVars
<1>7. CASE Checked
  BY <1>7 DEF Checked, blockVars
<1>8. CASE ClearLast
  <2>1. loaded' \in Seq(MetaBlocks) /\ checked' = 0 /\ Len(loaded') \in Nat
    BY <1>8, FrontProperties DEF ClearLast
  <2>2. QED
    BY <1>8, <2>1 DEF ClearLast, blockVars
<1>9. CASE Cleared
  BY <1>9 DEF Cleared, blockVars
<1>10. ASSUME NEW t \in Threads, NEW x \in Instances, Create(t, x)
       PROVE  TypeOK' /\ PositionOnlyWhenChecking'
  BY <1>10 DEF Create, AfterNew, moduleVars
<1>11. ASSUME NEW t \in Threads, NEW x \in Instances, Delete(t, x)
       PROVE  TypeOK' /\ PositionOnlyWhenChecking'
  BY <1>11 DEF Delete, moduleVars
<1>12. ASSUME NEW t \in Threads, NEW point, NEW n \in Int, Access(t, point, n)
       PROVE  TypeOK' /\ PositionOnlyWhenChecking'
  <2>1. Type(on[t]) \in MetaBlocks
    BY InstancesAssumption
  <2>2. count' \in [MetaBlocks -> Int] /\ at' \in [Threads -> {"idle", "ref", "deref"}]
    BY <1>12, <2>1 DEF Access
  <2>3. QED
    BY <1>12, <2>2 DEF Access, moduleVars
<1>13. CASE UNCHANGED vars
  BY <1>13 DEF vars, moduleVars, blockVars
<1>14. QED
  BY <1>1, <1>2, <1>3, <1>4, <1>5, <1>6, <1>7, <1>8, <1>9, <1>10, <1>11, <1>12, <1>13
     DEF Next, ModuleNext, BlockNext, Ref, Deref

LEMMA TypeInit == Init => TypeOK /\ PositionOnlyWhenChecking
<1> SUFFICES ASSUME Init
             PROVE  TypeOK /\ PositionOnlyWhenChecking
  OBVIOUS
<1>1. waiting \in Seq(MetaBlocks) /\ loaded \in Seq(MetaBlocks)
  BY LoadablesAssumption DEF Init
<1>2. kept \subseteq live /\ live \subseteq Instances
  BY InstancesAssumption DEF Init
<1>3. count \in [MetaBlocks -> Int]
  <2>1. ASSUME NEW m \in MetaBlocks
        PROVE  Cardinality(LiveOf(m)) \in Int
    <3>1. IsFiniteSet(LiveOf(m))
      BY <1>2, InstancesAssumption, FS_Subset DEF LiveOf
    <3>2. QED
      BY <3>1, FS_CardinalityType
  <2>2. QED
    BY <2>1 DEF Init
<1>4. (CHOOSE x \in Instances : TRUE) \in Instances
  BY InstancesAssumption
<1>5. QED
  BY <1>1, <1>2, <1>3, <1>4 DEF Init, TypeOK, PositionOnlyWhenChecking

LEMMA TypeInvariant == Spec => [](TypeOK /\ PositionOnlyWhenChecking)
  BY TypeInit, TypeStep, PTL DEF Spec

(* The state of a module and of its instances stays in its type, for any   *)
(* meta blocks, instances and threads.                                     *)
THEOREM TypeCorrect == Spec => []TypeOK
  BY TypeInvariant, PTL

-----------------------------------------------------------------------------
\* Between two calls of load or unload a module is whole or empty.
WholeOrEmpty == phase \in {"idle", "checking"} => waiting = <<>> \/ loaded = <<>>

LEMMA WholeOrEmptyStep == WholeOrEmpty /\ [Next]_vars => WholeOrEmpty'
  BY DEF WholeOrEmpty, Next, vars, moduleVars, ModuleNext, BlockNext, Load, LoadNext,
         FailNext, AfterFailure, Loaded, Unload, CheckNext, Checked, ClearLast, Cleared,
         Create, Delete, Ref, Deref, Access

(* Module::load puts all of its meta blocks in or none: for any meta       *)
(* blocks, whichever of them fail, however often.                          *)
THEOREM LoadsAllOrNothingAlways == Spec => []LoadsAllOrNothing
<1>1. Init => WholeOrEmpty
  BY DEF Init, WholeOrEmpty
<1>2. WholeOrEmpty => LoadsAllOrNothing
  BY DEF WholeOrEmpty, LoadsAllOrNothing
<1>3. QED
  BY <1>1, <1>2, WholeOrEmptyStep, PTL DEF Spec

-----------------------------------------------------------------------------
\* At rest a counter is zero only if there is no instance: the thread that makes
\* it zero by an access does not leave it at that.  It may well be wrong.
ZeroAtRestMeansUnused ==
    \A m \in MetaBlocks : count[m] = 0 =>
        LiveOf(m) = {} \/ \E t \in Threads : at[t] # "idle" /\ Type(on[t]) = m

LEMMA ZeroAtRestStep ==
    TypeOK /\ ZeroAtRestMeansUnused /\ [Next]_vars => ZeroAtRestMeansUnused'
<1> SUFFICES ASSUME TypeOK, ZeroAtRestMeansUnused, [Next]_vars,
                    NEW m \in MetaBlocks, count'[m] = 0
             PROVE  \/ LiveOf(m)' = {}
                    \/ \E t \in Threads : at'[t] # "idle" /\ Type(on'[t]) = m
  BY DEF ZeroAtRestMeansUnused
<1> DEFINE Goal == \/ LiveOf(m)' = {}
                   \/ \E t \in Threads : at'[t] # "idle" /\ Type(on'[t]) = m
<1>1. ASSUME UNCHANGED blockVars
      PROVE  Goal
  BY <1>1 DEF ZeroAtRestMeansUnused, blockVars, LiveOf
<1>2. ASSUME NEW t \in Threads, NEW x \in Instances, at[t] = "idle", count' = count,
             \/ at' = [at EXCEPT ![t] = "ref"] /\ live' = live \cup {x}
             \/ at' = [at EXCEPT ![t] = "deref"] /\ live' = live \ {x},
             on' = [on EXCEPT ![t] = x]
      PROVE  Goal
  <2>1. at'[t] # "idle" /\ on'[t] = x
    BY <1>2 DEF TypeOK
  <2>2. CASE Type(x) = m
    BY <2>1, <2>2
  <2>3. CASE Type(x) # m
    <3>1. LiveOf(m)' = LiveOf(m)
      BY <1>2, <2>3 DEF LiveOf
    <3>2. ASSUME NEW u \in Threads, at[u] # "idle"
          PROVE  at'[u] # "idle" /\ on'[u] = on[u]
      BY <1>2, <3>2 DEF TypeOK
    <3>3. QED
      BY <1>2, <3>1, <3>2 DEF ZeroAtRestMeansUnused
  <2>4. QED
    BY <2>2, <2>3
<1>3. ASSUME NEW t \in Threads, NEW point, NEW n \in Int, point # "idle", Access(t, point, n)
      PROVE  Goal
  <2>1. LiveOf(m)' = LiveOf(m) /\ on' = on
    BY <1>3 DEF Access, LiveOf
  <2>2. CASE Type(on[t]) = m
    BY <1>3, <2>1, <2>2 DEF Access
  <2>3. CASE Type(on[t]) # m
    <3>1. count[m] = 0
      BY <1>3, <2>3 DEF Access, TypeOK
    <3>2. ASSUME NEW u \in Threads, Type(on[u]) = m
          PROVE  at'[u] = at[u]
      BY <1>3, <2>3, <3>2 DEF Access, TypeOK
    <3>3. QED
      BY <2>1, <3>1, <3>2 DEF ZeroAtRestMeansUnused
  <2>4. QED
    BY <2>2, <2>3
<1>4. CASE ModuleNext
  BY <1>1, <1>4 DEF ModuleNext, Load, LoadNext, FailNext, Loaded, Unload, CheckNext,
                    Checked, ClearLast, Cleared
<1>5. CASE BlockNext
  <2>1. ASSUME NEW t \in Threads, NEW x \in Instances, Create(t, x) \/ Delete(t, x)
        PROVE  Goal
    BY <1>2, <2>1 DEF Create, Delete, AfterNew
  <2>2. ASSUME NEW t \in Threads, Ref(t) \/ Deref(t)
        PROVE  Goal
    BY <1>3, <2>2 DEF Ref, Deref
  <2>3. QED
    BY <1>5, <2>1, <2>2 DEF BlockNext
<1>6. QED
  BY <1>1, <1>4, <1>5 DEF Next, vars

\* While the module loads or unloads no thread is at a counter.  A meta block
\* that unload has asked has no instances; and the module is cleared when there
\* are none: after a load that failed it never had any.
SafeToClear ==
    /\ phase # "idle" => Quiet
    /\ phase = "checking" => \A i \in 1 .. checked : LiveOf(loaded[i]) = {}
    /\ phase = "loading" /\ waiting # <<>> => live = {}
    /\ phase = "clearing" => live = {}

KeepInv == WholeOrEmpty /\ ZeroAtRestMeansUnused /\ SafeToClear /\ InstancesKeepTheirMetaBlock

LEMMA SafeToClearStep ==
    TypeOK /\ KeepInv /\ [Next]_vars => SafeToClear'
<1> SUFFICES ASSUME TypeOK, KeepInv, [Next]_vars
             PROVE  SafeToClear'
  OBVIOUS
<1> USE DEF KeepInv
<1>1. CASE Load
  <2>1. waiting # <<>> => live = {}
    BY <1>1, EmptySeq DEF Load, WholeOrEmpty, InstancesKeepTheirMetaBlock, Contains
  <2>2. QED
    BY <1>1, <2>1 DEF Load, blockVars, SafeToClear, Quiet
<1>2. CASE LoadNext
  BY <1>2 DEF LoadNext, blockVars, SafeToClear, Quiet
<1>3. CASE FailNext
  BY <1>3 DEF FailNext, AfterFailure, blockVars, SafeToClear, Quiet
<1>4. CASE Loaded
  BY <1>4 DEF Loaded, blockVars, SafeToClear, Quiet
<1>5. CASE Unload
  BY <1>5 DEF Unload, blockVars, SafeToClear, Quiet
<1>6. CASE CheckNext
  <2>1. CASE ~CanUnload(loaded[checked + 1])
    BY <1>6, <2>1 DEF CheckNext, blockVars, SafeToClear, Quiet
  <2>2. CASE CanUnload(loaded[checked + 1])
    <3>1. loaded[checked + 1] \in MetaBlocks
      BY <1>6 DEF CheckNext, TypeOK
    <3>2. LiveOf(loaded[checked + 1]) = {}
      BY <1>6, <2>2, <3>1
         DEF CheckNext, CanUnload, ZeroAtRestMeansUnused, SafeToClear, Quiet
    <3>3. \A i \in 1 .. checked + 1 : LiveOf(loaded[i]) = {}
      <4>1. phase = "checking" /\ checked \in Nat
        BY <1>6 DEF CheckNext, TypeOK
      <4>2. ASSUME NEW i \in 1 .. checked + 1, i # checked + 1
            PROVE  i \in 1 .. checked
        BY <4>1, <4>2
      <4>3. QED
        BY <3>2, <4>1, <4>2 DEF SafeToClear
    <3>4. checked' = checked + 1 /\ UNCHANGED <<phase, waiting, loaded, live, at>>
      BY <1>6, <2>2 DEF CheckNext, blockVars
    <3>5. \A m \in MetaBlocks : LiveOf(m)' = LiveOf(m)
      BY <3>4 DEF LiveOf
    <3>6. QED
      BY <1>6, <3>3, <3>4 DEF CheckNext, SafeToClear, Quiet, LiveOf
  <2>3. QED
    BY <2>1, <2>2
<1>7. CASE Checked
  <2>1. ASSUME NEW x \in live
        PROVE  FALSE
    <3>1. PICK i \in 1 .. Len(loaded) : loaded[i] = Type(x)
      BY DEF InstancesKeepTheirMetaBlock, Contains
    <3>2. LiveOf(loaded[i]) = {}
      BY <1>7 DEF Checked, SafeToClear
    <3>3. QED
      BY <3>1, <3>2 DEF LiveOf
  <2>2. QED
    BY <1>7, <2>1 DEF Checked, blockVars, SafeToClear, Quiet
<1>8. CASE ClearLast
  BY <1>8 DEF ClearLast, blockVars, SafeToClear, Quiet
<1>9. CASE Cleared
  BY <1>9 DEF Cleared, blockVars, SafeToClear, Quiet
<1>10. CASE BlockNext
  BY <1>10 DEF BlockNext, Create, Delete, Ref, Deref, Access, moduleVars, SafeToClear, Quiet
<1>11. CASE UNCHANGED vars
  BY <1>11 DEF vars, moduleVars, blockVars, SafeToClear, Quiet, LiveOf
<1>12. QED
  BY <1>1, <1>2, <1>3, <1>4, <1>5, <1>6, <1>7, <1>8, <1>9, <1>10, <1>11 DEF Next, ModuleNext

LEMMA KeepStep ==
    TypeOK /\ KeepInv /\ [Next]_vars => InstancesKeepTheirMetaBlock'
<1> SUFFICES ASSUME TypeOK, KeepInv, [Next]_vars
             PROVE  InstancesKeepTheirMetaBlock'
  OBVIOUS
<1> USE DEF KeepInv
<1>1. CASE loaded' = loaded /\ UNCHANGED blockVars
  BY <1>1 DEF blockVars, InstancesKeepTheirMetaBlock, Contains
<1>2. CASE LoadNext
  <2>1. waiting # <<>> /\ live = {} /\ \A t \in Threads : at[t] = "idle"
    BY <1>2 DEF LoadNext, SafeToClear, Quiet
  <2>2. QED
    BY <1>2, <2>1 DEF LoadNext, blockVars, InstancesKeepTheirMetaBlock
<1>3. CASE ClearLast
  <2>1. live = {} /\ \A t \in Threads : at[t] = "idle"
    BY <1>3 DEF ClearLast, SafeToClear, Quiet
  <2>2. QED
    BY <1>3, <2>1 DEF ClearLast, blockVars, InstancesKeepTheirMetaBlock
<1>4. ASSUME NEW t \in Threads, NEW x \in Instances, Create(t, x) \/ Delete(t, x)
      PROVE  InstancesKeepTheirMetaBlock'
  <2>1. /\ Contains(loaded, Type(x)) /\ live' \subseteq live \cup {x} /\ loaded' = loaded
        /\ on' = [on EXCEPT ![t] = x]
    BY <1>4 DEF Create, Delete, moduleVars, InstancesKeepTheirMetaBlock
  <2>2. \A u \in Threads : u # t => at'[u] = at[u] /\ on'[u] = on[u]
    BY <1>4, <2>1 DEF Create, Delete, TypeOK
  <2>3. on'[t] = x
    BY <2>1 DEF TypeOK
  <2>4. QED
    BY <2>1, <2>2, <2>3 DEF InstancesKeepTheirMetaBlock
<1>5. ASSUME NEW t \in Threads, NEW point, NEW n \in Int, point # "idle", Access(t, point, n)
      PROVE  InstancesKeepTheirMetaBlock'
  <2>1. UNCHANGED <<live, on, loaded>> /\ \A u \in Threads : at'[u] # "idle" => at[u] # "idle"
    BY <1>5 DEF Access, moduleVars, TypeOK
  <2>2. QED
    BY <2>1 DEF InstancesKeepTheirMetaBlock
<1>6. CASE UNCHANGED vars
  BY <1>1, <1>6 DEF vars, moduleVars
<1>7. CASE ModuleNext
  BY <1>1, <1>2, <1>3, <1>7 DEF ModuleNext, Load, FailNext, Loaded, Unload, CheckNext,
                                Checked, Cleared
<1>8. QED
  BY <1>4, <1>5, <1>6, <1>7 DEF Next, BlockNext, Ref, Deref

LEMMA KeepInit == Init => KeepInv
<1> SUFFICES ASSUME Init
             PROVE  KeepInv
  OBVIOUS
<1>1. WholeOrEmpty /\ SafeToClear
  BY EmptySeq DEF Init, WholeOrEmpty, SafeToClear, Quiet
<1>2. ZeroAtRestMeansUnused
  <2>1. ASSUME NEW m \in MetaBlocks
        PROVE  IsFiniteSet(LiveOf(m))
    BY InstancesAssumption, FS_Subset DEF Init, LiveOf
  <2>2. QED
    BY <2>1, FS_EmptySet DEF Init, ZeroAtRestMeansUnused
<1>3. InstancesKeepTheirMetaBlock
  <2>1. ASSUME NEW x \in live
        PROVE  Contains(loaded, Type(x))
    <3>1. loaded = Loadables /\ Type(x) \in MetaBlocks
      BY <2>1, InstancesAssumption DEF Init
    <3>2. PICK i \in DOMAIN Loadables : Loadables[i] = Type(x)
      BY <3>1 DEF MetaBlocks, ToSet
    <3>3. QED
      BY <3>1, <3>2, LoadablesAssumption DEF Contains
  <2>2. QED
    BY <2>1 DEF Init, InstancesKeepTheirMetaBlock
<1>4. QED
  BY <1>1, <1>2, <1>3 DEF KeepInv

(* No instance outlives its meta block, and none is counted in or out by a *)
(* meta block that is gone, whatever races there are on the counters.      *)
THEOREM InstancesKeepTheirMetaBlockAlways == Spec => []InstancesKeepTheirMetaBlock
<1>1. TypeOK /\ KeepInv /\ [Next]_vars => KeepInv'
  BY WholeOrEmptyStep, ZeroAtRestStep, SafeToClearStep, KeepStep DEF KeepInv
<1>2. Spec => []KeepInv
  BY <1>1, KeepInit, TypeInvariant, PTL DEF Spec
<1>3. KeepInv => InstancesKeepTheirMetaBlock
  BY DEF KeepInv
<1>4. QED
  BY <1>2, <1>3, PTL

-----------------------------------------------------------------------------
\* An instance is counted in by the one thread that created it, before anybody
\* else has it; the application never gives up what it keeps.
RefsAreDistinct ==
    /\ \A t \in Threads : at[t] = "ref" => on[t] \in live \ kept
    /\ \A t, u \in Threads :
          at[t] = "ref" /\ at[u] = "ref" /\ on[t] = on[u] => t = u

CountInv == RefsAreDistinct /\ CountIsExact

LEMMA RefsAreDistinctStep ==
    TypeOK /\ RefsAreDistinct /\ [Next]_vars => RefsAreDistinct'
<1> SUFFICES ASSUME TypeOK, RefsAreDistinct, [Next]_vars
             PROVE  RefsAreDistinct'
  OBVIOUS
<1> USE DEF RefsAreDistinct
<1>1. CASE UNCHANGED blockVars
  BY <1>1 DEF blockVars
<1>2. ASSUME NEW t \in Threads, NEW x \in Instances, Create(t, x)
      PROVE  RefsAreDistinct'
  BY <1>2 DEF Create, AfterNew, TypeOK
<1>3. ASSUME NEW t \in Threads, NEW x \in Instances, Delete(t, x)
      PROVE  RefsAreDistinct'
  BY <1>3 DEF Delete, TypeOK
<1>4. ASSUME NEW t \in Threads, Ref(t) \/ Deref(t)
      PROVE  RefsAreDistinct'
  BY <1>4 DEF Ref, Deref, Access, TypeOK
<1>5. QED
  BY <1>1, <1>2, <1>3, <1>4
     DEF Next, vars, ModuleNext, BlockNext, Load, LoadNext, FailNext, Loaded, Unload,
         CheckNext, Checked, ClearLast, Cleared

LEMMA BusyIsFinite ==
    ASSUME NEW m, NEW p
    PROVE  IsFiniteSet(Busy(m, p)) /\ Cardinality(Busy(m, p)) \in Nat
<1>1. Busy(m, p) \in SUBSET Threads /\ IsFiniteSet(Threads)
  BY InstancesAssumption DEF Busy
<1>2. IsFiniteSet(Busy(m, p))
  BY <1>1, FS_Subset
<1>3. QED
  BY <1>2, FS_CardinalityType

LEMMA LiveIsFinite ==
    ASSUME TypeOK, NEW m
    PROVE  IsFiniteSet(LiveOf(m)) /\ Cardinality(LiveOf(m)) \in Nat
<1>1. LiveOf(m) \in SUBSET Instances /\ IsFiniteSet(Instances)
  BY InstancesAssumption DEF LiveOf, TypeOK
<1>2. IsFiniteSet(LiveOf(m))
  BY <1>1, FS_Subset
<1>3. QED
  BY <1>2, FS_CardinalityType

(* The accesses that count in are fewer than the instances, if one of them *)
(* stays: the counter is positive, and remains so at an access.            *)
LEMMA CountStaysPositive ==
    ASSUME TypeOK, CountInv, NEW x \in kept, NEW m, m = Type(x)
    PROVE  /\ m \in MetaBlocks /\ count[m] \in Int
           /\ count[m] >= 1 + Cardinality(Busy(m, "deref"))
<1> DEFINE R == Busy(m, "ref")
           L == LiveOf(m)
           f == [t \in R |-> on[t]]
<1>1. x \in Instances /\ m \in MetaBlocks /\ count[m] \in Int
  BY InstancesAssumption DEF TypeOK
<1>2. f \in Injection(R, L \ {x})
  <2>1. ASSUME NEW t \in R
        PROVE  f[t] \in L \ {x}
    BY DEF CountInv, RefsAreDistinct, Busy, LiveOf
  <2>2. ASSUME NEW t \in R, NEW u \in R, f[t] = f[u]
        PROVE  t = u
    BY <2>2 DEF CountInv, RefsAreDistinct, Busy
  <2>3. f \in [R -> L \ {x}]
    BY <2>1
  <2>4. QED
    BY <2>2, <2>3 DEF Injection, IsInjective
<1>3. /\ IsFiniteSet(L \ {x}) /\ Cardinality(L \ {x}) = Cardinality(L) - 1
      /\ Cardinality(L) \in Nat
  <2>1. x \in L /\ IsFiniteSet(L) /\ Cardinality(L) \in Nat
    BY LiveIsFinite DEF LiveOf, TypeOK
  <2>2. QED
    BY <2>1, FS_RemoveElement
<1>4. Cardinality(R) <= Cardinality(L) - 1
  <2>1. Cardinality(R) <= Cardinality(L \ {x})
    BY <1>2, <1>3, FS_Injection
  <2>2. QED
    BY <1>3, <2>1
<1>5. count[m] + Cardinality(R) - Cardinality(Busy(m, "deref")) = Cardinality(L)
  BY DEF CountInv, CountIsExact
<1>6. Cardinality(R) \in Nat /\ Cardinality(Busy(m, "deref")) \in Nat
  BY BusyIsFinite
<1> HIDE DEF R, L, f
<1>7. QED
  BY <1>1, <1>3, <1>4, <1>5, <1>6

LEMMA CountIsExactStep ==
    ASSUME TypeOK, CountInv, [Next]_vars
    PROVE  CountIsExact'
<1> SUFFICES ASSUME NEW x \in kept', NEW m, m = Type(x)
             PROVE  count'[m] + Cardinality(Busy(m, "ref")') - Cardinality(Busy(m, "deref")')
                        = Cardinality(LiveOf(m)')
  BY DEF CountIsExact
<1> DEFINE Goal == count'[m] + Cardinality(Busy(m, "ref")') - Cardinality(Busy(m, "deref")')
                        = Cardinality(LiveOf(m)')
<1>1. x \in kept
  BY DEF Next, vars, blockVars, ModuleNext, BlockNext, Load, LoadNext, FailNext, Loaded,
         Unload, CheckNext, Checked, ClearLast, Cleared, Create, Delete, Ref, Deref, Access
<1>2. /\ m \in MetaBlocks /\ count[m] \in Int
      /\ count[m] >= 1 + Cardinality(Busy(m, "deref"))
  BY <1>1, CountStaysPositive
<1>3. count[m] + Cardinality(Busy(m, "ref")) - Cardinality(Busy(m, "deref"))
          = Cardinality(LiveOf(m))
  BY <1>1 DEF CountInv, CountIsExact
<1>4. /\ Cardinality(Busy(m, "ref")) \in Nat /\ Cardinality(Busy(m, "deref")) \in Nat
      /\ IsFiniteSet(Busy(m, "ref")) /\ IsFiniteSet(Busy(m, "deref"))
      /\ Cardinality(LiveOf(m)) \in Nat /\ IsFiniteSet(LiveOf(m))
  BY BusyIsFinite, LiveIsFinite
<1>5. CASE /\ count'[m] = count[m] /\ Busy(m, "ref")' = Busy(m, "ref")
           /\ Busy(m, "deref")' = Busy(m, "deref") /\ LiveOf(m)' = LiveOf(m)
  BY <1>3, <1>5
<1>6. CASE UNCHANGED blockVars
  BY <1>5, <1>6 DEF blockVars, Busy, LiveOf
<1>7. ASSUME NEW t \in Threads, NEW y \in Instances, Create(t, y)
      PROVE  Goal
  <2>1. /\ at[t] = "idle" /\ y \notin live /\ live' = live \cup {y} /\ count' = count
        /\ at'[t] = "ref" /\ on'[t] = y
        /\ \A u \in Threads \ {t} : at'[u] = at[u] /\ on'[u] = on[u]
    BY <1>7 DEF Create, AfterNew, TypeOK
  <2>2. Busy(m, "deref")' = Busy(m, "deref")
    BY <2>1 DEF Busy
  <2>3. CASE Type(y) = m
    <3>1. /\ Busy(m, "ref")' = Busy(m, "ref") \cup {t} /\ t \notin Busy(m, "ref")
          /\ LiveOf(m)' = LiveOf(m) \cup {y} /\ y \notin LiveOf(m)
      BY <2>1, <2>3 DEF Busy, LiveOf
    <3>2. /\ Cardinality(Busy(m, "ref")') = Cardinality(Busy(m, "ref")) + 1
          /\ Cardinality(LiveOf(m)') = Cardinality(LiveOf(m)) + 1
      BY <1>4, <3>1, FS_AddElement
    <3>3. QED
      BY <1>2, <1>3, <1>4, <2>1, <2>2, <3>2
  <2>4. CASE Type(y) # m
    <3>1. Busy(m, "ref")' = Busy(m, "ref") /\ LiveOf(m)' = LiveOf(m)
      BY <2>1, <2>4 DEF Busy, LiveOf
    <3>2. QED
      BY <1>5, <2>1, <2>2, <3>1
  <2>5. QED
    BY <2>3, <2>4
<1>8. ASSUME NEW t \in Threads, NEW y \in Instances, Delete(t, y)
      PROVE  Goal
  <2>1. /\ at[t] = "idle" /\ y \in live /\ live' = live \ {y} /\ count' = count
        /\ at'[t] = "deref" /\ on'[t] = y
        /\ \A u \in Threads \ {t} : at'[u] = at[u] /\ on'[u] = on[u]
    BY <1>8 DEF Delete, TypeOK
  <2>2. Busy(m, "ref")' = Busy(m, "ref")
    BY <2>1 DEF Busy
  <2>3. CASE Type(y) = m
    <3>1. /\ Busy(m, "deref")' = Busy(m, "deref") \cup {t} /\ t \notin Busy(m, "deref")
          /\ LiveOf(m)' = LiveOf(m) \ {y} /\ y \in LiveOf(m)
      BY <2>1, <2>3 DEF Busy, LiveOf
    <3>2. /\ Cardinality(Busy(m, "deref")') = Cardinality(Busy(m, "deref")) + 1
          /\ Cardinality(LiveOf(m)') = Cardinality(LiveOf(m)) - 1
      <4>1. Cardinality(Busy(m, "deref") \cup {t}) = Cardinality(Busy(m, "deref")) + 1
        BY <1>4, <3>1, FS_AddElement
      <4>2. Cardinality(LiveOf(m) \ {y}) = Cardinality(LiveOf(m)) - 1
        BY <1>4, <3>1, FS_RemoveElement
      <4>3. QED
        BY <3>1, <4>1, <4>2
    <3>3. QED
      BY <1>2, <1>3, <1>4, <2>1, <2>2, <3>2
  <2>4. CASE Type(y) # m
    <3>1. Busy(m, "deref")' = Busy(m, "deref") /\ LiveOf(m)' = LiveOf(m)
      BY <2>1, <2>4 DEF Busy, LiveOf
    <3>2. QED
      BY <1>5, <2>1, <2>2, <3>1
  <2>5. QED
    BY <2>3, <2>4
<1>9. ASSUME NEW t \in Threads, NEW p, NEW n \in Int, Access(t, p, n), Type(on[t]) # m
      PROVE  Goal
  <2>1. /\ count'[m] = count[m] /\ on' = on /\ live' = live
        /\ \A u \in Threads \ {t} : at'[u] = at[u]
    BY <1>2, <1>9 DEF Access, TypeOK
  <2>2. /\ Busy(m, "ref")' = Busy(m, "ref") /\ Busy(m, "deref")' = Busy(m, "deref")
        /\ LiveOf(m)' = LiveOf(m)
    BY <1>9, <2>1 DEF Busy, LiveOf
  <2>3. QED
    BY <1>5, <2>1, <2>2
<1>10. ASSUME NEW t \in Threads, NEW p, NEW n \in Int, p \in {"ref", "deref"},
              Access(t, p, n), Type(on[t]) = m, count[m] + n # 0
       PROVE  /\ count'[m] = count[m] + n /\ LiveOf(m)' = LiveOf(m)
              /\ Busy(m, "ref")' = Busy(m, "ref") \ {t}
              /\ Busy(m, "deref")' = Busy(m, "deref") \ {t}
              /\ t \in Busy(m, p) /\ \A q \in {"ref", "deref"} : q # p => t \notin Busy(m, q)
  <2>1. count'[m] = count[m] + n /\ on' = on /\ live' = live /\ at[t] = p
    BY <1>2, <1>10 DEF Access, TypeOK
  <2>2. at'[t] = "idle" /\ \A u \in Threads \ {t} : at'[u] = at[u]
    BY <1>10, <2>1 DEF Access, TypeOK
  <2>3. QED
    BY <1>10, <2>1, <2>2 DEF Busy, LiveOf
<1>11. ASSUME NEW t \in Threads, Ref(t)
       PROVE  Goal
  <2>1. CASE Type(on[t]) = m
    <3>1. count[m] + 1 # 0 /\ Access(t, "ref", 1)
      BY <1>2, <1>4, <1>11 DEF Ref
    <3>2. /\ count'[m] = count[m] + 1 /\ LiveOf(m)' = LiveOf(m)
          /\ Busy(m, "ref")' = Busy(m, "ref") \ {t} /\ t \in Busy(m, "ref")
          /\ Busy(m, "deref")' = Busy(m, "deref") \ {t} /\ t \notin Busy(m, "deref")
      BY <1>10, <2>1, <3>1
    <3>3. /\ Cardinality(Busy(m, "ref")') = Cardinality(Busy(m, "ref")) - 1
          /\ Busy(m, "deref")' = Busy(m, "deref")
      <4>1. Cardinality(Busy(m, "ref") \ {t}) = Cardinality(Busy(m, "ref")) - 1
        BY <1>4, <3>2, FS_RemoveElement
      <4>2. Busy(m, "deref") \ {t} = Busy(m, "deref")
        BY <3>2
      <4>3. QED
        BY <3>2, <4>1, <4>2
    <3>4. QED
      BY <1>2, <1>3, <1>4, <3>2, <3>3
  <2>2. CASE Type(on[t]) # m
    BY <1>9, <1>11, <2>2 DEF Ref
  <2>3. QED
    BY <2>1, <2>2
<1>12. ASSUME NEW t \in Threads, Deref(t)
       PROVE  Goal
  <2>1. CASE Type(on[t]) = m
    <3>1. Access(t, "deref", -1) /\ t \in Busy(m, "deref")
      BY <1>12, <2>1 DEF Deref, Access, Busy
    <3>2. Cardinality(Busy(m, "deref")) # 0
      BY <1>4, <3>1, FS_EmptySet
    <3>3. count[m] + (-1) # 0
      BY <1>2, <1>4, <3>2
    <3>4. /\ count'[m] = count[m] + (-1) /\ LiveOf(m)' = LiveOf(m)
          /\ Busy(m, "ref")' = Busy(m, "ref") \ {t} /\ t \notin Busy(m, "ref")
          /\ Busy(m, "deref")' = Busy(m, "deref") \ {t}
      BY <1>10, <2>1, <3>1, <3>3
    <3>5. /\ Cardinality(Busy(m, "deref")') = Cardinality(Busy(m, "deref")) - 1
          /\ Busy(m, "ref")' = Busy(m, "ref")
      <4>1. Cardinality(Busy(m, "deref") \ {t}) = Cardinality(Busy(m, "deref")) - 1
        BY <1>4, <3>1, FS_RemoveElement
      <4>2. Busy(m, "ref") \ {t} = Busy(m, "ref")
        BY <3>4
      <4>3. QED
        BY <3>4, <4>1, <4>2
    <3>6. QED
      BY <1>2, <1>3, <1>4, <3>4, <3>5
  <2>2. CASE Type(on[t]) # m
    BY <1>9, <1>12, <2>2 DEF Deref
  <2>3. QED
    BY <2>1, <2>2
<1>13. CASE ModuleNext \/ UNCHANGED vars
  BY <1>6, <1>13 DEF ModuleNext, vars, Load, LoadNext, FailNext, Loaded, Unload, CheckNext,
                     Checked, ClearLast, Cleared
<1>14. QED
  BY <1>7, <1>8, <1>11, <1>12, <1>13 DEF Next, BlockNext

(* With an instance that stays, the racing threads can never bring the     *)
(* counter to zero, where an access would be repeated: it is exact, for    *)
(* any number of threads that create and destroy any other instances.      *)
THEOREM CountIsExactAlways == Spec => []CountIsExact
<1>1. Init => CountInv
  <2>1. SUFFICES ASSUME Init PROVE CountInv
    OBVIOUS
  <2>2. RefsAreDistinct
    BY <2>1 DEF Init, RefsAreDistinct
  <2>3. ASSUME NEW x \in kept, NEW m, m = Type(x)
        PROVE  count[m] + Cardinality(Busy(m, "ref")) - Cardinality(Busy(m, "deref"))
                   = Cardinality(LiveOf(m))
    <3>1. Busy(m, "ref") = {} /\ Busy(m, "deref") = {}
      BY <2>1 DEF Init, Busy
    <3>2. m \in MetaBlocks
      BY <2>1, <2>3, InstancesAssumption DEF Init
    <3>3. count[m] = Cardinality(LiveOf(m)) /\ Cardinality(LiveOf(m)) \in Nat
      BY <2>1, <3>2, LiveIsFinite, TypeInit DEF Init
    <3>4. Cardinality(Busy(m, "ref")) = 0 /\ Cardinality(Busy(m, "deref")) = 0
      BY <3>1, FS_EmptySet
    <3>5. QED
      BY <3>3, <3>4
  <2>4. QED
    BY <2>2, <2>3 DEF CountInv, CountIsExact
<1>2. TypeOK /\ CountInv /\ [Next]_vars => CountInv'
  BY RefsAreDistinctStep, CountIsExactStep DEF CountInv
<1>3. CountInv => CountIsExact
  BY DEF CountInv
<1>4. QED
  BY <1>1, <1>2, <1>3, TypeInvariant, PTL DEF Spec
=============================================================================
