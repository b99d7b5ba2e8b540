--------------------------- MODULE ModuleLifecycle ---------------------------
(***************************************************************************)
(* A plugin Module, the meta blocks it loads, and the instances that the   *)
(* threads of the program create from them and destroy.                    *)
(*                                                                         *)
(* Each MetaBlock counts its instances in an atomic counter, and a Module  *)
(* may only be unloaded when all its meta blocks can be.  One access to a  *)
(* counter is one step.  MetaBlock::ref and deref repeat the access while  *)
(* QAtomicInt says that the counter came out as zero.                      *)
(***************************************************************************)
EXTENDS Integers, SequencesExt

CONSTANTS
    Loadables,   \* the meta blocks of the module, in the order of registration
    MayFail,     \* those whose instantiator may return a null pointer
    Instances,   \* the blocks that may be created from them
    Type(_),     \* the meta block of an instance
    Permanent,   \* those the application may have from the start, and keep
    Threads,     \* the threads that create and destroy blocks
    MaxDrift     \* bound: nothing is created while a counter is this far below zero

MetaBlocks == ToSet(Loadables)

ASSUME LoadablesAssumption ==
    /\ Loadables \in Seq(MetaBlocks)
    /\ \A i, j \in DOMAIN Loadables : Loadables[i] = Loadables[j] => i = j
    /\ MayFail \subseteq MetaBlocks

ASSUME InstancesAssumption ==
    /\ \A x \in Instances : Type(x) \in MetaBlocks
    /\ Permanent \subseteq Instances
    /\ Instances # {} /\ IsFiniteSet(Instances) /\ IsFiniteSet(Threads)
    /\ MaxDrift \in Nat

VARIABLES
    waiting,  \* Module::_instantiators
    loaded,   \* the blocks of the Module, found by KoreEngine::GetMetaBlock
    phase,    \* what the module does: "idle", "loading", "checking", "clearing"
    checked,  \* how many meta blocks Module::unload has asked
    kept,     \* the instances that the application has from the start
    count,    \* MetaBlock::_instancesCount
    live,     \* the instances that exist
    at,       \* what each thread does: "idle", "ref" or "deref"
    on        \* with the count of which instance, if not idle

moduleVars == <<waiting, loaded, phase, checked>>
blockVars == <<kept, count, live, at, on>>
vars == <<moduleVars, blockVars>>

LiveOf(m) == {x \in live : Type(x) = m}
Busy(m, point) == {t \in Threads : at[t] = point /\ Type(on[t]) = m}

\* Loading and unloading are done while no other thread creates or destroys
\* blocks: nothing in the code keeps the two apart.
Quiet == \A t \in Threads : at[t] = "idle"

-----------------------------------------------------------------------------
\* The module is as registerLoadable left it, or loaded and in use already.
Init ==
    /\ kept \in SUBSET Permanent
    /\ waiting = IF kept = {} THEN Loadables ELSE <<>>
    /\ loaded = IF kept = {} THEN <<>> ELSE Loadables
    /\ phase = "idle" /\ checked = 0
    /\ live = kept
    /\ count = [m \in MetaBlocks |-> Cardinality(LiveOf(m))]
    /\ at = [t \in Threads |-> "idle"]
    /\ on = [t \in Threads |-> CHOOSE x \in Instances : TRUE]

-----------------------------------------------------------------------------
(* Module::load                                                            *)

Load ==
    /\ phase = "idle" /\ Quiet
    /\ phase' = "loading"
    /\ UNCHANGED <<waiting, loaded, checked, blockVars>>

LoadNext ==
    /\ phase = "loading" /\ waiting # <<>>
    /\ waiting' = Tail(waiting)
    /\ loaded' = Append(loaded, Head(waiting))
    /\ UNCHANGED <<phase, checked, blockVars>>

AfterFailureKeepingBlocks == "idle"
AfterFailure == "clearing"

\* The mutant adds the null pointer to the module.
FailNextUnseen ==
    /\ phase = "loading" /\ waiting # <<>> /\ Head(waiting) \in MayFail
    /\ waiting' = Tail(waiting)
    /\ loaded' = Append(loaded, "null")
    /\ UNCHANGED <<phase, checked, blockVars>>

\* The rest of the instantiators stays registered.
FailNext ==
    /\ phase = "loading" /\ waiting # <<>> /\ Head(waiting) \in MayFail
    /\ waiting' = Tail(waiting)
    /\ phase' = AfterFailure
    /\ UNCHANGED <<loaded, checked, blockVars>>

Loaded ==
    /\ phase = "loading" /\ waiting = <<>>
    /\ phase' = "idle"
    /\ UNCHANGED <<waiting, loaded, checked, blockVars>>

-----------------------------------------------------------------------------
(* Module::unload                                                          *)

CanUnloadUnlessPositive(m) == count[m] <= 0
CanUnload(m) == count[m] = 0

Unload ==
    /\ phase = "idle" /\ Quiet
    /\ phase' = "checking" /\ checked' = 0
    /\ UNCHANGED <<waiting, loaded, blockVars>>

CheckNext ==
    /\ phase = "checking" /\ checked < Len(loaded)
    /\ IF CanUnload(loaded[checked + 1])
       THEN checked' = checked + 1 /\ UNCHANGED phase
       ELSE checked' = 0 /\ phase' = "idle"
    /\ UNCHANGED <<waiting, loaded, blockVars>>

Checked ==
    /\ phase = "checking" /\ checked = Len(loaded)
    /\ phase' = "clearing" /\ checked' = 0
    /\ UNCHANGED <<waiting, loaded, blockVars>>

\* Library::clear: each meta block is deleted, and forgotten by the engine.
ClearLast ==
    /\ phase = "clearing" /\ loaded # <<>>
    /\ loaded' = Front(loaded)
    /\ UNCHANGED <<waiting, phase, checked, blockVars>>

Cleared ==
    /\ phase = "clearing" /\ loaded = <<>>
    /\ phase' = "idle"
    /\ UNCHANGED <<waiting, loaded, checked, blockVars>>

-----------------------------------------------------------------------------
(* PrivateMetaBlock::instantiate and MetaBlock::destroyBlock: the instance *)
(* exists before it is counted, and is gone before it is counted out.      *)

AfterNewUncounted == "idle"
AfterNew == "ref"

Create(t, x) ==
    /\ phase = "idle" /\ at[t] = "idle"
    /\ x \notin live /\ Contains(loaded, Type(x))
    /\ count[Type(x)] > -MaxDrift
    /\ live' = live \cup {x}
    /\ at' = [at EXCEPT ![t] = AfterNew]
    /\ on' = [on EXCEPT ![t] = x]
    /\ UNCHANGED <<kept, count, moduleVars>>

\* Nobody has an instance before instantiate returns it.
Delete(t, x) ==
    /\ phase = "idle" /\ at[t] = "idle"
    /\ x \in live \ kept
    /\ \A u \in Threads : ~(at[u] = "ref" /\ on[u] = x)
    /\ live' = live \ {x}
    /\ at' = [at EXCEPT ![t] = "deref"]
    /\ on' = [on EXCEPT ![t] = x]
    /\ UNCHANGED <<kept, count, moduleVars>>

\* QAtomicInt::ref and deref return whether the new value differs from zero.
Access(t, point, n) ==
    /\ at[t] = point
    /\ count' = [count EXCEPT ![Type(on[t])] = @ + n]
    /\ at' = IF count'[Type(on[t])] # 0 THEN [at EXCEPT ![t] = "idle"] ELSE at
    /\ UNCHANGED <<kept, live, on, moduleVars>>

Ref(t) == Access(t, "ref", 1)
Deref(t) == Access(t, "deref", -1)

-----------------------------------------------------------------------------
ModuleNext ==
    \/ Load \/ LoadNext \/ FailNext \/ Loaded
    \/ Unload \/ CheckNext \/ Checked \/ ClearLast \/ Cleared

BlockNext ==
    \E t \in Threads :
        \/ \E x \in Instances : Create(t, x) \/ Delete(t, x)
        \/ Ref(t) \/ Deref(t)

Next == ModuleNext \/ BlockNext

Spec == Init /\ [][Next]_vars

-----------------------------------------------------------------------------
(* Properties.                                                             *)

TypeOK ==
    /\ waiting \in Seq(MetaBlocks)
    /\ loaded \in Seq(MetaBlocks)
    /\ phase \in {"idle", "loading", "checking", "clearing"}
    /\ checked \in 0 .. Len(loaded)
    /\ kept \subseteq live
    /\ count \in [MetaBlocks -> Int]
    /\ live \subseteq Instances
    /\ at \in [Threads -> {"idle", "ref", "deref"}]
    /\ on \in [Threads -> Instances]

\* Module.cpp: unload checks that all meta blocks can be unloaded.  So no block
\* outlives its meta block, nor is it counted in or out by a deleted one.  It
\* holds although the counters may be wrong after two threads raced on them:
\* at rest a counter is never zero again once an instance was counted.
InstancesKeepTheirMetaBlock ==
    /\ \A x \in live : Contains(loaded, Type(x))
    /\ \A t \in Threads : at[t] # "idle" => Contains(loaded, Type(on[t]))

\* While a meta block has an instance that stays, no counter access of any
\* thread comes out as zero, and the counter is exact up to the accesses that
\* are still to come.
CountIsExact ==
    \A x \in kept :
        LET m == Type(x)
        IN  count[m] + Cardinality(Busy(m, "ref")) - Cardinality(Busy(m, "deref"))
                = Cardinality(LiveOf(m))

\* A load that fails leaves no block of the module behind, so a later load never
\* clears what is in use.
LoadsAllOrNothing == phase = "idle" => waiting = <<>> \/ loaded = <<>>

\* MetaBlock::canUnload tells whether there are no instances: when all of them
\* are gone, and every access to the counter is done, it is true (again).
UnusedMetaBlockCanUnload ==
    Quiet => \A m \in MetaBlocks : LiveOf(m) = {} => CanUnload(m)
=============================================================================
