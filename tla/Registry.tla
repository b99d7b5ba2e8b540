------------------------------ MODULE Registry ------------------------------
(***************************************************************************)
(* The registry of the KoreEngine: the meta blocks of the loaded modules,  *)
(* by class name and by class ID; and what is attached to a meta block:    *)
(* the BlockExtensions, and the TaskletRunners if it is a MetaTasklet.     *)
(*                                                                         *)
(* All this happens in one thread.  A meta block enters and leaves its     *)
(* module step by step, and between two steps the slots of the signals run *)
(* client code, which comes and goes with extensions and runners.          *)
(***************************************************************************)
EXTENDS Integers, SequencesExt

CONSTANTS
    Modules,
    MetaBlocks,
    ModuleOf(_), \* the module of a meta block
    Name(_),     \* the class name of a meta block
    ID(_),       \* its hash
    Extensions,
    Tasklets,    \* the meta blocks that are MetaTasklets
    Runners,
    Score(_),    \* of a runner: performanceScore
    None

\* KoreEngine.cpp asserts that names are unique.  It asserts the same of the IDs,
\* in a debug build; but hashes may collide, and nothing below excludes it.
ASSUME NamesAssumption ==
    /\ \A m, n \in MetaBlocks : Name(m) = Name(n) => m = n
    /\ None \notin MetaBlocks /\ Tasklets \subseteq MetaBlocks

ASSUME ModulesAssumption == None \notin Modules /\ \A m \in MetaBlocks : ModuleOf(m) \in Modules

ASSUME RunnersAssumption == IsFiniteSet(Runners) /\ \A r \in Runners : Score(r) \in Int

VARIABLES
    registered, \* PrivateMetaBlock::_Registered of each class
    waiting,  \* Module::_instantiators of each module
    blocks,   \* the list of each module
    clearing, \* the module that is being cleared, if any
    step,     \* how far each meta block has come
    byName,   \* KoreEngine::_metaBlocksStringHash
    byID,     \* KoreEngine::_metaBlocksHashHash
    alive,    \* the extensions that exist
    regs,     \* BlockExtension::_registrations
    exts,     \* MetaBlock::_extensions
    runners   \* MetaTasklet::_runners

modVars == <<registered, waiting, blocks, clearing>>
hashVars == <<byName, byID>>
extVars == <<alive, regs, exts>>
vars == <<modVars, step, hashVars, extVars, runners>>

Names == {Name(m) : m \in MetaBlocks}
IDs == {ID(m) : m \in MetaBlocks}

\* A meta block is made when its module or a client first asks for it.
Steps == {"absent", "made", "entering", "loaded", "deleted",
          "leaving",       \* in a slot of blockDeleted or removingBlock
          "removed",       \* in a slot of its own blockRemoved
          "unregistered"}  \* in a slot of the module's blockRemoved

Between == {"entering", "leaving", "removed", "unregistered"}

\* QList::removeOne, of an item that is in the list once.
RemoveNulled(s, x) == [i \in DOMAIN s |-> IF s[i] = x THEN None ELSE s[i]]
RemoveOne(s, x) == RemoveAt(s, CHOOSE i \in DOMAIN s : s[i] = x)

\* One block at a time enters or leaves.
Calm == \A m \in MetaBlocks : step[m] \notin Between

\* Clients use a meta block until it is out of the registry.
Usable(m) == step[m] \notin {"unregistered", "deleted"}

\* StaticMetaBlock makes the meta block that it returns.
StaticMetaBlock(m) == IF step[m] = "absent" THEN [step EXCEPT ![m] = "made"] ELSE step

-----------------------------------------------------------------------------
Init ==
    /\ registered = {}
    /\ waiting = [mod \in Modules |-> <<>>]
    /\ blocks = [mod \in Modules |-> <<>>]
    /\ clearing = None
    /\ step = [m \in MetaBlocks |-> "absent"]
    /\ byName = [n \in Names |-> None]
    /\ byID = [i \in IDs |-> None]
    /\ alive = Extensions
    /\ regs = [e \in Extensions |-> {}]
    /\ exts = [m \in MetaBlocks |-> {}]
    /\ runners = [m \in MetaBlocks |-> <<>>]

-----------------------------------------------------------------------------
(* A meta block enters: its class registers it with its module when the    *)
(* library with the class is loaded, and the module adds it when it is     *)
(* loaded: Library::addBlock and MetaBlock::library.                       *)

\* The initialiser of _Registered runs once.  The meta block is not made yet.
RegisterLoadable(m) ==
    /\ m \notin registered
    /\ registered' = registered \cup {m}
    /\ waiting' = [waiting EXCEPT ![ModuleOf(m)] = Append(@, m)]
    /\ UNCHANGED <<blocks, clearing, step, hashVars, extVars, runners>>

\* The slots of blockInserted find the block in the list only.
AddBlock(mod) ==
    /\ clearing = None /\ Calm /\ waiting[mod] # <<>>
    /\ waiting' = [waiting EXCEPT ![mod] = Tail(@)]
    /\ blocks' = [blocks EXCEPT ![mod] = Append(@, Head(waiting[mod]))]
    /\ step' = [step EXCEPT ![Head(waiting[mod])] = "entering"]
    /\ UNCHANGED <<registered, clearing, hashVars, extVars, runners>>

Insert(hash, key, m) == [hash EXCEPT ![key] = m]

RegisterMetaBlockByName(m) == byName' = Insert(byName, Name(m), m) /\ UNCHANGED byID
RegisterMetaBlock(m) ==
    /\ byName' = Insert(byName, Name(m), m)
    /\ byID' = Insert(byID, ID(m), m)

GetMetaBlock(name) == byName[name]

Enter(m) ==
    /\ step[m] = "entering"
    /\ step' = [step EXCEPT ![m] = "loaded"]
    /\ RegisterMetaBlock(m)
    /\ UNCHANGED <<modVars, extVars, runners>>

-----------------------------------------------------------------------------
(* A module is cleared, after a load that failed or to unload it: its meta *)
(* blocks are destroyed from the last one on.                              *)

Clear(mod) ==
    /\ clearing = None /\ Calm
    /\ clearing' = mod
    /\ UNCHANGED <<registered, waiting, blocks, step, hashVars, extVars, runners>>

Destroy ==
    /\ clearing # None /\ Calm /\ blocks[clearing] # <<>>
    /\ step' = [step EXCEPT ![Last(blocks[clearing])] = "leaving"]
    /\ UNCHANGED <<modVars, hashVars, extVars, runners>>

RemoveBlock(m) ==
    /\ step[m] = "leaving"
    /\ blocks' = [blocks EXCEPT ![clearing] = RemoveOne(@, m)]
    /\ step' = [step EXCEPT ![m] = "removed"]
    /\ UNCHANGED <<registered, waiting, clearing, hashVars, extVars, runners>>

ClearExtensionsOneSided(m) == exts' = [exts EXCEPT ![m] = {}] /\ UNCHANGED regs
ClearExtensions(m) ==
    /\ exts' = [exts EXCEPT ![m] = {}]
    /\ regs' = [e \in Extensions |-> IF e \in exts[m] THEN regs[e] \ {m} ELSE regs[e]]

UnregisterMetaBlockByName(m) == byName' = Insert(byName, Name(m), None) /\ UNCHANGED byID
\* QHash::remove takes a key.
UnregisterMetaBlock(m) ==
    /\ byName' = Insert(byName, Name(m), None)
    /\ byID' = Insert(byID, ID(m), None)

\* MetaBlock::library, once Block::library has told the slots.
Leave(m) ==
    /\ step[m] = "removed"
    /\ step' = [step EXCEPT ![m] = "unregistered"]
    /\ ClearExtensions(m)
    /\ UnregisterMetaBlock(m)
    /\ UNCHANGED <<modVars, alive, runners>>

Delete(m) ==
    /\ step[m] = "unregistered"
    /\ step' = [step EXCEPT ![m] = "deleted"]
    /\ runners' = [runners EXCEPT ![m] = <<>>]
    /\ UNCHANGED <<modVars, hashVars, extVars>>

Cleared ==
    /\ clearing # None /\ Calm /\ blocks[clearing] = <<>>
    /\ clearing' = None
    /\ UNCHANGED <<registered, waiting, blocks, step, hashVars, extVars, runners>>

-----------------------------------------------------------------------------
(* BlockExtension                                                          *)

\* registerWithMetaBlock asserts that it was not done before.
RegisterExtension(e, m) ==
    /\ e \in alive /\ Usable(m) /\ m \notin regs[e]
    /\ regs' = [regs EXCEPT ![e] = @ \cup {m}]
    /\ exts' = [exts EXCEPT ![m] = @ \cup {e}]
    /\ step' = StaticMetaBlock(m)
    /\ UNCHANGED <<modVars, hashVars, alive, runners>>

UnregisterExtension(e, m) ==
    /\ e \in alive /\ m \in regs[e]
    /\ exts' = [exts EXCEPT ![m] = @ \ {e}]
    /\ regs' = [regs EXCEPT ![e] = @ \ {m}]
    /\ UNCHANGED <<modVars, step, hashVars, alive, runners>>

\* ~BlockExtension
UnregisterAll(e) == [m \in MetaBlocks |-> IF m \in regs[e] THEN exts[m] \ {e} ELSE exts[m]]

DeleteExtension(e) ==
    /\ e \in alive
    /\ alive' = alive \ {e}
    /\ exts' = UnregisterAll(e)
    /\ regs' = [regs EXCEPT ![e] = {}]
    /\ UNCHANGED <<modVars, step, hashVars, runners>>

-----------------------------------------------------------------------------
(* MetaTasklet                                                             *)

\* qSort is not stable: among equal scores any order may come out.
SortNot(s) == {s}
Sort(s) ==
    {p \in [DOMAIN s -> ToSet(s)] :
        /\ ToSet(p) = ToSet(s)
        /\ \A i, j \in DOMAIN p : i < j => Score(p[i]) >= Score(p[j])}

BestRunner(m) == Head(runners[m])

RegisterTaskletRunner(m, r) ==
    /\ Usable(m) /\ r \notin ToSet(runners[m])
    /\ \E p \in Sort(Append(runners[m], r)) : runners' = [runners EXCEPT ![m] = p]
    /\ step' = StaticMetaBlock(m)
    /\ UNCHANGED <<modVars, hashVars, extVars>>

UnregisterTaskletRunner(m, r) ==
    /\ Usable(m) /\ r \in ToSet(runners[m])
    /\ \E p \in Sort(RemoveOne(runners[m], r)) : runners' = [runners EXCEPT ![m] = p]
    /\ UNCHANGED <<modVars, step, hashVars, extVars>>

-----------------------------------------------------------------------------
ModuleNext ==
    \/ \E mod \in Modules : AddBlock(mod) \/ Clear(mod)
    \/ Destroy \/ Cleared
    \/ \E m \in MetaBlocks :
        RegisterLoadable(m) \/ Enter(m) \/ RemoveBlock(m) \/ Leave(m) \/ Delete(m)

ClientNext ==
    \/ \E e \in Extensions :
        \/ \E m \in MetaBlocks : RegisterExtension(e, m) \/ UnregisterExtension(e, m)
        \/ DeleteExtension(e)
    \/ \E m \in Tasklets, r \in Runners :
        RegisterTaskletRunner(m, r) \/ UnregisterTaskletRunner(m, r)

Next == ModuleNext \/ ClientNext

Spec == Init /\ [][Next]_vars

-----------------------------------------------------------------------------
(* Properties.                                                             *)

TypeOK ==
    /\ registered \subseteq MetaBlocks
    /\ waiting \in [Modules -> Seq(MetaBlocks)]
    /\ blocks \in [Modules -> Seq(MetaBlocks)]
    /\ clearing \in Modules \cup {None}
    /\ step \in [MetaBlocks -> Steps]
    /\ byName \in [Names -> MetaBlocks \cup {None}]
    /\ byID \in [IDs -> MetaBlocks \cup {None}]
    /\ alive \subseteq Extensions
    /\ regs \in [Extensions -> SUBSET MetaBlocks]
    /\ exts \in [MetaBlocks -> SUBSET Extensions]
    /\ runners \in [MetaBlocks -> Seq(Runners)]

\* KoreEngine::GetMetaBlock never returns a meta block under a name or an ID that
\* is not its own, nor one that is about to be deleted: it is taken out of both
\* hashes before, whichever classes share an ID with it.
LookupsAreLive ==
    /\ \A n \in Names : byName[n] # None =>
        Name(byName[n]) = n /\ step[byName[n]] \in {"loaded", "leaving", "removed"}
    /\ \A i \in IDs : byID[i] # None =>
        ID(byID[i]) = i /\ step[byID[i]] \in {"loaded", "leaving", "removed"}

\* What a module lists is found by its name, and by its ID unless another class
\* shares that: when blockAdded is heard, and still while blockDeleted is.
ListedIsFound ==
    \A mod \in Modules : \A m \in ToSet(blocks[mod]) : step[m] # "entering" =>
        /\ byName[Name(m)] = m
        /\ (\A n \in MetaBlocks : ID(n) = ID(m) => n = m) => byID[ID(m)] = m

\* An extension and a meta block know of each other or neither of the other, and
\* both exist: whichever is deleted first has left the other, although a slot may
\* register an extension with a meta block on its way out.
ExtensionsAgree ==
    \A e \in Extensions, m \in MetaBlocks :
        /\ m \in regs[e] <=> e \in exts[m]
        /\ m \in regs[e] => e \in alive /\ Usable(m)

\* KoreEngine::RunTasklet takes the best of the runners that are registered.
BestRunnerIsBest ==
    \A m \in Tasklets : \A r \in ToSet(runners[m]) : Score(BestRunner(m)) >= Score(r)
=============================================================================
