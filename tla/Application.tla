----------------------------- MODULE Application -----------------------------
(***************************************************************************)
(* The life of a program that uses libKore, around the registry of the     *)
(* KoreEngine: the static initialisers that fill the modules, the          *)
(* KoreApplication that loads the module of libKore itself, a host that    *)
(* opens plug-ins, loads and unloads modules and keeps blocks in the data  *)
(* library, and the destructor, which destroys the root library.           *)
(*                                                                         *)
(* Each step is one of Registry's, at a moment when the program takes it,  *)
(* or leaves the registry alone.                                           *)
(***************************************************************************)
EXTENDS Registry

CONSTANTS
    Core,      \* the module of libKore: KoreModule
    Plugins,   \* the modules declared with K_MODULE_PLUGIN_IMPL
    SuperOf(_),\* the meta block of the super class, if that has one
    Blocks

ASSUME ApplicationAssumption ==
    /\ Core \in Modules /\ Plugins \subseteq Modules \ {Core}
    /\ \A m \in MetaBlocks : SuperOf(m) \in MetaBlocks \cup {None}

VARIABLES
    stage,
    made,      \* modules with an object: K_MODULE_TYPE::_Instance is set
    modules,   \* KoreEngine::_modules, in order
    loading,   \* the module that is in load(), if any
    root,      \* the libraries in the root library
    internals, \* what is in the library "Kore Internals"
    data,      \* the blocks in the data library
    class,     \* the meta block of each block, None before and after its life
    count,     \* MetaBlock::_instancesCount
    super,     \* MetaBlock::_superMetaBlock
    unloaded,  \* history: the modules that a host unloaded
    order,     \* history: the modules, in the order in which the engine listed them
    came       \* history: the classes, in the order in which they registered

libVars == <<root, internals>>
blockVars == <<data, class, count>>
histVars == <<unloaded, order, came>>
appVars == <<stage, made, modules, loading, libVars, blockVars, super, histVars>>

Stages == {"static", "starting", "running", "closing", "down"}

Libraries == {"Kore Internals", "Data"}
Internals == {"engine", "memory manager"}

BuiltIn == Modules \ Plugins

AppInit ==
    /\ Init
    /\ stage = "static"
    /\ made = {} /\ modules = <<>> /\ loading = None
    /\ root = <<>> /\ internals = <<>>
    /\ data = <<>> /\ class = [b \in Blocks |-> None]
    /\ count = [m \in MetaBlocks |-> 0]
    /\ super = [m \in MetaBlocks |-> None]
    /\ unloaded = {} /\ order = <<>> /\ came = <<>>

-----------------------------------------------------------------------------
(* Static initialisation.  The initialisers of one library run in an order *)
(* that C++ leaves open between its files; those of libKore come first, as *)
(* the other libraries need it.  Those of a plug-in run when it is opened. *)

Lists(mod) == modules' = Append(modules, mod) /\ order' = Append(order, mod)

\* K_MODULE_IMPL lists the module in the engine, K_MODULE_PLUGIN_IMPL does not.
NewInstanceAlways(mod) == TRUE
NewInstance(mod) == mod \notin made
PrivateInstance(mod) ==
    /\ made' = made \cup {mod}
    /\ IF NewInstance(mod) /\ mod \in BuiltIn THEN Lists(mod) ELSE UNCHANGED <<modules, order>>

Complete(mod) == mod \in made /\ \A m \in MetaBlocks : ModuleOf(m) = mod => m \in registered

\* dlopen runs all the initialisers of a plug-in before it returns.
Opening == \E mod \in Plugins : mod \in made /\ ~ Complete(mod)

Idle == loading = None /\ clearing = None /\ Calm /\ ~ Opening

Initialises(mod) ==
    IF mod \in Plugins
      THEN stage = "running" /\ (Idle \/ mod \in made)
      ELSE stage = "static" /\ (mod = Core \/ Complete(Core))

\* K_MODULE_TYPE::_Instance = K_MODULE_TYPE::PrivateInstance()
InitialiseInstance(mod) ==
    /\ mod \in BuiltIn /\ Initialises(mod)
    /\ PrivateInstance(mod)
    /\ UNCHANGED <<vars, stage, loading, libVars, blockVars, super, unloaded, came>>

\* _Registered = K_MODULE_TYPE::RegisterLoadable(...), of a class
InitialiseRegistered(m) ==
    /\ Initialises(ModuleOf(m))
    /\ PrivateInstance(ModuleOf(m))
    /\ RegisterLoadable(m)
    /\ came' = Append(came, m)
    /\ UNCHANGED <<stage, loading, libVars, blockVars, super, unloaded>>

-----------------------------------------------------------------------------
(* KoreApplication::KoreApplication, and the loading of modules.           *)

Construct ==
    /\ stage = "static" /\ \A mod \in BuiltIn : Complete(mod)
    /\ stage' = "starting"
    /\ root' = <<"Kore Internals">>
    /\ internals' = <<"engine", "memory manager">>
    /\ loading' = Core
    /\ UNCHANGED <<vars, made, modules, blockVars, super, histVars>>

WithDataFirst == <<"Data">> \o root
WithData == Append(root, "Data")

Constructed ==
    /\ stage = "starting" /\ Calm /\ waiting[Core] = <<>>
    /\ stage' = "running"
    /\ loading' = None
    /\ root' = WithData
    /\ UNCHANGED <<vars, made, modules, internals, blockVars, super, histVars>>

\* Module::load: no class of K_BLOCK_BEGIN ever fails to give its meta block.
LoadNext ==
    /\ loading # None /\ AddBlock(loading)
    /\ UNCHANGED appVars

\* Hosts load modules that the engine lists: no other is cleared at the end.
Load(mod) ==
    /\ stage = "running" /\ Idle /\ mod \in ToSet(modules)
    /\ loading' = mod
    /\ UNCHANGED <<vars, stage, made, modules, libVars, blockVars, super, histVars>>

Loaded ==
    /\ stage = "running" /\ loading # None /\ Calm /\ waiting[loading] = <<>>
    /\ loading' = None
    /\ UNCHANGED <<vars, stage, made, modules, libVars, blockVars, super, histVars>>

\* The host registers the module of a plug-in in a slot of pluginLoaded, or later.
RegisterModule(mod) ==
    /\ stage = "running" /\ Idle /\ mod \in Plugins \cap made /\ mod \notin ToSet(modules)
    /\ Lists(mod)
    /\ UNCHANGED <<vars, stage, made, loading, libVars, blockVars, super, unloaded, came>>

-----------------------------------------------------------------------------
(* Blocks and the data library.                                            *)

Ref(n) == IF n + 1 = 0 THEN 1 ELSE n + 1   \* repeated at zero
Deref(n) == IF n - 1 = 0 THEN -1 ELSE n - 1

HasData == "Data" \in ToSet(root)

\* KoreEngine::CreateBlock.  No client creates blocks while a module is cleared, or
\* when the data library is gone.
CreateBlock(b, name) ==
    /\ stage \in {"running", "closing"} /\ clearing = None /\ ~ Opening /\ HasData
    /\ class[b] = None /\ GetMetaBlock(name) # None
    /\ class' = [class EXCEPT ![b] = GetMetaBlock(name)]
    /\ count' = [count EXCEPT ![GetMetaBlock(name)] = Ref(@)]
    /\ UNCHANGED <<vars, stage, made, modules, loading, libVars, data, super, histVars>>

AddToData(b) ==
    /\ HasData /\ ~ Opening /\ class[b] # None /\ b \notin ToSet(data)
    /\ data' = Append(data, b)
    /\ UNCHANGED <<vars, stage, made, modules, loading, libVars, class, count, super, histVars>>

\* Block::destroy gives an allocated block to its meta block: destroyBlock.
Destroyed(b) ==
    /\ class' = [class EXCEPT ![b] = None]
    /\ count' = [count EXCEPT ![class[b]] = Deref(@)]
    /\ data' = IF b \in ToSet(data) THEN RemoveOne(data, b) ELSE data
    /\ UNCHANGED <<vars, stage, made, modules, loading, libVars, super, histVars>>

\* No client destroys a block whose class is gone: those it kept out of the data
\* library it destroys before.
DestroyBlock(b) ==
    /\ class[b] # None /\ ~ Opening /\ step[class[b]] \in {"loaded", "leaving"}
    /\ Destroyed(b)

\* MetaBlock::superMetaBlock keeps what it has found.
SuperMetaBlock(m) ==
    /\ Usable(m) /\ step[m] # "absent" /\ ~ Opening
    /\ super[m] = None /\ SuperOf(m) # None
    /\ super' = [super EXCEPT ![m] = GetMetaBlock(Name(SuperOf(m)))]
    /\ UNCHANGED <<vars, stage, made, modules, loading, libVars, blockVars, histVars>>

-----------------------------------------------------------------------------
(* Module::unload, and KoreApplication::~KoreApplication: Library::destroy *)
(* destroys the last child first.                                          *)

CanUnload(mod) == \A m \in ToSet(blocks[mod]) : count[m] = 0

\* Nothing asks for the super classes of what stays.
Unload(mod) ==
    /\ stage = "running" /\ Idle /\ mod \in ToSet(modules) /\ CanUnload(mod)
    /\ Clear(mod)
    /\ unloaded' = unloaded \cup {mod}
    /\ UNCHANGED <<stage, made, modules, loading, libVars, blockVars, super, order, came>>

Close ==
    /\ stage = "running" /\ Idle
    /\ stage' = "closing"
    /\ UNCHANGED <<vars, made, modules, loading, libVars, blockVars, super, histVars>>

Closes(lib) == stage = "closing" /\ root # <<>> /\ Last(root) = lib

DestroyLastBlock ==
    /\ Closes("Data") /\ data # <<>>
    /\ Destroyed(Last(data))

FirstModule == Head(modules)
LastModule == Last(modules)

ClosesEngine == Closes("Kore Internals") /\ internals # <<>> /\ Last(internals) = "engine"

DestroyModule ==
    /\ ClosesEngine /\ modules # <<>>
    /\ Clear(LastModule)
    /\ UNCHANGED appVars

\* After unload a module stays in the engine; destroyed, it leaves it undeleted.
UnlistedNulled(mod) == RemoveNulled(modules, mod)
UnlistedIfDeleted(mod) == modules
Unlisted(mod) == RemoveOne(modules, mod)

ModuleCleared ==
    /\ Cleared
    /\ modules' = IF stage = "closing" THEN Unlisted(clearing) ELSE modules
    /\ UNCHANGED <<stage, made, loading, libVars, blockVars, super, histVars>>

\* The memory manager is deleted, the engine only leaves its library.
DestroyInternal ==
    /\ Closes("Kore Internals") /\ internals # <<>>
    /\ Last(internals) = "engine" => modules = <<>> /\ clearing = None
    /\ internals' = Front(internals)
    /\ UNCHANGED <<vars, stage, made, modules, loading, root, blockVars, super, histVars>>

DestroyLibrary ==
    /\ \/ Closes("Data") /\ data = <<>>
       \/ Closes("Kore Internals") /\ internals = <<>>
    /\ root' = Front(root)
    /\ stage' = IF Len(root) = 1 THEN "down" ELSE "closing"
    /\ UNCHANGED <<vars, made, modules, loading, internals, blockVars, super, histVars>>

-----------------------------------------------------------------------------
(* The steps of Registry that a call in progress takes by itself, or that  *)
(* slots and other client code take.                                       *)

Continue ==
    /\ Destroy \/ \E m \in MetaBlocks : Enter(m) \/ RemoveBlock(m) \/ Leave(m) \/ Delete(m)
    /\ UNCHANGED appVars

\* Clients know the classes of the libraries that are open.
Client ==
    /\ ~ Opening /\ stage # "static"
    /\ ClientNext
    /\ \A m \in MetaBlocks \ registered : step'[m] = "absent"
    /\ UNCHANGED appVars

StaticNext ==
    \/ \E mod \in Modules : InitialiseInstance(mod)
    \/ \E m \in MetaBlocks : InitialiseRegistered(m)

HostNext ==
    \/ \E mod \in Modules : Load(mod) \/ RegisterModule(mod) \/ Unload(mod)
    \/ \E b \in Blocks :
        (\E name \in Names : CreateBlock(b, name)) \/ AddToData(b) \/ DestroyBlock(b)
    \/ \E m \in MetaBlocks : SuperMetaBlock(m)
    \/ Close
    \/ Client

KoreNext ==
    \/ Construct \/ LoadNext \/ Constructed \/ Loaded \/ Continue \/ ModuleCleared
    \/ DestroyLastBlock \/ DestroyModule \/ DestroyInternal \/ DestroyLibrary

Ended == stage = "down" /\ UNCHANGED <<vars, appVars>>

AppNext == StaticNext \/ KoreNext \/ HostNext \/ Ended

AppSpec == AppInit /\ [][AppNext]_<<vars, appVars>>

\* A call in progress goes on: slots return, constructors and destructors too.
FairAppSpec == AppSpec /\ WF_<<vars, appVars>>(KoreNext)

-----------------------------------------------------------------------------
(* Properties.                                                             *)

AppTypeOK ==
    /\ stage \in Stages
    /\ made \subseteq Modules /\ modules \in Seq(Modules) /\ loading \in Modules \cup {None}
    /\ root \in Seq(Libraries)
    /\ internals \in Seq(Internals)
    /\ data \in Seq(Blocks) /\ class \in [Blocks -> MetaBlocks \cup {None}]
    /\ count \in [MetaBlocks -> Int]
    /\ super \in [MetaBlocks -> MetaBlocks \cup {None}]
    /\ unloaded \subseteq Modules /\ order \in Seq(Modules) /\ came \in Seq(MetaBlocks)

\* Whatever the order of the static initialisers, each module object is made once
\* and listed once in the engine, and classes wait in a module that exists.
EachModuleOnce ==
    /\ IsInjective(modules)
    /\ \A mod \in Modules : waiting[mod] # <<>> \/ blocks[mod] # <<>> => mod \in made

\* The meta block of a block in the data library is loaded: destroy, through which
\* the library deletes the block, calls it.
BlocksKeepTheirMetaBlock == \A b \in ToSet(data) : step[class[b]] = "loaded"

\* Once the data library is gone, where slots may put new blocks as long as they
\* like, the destructor of KoreApplication comes to its end.
ShutdownEnds == stage = "closing" /\ ~ HasData ~> stage = "down"

Before(s, x, y) == \E i, j \in DOMAIN s : i < j /\ s[i] = x /\ s[j] = y

CameBefore(m, n) ==
    IF ModuleOf(m) = ModuleOf(n)
      THEN Before(came, m, n)
      ELSE Before(order, ModuleOf(m), ModuleOf(n))

\* superMetaBlock keeps what it has found and is never reset.  Still, the super class
\* of a meta block that the engine finds is deleted only if a host unloaded another
\* module with that super class in it, or if the super class came after its sub-class:
\* its module after the other's or, in one module, the class itself.
SuperIsAlive ==
    \A m \in MetaBlocks :
        byName[Name(m)] = m /\ super[m] # None /\ step[super[m]] = "deleted" =>
            \/ CameBefore(m, super[m])
            \/ ModuleOf(super[m]) # ModuleOf(m) /\ ModuleOf(super[m]) \in unloaded
=============================================================================
