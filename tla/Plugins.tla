------------------------------- MODULE Plugins -------------------------------
(***************************************************************************)
(* Kore::plugin::PluginsManager: one manager after the other loads the     *)
(* plug-ins of a directory, and deletes them in its destructor.            *)
(*                                                                         *)
(* QPluginLoader makes the object of a file when it is asked for it and    *)
(* there is none, and keeps its library in memory; it forgets objects that *)
(* are deleted.  So a file has one object at most, and goes by its name.   *)
(***************************************************************************)
EXTENDS Naturals, SequencesExt

CONSTANTS
    Files,     \* the entries of the directory, which may be symbolic links
    Target(_), \* the file that an entry leads to
    Kind(_),   \* of a file: "plugin", "foreign" (with another interface) or "broken"
    MaxLoads   \* bound: how often a manager is asked to load

ASSUME PluginsAssumption == IsFiniteSet(Files) /\ MaxLoads \in Nat

VARIABLES
    manager,   \* "none", "new", "loading", "loaded", "crashed"
    loads,     \* how often loadPlugins of this manager was called
    files,     \* the entries that loadPlugins has still to visit
    _plugins,  \* the objects that the manager lists
    alive      \* the objects that exist

pluginVars == <<manager, loads, files, _plugins, alive>>

PluginsInit ==
    /\ manager = "none" /\ loads = 0
    /\ files = <<>> /\ _plugins = <<>> /\ alive = {}

ConstructManager ==
    /\ manager = "none"
    /\ manager' = "new"
    /\ loads' = 0
    /\ UNCHANGED <<files, _plugins, alive>>

\* It may be called again: the list of objects only grows.  The directory may be
\* missing, and files may come and go.
LoadPlugins ==
    /\ manager \in {"new", "loaded"} /\ loads < MaxLoads
    /\ manager' = "loading"
    /\ loads' = loads + 1
    /\ \E there \in SUBSET Files : files' \in SetToSeqs(there)
    /\ UNCHANGED <<_plugins, alive>>

IsPlugin(f) == Kind(Target(f)) = "plugin"

\* load, instance and qobject_cast; a file that is gone by now fails to load.
LoadNext ==
    /\ files # <<>>
    /\ files' = Tail(files)
    /\ LET f == Head(files) IN
        \/ UNCHANGED <<_plugins, alive>>
        \/ /\ Kind(Target(f)) # "broken"
           /\ alive' = alive \cup {Target(f)}
           /\ _plugins' = IF IsPlugin(f) THEN Append(_plugins, Target(f)) ELSE _plugins
    /\ UNCHANGED <<manager, loads>>

LoadedAll ==
    /\ manager = "loading" /\ files = <<>>
    /\ manager' = "loaded"
    /\ UNCHANGED <<loads, files, _plugins, alive>>

\* qDeleteAll: an object that does not exist, or not any more, is no object to delete.
ClearAlone(list) == manager' = "none" /\ UNCHANGED alive
DeleteAll(list) ==
    IF IsInjective(list) /\ ToSet(list) \subseteq alive
    THEN manager' = "none" /\ alive' = alive \ ToSet(list)
    ELSE manager' = "crashed" /\ UNCHANGED alive

DestructManager ==
    /\ manager \in {"new", "loaded"}
    /\ DeleteAll(_plugins)
    /\ _plugins' = <<>>
    /\ UNCHANGED <<loads, files>>

PluginsNext == ConstructManager \/ LoadPlugins \/ LoadNext \/ LoadedAll \/ DestructManager

PluginsSpec == PluginsInit /\ [][PluginsNext]_pluginVars

-----------------------------------------------------------------------------
(* Properties.                                                             *)

LivingPlugins == {object \in alive : Kind(object) = "plugin"}
TwoLeadToOne == \E f, g \in Files : f # g /\ IsPlugin(f) /\ Target(f) = Target(g)

\* From manager to manager, whatever files come and go and however they are linked:
\* the plug-ins that exist are those that the manager lists, so that none outlives it
\* and the next one finds new objects; and its destructor deletes objects that exist,
\* each once, unless loadPlugins was called again or two entries lead to one plug-in:
\* nothing in the code keeps an object from being listed twice then.
PluginsAreDeletedOnce ==
    IF manager = "crashed" THEN loads > 1 \/ TwoLeadToOne
                           ELSE LivingPlugins = ToSet(_plugins)
=============================================================================
