-------------------------- MODULE ApplicationProofs --------------------------
(***************************************************************************)
(* A program with a KoreApplication is a behaviour of Registry, so that    *)
(* the theorems about the registry hold of it; modules are made and listed *)
(* once; blocks in the data library keep their meta block to the end of    *)
(* the shutdown; and classes go in the order that keeps the super classes  *)
(* that came before them.                                                  *)
(***************************************************************************)
EXTENDS Application, RegistryProofs

(* What is in a list once is not in it when it is removed.                 *)
LEMMA RemoveOneOnce ==
    ASSUME NEW S, NEW s \in Seq(S), NEW x \in ToSet(s)
    PROVE  /\ RemoveOne(s, x) \in Seq(S)
           /\ ToSet(RemoveOne(s, x)) \subseteq ToSet(s)
           /\ IsInjective(s) => /\ IsInjective(RemoveOne(s, x))
                                /\ x \notin ToSet(RemoveOne(s, x))
<1>1. \E k \in DOMAIN s : s[k] = x
  BY DEF ToSet
<1> DEFINE r == RemoveOne(s, x)
<1>2. r \in Seq(S)
  BY <1>1, RemoveOneProperties
<1>3. PICK i \in DOMAIN s :
          /\ s[i] = x /\ Len(r) = Len(s) - 1
          /\ \A j \in DOMAIN r : r[j] = IF j < i THEN s[j] ELSE s[j + 1]
  BY <1>1, RemoveOneProperties
<1> DEFINE old(j) == IF j < i THEN j ELSE j + 1
<1> HIDE DEF r
<1>4. /\ DOMAIN r = 1 .. Len(s) - 1 /\ DOMAIN s = 1 .. Len(s)
      /\ Len(s) \in Nat /\ i \in 1 .. Len(s)
  BY <1>2, <1>3
<1>5. \A j \in DOMAIN r : j \in Int /\ old(j) \in DOMAIN s /\ old(j) # i /\ r[j] = s[old(j)]
  BY <1>3, <1>4
<1>6. \A j, k \in DOMAIN r : old(j) = old(k) => j = k
  BY <1>4
<1> HIDE DEF old
<1>7. ToSet(r) \subseteq ToSet(s)
  BY <1>5 DEF ToSet
<1>8. ASSUME IsInjective(s)
      PROVE  IsInjective(r) /\ x \notin ToSet(r)
  <2>1. IsInjective(r)
    BY <1>5, <1>6, <1>8 DEF IsInjective
  <2>2. x \notin ToSet(r)
    BY <1>3, <1>5, <1>8 DEF IsInjective, ToSet
  <2>3. QED
    BY <2>1, <2>2
<1>9. QED
  BY <1>2, <1>7, <1>8 DEF r

(* What is appended once is in the list once.                              *)
LEMMA AppendOnce ==
    ASSUME NEW S, NEW s \in Seq(S), NEW x \in S
    PROVE  /\ Append(s, x) \in Seq(S)
           /\ DOMAIN Append(s, x) = 1 .. Len(s) + 1 /\ Len(Append(s, x)) = Len(s) + 1
           /\ \A i \in DOMAIN Append(s, x) :
                i # Len(s) + 1 => i \in DOMAIN s /\ Append(s, x)[i] = s[i]
           /\ ToSet(Append(s, x)) = ToSet(s) \cup {x}
           /\ IsInjective(s) /\ x \notin ToSet(s) => IsInjective(Append(s, x))
<1> DEFINE a == Append(s, x)
<1>1. /\ a \in Seq(S) /\ DOMAIN a = 1 .. Len(s) + 1 /\ DOMAIN s = 1 .. Len(s) /\ Len(s) \in Nat
      /\ Len(a) = Len(s) + 1 /\ a[Len(s) + 1] = x /\ \A i \in DOMAIN s : a[i] = s[i]
  OBVIOUS
<1> HIDE DEF a
<1>2. \A i \in DOMAIN a : i = Len(s) + 1 \/ i \in DOMAIN s
  BY <1>1
<1>3. DOMAIN s \subseteq DOMAIN a /\ Len(s) + 1 \in DOMAIN a
  BY <1>1
<1>4. ToSet(a) = ToSet(s) \cup {x}
  BY <1>1, <1>2, <1>3 DEF ToSet
<1>5. ASSUME IsInjective(s), x \notin ToSet(s)
      PROVE  IsInjective(a)
  BY <1>1, <1>2, <1>5 DEF IsInjective, ToSet
<1>6. QED
  BY <1>1, <1>2, <1>4, <1>5 DEF a

(* A list of one.                                                          *)
LEMMA ListOfOne ==
    ASSUME NEW x
    PROVE  DOMAIN <<x>> = {1} /\ <<x>>[1] = x
OBVIOUS

(* The last of a list that is not empty, and the others.                   *)
LEMMA LastAndFront ==
    ASSUME NEW S, NEW s \in Seq(S), s # <<>>
    PROVE  /\ Last(s) \in S /\ Last(s) \in ToSet(s)
           /\ Front(s) \in Seq(S)
           /\ DOMAIN Front(s) = 1 .. Len(s) - 1
           /\ \A i \in DOMAIN Front(s) : i \in DOMAIN s /\ Front(s)[i] = s[i]
<1>1. Len(s) \in DOMAIN s
  OBVIOUS
<1>2. QED
  BY <1>1 DEF Last, Front, ToSet

-----------------------------------------------------------------------------
\* The module that is being cleared is in the engine.
ClearingIsListed == clearing # None => clearing \in ToSet(modules)

AppTyped == AppTypeOK /\ ClearingIsListed

Typed == TypeOK /\ OnItsWay /\ AppTyped

(* Each step is one of Registry's or leaves the registry alone.            *)
LEMMA StepOfRegistry == AppTypeOK /\ AppNext => [Next]_vars
<1> SUFFICES ASSUME AppTypeOK, AppNext
             PROVE  [Next]_vars
  OBVIOUS
<1>1. CASE StaticNext
  BY <1>1 DEF StaticNext, InitialiseInstance, InitialiseRegistered, Next, ModuleNext
<1>2. CASE KoreNext
  <2>1. CASE LoadNext
    BY <2>1 DEF LoadNext, AppTypeOK, Next, ModuleNext
  <2>2. CASE DestroyModule
    <3>1. LastModule \in Modules
      BY <2>2, LastAndFront DEF DestroyModule, LastModule, AppTypeOK
    <3>2. QED
      BY <2>2, <3>1 DEF DestroyModule, Next, ModuleNext
  <2>3. CASE Continue
    BY <2>3 DEF Continue, Next, ModuleNext
  <2>4. CASE ModuleCleared
    BY <2>4 DEF ModuleCleared, Next, ModuleNext
  <2>5. CASE Construct \/ Constructed \/ Loaded \/ DestroyLastBlock \/ DestroyInternal
             \/ DestroyLibrary
    BY <2>5 DEF Construct, Constructed, Loaded, DestroyLastBlock, Destroyed, DestroyInternal,
       DestroyLibrary
  <2>6. QED
    BY <1>2, <2>1, <2>2, <2>3, <2>4, <2>5 DEF KoreNext
<1>3. CASE HostNext
  <2>1. ASSUME NEW mod \in Modules, Load(mod) \/ RegisterModule(mod) \/ Unload(mod)
        PROVE  [Next]_vars
    BY <2>1 DEF Load, RegisterModule, Unload, Next, ModuleNext
  <2>2. ASSUME NEW b \in Blocks,
               (\E name \in Names : CreateBlock(b, name)) \/ AddToData(b) \/ DestroyBlock(b)
        PROVE  [Next]_vars
    BY <2>2 DEF CreateBlock, GetMetaBlock, AddToData, DestroyBlock, Destroyed
  <2>3. ASSUME NEW m \in MetaBlocks, SuperMetaBlock(m)
        PROVE  [Next]_vars
    BY <2>3 DEF SuperMetaBlock, GetMetaBlock
  <2>4. CASE Close
    BY <2>4 DEF Close
  <2>5. CASE Client
    BY <2>5 DEF Client, Next
  <2>6. QED
    BY <1>3, <2>1, <2>2, <2>3, <2>4, <2>5 DEF HostNext
<1>4. CASE Ended
  BY <1>4 DEF Ended
<1>5. QED
  BY <1>1, <1>2, <1>3, <1>4 DEF AppNext

(* The list of modules keeps its type, and what is in it.                  *)
LEMMA ListsModule ==
    ASSUME AppTypeOK, NEW mod \in Modules, Lists(mod)
    PROVE  /\ modules' \in Seq(Modules) /\ order' \in Seq(Modules)
           /\ ToSet(modules') = ToSet(modules) \cup {mod}
<1>1. modules \in Seq(Modules) /\ order \in Seq(Modules)
  BY DEF AppTypeOK
<1>2. modules' = Append(modules, mod) /\ order' = Append(order, mod)
  BY DEF Lists
<1>3. QED
  BY ONLY <1>1, <1>2, AppendOnce, mod \in Modules

LEMMA PrivateInstanceList ==
    ASSUME AppTypeOK, NEW mod \in Modules, PrivateInstance(mod)
    PROVE  /\ made' = made \cup {mod} /\ modules' \in Seq(Modules) /\ order' \in Seq(Modules)
           /\ ToSet(modules) \subseteq ToSet(modules')
BY ListsModule DEF PrivateInstance, AppTypeOK

(* One step keeps the types.                                               *)
LEMMA AppTypedStep == Typed /\ [AppNext]_<<vars, appVars>> => AppTyped'
<1> SUFFICES ASSUME Typed, [AppNext]_<<vars, appVars>>
             PROVE  AppTyped'
  OBVIOUS
<1> USE DEF Typed, AppTyped
<1>2. ASSUME UNCHANGED appVars, clearing' = clearing \/ clearing' = None
      PROVE  AppTyped'
  BY <1>2 DEF AppTypeOK, ClearingIsListed, appVars, libVars, histVars, blockVars
<1>3. CASE StaticNext
  <2>1. PICK mod \in Modules :
            /\ PrivateInstance(mod) /\ clearing' = clearing
            /\ UNCHANGED <<stage, loading, libVars, blockVars, super, unloaded>>
            /\ came' = came \/ \E m \in MetaBlocks : came' = Append(came, m)
    BY <1>3, ModulesAssumption DEF StaticNext, InitialiseInstance, InitialiseRegistered,
          RegisterLoadable,
       vars, modVars
  <2>2. /\ made' = made \cup {mod} /\ modules' \in Seq(Modules) /\ order' \in Seq(Modules)
        /\ ToSet(modules) \subseteq ToSet(modules')
    BY <2>1, PrivateInstanceList
  <2>3. came' \in Seq(MetaBlocks)
    <3>1. came \in Seq(MetaBlocks)
      BY DEF AppTypeOK
    <3>2. QED
      BY ONLY <2>1, <3>1, AppendOnce
  <2>4. QED
    BY <2>1, <2>2, <2>3 DEF AppTypeOK, ClearingIsListed, libVars, histVars, blockVars
<1>4. CASE LoadNext \/ Continue \/ Client
  BY <1>2, <1>4 DEF LoadNext, AddBlock, Continue, Destroy, Enter, RemoveBlock, Leave, Delete,
     Client, ClientNext, RegisterExtension, UnregisterExtension, DeleteExtension,
     RegisterTaskletRunner, UnregisterTaskletRunner, modVars
<1>5. CASE Construct \/ Constructed
  <2>1. /\ <<"Kore Internals">> \in Seq(Libraries)
        /\ <<"engine", "memory manager">> \in Seq(Internals)
    BY DEF Libraries, Internals
  <2>2. WithData \in Seq(Libraries)
    BY AppendOnce DEF WithData, AppTypeOK, Libraries
  <2>3. QED
    BY <1>5, <2>1, <2>2, ApplicationAssumption DEF Construct, Constructed, AppTypeOK,
          ClearingIsListed,
       vars, modVars, libVars, histVars, blockVars, Stages
<1>6. CASE Loaded \/ Close
  BY <1>6 DEF Loaded, Close, AppTypeOK, ClearingIsListed, vars, modVars, libVars, histVars,
        blockVars, Stages
<1>7. ASSUME NEW mod \in Modules, Load(mod)
      PROVE  AppTyped'
  BY <1>7 DEF Load, AppTypeOK, ClearingIsListed, vars, modVars, libVars, histVars, blockVars
<1>8. ASSUME NEW mod \in Modules, RegisterModule(mod)
      PROVE  AppTyped'
  <2>1. /\ modules' \in Seq(Modules) /\ order' \in Seq(Modules)
        /\ ToSet(modules) \subseteq ToSet(modules')
    BY <1>8, ListsModule DEF RegisterModule
  <2>2. QED
    BY <1>8, <2>1 DEF RegisterModule, AppTypeOK, ClearingIsListed, vars, modVars, libVars,
          histVars, blockVars
<1>9. ASSUME NEW mod \in Modules, Unload(mod)
      PROVE  AppTyped'
  BY <1>9 DEF Unload, Clear, AppTypeOK, ClearingIsListed, appVars, libVars, histVars, blockVars
<1>10. ASSUME NEW b \in Blocks, NEW name \in Names, CreateBlock(b, name)
       PROVE  AppTyped'
  <2>1. byName[name] \in MetaBlocks /\ count[byName[name]] \in Int
    BY <1>10 DEF CreateBlock, GetMetaBlock, TypeOK, AppTypeOK
  <2>2. Ref(count[byName[name]]) \in Int
    BY <2>1 DEF Ref
  <2>3. QED
    BY <1>10, <2>1, <2>2 DEF CreateBlock, GetMetaBlock, AppTypeOK, ClearingIsListed, vars,
          modVars, libVars, histVars
<1>11. ASSUME NEW b \in Blocks, AddToData(b)
       PROVE  AppTyped'
  <2>1. data' \in Seq(Blocks)
    BY <1>11, AppendOnce DEF AddToData, AppTypeOK
  <2>2. QED
    BY <1>11, <2>1 DEF AddToData, AppTypeOK, ClearingIsListed, vars, modVars, libVars, histVars
<1>12. ASSUME NEW b \in Blocks, Destroyed(b)
       PROVE  AppTyped'
  <2>1. data' \in Seq(Blocks)
    BY <1>12, RemoveOneOnce DEF Destroyed, AppTypeOK
  <2>2. count' \in [MetaBlocks -> Int]
    <3>1. \A n \in Int : Deref(n) \in Int
      BY DEF Deref
    <3>2. QED
      BY <1>12, <3>1 DEF Destroyed, AppTypeOK
  <2>3. QED
    BY <1>12, <2>1, <2>2 DEF Destroyed, AppTypeOK, ClearingIsListed, vars, modVars, libVars,
          histVars
<1>13. ASSUME NEW m \in MetaBlocks, SuperMetaBlock(m)
       PROVE  AppTyped'
  <2>1. byName[Name(SuperOf(m))] \in MetaBlocks \cup {None}
    <3>1. Name(SuperOf(m)) \in Names
      BY <1>13, ApplicationAssumption DEF SuperMetaBlock, GetMetaBlock, Names
    <3>2. QED
      BY <3>1 DEF TypeOK
  <2>2. QED
    BY <1>13, <2>1 DEF SuperMetaBlock, GetMetaBlock, AppTypeOK, ClearingIsListed, vars, modVars,
          libVars, histVars, blockVars
<1>14. CASE DestroyLastBlock
  <2>1. Last(data) \in Blocks
    BY <1>14, LastAndFront DEF DestroyLastBlock, AppTypeOK
  <2>2. QED
    BY <1>12, <1>14, <2>1 DEF DestroyLastBlock
<1>15. CASE DestroyModule
  <2>1. LastModule \in ToSet(modules)
    BY <1>15, LastAndFront DEF DestroyModule, LastModule, AppTypeOK
  <2>2. QED
    BY <1>15, <2>1 DEF DestroyModule, Clear, AppTypeOK, ClearingIsListed, appVars, libVars,
          histVars, blockVars
<1>16. CASE ModuleCleared
  <2>1. clearing \in ToSet(modules) /\ clearing' = None
    BY <1>16 DEF ModuleCleared, Cleared, ClearingIsListed
  <2>2. modules' \in Seq(Modules)
    BY <1>16, <2>1, RemoveOneOnce DEF ModuleCleared, Unlisted, AppTypeOK
  <2>3. QED
    BY <1>16, <2>1, <2>2 DEF ModuleCleared, AppTypeOK, ClearingIsListed, libVars, histVars,
          blockVars
<1>17. CASE DestroyInternal
  <2>1. internals' \in Seq(Internals)
    BY <1>17, LastAndFront DEF DestroyInternal, AppTypeOK
  <2>2. QED
    BY <1>17, <2>1 DEF DestroyInternal, AppTypeOK, ClearingIsListed, vars, modVars, libVars,
          histVars, blockVars
<1>18. CASE DestroyLibrary
  <2>1. Front(root) \in Seq(Libraries)
    BY <1>18, LastAndFront DEF DestroyLibrary, Closes, AppTypeOK
  <2>2. QED
    BY <1>18, <2>1 DEF DestroyLibrary, AppTypeOK, ClearingIsListed, vars, modVars, libVars,
          histVars, blockVars,
       Stages
<1>19. CASE UNCHANGED <<vars, appVars>>
  BY <1>2, <1>19 DEF vars, modVars
<1>20. CASE KoreNext
  BY <1>2, <1>4, <1>5, <1>6, <1>14, <1>15, <1>16, <1>17, <1>18, <1>20 DEF KoreNext
<1>21. CASE HostNext
  BY <1>2, <1>4, <1>6, <1>7, <1>8, <1>9, <1>10, <1>11, <1>12, <1>13, <1>21
     DEF HostNext, DestroyBlock
<1>22. QED
  BY <1>3, <1>19, <1>20, <1>21 DEF AppNext, Ended

LEMMA TypedStep == Typed /\ [AppNext]_<<vars, appVars>> => Typed'
BY AppTypedStep, StepOfRegistry, TypeStep, OnItsWayStep DEF Typed, AppTyped

LEMMA TypedInvariant == AppSpec => []Typed
<1>1. Init => TypeOK /\ OnItsWay
  BY InitTyped
<1>2. AppInit => Typed
  <2> SUFFICES ASSUME AppInit
               PROVE  AppTypeOK /\ ClearingIsListed
    BY <1>1 DEF AppInit, Typed, AppTyped
  <2>1. /\ <<>> \in Seq(Modules) /\ <<>> \in Seq(Blocks) /\ <<>> \in Seq(Libraries)
        /\ <<>> \in Seq(Internals) /\ <<>> \in Seq(MetaBlocks)
    OBVIOUS
  <2>2. QED
    BY <2>1 DEF AppInit, Init, AppTypeOK, ClearingIsListed, Stages
<1>3. QED
  BY <1>2, TypedStep, PTL DEF AppSpec

(* The state of the application stays in its type.                         *)
THEOREM AppTypeCorrect == AppSpec => []AppTypeOK
BY TypedInvariant, PTL DEF Typed, AppTyped

(* The application implements the registry: what is proved of Registry     *)
(* holds of every program that keeps to the disciplines of Application.    *)
THEOREM AppImplementsRegistry == AppSpec => Spec
<1>1. AppInit => Init
  BY DEF AppInit
<1>2. Typed /\ [AppNext]_<<vars, appVars>> => [Next]_vars
  BY StepOfRegistry DEF Typed, AppTyped
<1>3. QED
  BY <1>1, <1>2, TypedInvariant, PTL DEF AppSpec, Spec

-----------------------------------------------------------------------------
(* Modules are made and listed once.                                       *)

Once == EachModuleOnce /\ ToSet(modules) \subseteq made

\* A list of blocks that is not empty afterwards was not before, or its module is made.
ListsGrowWhenMade ==
    \A mod \in Modules : waiting'[mod] # <<>> \/ blocks'[mod] # <<>> =>
        waiting[mod] # <<>> \/ blocks[mod] # <<>> \/ mod \in made'

LEMMA SameModules ==
    ASSUME Once, modules' = modules, made' = made, ListsGrowWhenMade
    PROVE  Once'
BY DEF Once, EachModuleOnce, ListsGrowWhenMade

LEMMA PrivateInstanceOnce ==
    ASSUME AppTypeOK, Once, NEW mod \in Modules, PrivateInstance(mod), ListsGrowWhenMade
    PROVE  Once'
<1>1. CASE modules' = modules
  BY <1>1 DEF PrivateInstance, Lists, Once, EachModuleOnce, ListsGrowWhenMade
<1>2. CASE mod \notin made /\ modules' = Append(modules, mod)
  <2>1. modules \in Seq(Modules) /\ IsInjective(modules) /\ mod \notin ToSet(modules)
    BY <1>2 DEF AppTypeOK, Once, EachModuleOnce
  <2>2. IsInjective(modules') /\ ToSet(modules') = ToSet(modules) \cup {mod}
    BY <1>2, <2>1, AppendOnce
  <2>3. QED
    BY <2>2 DEF PrivateInstance, Lists, Once, EachModuleOnce, ListsGrowWhenMade
<1>3. QED
  BY <1>1, <1>2 DEF PrivateInstance, Lists, NewInstance

LEMMA OnceStep == Typed /\ Once /\ [AppNext]_<<vars, appVars>> => Once'
<1> SUFFICES ASSUME Typed, Once, [AppNext]_<<vars, appVars>>
             PROVE  Once'
  OBVIOUS
<1> USE DEF Typed, AppTyped
<1>1. CASE StaticNext
  <2>1. PICK mod \in Modules :
            /\ PrivateInstance(mod) /\ UNCHANGED blocks
            /\ \/ UNCHANGED waiting
               \/ \E m \in MetaBlocks : waiting' = [waiting EXCEPT ![mod] = Append(@, m)]
    BY <1>1, ModulesAssumption DEF StaticNext, InitialiseInstance, InitialiseRegistered,
       RegisterLoadable, vars, modVars
  <2>2. ListsGrowWhenMade
    BY <2>1 DEF ListsGrowWhenMade, PrivateInstance, TypeOK
  <2>3. QED
    BY <2>1, <2>2, PrivateInstanceOnce
<1>2. CASE LoadNext \/ Continue
  <2>1. ListsGrowWhenMade
    <3>1. ASSUME NEW mod \in Modules, AddBlock(mod)
          PROVE  ListsGrowWhenMade
      BY <3>1 DEF ListsGrowWhenMade, AddBlock, TypeOK
    <3>2. ASSUME NEW m \in MetaBlocks, RemoveBlock(m)
          PROVE  ListsGrowWhenMade
      <4>1. blocks[clearing] # <<>> /\ waiting' = waiting
        BY <3>2 DEF RemoveBlock, OnItsWay
      <4>2. \A mod \in Modules : mod # clearing => blocks'[mod] = blocks[mod]
        BY <3>2 DEF RemoveBlock, TypeOK
      <4>3. QED
        BY <4>1, <4>2 DEF ListsGrowWhenMade
    <3>3. CASE UNCHANGED <<waiting, blocks>>
      BY <3>3 DEF ListsGrowWhenMade
    <3>4. QED
      BY <1>2, <3>1, <3>2, <3>3 DEF LoadNext, Continue, Destroy, Enter, Leave, Delete, AppTypeOK,
         modVars, AddBlock
  <2>2. QED
    BY <1>2, <2>1, SameModules DEF LoadNext, Continue, appVars
<1>3. ASSUME UNCHANGED <<waiting, blocks, modules, made>>
      PROVE  Once'
  BY <1>3 DEF Once, EachModuleOnce
<1>4. ASSUME NEW mod \in Modules, RegisterModule(mod)
      PROVE  Once'
  <2>1. modules \in Seq(Modules) /\ IsInjective(modules) /\ mod \notin ToSet(modules)
    BY <1>4 DEF AppTypeOK, Once, EachModuleOnce, RegisterModule
  <2>2. IsInjective(modules') /\ ToSet(modules') = ToSet(modules) \cup {mod}
    BY <1>4, <2>1, AppendOnce DEF RegisterModule, Lists
  <2>3. QED
    BY <1>4, <2>2 DEF RegisterModule, Once, EachModuleOnce, vars, modVars
<1>5. CASE ModuleCleared
  <2>1. /\ modules \in Seq(Modules) /\ IsInjective(modules)
        /\ clearing \in ToSet(modules)
    BY <1>5 DEF AppTypeOK, Once, EachModuleOnce, ModuleCleared, Cleared, ClearingIsListed
  <2>2. /\ IsInjective(RemoveOne(modules, clearing))
        /\ ToSet(RemoveOne(modules, clearing)) \subseteq ToSet(modules)
    BY <2>1, RemoveOneOnce
  <2>3. IsInjective(modules') /\ ToSet(modules') \subseteq ToSet(modules)
    BY <1>5, <2>1, <2>2 DEF ModuleCleared, Unlisted
  <2>4. QED
    BY <1>5, <2>3 DEF ModuleCleared, Cleared, Once, EachModuleOnce
<1>6. CASE KoreNext
  BY <1>2, <1>3, <1>5, <1>6 DEF KoreNext, Construct, Constructed, Loaded, DestroyLastBlock,
     Destroyed, DestroyModule, Clear, DestroyInternal, DestroyLibrary, vars, modVars, appVars
<1>7. CASE HostNext
  <2>1. ASSUME NEW mod \in Modules, Load(mod) \/ Unload(mod)
        PROVE  UNCHANGED <<waiting, blocks, modules, made>>
    BY <2>1 DEF Load, Unload, Clear, vars, modVars, appVars
  <2>2. ASSUME NEW b \in Blocks,
               (\E name \in Names : CreateBlock(b, name)) \/ AddToData(b) \/ DestroyBlock(b)
        PROVE  UNCHANGED <<waiting, blocks, modules, made>>
    BY <2>2 DEF CreateBlock, GetMetaBlock, AddToData, DestroyBlock, Destroyed, vars, modVars
  <2>3. ASSUME NEW m \in MetaBlocks, SuperMetaBlock(m)
        PROVE  UNCHANGED <<waiting, blocks, modules, made>>
    BY <2>3 DEF SuperMetaBlock, GetMetaBlock, vars, modVars
  <2>4. Close \/ Client => UNCHANGED <<waiting, blocks, modules, made>>
    BY DEF Close, Client, ClientNext, RegisterExtension, UnregisterExtension, DeleteExtension,
       RegisterTaskletRunner, UnregisterTaskletRunner, vars, modVars, appVars
  <2>5. QED
    BY <1>3, <1>4, <1>7, <2>1, <2>2, <2>3, <2>4 DEF HostNext
<1>8. CASE UNCHANGED <<vars, appVars>>
  BY <1>3, <1>8 DEF vars, modVars, appVars
<1>9. QED
  BY <1>1, <1>6, <1>7, <1>8 DEF AppNext, Ended

LEMMA OnceInvariant == AppSpec => []Once
<1>1. AppInit => Once
  BY DEF AppInit, Init, Once, EachModuleOnce, IsInjective, ToSet
<1>2. QED
  BY <1>1, OnceStep, TypedInvariant, PTL DEF AppSpec

(* Each module is made and listed once, in whatever order the static       *)
(* initialisers of its library run.                                        *)
THEOREM EachModuleOnceAlways == AppSpec => []EachModuleOnce
BY OnceInvariant, PTL DEF Once

-----------------------------------------------------------------------------
(* Blocks keep their meta block.  The data library, the last in the root   *)
(* library, is destroyed before any module is at the end; until then only  *)
(* unload clears one, and finds all its classes unused.                    *)

DataIsLast == \A i \in DOMAIN root : root[i] = "Data" => i = Len(root)

NothingBeforeData ==
    stage \in {"static", "starting"} =>
        ~ HasData /\ clearing = None /\ \A b \in Blocks : class[b] = None

BlocksAreCounted == \A b \in Blocks : class[b] # None => count[class[b]] # 0

LoadedWhileKept == HasData => \A b \in Blocks : class[b] # None => step[class[b]] = "loaded"

ClearedIsUnused ==
    HasData /\ clearing # None => \A m \in ToSet(blocks[clearing]) : count[m] = 0

Leaves == {"leaving", "removed", "unregistered"}

LeavesWhenCleared == \A m \in MetaBlocks : step[m] \in Leaves => clearing # None

DataIsKept ==
    /\ ~ HasData => data = <<>>
    /\ IsInjective(data)
    /\ \A b \in ToSet(data) : class[b] # None

Keeping ==
    /\ DataIsLast /\ NothingBeforeData /\ BlocksAreCounted /\ LoadedWhileKept
    /\ ClearedIsUnused /\ LeavesWhenCleared /\ DataIsKept

Known == Typed /\ ListsAreApart /\ LookupsAreLive

(* A step of the registry: no class of a block goes, none is listed anew   *)
(* in the module that is cleared.                                          *)
LEMMA RegistryStepKeeps ==
    ASSUME Keeping, UNCHANGED <<stage, root, blockVars, clearing>>,
           \A m \in MetaBlocks :
               HasData /\ step[m] = "loaded" /\ count[m] # 0 => step'[m] = "loaded",
           clearing # None => ToSet(blocks'[clearing]) \subseteq ToSet(blocks[clearing]),
           \A m \in MetaBlocks : step'[m] \in Leaves => step[m] \in Leaves \/ clearing # None,
           class \in [Blocks -> MetaBlocks \cup {None}]
    PROVE  Keeping'
<1> USE DEF Keeping, blockVars, HasData
<1>1. DataIsLast' /\ NothingBeforeData' /\ BlocksAreCounted' /\ DataIsKept'
  BY DEF DataIsLast, NothingBeforeData, BlocksAreCounted, DataIsKept
<1>2. LoadedWhileKept'
  BY DEF LoadedWhileKept, BlocksAreCounted
<1>3. ClearedIsUnused'
  BY DEF ClearedIsUnused
<1>4. LeavesWhenCleared'
  BY DEF LeavesWhenCleared
<1>5. QED
  BY <1>1, <1>2, <1>3, <1>4

(* A block is destroyed, whoever does it.                                  *)
LEMMA DestroyedKeeps ==
    ASSUME Known, Keeping, NEW b \in Blocks, class[b] # None, Destroyed(b), stage' = stage
    PROVE  Keeping'
<1> USE DEF Known, Typed, AppTyped
<1>1. /\ class' = [class EXCEPT ![b] = None] /\ count' = [count EXCEPT ![class[b]] = Deref(@)]
      /\ UNCHANGED <<root, clearing, step, blocks>>
  BY DEF Destroyed, libVars, vars, modVars
<1>2. /\ class \in [Blocks -> MetaBlocks \cup {None}] /\ count \in [MetaBlocks -> Int]
      /\ data \in Seq(Blocks) /\ class[b] \in MetaBlocks
  BY DEF AppTypeOK
<1>3. DataIsLast' /\ NothingBeforeData' /\ LoadedWhileKept' /\ LeavesWhenCleared'
  BY <1>1, <1>2 DEF Keeping, DataIsLast, NothingBeforeData, LoadedWhileKept, LeavesWhenCleared,
        HasData
<1>4. \A m \in MetaBlocks : count[m] # 0 => count'[m] # 0
  BY <1>1, <1>2 DEF Deref
<1>5. BlocksAreCounted'
  BY <1>1, <1>2, <1>4 DEF Keeping, BlocksAreCounted
<1>6. ClearedIsUnused'
  <2> SUFFICES ASSUME HasData, clearing # None, NEW m \in ToSet(blocks[clearing])
               PROVE  count'[m] = 0
    BY <1>1 DEF ClearedIsUnused, HasData
  <2>1. count[m] = 0
    BY DEF Keeping, ClearedIsUnused
  <2>2. class[b] # m
    BY <2>1 DEF Keeping, BlocksAreCounted
  <2>3. QED
    BY <1>1, <1>2, <2>1, <2>2
<1>7. DataIsKept'
  <2>1. CASE b \in ToSet(data)
    <3>1. data' = RemoveOne(data, b)
      BY <2>1 DEF Destroyed
    <3>2. IsInjective(data)
      BY DEF Keeping, DataIsKept
    <3>3. IsInjective(data') /\ b \notin ToSet(data') /\ ToSet(data') \subseteq ToSet(data)
      BY <1>2, <2>1, <3>1, <3>2, RemoveOneOnce
    <3>4. HasData' = HasData /\ HasData
      BY <1>1, <2>1 DEF HasData, Keeping, DataIsKept, ToSet
    <3>5. ToSet(data) \subseteq Blocks
      BY <1>2 DEF ToSet
    <3>6. QED
      BY <1>1, <1>2, <3>3, <3>4, <3>5 DEF Keeping, DataIsKept
  <2>2. CASE b \notin ToSet(data)
    <3>1. data' = data
      BY <2>2 DEF Destroyed
    <3>2. ToSet(data) \subseteq Blocks
      BY <1>2 DEF ToSet
    <3>3. QED
      BY <1>1, <1>2, <2>2, <3>1, <3>2 DEF Keeping, DataIsKept, HasData
  <2>3. QED
    BY <2>1, <2>2
<1>8. QED
  BY <1>3, <1>5, <1>6, <1>7 DEF Keeping

LEMMA CreateBlockKeeps ==
    ASSUME Known, Keeping, NEW b \in Blocks, NEW name \in Names, CreateBlock(b, name)
    PROVE  Keeping'
<1> USE DEF Known, Typed, AppTyped
<1> DEFINE m == byName[name]
<1>1. /\ class' = [class EXCEPT ![b] = m] /\ count' = [count EXCEPT ![m] = Ref(@)]
      /\ UNCHANGED <<root, clearing, step, blocks, data, stage>>
      /\ HasData /\ clearing = None /\ class[b] = None /\ m # None /\ stage \in {"running", "closing"}
  BY DEF CreateBlock, GetMetaBlock, libVars, vars, modVars
<1>2. /\ class \in [Blocks -> MetaBlocks \cup {None}] /\ count \in [MetaBlocks -> Int]
      /\ data \in Seq(Blocks) /\ m \in MetaBlocks
  BY <1>1 DEF AppTypeOK, TypeOK
<1>3. step[m] = "loaded"
  <2>1. step[m] \in {"loaded", "leaving", "removed"}
    BY <1>1 DEF LookupsAreLive
  <2>2. step[m] \notin Leaves
    BY <1>1, <1>2 DEF Keeping, LeavesWhenCleared
  <2>3. QED
    BY <2>1, <2>2 DEF Leaves
<1> HIDE DEF m
<1>4. DataIsLast' /\ NothingBeforeData' /\ LeavesWhenCleared' /\ ClearedIsUnused'
  BY <1>1 DEF Keeping, DataIsLast, NothingBeforeData, LeavesWhenCleared, ClearedIsUnused
<1>5. LoadedWhileKept'
  BY <1>1, <1>2, <1>3 DEF Keeping, LoadedWhileKept
<1>6. BlocksAreCounted'
  <2>1. \A k \in MetaBlocks : count[k] # 0 \/ k = m => count'[k] # 0
    BY <1>1, <1>2 DEF Ref
  <2>2. QED
    BY <1>1, <1>2, <2>1 DEF Keeping, BlocksAreCounted
<1>7. DataIsKept'
  <2>1. ToSet(data) \subseteq Blocks
    BY <1>2 DEF ToSet
  <2>2. QED
    BY <1>1, <1>2, <2>1 DEF Keeping, DataIsKept, HasData
<1>8. QED
  BY <1>4, <1>5, <1>6, <1>7 DEF Keeping

LEMMA KeepingStep == Known /\ Keeping /\ [AppNext]_<<vars, appVars>> => Keeping'
<1> SUFFICES ASSUME Known, Keeping, [AppNext]_<<vars, appVars>>
             PROVE  Keeping'
  OBVIOUS
<1> USE DEF Known, Typed, AppTyped
<1>1. class \in [Blocks -> MetaBlocks \cup {None}] /\ step \in [MetaBlocks -> Steps]
  BY DEF AppTypeOK, TypeOK
<1>2. ASSUME UNCHANGED <<stage, root, blockVars, clearing, step, blocks>>
      PROVE  Keeping'
  BY <1>1, <1>2, RegistryStepKeeps
<1>3. CASE StaticNext
  BY <1>2, <1>3 DEF StaticNext, InitialiseInstance, InitialiseRegistered, RegisterLoadable, libVars,
     vars, modVars
<1>4. CASE Construct \/ Constructed
  <2>1. ~ HasData /\ clearing = None /\ \A b \in Blocks : class[b] = None
    BY <1>4 DEF Keeping, NothingBeforeData, Construct, Constructed
  <2>2. UNCHANGED <<class, data, count, clearing, step, blocks>> /\ stage' \in {"starting", "running"}
    BY <1>4 DEF Construct, Constructed, blockVars, vars, modVars
  <2>3. BlocksAreCounted' /\ LoadedWhileKept' /\ ClearedIsUnused' /\ LeavesWhenCleared' /\ DataIsKept'
    <3>1. data = <<>>
      BY <2>1 DEF Keeping, DataIsKept
    <3>2. QED
      BY <2>1, <2>2, <3>1 DEF Keeping, BlocksAreCounted, LoadedWhileKept, ClearedIsUnused,
         LeavesWhenCleared, DataIsKept, ToSet
  <2>4. DataIsLast' /\ NothingBeforeData'
    <3>1. CASE Construct
      <4>1. root' = <<"Kore Internals">>
        BY <3>1 DEF Construct
      <4>2. DOMAIN root' = {1} /\ root'[1] = "Kore Internals"
        BY <4>1, ListOfOne
      <4>3. QED
        BY <2>1, <2>2, <4>2 DEF DataIsLast, NothingBeforeData, HasData, ToSet
    <3>2. CASE Constructed
      <4>1. root \in Seq(Libraries) /\ root' = Append(root, "Data") /\ stage' = "running"
        BY <3>2 DEF Constructed, WithData, AppTypeOK
      <4>2. \A i \in DOMAIN root : root[i] # "Data"
        BY <2>1 DEF HasData, ToSet
      <4>3. DataIsLast'
        <5>1. /\ Len(root') = Len(root) + 1
              /\ \A i \in DOMAIN root' : i # Len(root') => i \in DOMAIN root /\ root'[i] = root[i]
          <6>1. "Data" \in Libraries
            BY DEF Libraries
          <6>2. QED
            BY <4>1, <6>1, AppendOnce
        <5>2. QED
          BY <4>2, <5>1 DEF DataIsLast
      <4>4. QED
        BY <4>1, <4>3 DEF NothingBeforeData
    <3>3. QED
      BY <1>4, <3>1, <3>2
  <2>5. QED
    BY <2>3, <2>4 DEF Keeping
<1>5. CASE LoadNext \/ Continue
  <2>1. UNCHANGED <<stage, root, blockVars, clearing>>
    BY <1>5 DEF LoadNext, Continue, Destroy, Enter, RemoveBlock, Leave, Delete, AddBlock, modVars,
       appVars, libVars
  <2>2. /\ \A m \in MetaBlocks :
             HasData /\ step[m] = "loaded" /\ count[m] # 0 => step'[m] = "loaded"
        /\ clearing # None => ToSet(blocks'[clearing]) \subseteq ToSet(blocks[clearing])
        /\ \A m \in MetaBlocks : step'[m] \in Leaves => step[m] \in Leaves \/ clearing # None
    <3>1. CASE LoadNext
      <4>1. PICK mod \in Modules : mod = loading /\ AddBlock(mod)
        BY <3>1 DEF LoadNext, AppTypeOK
      <4>2. Head(waiting[mod]) = waiting[mod][1] /\ 1 \in DOMAIN waiting[mod]
        BY <4>1 DEF AddBlock, TypeOK
      <4>3. step[Head(waiting[mod])] \in New
        BY <4>2 DEF ListsAreApart, WaitingIsNew
      <4>4. clearing = None /\ step' = [step EXCEPT ![Head(waiting[mod])] = "entering"]
        BY <4>1 DEF AddBlock
      <4>5. QED
        BY <1>1, <4>3, <4>4 DEF New, Leaves
    <3>2. CASE Destroy
      <4>1. /\ clearing # None /\ blocks[clearing] \in Seq(MetaBlocks) /\ blocks[clearing] # <<>>
            /\ UNCHANGED blocks
        BY <3>2 DEF Destroy, TypeOK, modVars
      <4>2. Last(blocks[clearing]) \in ToSet(blocks[clearing])
        BY <4>1, LastAndFront
      <4>3. HasData => count[Last(blocks[clearing])] = 0
        BY <4>1, <4>2 DEF Keeping, ClearedIsUnused
      <4>4. step' = [step EXCEPT ![Last(blocks[clearing])] = "leaving"]
        BY <3>2 DEF Destroy
      <4> HIDE DEF Known, Typed, AppTyped
      <4>5. \A m \in MetaBlocks : m # Last(blocks[clearing]) => step'[m] = step[m]
        BY <1>1, <4>4
      <4>6. QED
        BY <4>1, <4>3, <4>5
    <3>3. ASSUME NEW m \in MetaBlocks, RemoveBlock(m)
          PROVE  <2>2!1 /\ <2>2!2 /\ <2>2!3
      <4>1. clearing # None /\ m \in ToSet(blocks[clearing]) /\ blocks[clearing] \in Seq(MetaBlocks)
        BY <3>3 DEF RemoveBlock, OnItsWay, TypeOK, ToSet
      <4>2. ToSet(RemoveOne(blocks[clearing], m)) \subseteq ToSet(blocks[clearing])
        BY <4>1, RemoveOneOnce
      <4>3. blocks'[clearing] = RemoveOne(blocks[clearing], m)
        BY <3>3, <4>1 DEF RemoveBlock, TypeOK
      <4>4. QED
        BY <1>1, <3>3, <4>1, <4>2, <4>3 DEF RemoveBlock, Leaves
    <3>4. ASSUME NEW m \in MetaBlocks, Enter(m) \/ Leave(m) \/ Delete(m)
          PROVE  <2>2!1 /\ <2>2!2 /\ <2>2!3
      BY <1>1, <3>4 DEF Enter, Leave, Delete, Leaves, modVars
    <3>5. CASE Continue
      <4>1. \/ Destroy
            \/ \E m \in MetaBlocks : RemoveBlock(m)
            \/ \E m \in MetaBlocks : Enter(m) \/ Leave(m) \/ Delete(m)
        BY <3>5 DEF Continue
      <4>2. QED
        BY <3>2, <3>3, <3>4, <4>1
    <3>6. QED
      BY <1>5, <3>1, <3>5
  <2>3. QED
    BY <1>1, <2>1, <2>2, RegistryStepKeeps
<1>6. CASE Client
  <2>1. \A m \in MetaBlocks : step'[m] = step[m] \/ (step'[m] = "made" /\ step[m] = "absent")
    BY <1>1, <1>6 DEF Client, ClientNext, RegisterExtension, UnregisterExtension, DeleteExtension,
       RegisterTaskletRunner, UnregisterTaskletRunner, StaticMetaBlock
  <2>2. UNCHANGED <<stage, root, blockVars, clearing, blocks>>
    BY <1>6 DEF Client, ClientNext, RegisterExtension, UnregisterExtension, DeleteExtension,
       RegisterTaskletRunner, UnregisterTaskletRunner, modVars, appVars, libVars
  <2>3. QED
    BY <1>1, <2>1, <2>2, RegistryStepKeeps DEF Leaves
<1>7. CASE Loaded \/ \E mod \in Modules : Load(mod) \/ RegisterModule(mod)
  BY <1>2, <1>7 DEF Loaded, Load, RegisterModule, libVars, vars, modVars
<1>8. ASSUME NEW mod \in Modules, Unload(mod)
      PROVE  Keeping'
  <2>1. /\ UNCHANGED <<stage, root, data, class, count, step, blocks>> /\ clearing' = mod
        /\ \A m \in ToSet(blocks[mod]) : count[m] = 0
        /\ stage = "running" /\ mod # None /\ clearing = None
    BY <1>8, ModulesAssumption DEF Unload, Clear, CanUnload, appVars, libVars, blockVars
  <2>2. QED
    BY <2>1 DEF Keeping, DataIsLast, NothingBeforeData, BlocksAreCounted, LoadedWhileKept,
       ClearedIsUnused, LeavesWhenCleared, DataIsKept, HasData
<1>9. CASE DestroyModule
  <2>1. /\ UNCHANGED <<stage, root, data, class, count, step, blocks>>
        /\ stage = "closing" /\ clearing = None /\ clearing' # None
        /\ root # <<>> /\ Last(root) = "Kore Internals"
    <3>1. LastModule \in Modules
      BY <1>9, LastAndFront DEF DestroyModule, LastModule, AppTypeOK
    <3>2. QED
      BY <1>9, <3>1, ModulesAssumption DEF DestroyModule, ClosesEngine, Closes, Clear, appVars,
         libVars, blockVars
  <2>2. ~ HasData
    <3>1. root[Len(root)] # "Data"
      BY <2>1 DEF Last
    <3>2. QED
      BY <3>1 DEF Keeping, DataIsLast, HasData, ToSet
  <2>3. QED
    BY <2>1, <2>2 DEF Keeping, DataIsLast, NothingBeforeData, BlocksAreCounted, LoadedWhileKept,
       ClearedIsUnused, LeavesWhenCleared, DataIsKept, HasData
<1>10. CASE ModuleCleared
  <2>1. /\ UNCHANGED <<stage, root, data, class, count, step, blocks>> /\ clearing' = None
        /\ \A m \in MetaBlocks : step[m] \notin Between
    BY <1>10 DEF ModuleCleared, Cleared, Calm, libVars, blockVars
  <2>2. QED
    BY <2>1 DEF Keeping, DataIsLast, NothingBeforeData, BlocksAreCounted, LoadedWhileKept,
       ClearedIsUnused, LeavesWhenCleared, DataIsKept, HasData, Leaves, Between
<1>11. ASSUME NEW b \in Blocks, AddToData(b)
       PROVE  Keeping'
  <2>1. /\ UNCHANGED <<stage, root, clearing, class, count, step, blocks>>
        /\ HasData /\ class[b] # None /\ b \notin ToSet(data) /\ data' = Append(data, b)
    BY <1>11 DEF AddToData, libVars, vars, modVars
  <2>2. data \in Seq(Blocks) /\ IsInjective(data)
    BY DEF AppTypeOK, Keeping, DataIsKept
  <2>3. IsInjective(data') /\ ToSet(data') = ToSet(data) \cup {b}
    BY <2>1, <2>2, AppendOnce
  <2>4. DataIsKept'
    BY <2>1, <2>3 DEF Keeping, DataIsKept, HasData
  <2>5. QED
    BY <2>1, <2>4 DEF Keeping, DataIsLast, NothingBeforeData, BlocksAreCounted, LoadedWhileKept,
       ClearedIsUnused, LeavesWhenCleared, HasData
<1>12. CASE (\E b \in Blocks : DestroyBlock(b)) \/ DestroyLastBlock
  <2>1. CASE DestroyLastBlock
    <3>1. Last(data) \in ToSet(data) /\ Last(data) \in Blocks
      BY <2>1, LastAndFront DEF DestroyLastBlock, AppTypeOK
    <3>2. class[Last(data)] # None
      BY <3>1 DEF Keeping, DataIsKept
    <3>3. QED
      BY <2>1, <3>1, <3>2, DestroyedKeeps DEF DestroyLastBlock, Destroyed
  <2>2. QED
    BY <1>12, <2>1, DestroyedKeeps DEF DestroyBlock, Destroyed
<1>13. CASE Close \/ DestroyInternal \/ \E m \in MetaBlocks : SuperMetaBlock(m)
  <2>1. UNCHANGED <<root, data, class, count, clearing, step, blocks>> /\ (stage' = stage \/ stage' = "closing")
    BY <1>13 DEF Close, DestroyInternal, SuperMetaBlock, GetMetaBlock, libVars, blockVars, vars,
          modVars
  <2>2. QED
    BY <2>1 DEF Keeping, DataIsLast, NothingBeforeData, BlocksAreCounted, LoadedWhileKept,
       ClearedIsUnused, LeavesWhenCleared, DataIsKept, HasData
<1>14. CASE DestroyLibrary
  <2>1. /\ UNCHANGED <<data, class, count, clearing, step, blocks>> /\ stage' \in {"closing", "down"}
        /\ root \in Seq(Libraries) /\ root # <<>> /\ root' = Front(root)
        /\ (Last(root) = "Data" /\ data = <<>>) \/ Last(root) = "Kore Internals"
    BY <1>14 DEF DestroyLibrary, Closes, AppTypeOK, blockVars, vars, modVars
  <2>2. /\ DOMAIN root' = 1 .. Len(root) - 1 /\ Len(root) \in Nat
        /\ \A i \in DOMAIN root' : i \in DOMAIN root /\ root'[i] = root[i]
    <3>1. root \in Seq(Libraries)
      BY <2>1
    <3>2. Len(root) \in Nat
      BY ONLY <3>1
    <3>3. QED
      BY ONLY <2>1, <3>1, <3>2, LastAndFront
  <2>3. \A i \in DOMAIN root' : root'[i] # "Data"
    BY <2>2 DEF Keeping, DataIsLast
  <2>4. ~ HasData' /\ DataIsLast'
    BY <2>3 DEF HasData, DataIsLast, ToSet
  <2>5. data = <<>>
    <3>1. CASE Last(root) = "Kore Internals"
      <4>1. root[Len(root)] # "Data"
        BY <3>1 DEF Last
      <4>2. ~ HasData
        BY <4>1 DEF Keeping, DataIsLast, HasData, ToSet
      <4>3. QED
        BY <4>2 DEF Keeping, DataIsKept
    <3>2. QED
      BY <2>1, <3>1
  <2>6. QED
    BY <2>1, <2>4, <2>5 DEF Keeping, NothingBeforeData, BlocksAreCounted, LoadedWhileKept,
       ClearedIsUnused, LeavesWhenCleared, DataIsKept
<1>15. CASE KoreNext
  BY <1>4, <1>5, <1>7, <1>9, <1>10, <1>12, <1>13, <1>14, <1>15 DEF KoreNext
<1>16. CASE HostNext
  BY <1>6, <1>7, <1>8, <1>11, <1>12, <1>13, <1>16, CreateBlockKeeps DEF HostNext
<1>17. CASE UNCHANGED <<vars, appVars>>
  BY <1>2, <1>17 DEF vars, modVars, appVars, libVars
<1>18. QED
  BY <1>3, <1>15, <1>16, <1>17 DEF AppNext, Ended

LEMMA KeepingInvariant == AppSpec => [](Known /\ Keeping)
<1>1. AppInit => Keeping
  <2> SUFFICES ASSUME AppInit
               PROVE  Keeping
    OBVIOUS
  <2>1. ToSet(root) = {} /\ ToSet(data) = {} /\ IsInjective(data) /\ DataIsLast
    BY DEF AppInit, ToSet, IsInjective, DataIsLast
  <2>2. QED
    BY <2>1 DEF AppInit, Init, Keeping, NothingBeforeData, BlocksAreCounted, LoadedWhileKept,
       ClearedIsUnused, LeavesWhenCleared, DataIsKept, HasData, Leaves
<1>2. AppSpec => []Known
  BY AppImplementsRegistry, TypedInvariant, ListsAreApartInvariant, LookupsAreLiveAlways,
        PTL DEF Known
<1>3. QED
  BY <1>1, <1>2, KeepingStep, PTL DEF AppSpec

(* Every block of the data library has its meta block, which destroys it,  *)
(* up to the end of the destructor of KoreApplication.                     *)
THEOREM BlocksKeepTheirMetaBlockAlways == AppSpec => []BlocksKeepTheirMetaBlock
<1>1. Known /\ Keeping => BlocksKeepTheirMetaBlock
  <2> SUFFICES ASSUME Known, Keeping, NEW b \in ToSet(data)
               PROVE  step[class[b]] = "loaded"
    BY DEF BlocksKeepTheirMetaBlock
  <2>1. b \in Blocks
    <3>1. data \in Seq(Blocks)
      BY DEF Known, Typed, AppTyped, AppTypeOK
    <3>2. QED
      BY <3>1 DEF ToSet
  <2>2. HasData
    BY DEF Keeping, DataIsKept, ToSet
  <2>3. QED
    BY <2>1, <2>2 DEF Keeping, DataIsKept, LoadedWhileKept
<1>2. QED
  BY <1>1, KeepingInvariant, PTL

-----------------------------------------------------------------------------
(* The cached super classes.                                               *)

\* A meta block waits, is listed and leaves in the module of its class only.
Home ==
    /\ \A mod \in Modules : \A m \in ToSet(waiting[mod]) \cup ToSet(blocks[mod]) :
          ModuleOf(m) = mod
    /\ \A m \in MetaBlocks :
          /\ step[m] \in Listed => m \in ToSet(blocks[ModuleOf(m)])
          /\ step[m] \in {"removed", "unregistered"} => clearing = ModuleOf(m)
          /\ step[m] = "entering" => clearing = None

\* Modules are loaded when they are listed and before the end, and while one is
\* cleared no plug-in is half open.
ListedModules ==
    /\ clearing # None \/ stage \in {"closing", "down"} => ~ Opening
    /\ loading # None => loading \in ToSet(modules) /\ stage \in {"starting", "running"}
    /\ \A m \in MetaBlocks : step[m] = "entering" => loading # None
    /\ \A mod \in Modules : blocks[mod] # <<>> => mod \in ToSet(modules)
    /\ stage = "static" => made \cap BuiltIn \subseteq ToSet(modules)

\* The engine lists the modules in the order of their coming, without the last ones
\* at the end; then it clears the last one of the list, and before only what a host
\* unloads.  So what is deleted came after every module of the list.
Ending == {"closing", "down"}

ListInOrder ==
    /\ stage \notin Ending => modules = order
    /\ Len(modules) <= Len(order) /\ \A i \in DOMAIN modules : modules[i] = order[i]

ClearedLast ==
    clearing # None =>
        /\ loading = None
        /\ stage \notin Ending => clearing \in unloaded
        /\ stage \in Ending => modules # <<>> /\ clearing = Last(modules)

DeletedLast ==
    \A m \in MetaBlocks : step[m] = "deleted" /\ ModuleOf(m) \notin unloaded =>
        /\ stage \in Ending
        /\ \A mod \in ToSet(modules) \ {ModuleOf(m)} : Before(order, mod, ModuleOf(m))

ModulesInOrder == ListInOrder /\ ClearedLast /\ DeletedLast

\* No class of a module is in or gone before all have registered, and none is gone
\* while others wait.
Staying == New \cup {"entering", "loaded"}

ModulesAreWhole ==
    /\ stage # "static" => \A mod \in BuiltIn : Complete(mod)
    /\ loading # None => Complete(loading)
    /\ stage = "starting" => loading = Core
    /\ \A m \in MetaBlocks : step[m] \notin New => Complete(ModuleOf(m))
    /\ \A mod \in Modules : waiting[mod] # <<>> =>
          /\ \A m \in MetaBlocks : ModuleOf(m) = mod => step[m] \in Staying
          /\ loading # mod => blocks[mod] = <<>>

\* The classes of a module wait, are listed and go in the order of their coming.
Sorted(s, history) == \A i, j \in DOMAIN s : i < j => Before(history, s[i], s[j])

ListsInOrder ==
    /\ registered \subseteq ToSet(came)
    /\ \A mod \in Modules :
          /\ Sorted(waiting[mod], came) /\ Sorted(blocks[mod], came)
          /\ \A m \in ToSet(blocks[mod]), n \in ToSet(waiting[mod]) : Before(came, m, n)

Going == {"removed", "unregistered"}

\* n is further on its way out than m.
IsAheadOf(n, m) ==
    \/ step[n] \in Going \cup {"deleted"} /\ step[m] \in Listed
    \/ step[n] = "deleted" /\ step[m] \in Going

LastGoesFirst ==
    /\ \A n \in MetaBlocks : step[n] = "leaving" => n = Last(blocks[clearing])
    /\ \A m, n \in MetaBlocks : ModuleOf(m) = ModuleOf(n) /\ IsAheadOf(n, m) => Before(came, m, n)

ClassesInOrder == ModulesAreWhole /\ ListsInOrder /\ LastGoesFirst

(* The others stay in the list from which one is removed.                  *)
LEMMA RemoveOneOthers ==
    ASSUME NEW S, NEW s \in Seq(S), NEW x \in ToSet(s)
    PROVE  \A y \in ToSet(s) \ {x} : y \in ToSet(RemoveOne(s, x))
<1>1. \E k \in DOMAIN s : s[k] = x
  BY DEF ToSet
<1> DEFINE r == RemoveOne(s, x)
<1>2. r \in Seq(S)
  BY <1>1, RemoveOneProperties
<1>3. PICK i \in DOMAIN s :
          /\ s[i] = x /\ Len(r) = Len(s) - 1
          /\ \A j \in DOMAIN r : r[j] = IF j < i THEN s[j] ELSE s[j + 1]
  BY <1>1, RemoveOneProperties
<1> HIDE DEF r
<1>4. /\ DOMAIN r = 1 .. Len(s) - 1 /\ DOMAIN s = 1 .. Len(s)
      /\ Len(s) \in Nat /\ i \in 1 .. Len(s)
  BY <1>2, <1>3
<1>5. ASSUME NEW y \in ToSet(s) \ {x}
      PROVE  y \in ToSet(r)
  <2>1. PICK k \in DOMAIN s : s[k] = y
    BY DEF ToSet
  <2>2. k # i
    BY <1>3, <2>1
  <2>3. CASE k < i
    <3>1. k \in DOMAIN r
      BY <1>4, <2>3
    <3>2. QED
      BY <1>3, <2>1, <2>3, <3>1 DEF ToSet
  <2>4. CASE ~(k < i)
    <3>1. k - 1 \in DOMAIN r /\ ~(k - 1 < i) /\ (k - 1) + 1 = k
      BY <1>4, <2>2, <2>4
    <3>2. r[k - 1] = y
      BY <1>3, <2>1, <3>1
    <3>3. QED
      BY <3>1, <3>2 DEF ToSet
  <2>5. QED
    BY <2>3, <2>4
<1>6. QED
  BY <1>5 DEF r

(* The first of a list that is not empty, and the others.                  *)
LEMMA HeadAndTail ==
    ASSUME NEW S, NEW s \in Seq(S), s # <<>>
    PROVE  Head(s) \in ToSet(s) /\ ToSet(Tail(s)) \subseteq ToSet(s)
<1>1. Len(s) \in Nat /\ Len(s) >= 1 /\ Head(s) = s[1] /\ DOMAIN s = 1 .. Len(s)
  OBVIOUS
<1>2. /\ DOMAIN Tail(s) = 1 .. Len(s) - 1
      /\ \A i \in 1 .. Len(s) - 1 : Tail(s)[i] = s[i + 1]
  OBVIOUS
<1>3. \A i \in 1 .. Len(s) - 1 : i + 1 \in DOMAIN s
  BY <1>1
<1>4. QED
  BY <1>1, <1>2, <1>3 DEF ToSet

(* The lists are of their module.                                          *)
LEMMA HomeStep ==
    ASSUME TypeOK, OnItsWay, ListsAreApart, Home, [Next]_vars
    PROVE  Home'
<1>1. /\ waiting \in [Modules -> Seq(MetaBlocks)] /\ blocks \in [Modules -> Seq(MetaBlocks)]
      /\ step \in [MetaBlocks -> Steps] /\ clearing \in Modules \cup {None}
      /\ \A m \in MetaBlocks : ModuleOf(m) \in Modules
      /\ \A mod \in Modules : /\ waiting[mod] \in Seq(MetaBlocks)
                              /\ blocks[mod] \in Seq(MetaBlocks)
  BY ModulesAssumption DEF TypeOK
<1>2. ASSUME /\ \A mod \in Modules : /\ ToSet(waiting'[mod]) \subseteq ToSet(waiting[mod])
                                     /\ blocks'[mod] = blocks[mod],
             \A m \in MetaBlocks :
                /\ step'[m] \in Listed => step[m] \in Listed
                /\ step'[m] \in {"removed", "unregistered"}
                      => clearing' = ModuleOf(m)
                /\ step'[m] = "entering" => clearing' = None
      PROVE  Home'
  BY <1>1, <1>2 DEF Home
<1>3. ASSUME UNCHANGED <<waiting, blocks, clearing>>,
             \A m \in MetaBlocks :
                step'[m] = step[m]
                    \/ (step'[m] \notin Listed /\ step'[m] \notin {"removed", "unregistered"})
      PROVE  Home'
  <2>1. \A m \in MetaBlocks : step'[m] = "entering" => step'[m] = step[m]
    BY <1>3 DEF Listed
  <2>2. QED
    BY <1>2, <1>3, <2>1 DEF Home
<1>4. ASSUME NEW m \in MetaBlocks, RegisterLoadable(m)
      PROVE  Home'
  <2> DEFINE home == ModuleOf(m)
  <2>1. /\ home \in Modules /\ waiting'[home] = Append(waiting[home], m)
        /\ \A mod \in Modules \ {home} : waiting'[mod] = waiting[mod]
        /\ UNCHANGED <<blocks, step, clearing>>
    BY <1>1, <1>4 DEF RegisterLoadable
  <2>2. ToSet(waiting'[home]) = ToSet(waiting[home]) \cup {m}
    BY <1>1, <2>1, AppendOnce
  <2>3. \A mod \in Modules : \A x \in ToSet(waiting'[mod]) : ModuleOf(x) = mod
    BY <2>1, <2>2 DEF Home
  <2>4. QED
    BY <2>1, <2>3 DEF Home
<1>5. ASSUME NEW mod \in Modules, AddBlock(mod)
      PROVE  Home'
  <2> DEFINE h == Head(waiting[mod])
  <2>1. /\ waiting[mod] # <<>> /\ clearing = None /\ clearing' = None
        /\ waiting'[mod] = Tail(waiting[mod]) /\ blocks'[mod] = Append(blocks[mod], h)
        /\ \A other \in Modules \ {mod} : /\ waiting'[other] = waiting[other]
                                          /\ blocks'[other] = blocks[other]
    BY <1>1, <1>5 DEF AddBlock
  <2>2. h \in ToSet(waiting[mod]) /\ ToSet(waiting'[mod]) \subseteq ToSet(waiting[mod])
    BY <1>1, <2>1, HeadAndTail
  <2>3. h \in MetaBlocks /\ ModuleOf(h) = mod
    <3>1. ToSet(waiting[mod]) \subseteq MetaBlocks
      BY <1>1 DEF ToSet
    <3>2. QED
      BY <2>2, <3>1 DEF Home
  <2>4. step'[h] = "entering" /\ \A m \in MetaBlocks \ {h} : step'[m] = step[m]
    BY <1>1, <1>5, <2>3 DEF AddBlock
  <2> HIDE DEF h
  <2>5. ToSet(blocks'[mod]) = ToSet(blocks[mod]) \cup {h}
    BY <1>1, <2>1, <2>3, AppendOnce
  <2>6. \A other \in Modules : \A x \in ToSet(waiting'[other]) \cup ToSet(blocks'[other]) :
            ModuleOf(x) = other
    BY <2>1, <2>2, <2>3, <2>5 DEF Home
  <2>7. ASSUME NEW m \in MetaBlocks
        PROVE  /\ step'[m] \in Listed => m \in ToSet(blocks'[ModuleOf(m)])
               /\ step'[m] \in {"removed", "unregistered"} => clearing' = ModuleOf(m)
               /\ step'[m] = "entering" => clearing' = None
    <3>1. CASE m = h
      BY <2>1, <2>3, <2>4, <2>5, <3>1
    <3>2. CASE m # h
      <4>1. step'[m] = step[m] /\ ModuleOf(m) \in Modules
        BY <1>1, <2>4, <3>2
      <4>2. ToSet(blocks[ModuleOf(m)]) \subseteq ToSet(blocks'[ModuleOf(m)])
        BY <2>1, <2>5, <4>1
      <4>3. QED
        BY <2>1, <4>1, <4>2 DEF Home
    <3>3. QED
      BY <3>1, <3>2
  <2>8. QED
    BY <2>6, <2>7 DEF Home
<1>6. ASSUME NEW mod \in Modules, Clear(mod)
      PROVE  Home'
  <2>1. \A m \in MetaBlocks : step'[m] = step[m] /\ step[m] \notin Between
    BY <1>6 DEF Clear, Calm
  <2>2. UNCHANGED <<waiting, blocks>>
    BY <1>6 DEF Clear
  <2>3. QED
    BY <1>2, <2>1, <2>2 DEF Between
<1>7. CASE Cleared
  <2>1. \A m \in MetaBlocks : step'[m] = step[m] /\ step[m] \notin Between
    BY <1>7 DEF Cleared, Calm
  <2>2. UNCHANGED <<waiting, blocks>>
    BY <1>7 DEF Cleared
  <2>3. QED
    BY <1>2, <2>1, <2>2 DEF Between
<1>8. CASE Destroy
  <2> DEFINE x == Last(blocks[clearing])
  <2>1. /\ clearing \in Modules /\ blocks[clearing] # <<>>
        /\ UNCHANGED <<waiting, blocks, clearing>>
        /\ step' = [step EXCEPT ![x] = "leaving"]
    BY <1>1, <1>8 DEF Destroy, modVars
  <2>2. x \in MetaBlocks /\ x \in ToSet(blocks[clearing])
    BY <1>1, <2>1, LastAndFront
  <2>3. step[x] \in Listed
    BY <2>1, <2>2 DEF ListsAreApart, ListedIsIn, ToSet
  <2>4. step'[x] = "leaving" /\ \A m \in MetaBlocks \ {x} : step'[m] = step[m]
    BY <1>1, <2>1, <2>2
  <2> HIDE DEF x
  <2>5. QED
    BY <1>2, <2>1, <2>2, <2>3, <2>4 DEF Home
<1>9. ASSUME NEW x \in MetaBlocks, RemoveBlock(x)
      PROVE  Home'
  <2>1. step[x] = "leaving" /\ clearing \in Modules /\ x \in ToSet(blocks[clearing])
    BY <1>1, <1>9 DEF RemoveBlock, OnItsWay, ToSet
  <2>2. /\ UNCHANGED <<waiting, clearing>> /\ blocks'[clearing] = RemoveOne(blocks[clearing], x)
        /\ \A mod \in Modules \ {clearing} : blocks'[mod] = blocks[mod]
        /\ step'[x] = "removed" /\ \A m \in MetaBlocks \ {x} : step'[m] = step[m]
    BY <1>1, <1>9, <2>1 DEF RemoveBlock
  <2>3. /\ ToSet(blocks'[clearing]) \subseteq ToSet(blocks[clearing])
        /\ \A y \in ToSet(blocks[clearing]) \ {x} : y \in ToSet(blocks'[clearing])
    <3>1. blocks[clearing] \in Seq(MetaBlocks)
      BY <1>1, <2>1
    <3>2. QED
      BY <2>1, <2>2, <3>1, RemoveOneOnce, RemoveOneOthers
  <2>4. ModuleOf(x) = clearing
    BY <2>1 DEF Home
  <2>5. \A mod \in Modules : \A m \in ToSet(waiting'[mod]) \cup ToSet(blocks'[mod]) :
            ModuleOf(m) = mod
    BY <2>2, <2>3 DEF Home
  <2>6. ASSUME NEW m \in MetaBlocks \ {x}, step[m] \in Listed
        PROVE  m \in ToSet(blocks'[ModuleOf(m)])
    BY <1>1, <2>2, <2>3, <2>6 DEF Home
  <2>7. QED
    BY <2>2, <2>4, <2>5, <2>6 DEF Home, Listed
<1>10. ASSUME NEW x \in MetaBlocks, Enter(x) \/ Leave(x) \/ Delete(x)
       PROVE  Home'
  <2>1. /\ UNCHANGED <<waiting, blocks, clearing>>
        /\ \A m \in MetaBlocks \ {x} : step'[m] = step[m]
        /\ \/ step[x] = "entering" /\ step'[x] = "loaded"
           \/ step[x] = "removed" /\ step'[x] = "unregistered"
           \/ step'[x] = "deleted"
    BY <1>1, <1>10 DEF Enter, Leave, Delete, modVars
  <2>2. QED
    BY <1>2, <2>1 DEF Home, Listed
<1>11. CASE ClientNext
  <2>1. UNCHANGED <<waiting, blocks, clearing>>
    BY <1>11 DEF ClientNext, RegisterExtension, UnregisterExtension, DeleteExtension,
       RegisterTaskletRunner, UnregisterTaskletRunner, modVars
  <2>2. \A m \in MetaBlocks : step'[m] = step[m] \/ step'[m] = "made"
    BY <1>1, <1>11 DEF ClientNext, RegisterExtension, UnregisterExtension, DeleteExtension,
       RegisterTaskletRunner, UnregisterTaskletRunner, StaticMetaBlock
  <2>3. QED
    BY <1>3, <2>1, <2>2 DEF Listed
<1>12. CASE UNCHANGED vars
  BY <1>3, <1>12 DEF vars, modVars
<1>13. QED
  BY <1>4, <1>5, <1>6, <1>7, <1>8, <1>9, <1>10, <1>11, <1>12 DEF Next, ModuleNext

LEMMA HomeInvariant == Spec => []Home
<1>1. Init => Home
  BY DEF Init, Home, Listed, ToSet
<1>2. QED
  BY <1>1, HomeStep, OnItsWayInvariant, ListsAreApartInvariant, PTL DEF Spec

-----------------------------------------------------------------------------
\* What is known of every state, for the proof about the super classes.
Whole == Known /\ Once /\ Keeping /\ Home

(* The types, as the proofs below need them.                               *)
LEMMA WholeTypes ==
    ASSUME Whole
    PROVE  /\ waiting \in [Modules -> Seq(MetaBlocks)] /\ blocks \in [Modules -> Seq(MetaBlocks)]
           /\ \A mod \in Modules : /\ waiting[mod] \in Seq(MetaBlocks)
                                   /\ blocks[mod] \in Seq(MetaBlocks)
           /\ step \in [MetaBlocks -> Steps] /\ clearing \in Modules \cup {None}
           /\ super \in [MetaBlocks -> MetaBlocks \cup {None}]
           /\ byName \in [Names -> MetaBlocks \cup {None}]
           /\ modules \in Seq(Modules) /\ stage \in Stages /\ loading \in Modules \cup {None}
           /\ made \subseteq Modules
           /\ \A m \in MetaBlocks : ModuleOf(m) \in Modules
           /\ Core \in Modules /\ Core \notin Plugins /\ Core \in BuiltIn /\ Core # None
           /\ None \notin Modules /\ None \notin MetaBlocks
           /\ \A m \in MetaBlocks : SuperOf(m) \in MetaBlocks \cup {None}
BY ModulesAssumption, NamesAssumption, ApplicationAssumption
   DEF Whole, Known, Typed, AppTyped, TypeOK, AppTypeOK, BuiltIn

\* What an initialiser does, and when.
StaticEffect ==
    /\ clearing = None /\ stage \in {"static", "running"}
    /\ UNCHANGED <<stage, loading, clearing, blocks, step, unloaded>>
    /\ \E mod \in Modules :
        /\ PrivateInstance(mod)
        /\ mod \in BuiltIn => stage = "static"
        /\ \/ UNCHANGED <<waiting, registered, came>>
           \/ \E m \in MetaBlocks :
                ModuleOf(m) = mod /\ RegisterLoadable(m) /\ came' = Append(came, m)

(* While a module is cleared no initialiser runs, nor at the end.          *)
LEMMA StaticStep ==
    ASSUME Whole, ListedModules, StaticNext
    PROVE  StaticEffect
<1>1. /\ None \notin Modules /\ \A m \in MetaBlocks : ModuleOf(m) \in Modules
      /\ stage \in {"static", "starting"} => clearing = None
      /\ clearing # None => ~ Opening
  BY WholeTypes DEF Whole, Keeping, NothingBeforeData, ListedModules
<1>2. ASSUME NEW mod \in Modules, InitialiseInstance(mod)
      PROVE  StaticEffect
  <2>1. /\ Initialises(mod) /\ PrivateInstance(mod) /\ mod \in BuiltIn /\ mod \notin Plugins
        /\ UNCHANGED <<stage, loading, clearing, blocks, step, unloaded, waiting, registered, came>>
    BY <1>2 DEF InitialiseInstance, BuiltIn, vars, modVars
  <2>2. QED
    BY <1>1, <2>1 DEF Initialises, StaticEffect
<1>3. ASSUME NEW m \in MetaBlocks, InitialiseRegistered(m)
      PROVE  StaticEffect
  <2>1. /\ Initialises(ModuleOf(m)) /\ PrivateInstance(ModuleOf(m)) /\ RegisterLoadable(m)
        /\ ModuleOf(m) \in Modules /\ came' = Append(came, m)
        /\ UNCHANGED <<stage, loading, clearing, blocks, step, unloaded>>
    BY <1>1, <1>3 DEF InitialiseRegistered, RegisterLoadable
  <2>2. clearing = None
    <3>1. SUFFICES ASSUME clearing # None
                   PROVE  FALSE
      OBVIOUS
    <3>2. ModuleOf(m) \in Plugins /\ ModuleOf(m) \in made
      BY <1>1, <2>1, <3>1 DEF Initialises, Idle
    <3>3. Complete(ModuleOf(m))
      BY <1>1, <3>1, <3>2 DEF Opening
    <3>4. QED
      BY <2>1, <3>3 DEF Complete, RegisterLoadable
  <2>3. QED
    BY <2>1, <2>2 DEF Initialises, BuiltIn, StaticEffect
<1>4. QED
  BY <1>2, <1>3 DEF StaticNext

(* The modules that are loaded and cleared are listed.                     *)
LEMMA ListedModulesStep ==
    ASSUME Whole, ListedModules, [AppNext]_<<vars, appVars>>
    PROVE  ListedModules'
<1>1. /\ step \in [MetaBlocks -> Steps] /\ modules \in Seq(Modules) /\ made \subseteq Modules
      /\ waiting \in [Modules -> Seq(MetaBlocks)] /\ blocks \in [Modules -> Seq(MetaBlocks)]
      /\ clearing \in Modules \cup {None} /\ loading \in Modules \cup {None}
      /\ None \notin Modules /\ Core \in Modules /\ Core \in BuiltIn
      /\ clearing # None => clearing \in ToSet(modules)
      /\ stage \in {"static", "starting"} => clearing = None
  BY WholeTypes DEF Whole, Known, Typed, AppTyped, ClearingIsListed, Keeping, NothingBeforeData
<1>2. ASSUME UNCHANGED <<made, registered, stage, loading, modules, blocks>>,
             \A m \in MetaBlocks : step'[m] = "entering" => step[m] = "entering",
             clearing' # None => ~ Opening
      PROVE  ListedModules'
  BY <1>2 DEF ListedModules, Opening, Complete
<1>3. CASE StaticNext
  <2>1. PICK mod \in Modules :
            /\ PrivateInstance(mod) /\ (mod \in BuiltIn => stage = "static")
            /\ clearing = None /\ stage \in {"static", "running"}
            /\ UNCHANGED <<stage, loading, clearing, blocks, step>>
    BY <1>3, StaticStep DEF StaticEffect
  <2>2. made' = made \cup {mod} /\ ToSet(modules) \subseteq ToSet(modules')
    BY <2>1, PrivateInstanceList DEF Whole, Known, Typed, AppTyped
  <2>3. mod \in BuiltIn /\ stage = "static" => mod \in ToSet(modules')
    <3>1. CASE mod \in made
      BY <2>2, <3>1 DEF ListedModules
    <3>2. CASE mod \notin made /\ mod \in BuiltIn
      <4>1. modules' = Append(modules, mod)
        BY <2>1, <3>2 DEF PrivateInstance, Lists, NewInstance
      <4>2. QED
        BY <1>1, <4>1, AppendOnce
    <3>3. QED
      BY <3>1, <3>2
  <2>4. QED
    BY <2>1, <2>2, <2>3 DEF ListedModules
<1>4. CASE Construct
  <2>1. /\ stage = "static" /\ stage' = "starting" /\ loading' = Core /\ Core \in made
        /\ UNCHANGED <<clearing, blocks, modules>>
    BY <1>1, <1>4 DEF Construct, Complete, vars, modVars
  <2>2. Core \in ToSet(modules)
    BY <1>1, <2>1 DEF ListedModules
  <2>3. QED
    BY <1>1, <2>1, <2>2 DEF ListedModules
<1>5. CASE Constructed
  <2>1. /\ stage = "starting" /\ stage' = "running" /\ loading' = None /\ Calm
        /\ UNCHANGED <<clearing, blocks, modules, step>>
    BY <1>5 DEF Constructed, vars, modVars
  <2>2. QED
    BY <1>1, <2>1 DEF ListedModules, Calm, Between
<1>6. CASE LoadNext
  <2>1. /\ loading # None /\ clearing' = None /\ AddBlock(loading)
        /\ UNCHANGED <<stage, loading, modules, made, registered>>
        /\ \A mod \in Modules \ {loading} : blocks'[mod] = blocks[mod]
    BY <1>1, <1>6 DEF LoadNext, AddBlock, appVars
  <2>2. loading \in ToSet(modules)
    BY <2>1 DEF ListedModules
  <2>3. QED
    BY <2>1, <2>2 DEF ListedModules, Opening, Complete
<1>7. CASE Continue
  <2>1. /\ UNCHANGED <<made, registered, stage, loading, modules, clearing>>
        /\ \A m \in MetaBlocks : step'[m] = "entering" => step[m] = "entering"
    BY <1>1, <1>7 DEF Continue, Destroy, Enter, RemoveBlock, Leave, Delete, modVars, appVars
  <2>2. clearing # None => ~ Opening
    BY DEF ListedModules
  <2>3. CASE UNCHANGED blocks
    BY <1>2, <2>1, <2>2, <2>3
  <2>4. ASSUME NEW m \in MetaBlocks, RemoveBlock(m)
        PROVE  ListedModules'
    <3>1. step[m] = "leaving" /\ clearing \in Modules
      BY <1>1, <2>4 DEF RemoveBlock, Whole, Known, Typed, OnItsWay
    <3>2. \A mod \in Modules \ {clearing} : blocks'[mod] = blocks[mod]
      BY <1>1, <2>4, <3>1 DEF RemoveBlock
    <3>3. clearing \in ToSet(modules)
      BY <1>1, <3>1
    <3>4. QED
      BY <2>1, <2>2, <3>2, <3>3 DEF ListedModules, Opening, Complete
  <2>5. QED
    BY <1>7, <2>3, <2>4 DEF Continue, Destroy, Enter, Leave, Delete, modVars
<1>8. CASE Client
  <2>1. UNCHANGED <<made, registered, stage, loading, modules, blocks, clearing>>
    BY <1>8 DEF Client, ClientNext, RegisterExtension, UnregisterExtension, DeleteExtension,
       RegisterTaskletRunner, UnregisterTaskletRunner, modVars, appVars
  <2>2. \A m \in MetaBlocks : step'[m] = step[m] \/ step'[m] = "made"
    BY <1>1, <1>8 DEF Client, ClientNext, RegisterExtension, UnregisterExtension, DeleteExtension,
       RegisterTaskletRunner, UnregisterTaskletRunner, StaticMetaBlock
  <2>3. QED
    BY <1>2, <2>1, <2>2 DEF ListedModules
<1>9. ASSUME NEW mod \in Modules, Unload(mod)
      PROVE  ListedModules'
  <2>1. UNCHANGED <<made, registered, stage, loading, modules, blocks, step>> /\ ~ Opening
    BY <1>9 DEF Unload, Idle, Clear, appVars
  <2>2. QED
    BY <1>2, <2>1
<1>10. CASE DestroyModule
  <2>1. /\ UNCHANGED <<made, registered, stage, loading, modules, blocks, step>>
        /\ stage = "closing"
    BY <1>10 DEF DestroyModule, ClosesEngine, Closes, Clear, appVars
  <2>2. QED
    BY <1>2, <2>1 DEF ListedModules
<1>11. CASE ModuleCleared
  <2>1. /\ UNCHANGED <<made, registered, stage, loading, blocks, step>>
        /\ clearing # None /\ clearing' = None /\ blocks[clearing] = <<>>
        /\ \/ modules' = modules
           \/ stage = "closing" /\ modules' = RemoveOne(modules, clearing)
    BY <1>11 DEF ModuleCleared, Cleared, Unlisted
  <2>2. CASE modules' = modules
    BY <1>2, <2>1, <2>2
  <2>3. CASE stage = "closing" /\ modules' = RemoveOne(modules, clearing)
    <3>1. \A mod \in ToSet(modules) \ {clearing} : mod \in ToSet(modules')
      BY <1>1, <2>1, <2>3, RemoveOneOthers
    <3>2. loading = None
      BY <2>3 DEF ListedModules
    <3>3. ~ Opening'
      BY <2>1, <2>3 DEF ListedModules, Opening, Complete
    <3>4. QED
      BY <2>1, <2>3, <3>1, <3>2, <3>3 DEF ListedModules
  <2>4. QED
    BY <2>1, <2>2, <2>3
<1>12. ASSUME UNCHANGED <<made, registered, blocks, clearing, step>>,
              Calm \/ loading' = loading,
              loading' \in {loading, None} \/ (loading' \in ToSet(modules') /\ stage' = "running"),
              ToSet(modules) \subseteq ToSet(modules'),
              stage' = stage \/ (stage' \in {"closing", "down"} /\ ~ Opening /\ loading' = None)
       PROVE  ListedModules'
  BY <1>12 DEF ListedModules, Opening, Complete, Calm, Between
<1>13. ASSUME NEW mod \in Modules, Load(mod)
       PROVE  ListedModules'
  BY <1>12, <1>13 DEF Load, Idle, vars, modVars
<1>14. ASSUME NEW mod \in Modules, RegisterModule(mod)
       PROVE  ListedModules'
  <2>1. /\ UNCHANGED <<made, registered, blocks, clearing, step, loading, stage>>
        /\ modules' = Append(modules, mod)
    BY <1>14 DEF RegisterModule, Lists, vars, modVars
  <2>2. ToSet(modules) \subseteq ToSet(modules')
    BY <1>1, <2>1, AppendOnce
  <2>3. QED
    BY <1>12, <2>1, <2>2
<1>15. CASE Loaded \/ Close
  BY <1>12, <1>15 DEF Loaded, Close, Idle, vars, modVars
<1>16. CASE DestroyLibrary
  <2>1. /\ UNCHANGED <<made, registered, blocks, clearing, step, loading, modules>>
        /\ stage = "closing" /\ stage' \in {"closing", "down"}
    BY <1>16 DEF DestroyLibrary, Closes, vars, modVars
  <2>2. loading = None /\ ~ Opening
    BY <2>1 DEF ListedModules
  <2>3. QED
    BY <1>12, <2>1, <2>2
<1>17. ASSUME UNCHANGED <<vars, made, modules, loading, stage>>
       PROVE  ListedModules'
  BY <1>12, <1>17 DEF vars, modVars
<1>18. CASE KoreNext
  BY <1>4, <1>5, <1>6, <1>7, <1>10, <1>11, <1>15, <1>16, <1>17, <1>18
     DEF KoreNext, DestroyLastBlock, Destroyed, DestroyInternal
<1>19. CASE HostNext
  BY <1>8, <1>9, <1>13, <1>14, <1>15, <1>17, <1>19
     DEF HostNext, CreateBlock, AddToData, DestroyBlock, Destroyed, SuperMetaBlock
<1>20. CASE UNCHANGED <<vars, appVars>>
  BY <1>17, <1>20 DEF appVars
<1>21. QED
  BY <1>3, <1>18, <1>19, <1>20 DEF AppNext, Ended

-----------------------------------------------------------------------------
(* Histories: what comes before stays before, and all before what comes.   *)
LEMMA BeforeAppended ==
    ASSUME NEW S, NEW s \in Seq(S), NEW x \in S
    PROVE  /\ \A y, z : Before(s, y, z) => Before(Append(s, x), y, z)
           /\ \A y \in ToSet(s) : Before(Append(s, x), y, x)
<1> DEFINE a == Append(s, x)
<1>1. /\ DOMAIN s = 1 .. Len(s) /\ DOMAIN a = 1 .. Len(s) + 1 /\ Len(s) \in Nat
      /\ a[Len(s) + 1] = x /\ \A i \in DOMAIN s : a[i] = s[i]
  OBVIOUS
<1> HIDE DEF a
<1>2. ASSUME NEW y, NEW z, Before(s, y, z)
      PROVE  Before(a, y, z)
  BY <1>1, <1>2 DEF Before
<1>3. ASSUME NEW y \in ToSet(s)
      PROVE  Before(a, y, x)
  <2>1. PICK i \in DOMAIN s : s[i] = y
    BY DEF ToSet
  <2>2. i \in DOMAIN a /\ Len(s) + 1 \in DOMAIN a /\ i < Len(s) + 1 /\ a[i] = y
    BY <1>1, <2>1
  <2>3. QED
    BY <1>1, <2>2 DEF Before
<1>4. QED
  BY <1>2, <1>3 DEF a

(* A sorted list stays sorted when one that came after all is appended.    *)
LEMMA SortedAppended ==
    ASSUME NEW S, NEW s \in Seq(S), NEW x \in S, NEW history, Sorted(s, history),
           \A y \in ToSet(s) : Before(history, y, x)
    PROVE  Sorted(Append(s, x), history)
<1> DEFINE a == Append(s, x)
<1>1. /\ DOMAIN s = 1 .. Len(s) /\ DOMAIN a = 1 .. Len(s) + 1 /\ Len(s) \in Nat
      /\ a[Len(s) + 1] = x /\ \A i \in DOMAIN s : a[i] = s[i]
  OBVIOUS
<1> HIDE DEF a
<1>2. SUFFICES ASSUME NEW i \in DOMAIN a, NEW j \in DOMAIN a, i < j
               PROVE  Before(history, a[i], a[j])
  BY DEF Sorted, a
<1>3. i \in DOMAIN s
  BY <1>1, <1>2
<1>4. CASE j \in DOMAIN s
  BY <1>1, <1>2, <1>3, <1>4 DEF Sorted
<1>5. CASE j = Len(s) + 1
  <2>1. s[i] \in ToSet(s)
    BY <1>3 DEF ToSet
  <2>2. QED
    BY <1>1, <1>3, <1>5, <2>1
<1>6. QED
  BY <1>1, <1>4, <1>5

(* The first came before the others.                                       *)
LEMMA SortedTail ==
    ASSUME NEW S, NEW s \in Seq(S), s # <<>>, NEW history, Sorted(s, history)
    PROVE  /\ Sorted(Tail(s), history)
           /\ \A y \in ToSet(Tail(s)) : Before(history, Head(s), y)
<1> DEFINE t == Tail(s)
<1>1. /\ Len(s) \in Nat /\ Len(s) >= 1 /\ Head(s) = s[1] /\ DOMAIN s = 1 .. Len(s)
      /\ DOMAIN t = 1 .. Len(s) - 1 /\ \A i \in DOMAIN t : t[i] = s[i + 1]
  OBVIOUS
<1> HIDE DEF t
<1>2. \A i \in DOMAIN t : i \in Int /\ i + 1 \in DOMAIN s /\ 1 < i + 1 /\ 1 \in DOMAIN s
  BY <1>1
<1>3. \A i, j \in DOMAIN t : i < j => i + 1 < j + 1
  BY <1>2
<1>4. Sorted(t, history)
  BY <1>1, <1>2, <1>3 DEF Sorted
<1>5. \A i \in DOMAIN t : Before(history, Head(s), t[i])
  BY <1>1, <1>2 DEF Sorted
<1>6. QED
  BY <1>4, <1>5 DEF t, ToSet

(* The others came before the last.                                        *)
LEMMA SortedFront ==
    ASSUME NEW S, NEW s \in Seq(S), s # <<>>, NEW history, Sorted(s, history)
    PROVE  /\ Sorted(Front(s), history)
           /\ \A y \in ToSet(Front(s)) : Before(history, y, Last(s))
<1> DEFINE f == Front(s)
<1>1. /\ DOMAIN f = 1 .. Len(s) - 1
      /\ \A i \in DOMAIN f : i \in DOMAIN s /\ f[i] = s[i]
  BY LastAndFront
<1>2. /\ Len(s) \in DOMAIN s /\ Len(s) \in Nat /\ Last(s) = s[Len(s)]
  BY DEF Last
<1> HIDE DEF f
<1>3. \A i \in DOMAIN f : i < Len(s)
  BY <1>1, <1>2
<1>4. Sorted(f, history)
  BY <1>1 DEF Sorted
<1>5. \A i \in DOMAIN f : Before(history, f[i], Last(s))
  BY <1>1, <1>2, <1>3 DEF Sorted
<1>6. QED
  BY <1>4, <1>5 DEF f, ToSet

(* Without the last the list is the front of the list.                     *)
LEMMA RemoveLast ==
    ASSUME NEW S, NEW s \in Seq(S), s # <<>>, IsInjective(s)
    PROVE  RemoveOne(s, Last(s)) = Front(s)
<1> DEFINE r == RemoveOne(s, Last(s))
<1>1. Len(s) \in DOMAIN s /\ Len(s) \in Nat /\ Len(s) - 1 \in Nat /\ Last(s) = s[Len(s)]
  BY DEF Last
<1>2. r \in Seq(S)
  BY <1>1, RemoveOneProperties
<1>3. PICK i \in DOMAIN s :
          /\ s[i] = Last(s) /\ Len(r) = Len(s) - 1
          /\ \A j \in DOMAIN r : r[j] = IF j < i THEN s[j] ELSE s[j + 1]
  BY <1>1, RemoveOneProperties
<1> HIDE DEF r
<1>4. i = Len(s)
  BY <1>1, <1>3 DEF IsInjective
<1>5. DOMAIN r = 1 .. Len(s) - 1 /\ \A j \in DOMAIN r : r[j] = s[j]
  <2>1. DOMAIN r = 1 .. Len(s) - 1
    BY <1>2, <1>3
  <2>2. \A j \in DOMAIN r : j < i
    BY <1>1, <1>4, <2>1
  <2>3. QED
    BY <1>3, <2>1, <2>2
<1>6. /\ Front(s) \in Seq(S) /\ DOMAIN Front(s) = 1 .. Len(s) - 1
      /\ \A j \in DOMAIN Front(s) : Front(s)[j] = s[j]
  BY LastAndFront
<1>7. Len(r) = Len(Front(s))
  <2>1. Len(Front(s)) \in Nat /\ DOMAIN Front(s) = 1 .. Len(Front(s))
    BY <1>6
  <2>2. \A k, n \in Nat : 1 .. k = 1 .. n => k = n
    OBVIOUS
  <2>3. QED
    BY <1>1, <1>3, <1>6, <2>1, <2>2
<1>8. r = Front(s)
  BY <1>2, <1>5, <1>6, <1>7
<1>9. QED
  BY <1>8 DEF r

-----------------------------------------------------------------------------
\* A step that moves no meta block and loads none.
Quiet ==
    /\ UNCHANGED <<waiting, blocks, registered, came>>
    /\ \A m \in MetaBlocks : step'[m] = step[m] \/ (step[m] \in New /\ step'[m] \in New)
    /\ clearing' = clearing \/ Calm

LEMMA ClientIsQuiet == ASSUME TypeOK, Client PROVE Quiet
<1>1. UNCHANGED <<waiting, blocks, registered, clearing, came>>
  BY DEF Client, ClientNext, RegisterExtension, UnregisterExtension, DeleteExtension,
     RegisterTaskletRunner, UnregisterTaskletRunner, modVars, appVars, histVars
<1>2. \A m \in MetaBlocks : step'[m] = step[m] \/ (step[m] = "absent" /\ step'[m] = "made")
  BY DEF TypeOK, Client, ClientNext, RegisterExtension, UnregisterExtension, DeleteExtension,
     RegisterTaskletRunner, UnregisterTaskletRunner, StaticMetaBlock
<1>3. QED
  BY <1>1, <1>2 DEF Quiet, New

LEMMA OtherSteps ==
    ASSUME TypeOK, AppNext
    PROVE  StaticNext \/ LoadNext \/ Continue \/ Quiet
<1>1. ASSUME UNCHANGED <<vars, histVars>>
      PROVE  Quiet
  BY <1>1 DEF Quiet, vars, modVars, histVars
<1>2. ASSUME UNCHANGED <<vars, came>>
      PROVE  Quiet
  BY <1>2 DEF Quiet, vars, modVars
<1>3. ASSUME UNCHANGED <<waiting, blocks, registered, step, came>>, Calm
      PROVE  Quiet
  BY <1>3 DEF Quiet
<1>4. CASE KoreNext
  <2>1. CASE DestroyModule \/ ModuleCleared
    BY <1>3, <2>1 DEF DestroyModule, ModuleCleared, Clear, Cleared, appVars, histVars
  <2>2. CASE Construct \/ Constructed \/ Loaded \/ DestroyLastBlock \/ DestroyInternal
             \/ DestroyLibrary
    BY <1>1, <2>2 DEF Construct, Constructed, Loaded, DestroyLastBlock, Destroyed, DestroyInternal,
       DestroyLibrary
  <2>3. QED
    BY <1>4, <2>1, <2>2 DEF KoreNext
<1>5. CASE HostNext
  <2>1. ASSUME NEW mod \in Modules, Unload(mod)
        PROVE  Quiet
    BY <1>3, <2>1 DEF Unload, Clear
  <2>2. ASSUME NEW mod \in Modules, Load(mod) \/ RegisterModule(mod)
        PROVE  Quiet
    BY <1>1, <1>2, <2>2 DEF Load, RegisterModule
  <2>3. ASSUME NEW b \in Blocks,
               (\E name \in Names : CreateBlock(b, name)) \/ AddToData(b) \/ DestroyBlock(b)
        PROVE  Quiet
    BY <1>1, <2>3 DEF CreateBlock, AddToData, DestroyBlock, Destroyed
  <2>4. CASE Close \/ \E m \in MetaBlocks : SuperMetaBlock(m)
    BY <1>1, <2>4 DEF Close, SuperMetaBlock
  <2>5. QED
    BY <1>5, <2>1, <2>2, <2>3, <2>4, ClientIsQuiet DEF HostNext
<1>6. CASE Ended
  BY <1>1, <1>6 DEF Ended, appVars
<1>7. QED
  BY <1>4, <1>5, <1>6 DEF AppNext

\* A call in progress takes one meta block a step further.
Advances(x) ==
    \/ /\ UNCHANGED blocks
       /\ \/ step[x] = "entering" /\ step'[x] = "loaded"
          \/ step[x] = "removed" /\ step'[x] = "unregistered"
          \/ step[x] = "unregistered" /\ step'[x] = "deleted"
    \/ /\ UNCHANGED blocks
       /\ clearing \in Modules /\ blocks[clearing] # <<>> /\ x = Last(blocks[clearing])
       /\ ModuleOf(x) = clearing
       /\ step[x] \in Listed /\ step'[x] = "leaving"
    \/ /\ step[x] = "leaving" /\ step'[x] = "removed"
       /\ clearing \in Modules /\ x \in ToSet(blocks[clearing])
       /\ ModuleOf(x) = clearing
       /\ blocks' = [blocks EXCEPT ![clearing] = RemoveOne(@, x)]

LEMMA ContinueEffect ==
    ASSUME Whole, Continue
    PROVE  /\ UNCHANGED <<registered, waiting, clearing, appVars>>
           /\ \E x \in MetaBlocks :
                /\ Advances(x)
                /\ \A m \in MetaBlocks \ {x} : step'[m] = step[m]
<1>1. /\ step \in [MetaBlocks -> Steps] /\ clearing \in Modules \cup {None}
      /\ \A mod \in Modules : blocks[mod] \in Seq(MetaBlocks)
  BY WholeTypes
<1>2. UNCHANGED <<registered, waiting, clearing, appVars>>
  BY DEF Continue, Destroy, Enter, RemoveBlock, Leave, Delete, modVars
<1>3. CASE Destroy
  <2> DEFINE x == Last(blocks[clearing])
  <2>1. /\ clearing \in Modules /\ blocks[clearing] # <<>> /\ UNCHANGED blocks
        /\ step' = [step EXCEPT ![x] = "leaving"]
    BY <1>1, <1>3 DEF Destroy, modVars
  <2>2. x \in MetaBlocks /\ x \in ToSet(blocks[clearing])
    BY <1>1, <2>1, LastAndFront
  <2>3. step[x] \in Listed /\ ModuleOf(x) = clearing
    BY <2>1, <2>2 DEF Whole, Known, Home, ListsAreApart, ListedIsIn, ToSet
  <2>4. step'[x] = "leaving" /\ \A m \in MetaBlocks \ {x} : step'[m] = step[m]
    BY <1>1, <2>1, <2>2
  <2> HIDE DEF x
  <2>5. x = Last(blocks[clearing])
    BY DEF x
  <2>6. QED
    BY <1>2, <2>1, <2>2, <2>3, <2>4, <2>5 DEF Advances
<1>4. ASSUME NEW x \in MetaBlocks, RemoveBlock(x)
      PROVE  /\ \A m \in MetaBlocks \ {x} : step'[m] = step[m]
             /\ step[x] = "leaving" /\ step'[x] = "removed"
             /\ clearing \in Modules /\ x \in ToSet(blocks[clearing])
             /\ ModuleOf(x) = clearing
             /\ blocks' = [blocks EXCEPT ![clearing] = RemoveOne(@, x)]
  <2>1. step[x] = "leaving" /\ clearing \in Modules /\ x \in ToSet(blocks[clearing])
    BY <1>1, <1>4 DEF RemoveBlock, Whole, Known, Typed, OnItsWay, ToSet
  <2>2. ModuleOf(x) = clearing
    BY <2>1 DEF Whole, Home
  <2>3. QED
    BY <1>1, <1>4, <2>1, <2>2 DEF RemoveBlock
<1>5. ASSUME NEW x \in MetaBlocks, Enter(x) \/ Leave(x) \/ Delete(x)
      PROVE  /\ UNCHANGED blocks
             /\ \A m \in MetaBlocks \ {x} : step'[m] = step[m]
             /\ \/ step[x] = "entering" /\ step'[x] = "loaded"
                \/ step[x] = "removed" /\ step'[x] = "unregistered"
                \/ step[x] = "unregistered" /\ step'[x] = "deleted"
  BY <1>1, <1>5 DEF Enter, Leave, Delete, modVars
<1>6. QED
  BY <1>2, <1>3, <1>4, <1>5 DEF Continue, Advances

(* A module goes on with its first class.                                  *)
LEMMA LoadEffect ==
    ASSUME Whole, LoadNext
    PROVE  /\ UNCHANGED <<registered, clearing, appVars>> /\ clearing = None
           /\ loading \in Modules /\ waiting[loading] # <<>>
           /\ \E h \in MetaBlocks :
                /\ h = Head(waiting[loading]) /\ h \in ToSet(waiting[loading])
                /\ ModuleOf(h) = loading /\ step[h] \in New
                /\ step'[h] = "entering" /\ \A m \in MetaBlocks \ {h} : step'[m] = step[m]
                /\ waiting' = [waiting EXCEPT ![loading] = Tail(@)]
                /\ blocks' = [blocks EXCEPT ![loading] = Append(@, h)]
<1>1. /\ step \in [MetaBlocks -> Steps] /\ loading \in Modules \cup {None}
      /\ \A mod \in Modules : waiting[mod] \in Seq(MetaBlocks)
  BY WholeTypes
<1> DEFINE h == Head(waiting[loading])
<1>2. /\ UNCHANGED <<registered, clearing, appVars>> /\ clearing = None
      /\ loading \in Modules /\ waiting[loading] # <<>>
      /\ waiting' = [waiting EXCEPT ![loading] = Tail(@)]
      /\ blocks' = [blocks EXCEPT ![loading] = Append(@, h)]
      /\ step' = [step EXCEPT ![h] = "entering"]
  BY <1>1 DEF LoadNext, AddBlock
<1>3. h \in ToSet(waiting[loading])
  BY <1>1, <1>2, HeadAndTail
<1>4. PICK i \in DOMAIN waiting[loading] : waiting[loading][i] = h
  BY <1>3 DEF ToSet
<1>5. h \in MetaBlocks /\ step[h] \in New /\ ModuleOf(h) = loading
  <2>1. h \in MetaBlocks
    <3> DEFINE w == waiting[loading]
    <3>1. w \in Seq(MetaBlocks) /\ i \in DOMAIN w /\ w[i] = h
      BY <1>1, <1>2, <1>4
    <3> HIDE DEF w, h
    <3>2. QED
      BY ONLY <3>1
  <2>2. step[h] \in New
    BY <1>2, <1>4 DEF Whole, Known, ListsAreApart, WaitingIsNew
  <2>3. ModuleOf(h) = loading
    BY <1>2, <1>3 DEF Whole, Home
  <2>4. QED
    BY <2>1, <2>2, <2>3
<1>6. step'[h] = "entering" /\ \A m \in MetaBlocks \ {h} : step'[m] = step[m]
  BY <1>1, <1>2, <1>5
<1>7. h = Head(waiting[loading])
  OBVIOUS
<1> HIDE DEF h
<1>8. QED
  BY <1>2, <1>3, <1>5, <1>6, <1>7

\* What a quiet step may do to the program's own state: it leaves no load half done.
Control ==
    /\ made' = made
    /\ stage' = stage \/ stage # "static" \/ \A mod \in BuiltIn : Complete(mod)
    /\ stage' = "starting" => loading' = Core
    /\ loading' # None => Complete(loading')
    /\ loading' = loading \/ loading = None \/ waiting[loading] = <<>>

LEMMA OtherControl ==
    ASSUME Whole, ListedModules, ModulesAreWhole, AppNext
    PROVE  StaticNext \/ LoadNext \/ Continue \/ (Quiet /\ Control)
<1>1. Core \in BuiltIn /\ Core \in Modules /\ None \notin Modules /\ TypeOK
  BY WholeTypes DEF Whole, Known, Typed
<1>2. ASSUME UNCHANGED <<made, stage, loading>>
      PROVE  Control
  BY <1>2 DEF Control, ModulesAreWhole
<1>3. CASE KoreNext
  <2>1. ASSUME Construct
        PROVE  Control
    <3>1. /\ made' = made /\ stage' = "starting" /\ loading' = Core /\ Complete(Core)
          /\ loading = None /\ \A mod \in BuiltIn : Complete(mod)
      BY <1>1, <2>1 DEF Construct, ListedModules
    <3>2. QED
      BY <3>1 DEF Control, Complete
  <2>2. ASSUME Constructed
        PROVE  Control
    <3>1. made' = made /\ stage = "starting" /\ stage' = "running" /\ loading' = None
      BY <2>2 DEF Constructed
    <3>2. waiting[loading] = <<>>
      BY <2>2 DEF Constructed, ModulesAreWhole
    <3>3. QED
      BY <3>1, <3>2 DEF Control
  <2>3. ASSUME Loaded
        PROVE  Control
    BY <2>3 DEF Loaded, Control
  <2>4. ASSUME DestroyLibrary
        PROVE  Control
    <3>1. made' = made /\ stage = "closing" /\ stage' \in {"closing", "down"} /\ loading' = loading
      BY <2>4 DEF DestroyLibrary, Closes
    <3>2. QED
      BY <3>1 DEF Control, ModulesAreWhole
  <2>5. ASSUME DestroyModule \/ ModuleCleared \/ DestroyLastBlock \/ DestroyInternal
        PROVE  Control
    BY <1>2, <2>5 DEF DestroyModule, ModuleCleared, DestroyLastBlock, Destroyed, DestroyInternal,
          appVars
  <2>6. QED
    BY <1>1, <1>3, <2>1, <2>2, <2>3, <2>4, <2>5, OtherSteps DEF KoreNext
<1>4. CASE HostNext
  <2>1. ASSUME NEW mod \in Modules, Load(mod)
        PROVE  Control
    <3>1. /\ made' = made /\ stage = "running" /\ stage' = stage /\ loading = None
          /\ loading' = mod /\ ~ Opening /\ mod \in ToSet(modules)
      BY <2>1 DEF Load, Idle
    <3>2. mod \in made
      BY <3>1 DEF Whole, Once
    <3>3. Complete(mod)
      BY <3>1, <3>2 DEF Opening, BuiltIn, ModulesAreWhole
    <3>4. QED
      BY <3>1, <3>3 DEF Control
  <2>2. ASSUME Close
        PROVE  Control
    BY <2>2 DEF Close, Control, ModulesAreWhole
  <2>3. ASSUME NEW mod \in Modules, RegisterModule(mod) \/ Unload(mod)
        PROVE  Control
    BY <1>2, <2>3 DEF RegisterModule, Unload
  <2>4. ASSUME NEW b \in Blocks,
               (\E name \in Names : CreateBlock(b, name)) \/ AddToData(b) \/ DestroyBlock(b)
        PROVE  Control
    BY <1>2, <2>4 DEF CreateBlock, AddToData, DestroyBlock, Destroyed
  <2>5. ASSUME Client \/ \E m \in MetaBlocks : SuperMetaBlock(m)
        PROVE  Control
    BY <1>2, <2>5 DEF Client, SuperMetaBlock, appVars
  <2>6. Control
    BY <1>4, <2>1, <2>2, <2>3, <2>4, <2>5 DEF HostNext
  <2>7. QED
    BY <1>1, <2>6, OtherSteps
<1>5. CASE Ended
  BY <1>1, <1>2, <1>5, OtherSteps DEF Ended, appVars
<1>6. QED
  BY <1>3, <1>4, <1>5 DEF AppNext

(* A quiet step.                                                           *)
LEMMA QuietIsWhole ==
    ASSUME Whole, ModulesAreWhole, Quiet, Control
    PROVE  ModulesAreWhole'
<1>1. /\ made' = made
      /\ stage' = stage \/ stage # "static" \/ \A mod \in BuiltIn : Complete(mod)
      /\ stage' = "starting" => loading' = Core
      /\ loading' # None => Complete(loading')
      /\ loading' = loading \/ loading = None \/ waiting[loading] = <<>>
  BY DEF Control
<1>2. \A mod : Complete(mod)' <=> Complete(mod)
  BY <1>1 DEF Quiet, Complete
<1>3. \A m \in MetaBlocks : /\ step'[m] \notin New => step[m] \notin New
                            /\ step[m] \in Staying => step'[m] \in Staying
  BY DEF Quiet, Staying
<1>4. \A mod \in BuiltIn : stage' # "static" => Complete(mod)'
  BY <1>1, <1>2 DEF ModulesAreWhole
<1>5. loading' # None => Complete(loading)'
  BY <1>1 DEF Quiet, Complete
<1>6. \A m \in MetaBlocks : step'[m] \notin New => Complete(ModuleOf(m))'
  BY <1>2, <1>3 DEF ModulesAreWhole
<1>7. ASSUME NEW mod \in Modules, waiting'[mod] # <<>>
      PROVE  /\ \A m \in MetaBlocks : ModuleOf(m) = mod => step'[m] \in Staying
             /\ loading' # mod => blocks'[mod] = <<>>
  <2>1. waiting[mod] # <<>> /\ blocks'[mod] = blocks[mod] /\ mod # None
    BY <1>7, WholeTypes DEF Quiet
  <2>2. \A m \in MetaBlocks : ModuleOf(m) = mod => step[m] \in Staying
    BY <2>1 DEF ModulesAreWhole
  <2>3. loading' # mod => loading # mod
    BY <1>1, <2>1
  <2>4. QED
    BY <1>3, <2>1, <2>2, <2>3 DEF ModulesAreWhole
<1>8. QED
  BY <1>1, <1>4, <1>5, <1>6, <1>7 DEF ModulesAreWhole

(* Modules stay whole.                                                     *)
LEMMA ModulesAreWholeStep ==
    ASSUME Whole, ListedModules, ClearedLast, ModulesAreWhole, [AppNext]_<<vars, appVars>>
    PROVE  ModulesAreWhole'
<1>1. /\ step \in [MetaBlocks -> Steps] /\ loading \in Modules \cup {None}
      /\ waiting \in [Modules -> Seq(MetaBlocks)] /\ blocks \in [Modules -> Seq(MetaBlocks)]
      /\ \A mod \in Modules : blocks[mod] \in Seq(MetaBlocks)
      /\ clearing \in Modules \cup {None} /\ None \notin Modules
      /\ \A m \in MetaBlocks : ModuleOf(m) \in Modules
      /\ Core \in Modules /\ Core \in BuiltIn /\ TypeOK
  BY WholeTypes DEF Whole, Known, Typed
<1>2. CASE StaticNext
  <2>1. PICK mod \in Modules :
            /\ PrivateInstance(mod)
            /\ \/ UNCHANGED <<waiting, registered, came>>
               \/ \E m \in MetaBlocks : ModuleOf(m) = mod /\ RegisterLoadable(m)
    BY <1>2, StaticStep DEF StaticEffect
  <2>2. UNCHANGED <<stage, loading, blocks, step>>
    BY <1>2, StaticStep DEF StaticEffect
  <2>3. made \subseteq made' /\ registered \subseteq registered'
    BY <2>1 DEF PrivateInstance, RegisterLoadable
  <2>4. \A other : Complete(other) => Complete(other)'
    BY <2>3 DEF Complete
  <2>5. /\ stage' # "static" => \A other \in BuiltIn : Complete(other)'
        /\ \A m \in MetaBlocks : step'[m] \notin New => Complete(ModuleOf(m))'
    BY <2>2, <2>4 DEF ModulesAreWhole
  <2>6. loading' # None => Complete(loading)'
    <3>1. SUFFICES ASSUME loading # None
                   PROVE  loading \in made' /\ \A m \in MetaBlocks :
                             ModuleOf(m) = loading => m \in registered'
      BY <2>2 DEF Complete
    <3>2. QED
      BY <2>3, <3>1 DEF ModulesAreWhole, Complete
  <2>7. CASE UNCHANGED <<waiting, registered, came>>
    BY <2>2, <2>5, <2>6, <2>7 DEF ModulesAreWhole
  <2>8. ASSUME NEW n \in MetaBlocks, RegisterLoadable(n)
        PROVE  ModulesAreWhole'
    <3>1. ~ Complete(ModuleOf(n))
      BY <2>8 DEF RegisterLoadable, Complete
    <3>2. \A m \in MetaBlocks : ModuleOf(m) = ModuleOf(n) => step[m] \in New
      BY <3>1 DEF ModulesAreWhole
    <3>3. blocks[ModuleOf(n)] = <<>>
      <4>1. SUFFICES ASSUME blocks[ModuleOf(n)] # <<>>
                     PROVE  FALSE
        OBVIOUS
      <4> DEFINE b == blocks[ModuleOf(n)]
      <4>2. b \in Seq(MetaBlocks) /\ b # <<>>
        BY <1>1, <4>1
      <4>3. 1 \in DOMAIN b /\ b[1] \in MetaBlocks /\ b[1] \in ToSet(b)
        <5> HIDE DEF b
        <5>1. QED
          BY ONLY <4>2 DEF ToSet
      <4>4. step[b[1]] \in Listed
        BY <1>1, <4>3 DEF Whole, Known, ListsAreApart, ListedIsIn
      <4>5. ModuleOf(b[1]) = ModuleOf(n)
        BY <1>1, <4>3 DEF Whole, Home
      <4>6. QED
        BY <3>2, <4>3, <4>4, <4>5 DEF Listed, New
    <3>4. \A mod2 \in Modules \ {ModuleOf(n)} : waiting'[mod2] = waiting[mod2]
      BY <1>1, <2>8 DEF RegisterLoadable
    <3>5. \A mod2 \in Modules : waiting'[mod2] # <<>> =>
              /\ \A m \in MetaBlocks : ModuleOf(m) = mod2 => step[m] \in Staying
              /\ loading # mod2 => blocks[mod2] = <<>>
      BY <3>2, <3>3, <3>4 DEF ModulesAreWhole, Staying
    <3>6. QED
      BY <2>2, <2>5, <2>6, <3>5 DEF ModulesAreWhole
  <2>9. QED
    BY <2>1, <2>7, <2>8
<1>3. CASE LoadNext
  <2>1. /\ UNCHANGED <<registered, made, stage, loading>> /\ loading \in Modules /\ waiting[loading] # <<>>
    BY <1>3, LoadEffect DEF appVars
  <2>2. PICK h \in MetaBlocks :
            /\ ModuleOf(h) = loading /\ step'[h] = "entering"
            /\ \A m \in MetaBlocks \ {h} : step'[m] = step[m]
            /\ waiting' = [waiting EXCEPT ![loading] = Tail(@)]
            /\ \A mod \in Modules \ {loading} : blocks'[mod] = blocks[mod]
    <3>1. PICK h \in MetaBlocks :
              /\ ModuleOf(h) = loading /\ step'[h] = "entering"
              /\ \A m \in MetaBlocks \ {h} : step'[m] = step[m]
              /\ waiting' = [waiting EXCEPT ![loading] = Tail(@)]
              /\ blocks' = [blocks EXCEPT ![loading] = Append(@, h)]
      BY <1>3, LoadEffect
    <3>2. QED
      BY <1>1, <2>1, <3>1
  <2>3. \A mod : Complete(mod)' <=> Complete(mod)
    BY <2>1 DEF Complete
  <2>4. loading' # None => Complete(loading)'
    BY <2>1 DEF ModulesAreWhole, Complete
  <2>5. Complete(loading)
    BY <1>1, <2>1 DEF ModulesAreWhole
  <2>6. \A m \in MetaBlocks : step'[m] \notin New => Complete(ModuleOf(m))'
    BY <2>2, <2>3, <2>5 DEF ModulesAreWhole
  <2>7. \A mod \in Modules : waiting'[mod] # <<>> => waiting[mod] # <<>>
    BY <1>1, <2>1, <2>2
  <2>8. \A m \in MetaBlocks : step[m] \in Staying => step'[m] \in Staying
    BY <2>2 DEF Staying
  <2>9. \A mod \in Modules : waiting'[mod] # <<>> =>
            /\ \A m \in MetaBlocks : ModuleOf(m) = mod => step'[m] \in Staying
            /\ loading # mod => blocks'[mod] = <<>>
    BY <2>2, <2>7, <2>8 DEF ModulesAreWhole
  <2>10. QED
    BY <2>1, <2>3, <2>4, <2>6, <2>9 DEF ModulesAreWhole
<1>4. CASE Continue
  <2>1. UNCHANGED <<registered, made, stage, loading, waiting, clearing>>
    BY <1>4, ContinueEffect DEF appVars
  <2>2. \A mod : Complete(mod)' <=> Complete(mod)
    BY <2>1 DEF Complete
  <2>3. loading' # None => Complete(loading)'
    BY <2>1 DEF ModulesAreWhole, Complete
  <2>4. PICK x \in MetaBlocks :
            /\ \A m \in MetaBlocks \ {x} : step'[m] = step[m]
            /\ \/ step[x] = "entering" /\ step'[x] = "loaded"
               \/ step[x] \notin Staying
               \/ /\ clearing \in Modules /\ blocks[clearing] # <<>>
                  /\ ModuleOf(x) = clearing /\ step[x] \in Listed
            /\ \/ UNCHANGED blocks
               \/ clearing \in Modules /\ blocks[clearing] # <<>>
                    /\ \A mod \in Modules \ {clearing} : blocks'[mod] = blocks[mod]
    <3>1. PICK x \in MetaBlocks : Advances(x) /\ \A m \in MetaBlocks \ {x} : step'[m] = step[m]
      BY <1>4, ContinueEffect
    <3>2. x \in ToSet(blocks[clearing]) => blocks[clearing] # <<>>
      BY DEF ToSet
    <3>3. QED
      BY <1>1, <3>1, <3>2 DEF Advances, Staying, New
  <2>5. clearing # None => loading # clearing
    BY <1>1 DEF ClearedLast
  <2>6. \A mod \in Modules : waiting[mod] # <<>> /\ loading # mod => blocks'[mod] = <<>>
    BY <1>1, <2>4, <2>5 DEF ModulesAreWhole
  <2>7. ASSUME NEW mod \in Modules, waiting[mod] # <<>>, NEW m \in MetaBlocks, ModuleOf(m) = mod
        PROVE  step'[m] \in Staying
    <3>1. step[m] \in Staying
      BY <2>7 DEF ModulesAreWhole
    <3>2. clearing \in Modules /\ blocks[clearing] # <<>> => mod # clearing
      BY <1>1, <2>5, <2>7 DEF ModulesAreWhole
    <3>3. QED
      BY <2>4, <2>7, <3>1, <3>2 DEF Staying
  <2>8. \A m \in MetaBlocks : step'[m] \notin New => Complete(ModuleOf(m))'
    <3>1. step[x] \notin New
      BY <2>4 DEF Staying, New, Listed
    <3>2. QED
      BY <2>2, <2>4, <3>1 DEF ModulesAreWhole
  <2>9. QED
    BY <2>1, <2>2, <2>3, <2>6, <2>7, <2>8 DEF ModulesAreWhole
<1>5. CASE Quiet /\ Control
  BY <1>5, QuietIsWhole
<1>6. CASE UNCHANGED <<vars, appVars>>
  <2>1. Quiet /\ Control
    BY <1>6 DEF Quiet, Control, ModulesAreWhole, vars, modVars, appVars, histVars
  <2>2. QED
    BY <2>1, QuietIsWhole
<1>7. QED
  BY <1>2, <1>3, <1>4, <1>5, <1>6, OtherControl

-----------------------------------------------------------------------------
(* The lists of a module keep the order of the coming.                     *)
LEMMA ListsInOrderStep ==
    ASSUME Whole, ListedModules, ListsInOrder, LastGoesFirst, [AppNext]_<<vars, appVars>>
    PROVE  ListsInOrder'
<1>1. /\ TypeOK /\ came \in Seq(MetaBlocks)
      /\ waiting \in [Modules -> Seq(MetaBlocks)] /\ blocks \in [Modules -> Seq(MetaBlocks)]
      /\ \A mod \in Modules : waiting[mod] \in Seq(MetaBlocks) /\ blocks[mod] \in Seq(MetaBlocks)
      /\ \A m \in MetaBlocks : ModuleOf(m) \in Modules
  BY WholeTypes DEF Whole, Known, Typed, AppTyped, AppTypeOK
<1>2. CASE UNCHANGED <<waiting, blocks, registered, came>>
  BY <1>2 DEF ListsInOrder
<1>3. CASE StaticNext
  <2>1. SUFFICES ASSUME NEW n \in MetaBlocks, RegisterLoadable(n), came' = Append(came, n),
                        UNCHANGED blocks
                 PROVE  ListsInOrder'
    BY <1>2, <1>3, StaticStep DEF StaticEffect
  <2>2. /\ registered' = registered \cup {n}
        /\ waiting' = [waiting EXCEPT ![ModuleOf(n)] = Append(@, n)]
    BY <2>1 DEF RegisterLoadable
  <2>3. /\ \A y, z : Before(came, y, z) => Before(came', y, z)
        /\ \A y \in ToSet(came) : Before(came', y, n)
        /\ ToSet(came') = ToSet(came) \cup {n}
    BY <1>1, <2>1, BeforeAppended, AppendOnce
  <2>4. registered' \subseteq ToSet(came')
    BY <2>2, <2>3 DEF ListsInOrder
  <2>5. ASSUME NEW mod \in Modules
        PROVE  /\ Sorted(waiting[mod], came') /\ Sorted(blocks[mod], came')
               /\ \A y \in ToSet(blocks[mod]), z \in ToSet(waiting[mod]) : Before(came', y, z)
    BY <2>3, <2>5 DEF ListsInOrder, Sorted
  <2>6. ASSUME NEW mod \in Modules
        PROVE  \A y \in ToSet(waiting[mod]) \cup ToSet(blocks[mod]) : y \in ToSet(came)
    <3>1. \A y \in ToSet(waiting[mod]) : y \in registered
      BY <2>6 DEF Whole, Known, ListsAreApart, RegisteredFirst, ToSet
    <3>2. \A y \in ToSet(blocks[mod]) : y \in MetaBlocks /\ step[y] \in Listed
      <4>1. blocks[mod] \in Seq(MetaBlocks)
        BY <1>1, <2>6
      <4>2. ToSet(blocks[mod]) \subseteq MetaBlocks
        BY ONLY <4>1 DEF ToSet
      <4>3. QED
        BY <2>6, <4>2 DEF Whole, Known, ListsAreApart, ListedIsIn, ToSet
    <3>3. \A y \in ToSet(blocks[mod]) : y \in registered
      BY <3>2 DEF Whole, Known, ListsAreApart, RegisteredFirst, Listed, New
    <3>4. QED
      BY <3>1, <3>3 DEF ListsInOrder
  <2>7. ASSUME NEW mod \in Modules
        PROVE  /\ Sorted(waiting'[mod], came') /\ Sorted(blocks'[mod], came')
               /\ \A y \in ToSet(blocks'[mod]), z \in ToSet(waiting'[mod]) : Before(came', y, z)
    <3>1. CASE mod # ModuleOf(n)
      BY <1>1, <2>1, <2>2, <2>5, <2>7, <3>1
    <3>2. CASE mod = ModuleOf(n)
      <4>1. waiting'[mod] = Append(waiting[mod], n) /\ waiting[mod] \in Seq(MetaBlocks)
        BY <1>1, <2>2, <2>7, <3>2
      <4>2. \A y \in ToSet(waiting[mod]) \cup ToSet(blocks[mod]) : Before(came', y, n)
        BY <2>3, <2>6, <2>7
      <4>3. Sorted(waiting'[mod], came')
        BY <2>5, <2>7, <4>1, <4>2, SortedAppended
      <4>4. ToSet(waiting'[mod]) = ToSet(waiting[mod]) \cup {n}
        BY <4>1, AppendOnce
      <4>5. QED
        BY <2>1, <2>5, <2>7, <4>2, <4>3, <4>4
    <3>3. QED
      BY <3>1, <3>2
  <2>8. QED
    BY <2>4, <2>7 DEF ListsInOrder
<1>4. CASE LoadNext
  <2>1. PICK h \in MetaBlocks :
            /\ h = Head(waiting[loading]) /\ h \in ToSet(waiting[loading])
            /\ waiting' = [waiting EXCEPT ![loading] = Tail(@)]
            /\ blocks' = [blocks EXCEPT ![loading] = Append(@, h)]
    BY <1>4, LoadEffect
  <2>2. loading \in Modules /\ waiting[loading] # <<>> /\ UNCHANGED <<registered, came>>
    BY <1>4, LoadEffect DEF appVars, histVars
  <2>3. /\ waiting'[loading] = Tail(waiting[loading]) /\ waiting[loading] \in Seq(MetaBlocks)
        /\ blocks'[loading] = Append(blocks[loading], h) /\ blocks[loading] \in Seq(MetaBlocks)
        /\ \A mod \in Modules \ {loading} : /\ waiting'[mod] = waiting[mod]
                                            /\ blocks'[mod] = blocks[mod]
    BY <1>1, <2>1, <2>2
  <2>4. /\ Sorted(waiting[loading], came) /\ Sorted(blocks[loading], came)
        /\ \A y \in ToSet(blocks[loading]), z \in ToSet(waiting[loading]) : Before(came, y, z)
    BY <2>2 DEF ListsInOrder
  <2>5. /\ Sorted(waiting'[loading], came)
        /\ \A z \in ToSet(waiting'[loading]) : Before(came, h, z)
    BY <2>1, <2>2, <2>3, <2>4, SortedTail
  <2>6. /\ ToSet(waiting'[loading]) \subseteq ToSet(waiting[loading])
        /\ ToSet(blocks'[loading]) = ToSet(blocks[loading]) \cup {h}
    BY <2>2, <2>3, HeadAndTail, AppendOnce
  <2>7. Sorted(blocks'[loading], came)
    BY <2>1, <2>3, <2>4, SortedAppended
  <2>8. ASSUME NEW mod \in Modules
        PROVE  /\ Sorted(waiting'[mod], came) /\ Sorted(blocks'[mod], came)
               /\ \A y \in ToSet(blocks'[mod]), z \in ToSet(waiting'[mod]) : Before(came, y, z)
    <3>1. CASE mod # loading
      BY <2>3, <2>8, <3>1 DEF ListsInOrder
    <3>2. CASE mod = loading
      BY <2>4, <2>5, <2>6, <2>7, <3>2
    <3>3. QED
      BY <3>1, <3>2
  <2>9. QED
    BY <2>2, <2>8 DEF ListsInOrder
<1>5. CASE Continue
  <2>1. UNCHANGED <<registered, waiting, came>>
    BY <1>5, ContinueEffect DEF appVars, histVars
  <2>2. SUFFICES ASSUME NEW x \in MetaBlocks, step[x] = "leaving", clearing \in Modules,
                        x \in ToSet(blocks[clearing]),
                        blocks' = [blocks EXCEPT ![clearing] = RemoveOne(@, x)]
                 PROVE  ListsInOrder'
    BY <1>2, <1>5, <2>1, ContinueEffect DEF Advances
  <2>3. x = Last(blocks[clearing])
    BY <2>2 DEF LastGoesFirst
  <2> DEFINE b == blocks[clearing]
  <2>4. /\ b \in Seq(MetaBlocks) /\ b # <<>> /\ IsInjective(b) /\ Sorted(b, came)
    <3>1. b # <<>>
      BY <2>2 DEF ToSet
    <3>2. IsInjective(b)
      BY <2>2 DEF Whole, Known, ListsAreApart, ListedOnce, IsInjective
    <3>3. QED
      BY <1>1, <2>2, <3>1, <3>2 DEF ListsInOrder
  <2>5. Sorted(Front(b), came) /\ RemoveOne(b, Last(b)) = Front(b)
    BY ONLY <2>4, SortedFront, RemoveLast
  <2>6. Sorted(blocks'[clearing], came)
    BY <1>1, <2>2, <2>3, <2>5
  <2>7. /\ ToSet(blocks'[clearing]) \subseteq ToSet(b)
        /\ \A mod \in Modules \ {clearing} : blocks'[mod] = blocks[mod]
    <3>1. ToSet(RemoveOne(b, x)) \subseteq ToSet(b)
      BY <2>2, <2>4, RemoveOneOnce
    <3>2. QED
      BY <1>1, <2>2, <3>1
  <2>8. ASSUME NEW mod \in Modules
        PROVE  /\ Sorted(waiting[mod], came) /\ Sorted(blocks'[mod], came)
               /\ \A y \in ToSet(blocks'[mod]), z \in ToSet(waiting[mod]) : Before(came, y, z)
    BY <2>6, <2>7, <2>8 DEF ListsInOrder
  <2>9. QED
    BY <2>1, <2>8 DEF ListsInOrder
<1>6. CASE Quiet
  BY <1>2, <1>6 DEF Quiet
<1>7. CASE UNCHANGED <<vars, appVars>>
  BY <1>2, <1>7 DEF vars, modVars, appVars, histVars
<1>8. QED
  BY <1>1, <1>3, <1>4, <1>5, <1>6, <1>7, OtherSteps

(* Of the classes of a module, those that go first came last.              *)
LEMMA LastGoesFirstStep ==
    ASSUME Whole, ListedModules, ClassesInOrder, [AppNext]_<<vars, appVars>>
    PROVE  LastGoesFirst'
<1>1. /\ TypeOK /\ \A m \in MetaBlocks : ModuleOf(m) \in Modules
      /\ \A mod \in Modules : blocks[mod] \in Seq(MetaBlocks)
  BY WholeTypes DEF Whole, Known, Typed
<1>2. LastGoesFirst /\ ListsInOrder /\ ModulesAreWhole
  BY DEF ClassesInOrder
<1>3. ASSUME came' = came \/ \E n \in MetaBlocks : came' = Append(came, n), UNCHANGED blocks,
             clearing' = clearing \/ Calm,
             \A m \in MetaBlocks : step'[m] = step[m] \/ (step[m] \in New /\ step'[m] \in New)
      PROVE  LastGoesFirst'
  <2>1. \A y, z : Before(came, y, z) => Before(came', y, z)
    <3>1. came \in Seq(MetaBlocks)
      BY DEF Whole, Known, Typed, AppTyped, AppTypeOK
    <3>2. QED
      BY <1>3, <3>1, BeforeAppended
  <2>2. \A n \in MetaBlocks : step'[n] = "leaving" => n = Last(blocks'[clearing'])
    BY <1>2, <1>3 DEF LastGoesFirst, Calm, Between, New
  <2>3. \A m, n \in MetaBlocks : IsAheadOf(n, m)' => IsAheadOf(n, m)
    BY <1>3 DEF IsAheadOf, Going, Listed, New
  <2>4. QED
    BY <1>2, <2>1, <2>2, <2>3 DEF LastGoesFirst
<1>4. CASE StaticNext
  <2>1. UNCHANGED <<blocks, clearing, step>>
    BY <1>4, StaticStep DEF StaticEffect
  <2>2. came' = came \/ \E n \in MetaBlocks : came' = Append(came, n)
    BY <1>4, StaticStep DEF StaticEffect
  <2>3. QED
    BY <1>3, <2>1, <2>2
<1>5. CASE Quiet
  BY <1>3, <1>5 DEF Quiet
<1>6. CASE LoadNext
  <2>1. PICK h \in MetaBlocks :
            /\ ModuleOf(h) = loading /\ step'[h] = "entering"
            /\ \A m \in MetaBlocks \ {h} : step'[m] = step[m]
    BY <1>6, LoadEffect
  <2>2. /\ loading \in Modules /\ waiting[loading] # <<>> /\ clearing = None /\ came' = came
    BY <1>6, LoadEffect DEF appVars, histVars
  <2>3. \A m \in MetaBlocks : step'[m] # "leaving"
    <3>1. \A m \in MetaBlocks : step[m] # "leaving"
      BY <2>2 DEF Whole, Known, Typed, OnItsWay
    <3>2. QED
      BY <2>1, <3>1
  <2>4. \A n \in MetaBlocks : ModuleOf(n) = loading => step[n] \in Staying
    BY <1>2, <2>2 DEF ModulesAreWhole
  <2>5. ASSUME NEW m \in MetaBlocks, NEW n \in MetaBlocks, ModuleOf(m) = ModuleOf(n), IsAheadOf(n, m)'
        PROVE  Before(came, m, n)
    <3>1. n # h
      BY <2>1, <2>5 DEF IsAheadOf, Going
    <3>2. m # h
      BY <2>1, <2>4, <2>5, <3>1 DEF IsAheadOf, Going, Staying, New
    <3>3. IsAheadOf(n, m)
      BY <2>1, <2>5, <3>1, <3>2 DEF IsAheadOf
    <3>4. QED
      BY <1>2, <2>5, <3>3 DEF LastGoesFirst
  <2>6. QED
    BY <2>2, <2>3, <2>5 DEF LastGoesFirst
<1>7. CASE Continue
  <2>1. UNCHANGED <<clearing, came>>
    BY <1>7, ContinueEffect DEF appVars, histVars
  <2>2. PICK x \in MetaBlocks : Advances(x) /\ \A m \in MetaBlocks \ {x} : step'[m] = step[m]
    BY <1>7, ContinueEffect
  <2>3. \A n \in MetaBlocks : step'[n] = "leaving" => n = Last(blocks'[clearing])
    <3>1. CASE step'[x] = "leaving"
      <4>1. blocks' = blocks /\ x = Last(blocks[clearing])
        BY <2>2, <3>1 DEF Advances
      <4>2. QED
        BY <1>2, <2>2, <4>1 DEF LastGoesFirst
    <3>2. CASE step'[x] # "leaving" /\ UNCHANGED blocks
      BY <1>2, <2>2, <3>2 DEF LastGoesFirst
    <3>3. CASE step[x] = "leaving"
      <4>1. \A m \in MetaBlocks \ {x} : step'[m] # "leaving"
        BY <2>2, <3>3 DEF Whole, Known, Typed, OnItsWay, Between
      <4>2. CASE step'[x] = "leaving"
        BY <3>1, <4>2
      <4>3. CASE step'[x] # "leaving"
        BY <4>1, <4>3
      <4>4. QED
        BY <4>2, <4>3
    <3>4. QED
      BY <2>2, <3>1, <3>2, <3>3 DEF Advances
  <2>4. ASSUME NEW m \in MetaBlocks, NEW n \in MetaBlocks, ModuleOf(m) = ModuleOf(n), IsAheadOf(n, m)'
        PROVE  Before(came, m, n)
    <3>1. CASE IsAheadOf(n, m)
      BY <1>2, <2>4, <3>1 DEF LastGoesFirst
    <3>2. CASE n = x /\ step[x] = "leaving" /\ step'[x] = "removed" /\ m # x
      <4>1. step[m] \in Listed
        BY <2>2, <2>4, <3>2 DEF IsAheadOf
      <4> DEFINE b == blocks[clearing]
      <4>2. m \in ToSet(b) /\ ModuleOf(x) = clearing /\ clearing \in Modules
        BY <2>2, <2>4, <3>2, <4>1 DEF Advances, Whole, Home, Listed
      <4>3. x = Last(b) /\ b \in Seq(MetaBlocks) /\ b # <<>> /\ Sorted(b, came)
        <5>1. b # <<>>
          BY <4>2 DEF ToSet
        <5>2. QED
          BY <1>1, <1>2, <3>2, <4>2, <5>1 DEF LastGoesFirst, ListsInOrder
      <4>4. PICK i \in DOMAIN b : b[i] = m
        BY <4>2 DEF ToSet
      <4>5. /\ Len(b) \in DOMAIN b /\ Len(b) \in Nat /\ Last(b) = b[Len(b)] /\ DOMAIN b = 1 .. Len(b)
        <5> HIDE DEF b
        <5>1. QED
          BY ONLY <4>3 DEF Last
      <4>6. i < Len(b)
        <5>1. i # Len(b)
          BY <3>2, <4>3, <4>4, <4>5
        <5>2. QED
          BY ONLY <4>4, <4>5, <5>1
      <4>7. QED
        BY <3>2, <4>3, <4>4, <4>5, <4>6 DEF Sorted
    <3>3. CASE n = x /\ step[x] = "unregistered" /\ step'[x] = "deleted" /\ m # x
      <4>1. step'[m] = step[m]
        BY <2>2, <3>3
      <4>2. step[m] \notin Going
        BY <3>3 DEF Whole, Known, Typed, OnItsWay, Going, Between
      <4>3. QED
        BY <2>4, <3>1, <3>3, <4>1, <4>2 DEF IsAheadOf, Going
    <3>4. QED
      <4>1. CASE n # x /\ m # x
        BY <2>2, <2>4, <3>1, <4>1 DEF IsAheadOf
      <4>2. CASE n # x /\ m = x
        BY <2>2, <2>4, <3>1, <4>2 DEF Advances, IsAheadOf, Going, Listed
      <4>3. CASE n = x
        BY <2>2, <2>4, <3>1, <3>2, <3>3, <4>3 DEF Advances, IsAheadOf, Going, Listed
      <4>4. QED
        BY <4>1, <4>2, <4>3
  <2>5. QED
    BY <2>1, <2>3, <2>4 DEF LastGoesFirst
<1>8. CASE UNCHANGED <<vars, appVars>>
  BY <1>3, <1>8 DEF vars, modVars, appVars, histVars
<1>9. QED
  BY <1>1, <1>4, <1>5, <1>6, <1>7, <1>8, OtherSteps

(* A list that another begins with: whoever is in it, but not its last,    *)
(* comes before its last in the other.                                     *)
LEMMA PrefixBefore ==
    ASSUME NEW S, NEW s \in Seq(S), NEW t \in Seq(S), s # <<>>, Len(s) <= Len(t),
           \A i \in DOMAIN s : s[i] = t[i], NEW x \in ToSet(s), x # Last(s)
    PROVE  Before(t, x, Last(s))
<1>1. PICK i \in DOMAIN s : s[i] = x
  BY DEF ToSet
<1>2. /\ DOMAIN s = 1 .. Len(s) /\ DOMAIN t = 1 .. Len(t) /\ Len(s) \in Nat /\ Len(t) \in Nat
      /\ Len(s) \in DOMAIN s /\ Last(s) = s[Len(s)]
  BY DEF Last
<1>3. i < Len(s)
  BY <1>1, <1>2
<1>4. i \in DOMAIN t /\ Len(s) \in DOMAIN t
  BY <1>2
<1>5. QED
  BY <1>1, <1>2, <1>3, <1>4 DEF Before

(* A step that clears no module and deletes no class.                      *)
LEMMA SameOrder ==
    ASSUME ModulesInOrder, UNCHANGED <<modules, order>>, unloaded \subseteq unloaded',
           stage \in Ending => stage' \in Ending,
           \/ clearing' = None
           \/ /\ clearing' = clearing /\ (loading = None => loading' = None)
              /\ stage' \in Ending => stage \in Ending,
           \A m \in MetaBlocks : step'[m] = "deleted" => step[m] = "deleted"
    PROVE  ModulesInOrder'
<1>1. ListInOrder'
  BY DEF ModulesInOrder, ListInOrder
<1>2. ClearedLast'
  BY DEF ModulesInOrder, ClearedLast
<1>3. DeletedLast'
  BY DEF ModulesInOrder, DeletedLast
<1>4. QED
  BY <1>1, <1>2, <1>3 DEF ModulesInOrder

(* A module is listed, before the end.                                     *)
LEMMA ListsInOrderToo ==
    ASSUME AppTypeOK, ModulesInOrder, NEW mod \in Modules, Lists(mod),
           UNCHANGED <<unloaded, stage, step>>, stage \notin Ending, clearing' = None
    PROVE  ModulesInOrder'
<1>1. modules = order /\ modules' = order' /\ modules' \in Seq(Modules)
  BY ListsModule DEF ModulesInOrder, ListInOrder, Lists
<1>2. ListInOrder'
  <2>1. Len(modules') \in Nat
    BY <1>1
  <2>2. QED
    BY <1>1, <2>1 DEF ListInOrder
<1>3. ClearedLast'
  BY DEF ClearedLast
<1>4. DeletedLast'
  BY DEF ModulesInOrder, DeletedLast
<1>5. QED
  BY <1>2, <1>3, <1>4 DEF ModulesInOrder

(* Modules go in the reverse order of their coming.                        *)
LEMMA ModulesInOrderStep ==
    ASSUME Whole, ListedModules, ModulesInOrder, [AppNext]_<<vars, appVars>>
    PROVE  ModulesInOrder'
<1>1. /\ TypeOK /\ AppTypeOK /\ modules \in Seq(Modules) /\ order \in Seq(Modules)
      /\ None \notin Modules /\ clearing \in Modules \cup {None} /\ IsInjective(modules)
      /\ \A mod \in Modules : mod # None
      /\ step \in [MetaBlocks -> Steps]
  BY WholeTypes DEF Whole, Known, Typed, AppTyped, AppTypeOK, Once, EachModuleOnce
<1>2. \A m \in MetaBlocks : Quiet /\ step'[m] = "deleted" => step[m] = "deleted"
  BY DEF Quiet, New
<1>3. ASSUME UNCHANGED <<modules, order, unloaded, clearing>>, Quiet,
             \/ UNCHANGED <<stage, loading>>
             \/ /\ clearing = None
                /\ stage \in Ending => stage' \in Ending
      PROVE  ModulesInOrder'
  BY <1>2, <1>3, SameOrder
<1>4. ASSUME UNCHANGED <<vars, modules, order, unloaded>>,
             \/ UNCHANGED <<stage, loading>>
             \/ /\ clearing = None
                /\ stage \in Ending => stage' \in Ending
      PROVE  ModulesInOrder'
  <2>1. UNCHANGED <<step, clearing>>
    BY <1>4 DEF vars, modVars
  <2>2. QED
    BY <1>4, <2>1, SameOrder
<1>5. CASE StaticNext
  <2>1. PICK mod \in Modules : PrivateInstance(mod)
    BY <1>5, StaticStep DEF StaticEffect
  <2>2. UNCHANGED <<stage, loading, clearing, step, unloaded>> /\ clearing = None /\ stage \notin Ending
    BY <1>5, StaticStep DEF StaticEffect, Ending
  <2>3. CASE UNCHANGED <<modules, order>>
    BY <2>2, <2>3, SameOrder
  <2>4. CASE Lists(mod)
    BY <1>1, <2>2, <2>4, ListsInOrderToo
  <2>5. QED
    BY <2>1, <2>3, <2>4 DEF PrivateInstance
<1>6. ASSUME NEW mod \in Modules, RegisterModule(mod)
      PROVE  ModulesInOrder'
  <2>1. Lists(mod) /\ UNCHANGED <<unloaded, stage, step, clearing>> /\ stage = "running" /\ clearing = None
    BY <1>6 DEF RegisterModule, Idle, vars, modVars
  <2>2. QED
    BY <1>1, <2>1, ListsInOrderToo DEF Ending
<1>7. CASE LoadNext
  <2>1. UNCHANGED <<modules, order, unloaded, stage, loading, clearing>>
    BY <1>7, LoadEffect DEF appVars, histVars
  <2>2. \A m \in MetaBlocks : step'[m] = "deleted" => step[m] = "deleted"
    <3>1. PICK h \in MetaBlocks :
              step'[h] = "entering" /\ \A m \in MetaBlocks \ {h} : step'[m] = step[m]
      BY <1>7, LoadEffect
    <3>2. QED
      BY <3>1
  <2>3. QED
    BY <2>1, <2>2, SameOrder
<1>8. CASE Continue
  <2>1. UNCHANGED <<modules, order, unloaded, stage, loading, clearing>>
    BY <1>8, ContinueEffect DEF appVars, histVars
  <2>2. PICK x \in MetaBlocks : Advances(x) /\ \A m \in MetaBlocks \ {x} : step'[m] = step[m]
    BY <1>8, ContinueEffect
  <2>3. CASE step'[x] # "deleted"
    BY <2>1, <2>2, <2>3, SameOrder
  <2>4. CASE step[x] = "unregistered" /\ step'[x] = "deleted"
    <3>1. clearing = ModuleOf(x) /\ clearing # None
      BY <1>1, <2>4, WholeTypes DEF Whole, Home
    <3>2. ListInOrder' /\ ClearedLast'
      BY <2>1 DEF ModulesInOrder, ListInOrder, ClearedLast
    <3>3. ASSUME NEW m \in MetaBlocks, step'[m] = "deleted", ModuleOf(m) \notin unloaded
          PROVE  /\ stage \in Ending
                 /\ \A mod \in ToSet(modules) \ {ModuleOf(m)} : Before(order, mod, ModuleOf(m))
      <4>1. CASE m # x
        BY <2>2, <3>3, <4>1 DEF ModulesInOrder, DeletedLast
      <4>2. CASE m = x
        <5>1. stage \in Ending /\ modules # <<>> /\ ModuleOf(m) = Last(modules)
          BY <3>1, <3>3, <4>2 DEF ModulesInOrder, ClearedLast
        <5>2. Len(modules) <= Len(order) /\ \A i \in DOMAIN modules : modules[i] = order[i]
          BY DEF ModulesInOrder, ListInOrder
        <5>3. QED
          BY <1>1, <5>1, <5>2, PrefixBefore
      <4>3. QED
        BY <4>1, <4>2
    <3>4. DeletedLast'
      BY <2>1, <3>3 DEF DeletedLast
    <3>5. QED
      BY <3>2, <3>4 DEF ModulesInOrder
  <2>5. QED
    BY <2>2, <2>3, <2>4 DEF Advances, Listed
<1>9. CASE Client
  <2>1. UNCHANGED <<modules, order, unloaded, stage, loading, clearing>>
    BY <1>9 DEF Client, ClientNext, RegisterExtension, UnregisterExtension, DeleteExtension,
       RegisterTaskletRunner, UnregisterTaskletRunner, modVars, appVars, histVars
  <2>2. QED
    BY <1>1, <1>3, <1>9, <2>1, ClientIsQuiet
<1>10. ASSUME NEW mod \in Modules, Unload(mod)
       PROVE  ModulesInOrder'
  <2>1. /\ UNCHANGED <<modules, order, stage, loading, step>> /\ unloaded' = unloaded \cup {mod}
        /\ clearing' = mod /\ loading = None /\ stage = "running"
    BY <1>10 DEF Unload, Clear, Idle
  <2>2. ListInOrder' /\ DeletedLast'
    BY <2>1 DEF ModulesInOrder, ListInOrder, DeletedLast
  <2>3. ClearedLast'
    BY <2>1 DEF ClearedLast, Ending
  <2>4. QED
    BY <2>2, <2>3 DEF ModulesInOrder
<1>11. CASE DestroyModule
  <2>1. /\ UNCHANGED <<modules, order, stage, loading, step, unloaded>>
        /\ clearing' = Last(modules) /\ modules # <<>> /\ stage = "closing"
    BY <1>11 DEF DestroyModule, LastModule, ClosesEngine, Closes, Clear, appVars, histVars
  <2>2. ListInOrder' /\ DeletedLast'
    BY <2>1 DEF ModulesInOrder, ListInOrder, DeletedLast
  <2>3. loading = None
    BY <2>1 DEF ListedModules
  <2>4. ClearedLast'
    BY <2>1, <2>3 DEF ClearedLast, Ending
  <2>5. QED
    BY <2>2, <2>4 DEF ModulesInOrder
<1>12. CASE ModuleCleared
  <2>1. /\ UNCHANGED <<order, stage, loading, step, unloaded>> /\ clearing # None /\ clearing' = None
        /\ modules' = IF stage = "closing" THEN RemoveOne(modules, clearing) ELSE modules
    BY <1>12 DEF ModuleCleared, Cleared, Unlisted, histVars
  <2>2. CASE stage # "closing"
    BY <2>1, <2>2, SameOrder
  <2>3. CASE stage = "closing"
    <3>1. modules # <<>> /\ clearing = Last(modules)
      BY <2>1, <2>3 DEF ModulesInOrder, ClearedLast, Ending
    <3>2. modules' = Front(modules)
      BY <1>1, <2>1, <2>3, <3>1, RemoveLast
    <3>3. /\ Front(modules) \in Seq(Modules) /\ DOMAIN Front(modules) = 1 .. Len(modules) - 1
          /\ \A i \in DOMAIN Front(modules) : i \in DOMAIN modules /\ Front(modules)[i] = modules[i]
      BY <1>1, <3>1, LastAndFront
    <3>4. ListInOrder'
      <4>1. Len(modules') <= Len(modules)
        <5>1. Len(Front(modules)) = Len(modules) - 1 /\ Len(modules) \in Nat
          <6>1. modules \in Seq(Modules) /\ modules # <<>>
            BY <1>1, <3>1
          <6>2. Front(modules) \in Seq(Modules) /\ DOMAIN Front(modules) = 1 .. Len(modules) - 1
            BY <3>3
          <6>3. Len(Front(modules)) \in Nat /\ DOMAIN Front(modules) = 1 .. Len(Front(modules))
            BY ONLY <6>2
          <6>4. Len(modules) \in Nat /\ Len(modules) - 1 \in Nat
            BY ONLY <6>1
          <6>5. \A k, n \in Nat : 1 .. k = 1 .. n => k = n
            OBVIOUS
          <6>6. QED
            BY ONLY <6>2, <6>3, <6>4, <6>5
        <5>2. QED
          BY <3>2, <5>1
      <4>2. Len(modules) <= Len(order) /\ \A i \in DOMAIN modules : modules[i] = order[i]
        BY DEF ModulesInOrder, ListInOrder
      <4>3. Len(modules') \in Nat /\ Len(modules) \in Nat /\ Len(order) \in Nat
        BY <1>1, <3>2, <3>3
      <4>4. Len(modules') <= Len(order)
        BY ONLY <4>1, <4>2, <4>3
      <4>5. \A i \in DOMAIN modules' : modules'[i] = order[i]
        BY <3>2, <3>3, <4>2
      <4>6. QED
        BY <2>1, <2>3, <4>4, <4>5 DEF ListInOrder, Ending
    <3>5. ToSet(modules') \subseteq ToSet(modules)
      BY <3>2, <3>3 DEF ToSet
    <3>6. DeletedLast'
      BY <2>1, <3>5 DEF ModulesInOrder, DeletedLast
    <3>7. ClearedLast'
      BY <2>1 DEF ClearedLast
    <3>8. QED
      BY <3>4, <3>6, <3>7 DEF ModulesInOrder
  <2>4. QED
    BY <2>2, <2>3
<1>13. CASE Construct \/ Constructed
  <2>1. clearing = None
    BY <1>13 DEF Construct, Constructed, Whole, Keeping, NothingBeforeData
  <2>2. stage \notin Ending
    BY <1>13 DEF Construct, Constructed, Ending
  <2>3. QED
    BY <1>4, <1>13, <2>1, <2>2 DEF Construct, Constructed, histVars
<1>14. CASE Loaded
  <2>1. clearing = None
    BY <1>14 DEF Loaded, ModulesInOrder, ClearedLast
  <2>2. QED
    BY <1>4, <1>14, <2>1 DEF Loaded, histVars
<1>15. CASE Close \/ \E mod \in Modules : Load(mod)
  <2>1. clearing = None /\ stage = "running"
    BY <1>15 DEF Close, Load, Idle
  <2>2. QED
    BY <1>4, <1>15, <2>1 DEF Close, Load, histVars, Ending
<1>16. CASE DestroyLibrary
  <2>1. /\ UNCHANGED <<vars, modules, order, unloaded, loading>>
        /\ stage = "closing" /\ stage' \in {"closing", "down"}
    BY <1>16 DEF DestroyLibrary, Closes, histVars
  <2>2. UNCHANGED <<step, clearing>>
    BY <2>1 DEF vars, modVars
  <2>3. QED
    BY <2>1, <2>2, SameOrder DEF Ending
<1>17. CASE KoreNext
  BY <1>4, <1>7, <1>8, <1>11, <1>12, <1>13, <1>14, <1>16, <1>17
     DEF KoreNext, DestroyLastBlock, Destroyed, DestroyInternal, histVars
<1>18. CASE HostNext
  BY <1>4, <1>6, <1>9, <1>10, <1>15, <1>18
     DEF HostNext, CreateBlock, AddToData, DestroyBlock, Destroyed, SuperMetaBlock, histVars
<1>19. CASE UNCHANGED <<vars, appVars>>
  BY <1>4, <1>19 DEF appVars, histVars
<1>20. QED
  BY <1>5, <1>17, <1>18, <1>19 DEF AppNext, Ended

OrderInv == ListedModules /\ ModulesInOrder /\ ClassesInOrder

LEMMA OrderInvariant == AppSpec => [](Whole /\ OrderInv)
<1>1. AppInit => OrderInv
  <2> SUFFICES ASSUME AppInit
               PROVE  OrderInv
    OBVIOUS
  <2>1. /\ clearing = None /\ loading = None /\ stage = "static" /\ modules = <<>> /\ order = <<>>
        /\ registered = {} /\ made = {} /\ \A m \in MetaBlocks : step[m] = "absent"
        /\ \A mod \in Modules : blocks[mod] = <<>> /\ waiting[mod] = <<>>
    BY DEF AppInit, Init
  <2>2. ListedModules
    BY <2>1 DEF ListedModules, Opening
  <2>3. ModulesInOrder
    <3>1. Len(modules) <= Len(order) /\ \A i \in DOMAIN modules : modules[i] = order[i]
      <4>1. Len(<<>>) <= Len(<<>>)
        OBVIOUS
      <4>2. QED
        BY <2>1, <4>1
    <3>2. QED
      BY <2>1, <3>1 DEF ModulesInOrder, ListInOrder, ClearedLast, DeletedLast
  <2>4. ModulesAreWhole
    BY <2>1 DEF ModulesAreWhole, New
  <2>5. ListsInOrder
    <3>1. \A mod \in Modules : DOMAIN waiting[mod] = {} /\ DOMAIN blocks[mod] = {}
      BY <2>1
    <3>2. \A mod \in Modules : ToSet(waiting[mod]) = {} /\ ToSet(blocks[mod]) = {}
      BY <3>1 DEF ToSet
    <3>3. QED
      BY <2>1, <3>1, <3>2 DEF ListsInOrder, Sorted
  <2>6. LastGoesFirst
    BY <2>1 DEF LastGoesFirst, IsAheadOf, Going
  <2>7. QED
    BY <2>2, <2>3, <2>4, <2>5, <2>6 DEF OrderInv, ClassesInOrder
<1>2. Whole /\ OrderInv /\ [AppNext]_<<vars, appVars>> => OrderInv'
  BY ListedModulesStep, ModulesInOrderStep, ModulesAreWholeStep, ListsInOrderStep,
     LastGoesFirstStep DEF OrderInv, ModulesInOrder, ClassesInOrder
<1>3. AppSpec => []Whole
  BY KeepingInvariant, OnceInvariant, HomeInvariant, AppImplementsRegistry, PTL DEF Whole
<1>4. QED
  BY <1>1, <1>2, <1>3, PTL DEF AppSpec

(* The super class of a meta block that the engine finds is deleted only   *)
(* if a host unloaded another module with it, or if it came after its      *)
(* sub-class: at the end modules go in the reverse order of their coming,  *)
(* and so do the classes of a module whenever it is cleared.               *)
THEOREM SuperIsAliveAlways == AppSpec => []SuperIsAlive
<1>1. Whole /\ OrderInv => SuperIsAlive
  <2> SUFFICES ASSUME Whole, OrderInv, NEW m \in MetaBlocks, byName[Name(m)] = m,
                      super[m] # None, step[super[m]] = "deleted"
               PROVE  \/ CameBefore(m, super[m])
                      \/ ModuleOf(super[m]) # ModuleOf(m) /\ ModuleOf(super[m]) \in unloaded
    BY DEF SuperIsAlive
  <2>1. super[m] \in MetaBlocks /\ \A n \in MetaBlocks : ModuleOf(n) \in Modules
    BY WholeTypes
  <2>2. step[m] \in {"loaded", "leaving", "removed"}
    BY NamesAssumption DEF Whole, Known, LookupsAreLive, Names
  <2>3. CASE ModuleOf(super[m]) = ModuleOf(m)
    <3>1. IsAheadOf(super[m], m)
      BY <2>2 DEF IsAheadOf, Listed, Going
    <3>2. Before(came, m, super[m])
      BY <2>1, <2>3, <3>1 DEF OrderInv, ClassesInOrder, LastGoesFirst
    <3>3. QED
      BY <2>3, <3>2 DEF CameBefore
  <2>4. CASE ModuleOf(super[m]) # ModuleOf(m) /\ ModuleOf(super[m]) \notin unloaded
    <3>1. ModuleOf(m) \in ToSet(modules)
      <4>1. CASE step[m] \in Listed
        <5>1. m \in ToSet(blocks[ModuleOf(m)])
          BY <4>1 DEF Whole, Home
        <5>2. blocks[ModuleOf(m)] # <<>>
          BY <5>1 DEF ToSet
        <5>3. QED
          BY <2>1, <5>2 DEF OrderInv, ListedModules
      <4>2. CASE step[m] = "removed"
        <5>1. clearing = ModuleOf(m)
          BY <4>2 DEF Whole, Home
        <5>2. clearing # None
          BY <2>1, <5>1, WholeTypes
        <5>3. QED
          BY <5>1, <5>2 DEF Whole, Known, Typed, AppTyped, ClearingIsListed
      <4>3. QED
        BY <2>2, <4>1, <4>2 DEF Listed
    <3>2. Before(order, ModuleOf(m), ModuleOf(super[m]))
      BY <2>1, <2>4, <3>1 DEF OrderInv, ModulesInOrder, DeletedLast
    <3>3. QED
      BY <2>4, <3>2 DEF CameBefore
  <2>5. QED
    BY <2>3, <2>4
<1>2. QED
  BY <1>1, OrderInvariant, PTL
=============================================================================
