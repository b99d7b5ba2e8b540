---------------------------- MODULE MCApplication ----------------------------
(* Two programs with libKore; a meta block is a model value and its own    *)
(* name.                                                                   *)
(*                                                                         *)
(* One has a plug-in, whose class is a tasklet and shares an ID with a     *)
(* class of libKore; it keeps blocks, extensions and runners, and does not *)
(* ask for super classes.                                                  *)
(*                                                                         *)
(* The other has two plug-ins and asks for super classes, one in the other *)
(* plug-in and one in the same module, which comes first.  That is all it  *)
(* does with meta blocks.                                                  *)
EXTENDS Application

CONSTANTS core, plugin, other, m1, m2, m3, m4, e1, r1, r2, b1, b2

ThreeModules == {core, plugin, other}
FourClasses == {m1, m2, m3, m4}
ItsModule(m) == CASE m = m3 -> plugin [] m = m4 -> other [] OTHER -> core
OwnName(m) == m
SharedID(m) == CASE m = m1 -> 1 [] m = m4 -> 4 [] OTHER -> 2
TheSuper(m) == CASE m = m2 -> m1 [] m = m4 -> m3 [] OTHER -> None
OneExtension == {e1}
OneTasklet == {m3}
TwoRunners == {r1, r2}
TwoScores(r) == IF r = r1 THEN 1 ELSE 2
TwoPlugins == {plugin, other}
TwoBlocks == {b1, b2}

VARIABLE program

ProgramsInit == AppInit /\ program \in {"one plug-in", "two plug-ins"}

ProgramsNext ==
    /\ AppNext
    /\ UNCHANGED program
    /\ IF program = "one plug-in"
         THEN UNCHANGED super /\ other \notin made'
         ELSE UNCHANGED <<class, alive, runners>> /\ (m2 \in registered' => m1 \in registered')

ProgramsSpec ==
    /\ ProgramsInit /\ [][ProgramsNext]_<<vars, appVars, program>>
    /\ WF_<<vars, appVars>>(KoreNext)
=============================================================================
