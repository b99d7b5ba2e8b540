------------------------- MODULE MCModuleLifecycle -------------------------
(* A module with three meta blocks.  An instance is a pair of a meta block *)
(* and a number.                                                           *)
EXTENDS ModuleLifecycle

CONSTANTS m1, m2, m3, t1, t2

MCLoadables == <<m1, m2, m3>>
AllMayFail == {m1, m2, m3}
MCInstances == {<<m1, 1>>, <<m1, 2>>, <<m1, 3>>, <<m2, 1>>}
FirstOfType(x) == x[1]
OnePermanent == {<<m1, 1>>}
OneThread == {t1}
TwoThreads == {t1, t2}
=============================================================================
