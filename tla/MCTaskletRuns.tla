---------------------------- MODULE MCTaskletRuns ----------------------------
(* Three programs that use a Tasklet, each with bounds of its own:         *)
(*                                                                         *)
(*   "waits"    one run, which two threads cancel and one waits for;       *)
(*   "runs"     two runs, which nobody cancels and two threads wait for,   *)
(*              one of them with a timeout;                                *)
(*   "cancels"  two runs, which two threads cancel and nobody waits for.   *)
EXTENDS MCTasklet

VARIABLE program

ProgramsInit == Init /\ program \in {"waits", "runs", "cancels"}

Within ==
    CASE program = "waits"   -> runs' <= 1 /\ wait'[c2] = "idle"
      [] program = "runs"    ->
             state' # "Aborted" /\ reported' = 0 /\ run'[c1] = "idle" /\ run'[c2] = "idle"
      [] program = "cancels" -> waits' = 0 /\ run'[c2] = "idle"

\* The pool has two threads that are alike: the second one takes what comes while
\* the first one works.
InTurn == run[w2] = "idle" /\ run'[w2] # "idle" => run[w1] # "idle"

ProgramsNext == Next /\ UNCHANGED program /\ Within /\ InTurn

\* What is fair stays possible.
ProgramsSpec ==
    /\ ProgramsInit /\ [][ProgramsNext]_<<vars, program>>
    /\ Scheduling /\ RunnersEnd
=============================================================================
