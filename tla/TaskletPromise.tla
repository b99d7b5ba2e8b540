--------------------------- MODULE TaskletPromise ---------------------------
(***************************************************************************)
(* What a Tasklet promises to the objects connected to its signals,        *)
(* whatever threads execute its runs and cancel it:                        *)
(*                                                                         *)
(*   - started() of a run is heard after every run that was heard of       *)
(*     before was decided, and progress() not before the first start;      *)
(*   - ended() comes on account of a run that was decided, once for each,  *)
(*     never more often than started(), and signals do not mix with it;    *)
(*   - its argument is the outcome of that run, unless _state was written  *)
(*     between the moment the Tasklet set it and the signal: by a cancel,  *)
(*     by the start of another run, or by the end of another run;          *)
(*   - a run that ends with an outcome in Announced is sure to be told.    *)
(***************************************************************************)
EXTENDS Naturals, Sequences, FiniteSets

CONSTANTS
    Announced,  \* the outcomes for which ended() is sure to come
    MaxEnds     \* bound: the runs the last promise counts

VARIABLES
    ends,       \* how many runs ended with each outcome
    told,       \* how many of these ends ended() was emitted for
    telling,    \* the outcome ended() is about to be emitted for, or "none"
    said,       \* what it would say now, "none" when telling is
    signals     \* the signals emitted, in order; a state stands for ended

promiseVars == <<ends, told, telling, said, signals>>

Outcome == {"Canceled", "Failed", "Completed"}
Said    == {"Aborted", "Running"} \cup Outcome

Heard(S) == Cardinality({i \in 1 .. Len(signals) : signals[i] \in S})
Decided == ends["Canceled"] + ends["Failed"] + ends["Completed"]

Init ==
    /\ ends = [o \in Outcome |-> 0]
    /\ told = [o \in Outcome |-> 0]
    /\ telling = "none" /\ said = "none"
    /\ signals = <<>>

Start ==
    /\ telling = "none" /\ Heard({"started"}) <= Decided
    /\ signals' = Append(signals, "started")
    /\ UNCHANGED <<ends, told, telling, said>>

Progress ==
    /\ telling = "none" /\ Heard({"started"}) > 0
    /\ signals' = Append(signals, "progress")
    /\ UNCHANGED <<ends, told, telling, said>>

\* A run ends, on another thread or on the thread of the signals.  The first
\* writes _state even in the middle of an announcement.
Decide(o) ==
    /\ ends' = [ends EXCEPT ![o] = @ + 1]
    /\ said' = IF telling = "none" THEN said ELSE o
    /\ UNCHANGED <<told, telling, signals>>

DecideHere(o) ==
    /\ telling = "none" /\ telling' = o /\ said' = o
    /\ ends' = [ends EXCEPT ![o] = @ + 1]
    /\ UNCHANGED <<told, signals>>

Announce(o) ==
    /\ telling = "none" /\ told[o] < ends[o]
    /\ telling' = o /\ said' = o
    /\ UNCHANGED <<ends, told, signals>>

\* A cancel, or a run that starts.
Overwrite ==
    /\ telling # "none"
    /\ said' \in {"Aborted", "Running"}
    /\ UNCHANGED <<ends, told, telling, signals>>

End ==
    /\ telling # "none" /\ Heard(Said) < Heard({"started"})
    /\ signals' = Append(signals, said)
    /\ told' = [told EXCEPT ![telling] = @ + 1]
    /\ telling' = "none" /\ said' = "none"
    /\ UNCHANGED ends

Next ==
    \/ Start \/ Progress \/ Overwrite \/ End
    \/ \E o \in Outcome : Decide(o) \/ DecideHere(o) \/ Announce(o)

Told == \A o \in Announced, n \in 1 .. MaxEnds : ends[o] >= n ~> told[o] >= n

Spec == Init /\ [][Next]_promiseVars /\ Told
=============================================================================
