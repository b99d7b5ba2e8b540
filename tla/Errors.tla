------------------------------- MODULE Errors -------------------------------
(***************************************************************************)
(* KoreEngine::Error: any thread reports errors, and the engine emits them *)
(* as its signal error(), at once on its own thread and with a posted      *)
(* event otherwise.                                                        *)
(***************************************************************************)
EXTENDS Naturals, SequencesExt

CONSTANTS
    Reporters,  \* the threads that report errors
    Main,       \* the thread of the engine
    MaxErrors   \* the errors that each reports

ASSUME ErrorsAssumption == Main \in Reporters /\ MaxErrors \in Nat

VARIABLES
    reported,  \* the number of errors that each thread has reported
    posted,    \* the events that are posted to the engine
    emitted    \* the signals error(): which error, and on which thread

errorVars == <<reported, posted, emitted>>

\* KoreEvent::EventType is a type of event of its own; koreEventType tells its events apart.
ErrorEvent(t, n) == [type |-> "KoreEvent", koreEventType |-> "Error", error |-> <<t, n>>]
OtherKoreEvent == [type |-> "KoreEvent", koreEventType |-> "Undefined"]
OtherEvent == [type |-> "another"]

IsError(event) == event.type = "KoreEvent" /\ event.koreEventType = "Error"

\* KoreEngine::customEvent; the events that it leaves to Library are ignored there.
CustomEvent(event, thread) ==
    IF IsError(event)
      THEN emitted' = Append(emitted, [error |-> event.error, on |-> thread])
      ELSE UNCHANGED emitted

ErrorsInit ==
    /\ reported = [t \in Reporters |-> 0]
    /\ posted = <<>> /\ emitted = <<>>

AnyThread(t) == TRUE
OnEngineThread(t) == t = Main

Error(t) ==
    LET event == ErrorEvent(t, reported[t] + 1)
    IN  /\ reported[t] < MaxErrors
        /\ reported' = [reported EXCEPT ![t] = @ + 1]
        /\ IF OnEngineThread(t)
             THEN CustomEvent(event, t) /\ UNCHANGED posted
             ELSE posted' = Append(posted, event) /\ UNCHANGED emitted

\* Hosts may post events of their own to the engine; one at a time will do.
PostOther ==
    /\ {OtherKoreEvent, OtherEvent} \cap ToSet(posted) = {}
    /\ \E event \in {OtherKoreEvent, OtherEvent} : posted' = Append(posted, event)
    /\ UNCHANGED <<reported, emitted>>

Deliver ==
    /\ posted # <<>>
    /\ posted' = Tail(posted)
    /\ CustomEvent(Head(posted), Main)
    /\ UNCHANGED reported

ErrorsNext == (\E t \in Reporters : Error(t)) \/ PostOther \/ Deliver

ErrorsSpec == ErrorsInit /\ [][ErrorsNext]_errorVars

-----------------------------------------------------------------------------
(* Properties.                                                             *)

EmittedOf(t) == {i \in DOMAIN emitted : emitted[i].error[1] = t}
PostedOf(t) == {i \in DOMAIN posted : IsError(posted[i]) /\ posted[i].error[1] = t}

\* Every error that was reported is emitted, or will be when the events that are
\* posted are delivered: once, in the order of its thread, and on the thread of the
\* engine, where the slots expect it.
ErrorsAreHeard ==
    /\ \A i \in DOMAIN emitted : emitted[i].on = Main
    /\ \A t \in Reporters : \E n \in 0 .. reported[t] :
        /\ {emitted[i].error[2] : i \in EmittedOf(t)} = 1 .. n
        /\ {posted[i].error[2] : i \in PostedOf(t)} = n + 1 .. reported[t]
        /\ \A i, j \in EmittedOf(t) : i < j => emitted[i].error[2] < emitted[j].error[2]
        /\ \A i, j \in PostedOf(t) : i < j => posted[i].error[2] < posted[j].error[2]
=============================================================================
