------------------------------- MODULE Tasklet -------------------------------
(***************************************************************************)
(* One Kore::parallel::Tasklet and every thread that touches it.           *)
(*                                                                         *)
(* Main is the thread the Tasklet belongs to (in the Qt sense): it runs    *)
(* the event loop that delivers the events posted to the Tasklet.  A run   *)
(* executes on a thread of the pool (Asynchronous), or on the thread that  *)
(* calls RunTasklet (Synchronous), which may be Main or a Client.  Main    *)
(* and the Clients may also call waitForFinished and cancel.               *)
(*                                                                         *)
(* A step is one access to what the threads share: _state (written by      *)
(* several threads without the mutex), _waitMutex, the wait condition, and *)
(* the queue of posted events.                                             *)
(***************************************************************************)
EXTENDS Integers, Sequences, FiniteSets

CONSTANTS
    Main,        \* the thread the Tasklet belongs to
    Workers,     \* the threads of the pool behind QtConcurrent::run
    Clients,     \* the other threads of the application
    NoThread,    \* holder of a free mutex
    Waiters,     \* the threads that call waitForFinished
    Timed,       \* those of them that pass a timeout
    Cancellers,  \* the threads that call cancel
    Modes,       \* the run modes the application uses
    AutoDelete,  \* the constructor's autoDelete
    Deletable,   \* the block has the Allocated or the System flag
    MaxRuns,     \* bound: calls of RunTasklet
    MaxWaits,    \* bound: calls of waitForFinished
    MaxProgress  \* bound: progress reports

Threads == {Main} \cup Workers \cup Clients

ASSUME ThreadsAssumption ==
    /\ Main \notin Workers \cup Clients
    /\ Workers \cap Clients = {}
    /\ NoThread \notin Threads
    /\ Waiters \subseteq {Main} \cup Clients
    /\ Timed \subseteq Waiters
    /\ Cancellers \subseteq {Main} \cup Clients

ASSUME ParametersAssumption ==
    /\ Modes \subseteq {"Synchronous", "Asynchronous"}
    /\ AutoDelete \in BOOLEAN
    /\ Deletable \in BOOLEAN
    /\ MaxRuns \in Nat
    /\ MaxWaits \in Nat
    /\ MaxProgress \in Nat

VARIABLES
    state,     \* _state
    mutex,     \* the holder of _waitMutex
    alive,     \* the Tasklet has not been deleted
    events,    \* the events posted to the Tasklet, next one first
    batch,     \* how many of them the dispatch in progress still covers
    pending,   \* runs queued in the pool
    run,       \* where each thread is in its run, "idle" outside of one
    wait,      \* where each thread is in waitForFinished, "idle" outside of it
    result,    \* what its last waitForFinished returned, "none" before
    handler,   \* where Main is in the last part of customEvent: about to emit
               \* ended() for an outcome, in the slots of it, or "none"
    verdict,   \* how the last run to end ended, "none" before
    emitted,   \* the signals emitted so far; a State stands for ended(State)
    ends,      \* history: how many runs ended with each outcome
    told,      \* history: how many ended() were emitted on account of each
    runs, waits, reported  \* what the bounds count

vars == <<state, mutex, alive, events, batch, pending, run, wait, result,
          handler, verdict, emitted, ends, told, runs, waits, reported>>

-----------------------------------------------------------------------------
(* The enumerations.                                                       *)

\* _state < Canceled
UnfinishedButAborted == {"NotStarted", "Running"}
Unfinished == {"NotStarted", "Running", "Aborted"}
Outcome    == {"Canceled", "Failed", "Completed"}
State      == Unfinished \cup Outcome

\* With a message or with a range: only the slots tell them apart.
ProgressEvent == "Progress"

\* StartedEvent, CanceledEvent, FailedEvent and CompletedEvent have the name
\* of the state they lead to; "Release" is the system event with number 3.
HighEvent   == {"Running", "Release"} \cup Outcome
EventType   == HighEvent \cup {ProgressEvent}

\* "begin" .. "announce" is runnerStarted, "working" and "stopping" the body
\* of TaskletRunner::run, "post" .. "unlock" the end of a run on a thread that
\* is not Main, "closing" the end of a run on Main.
RunPoint  == {"idle", "begin", "lock", "announce", "working", "stopping",
              "post", "wake", "unlock", "closing"}
WaitPoint == {"idle", "lock", "check", "asleep", "woken", "expired",
              "returnTrue", "returnFalse"}

-----------------------------------------------------------------------------
(* The queue of posted events.  An event of high priority goes before the  *)
(* normal ones, but after the events the dispatch in progress covers, and  *)
(* after the high ones that are already there.                             *)

HighBeyond(n) == {i \in (n + 1) .. Len(events) : events[i] \in HighEvent}

PostFirst(e) == events' = <<e>> \o events

PostHigh(e) ==
    LET n == batch + Cardinality(HighBeyond(batch))
    IN  events' = SubSeq(events, 1, n) \o <<e>>
                    \o SubSeq(events, n + 1, Len(events))

PostNormal(e) == events' = Append(events, e)

-----------------------------------------------------------------------------
Init ==
    /\ state = "NotStarted"
    /\ mutex = NoThread
    /\ alive = TRUE
    /\ events = <<>>
    /\ batch = 0
    /\ pending = 0
    /\ run = [t \in Threads |-> "idle"]
    /\ wait = [t \in Threads |-> "idle"]
    /\ result = [t \in Threads |-> "none"]
    /\ handler = "none"
    /\ verdict = "none"
    /\ emitted = <<>>
    /\ ends = [o \in Outcome |-> 0]
    /\ told = [o \in Outcome |-> 0]
    /\ runs = 0 /\ waits = 0 /\ reported = 0

\* Where thread t is in a run or in a wait of the Tasklet.  Once the Tasklet is
\* deleted no step of it is defined any more.
RunAt(t, p) == alive /\ run[t] = p
WaitAt(t, p) == alive /\ wait[t] = p

\* Thread t is executing code of the application, which may call the Tasklet:
\* on Main this includes the slots connected to the signals it emits.
InClientCode(t) ==
    /\ WaitAt(t, "idle")
    /\ IF t = Main
       THEN \/ handler = "slots"
            \/ handler = "none" /\ run[t] \in {"idle", "working"}
       ELSE t \in Clients /\ run[t] = "idle"

-----------------------------------------------------------------------------
(* KoreEngine::RunTasklet                                                  *)

RunSynchronously(t) ==
    /\ "Synchronous" \in Modes
    /\ InClientCode(t) /\ run[t] = "idle" /\ (t = Main => handler = "none")
    /\ runs < MaxRuns
    /\ runs' = runs + 1
    /\ run' = [run EXCEPT ![t] = "begin"]
    /\ UNCHANGED <<state, mutex, alive, events, batch, pending, wait, result,
                   handler, verdict, emitted, ends, told, waits, reported>>

RunAsynchronously(t) ==
    /\ "Asynchronous" \in Modes
    /\ InClientCode(t)
    /\ runs < MaxRuns
    /\ runs' = runs + 1
    /\ pending' = pending + 1
    /\ UNCHANGED <<state, mutex, alive, events, batch, run, wait, result,
                   handler, verdict, emitted, ends, told, waits, reported>>

\* A thread of the pool takes a queued run.
TakeJob(t) ==
    /\ t \in Workers /\ RunAt(t, "idle") /\ pending > 0
    /\ pending' = pending - 1
    /\ run' = [run EXCEPT ![t] = "begin"]
    /\ UNCHANGED <<state, mutex, alive, events, batch, wait, result, handler,
                   verdict, emitted, ends, told, runs, waits, reported>>

-----------------------------------------------------------------------------
(* Tasklet::runnerStarted: the mutex taken here is held until the run ends. *)

LockIgnored == TRUE
LockIsFree == mutex = NoThread

MarkRunning(t) ==
    /\ RunAt(t, "begin")
    /\ state' = "Running"
    /\ run' = [run EXCEPT ![t] = "lock"]
    /\ UNCHANGED <<mutex, alive, events, batch, pending, wait, result,
                   handler, verdict, emitted, ends, told, runs, waits,
                   reported>>

LockForRun(t) ==
    /\ RunAt(t, "lock") /\ LockIsFree
    /\ mutex' = t
    /\ run' = [run EXCEPT ![t] = "announce"]
    /\ UNCHANGED <<state, alive, events, batch, pending, wait, result,
                   handler, verdict, emitted, ends, told, runs, waits,
                   reported>>

AnnounceStart(t) ==
    /\ RunAt(t, "announce")
    /\ run' = [run EXCEPT ![t] = "working"]
    /\ IF t = Main
       THEN /\ state' = "Running"
            /\ emitted' = Append(emitted, "started")
            /\ UNCHANGED events
       ELSE /\ PostHigh("Running")
            /\ UNCHANGED <<state, emitted>>
    /\ UNCHANGED <<mutex, alive, batch, pending, wait, result, handler,
                   verdict, ends, told, runs, waits, reported>>

-----------------------------------------------------------------------------
(* What the body of a runner does to its Tasklet.  On Main it only goes on *)
(* when the slots called by its signals have returned.                     *)

Working(t) == RunAt(t, "working") /\ wait[t] = "idle"

ReportProgress(t) ==
    /\ Working(t) /\ reported < MaxProgress
    /\ reported' = reported + 1
    /\ IF t = Main
       THEN emitted' = Append(emitted, "progress") /\ UNCHANGED events
       ELSE PostNormal(ProgressEvent) /\ UNCHANGED emitted
    /\ UNCHANGED <<state, mutex, alive, batch, pending, run, wait, result,
                   handler, verdict, ends, told, runs, waits>>

KeepRunning == state = "Running"

\* The runner polls keepRunning, and stops when it must.
StopRunning(t) ==
    /\ Working(t) /\ ~KeepRunning
    /\ run' = [run EXCEPT ![t] = "stopping"]
    /\ UNCHANGED <<state, mutex, alive, events, batch, pending, wait, result,
                   handler, verdict, emitted, ends, told, runs, waits,
                   reported>>

\* runnerCanceled, runnerFailed and runnerCompleted, up to the event.  A run
\* may complete or fail without ever polling; it cancels because it polled.
EndRun(t, o) ==
    /\ \/ o = "Canceled" /\ RunAt(t, "stopping")
       \/ o # "Canceled" /\ Working(t)
    /\ state' = o
    /\ verdict' = o
    /\ ends' = [ends EXCEPT ![o] = @ + 1]
    /\ IF t = Main
       THEN /\ run' = [run EXCEPT ![t] = "closing"]
            /\ handler' = o
       ELSE /\ run' = [run EXCEPT ![t] = "post"]
            /\ UNCHANGED handler
    /\ UNCHANGED <<mutex, alive, events, batch, pending, wait, result,
                   emitted, told, runs, waits, reported>>

\* runnerCanceled posts the number of the state Canceled, which is that of a
\* system event, and not the number of CanceledEvent.
EndEventSwapped(o) == IF o = "Failed" THEN "Completed" ELSE o
EndEvent(o) == IF o = "Canceled" THEN "Release" ELSE o

PostEnd(t) ==
    /\ RunAt(t, "post")
    /\ PostHigh(EndEvent(verdict))
    /\ run' = [run EXCEPT ![t] = "wake"]
    /\ UNCHANGED <<state, mutex, alive, batch, pending, wait, result, handler,
                   verdict, emitted, ends, told, runs, waits, reported>>

\* QWaitCondition::wakeOne: one sleeper wakes up, if there is one.
NoSleepers == {}
Sleepers == {t \in Threads : wait[t] = "asleep"}

WakeOne(t) ==
    /\ RunAt(t, "wake")
    /\ run' = [run EXCEPT ![t] = "unlock"]
    /\ IF Sleepers = {}
       THEN UNCHANGED wait
       ELSE \E w \in Sleepers : wait' = [wait EXCEPT ![w] = "woken"]
    /\ UNCHANGED <<state, mutex, alive, events, batch, pending, result,
                   handler, verdict, emitted, ends, told, runs, waits,
                   reported>>

\* The unlock is the last statement on both paths.
RunIsOverElsewhere(t) == RunAt(t, "unlock")
RunIsOver(t) ==
    \/ RunAt(t, "unlock")
    \/ RunAt(t, "closing") /\ handler = "none"

UnlockRun(t) ==
    /\ RunIsOver(t)
    /\ mutex' = NoThread
    /\ run' = [run EXCEPT ![t] = "idle"]
    /\ UNCHANGED <<state, alive, events, batch, pending, wait, result,
                   handler, verdict, emitted, ends, told, runs, waits,
                   reported>>

-----------------------------------------------------------------------------
(* The event loop of Main and Tasklet::customEvent.                        *)

\* Main takes the next event, starting a new dispatch when the last is over.
TakeEventOnly(e) ==
    /\ RunAt(Main, "idle") /\ wait[Main] = "idle" /\ handler = "none"
    /\ events # <<>> /\ e = Head(events)
    /\ events' = Tail(events)
    /\ batch' = IF batch = 0 THEN Len(events) ELSE batch

TakeEvent(e) ==
    /\ RunAt(Main, "idle") /\ wait[Main] = "idle" /\ handler = "none"
    /\ events # <<>> /\ e = Head(events)
    /\ events' = Tail(events)
    /\ batch' = (IF batch = 0 THEN Len(events) ELSE batch) - 1

DeliverStarted ==
    /\ TakeEvent("Running")
    /\ state' = "Running"
    /\ emitted' = Append(emitted, "started")
    /\ UNCHANGED <<mutex, alive, pending, run, wait, result, handler, verdict,
                   ends, told, runs, waits, reported>>

DeliverProgress ==
    /\ TakeEvent(ProgressEvent)
    /\ emitted' = Append(emitted, "progress")
    /\ UNCHANGED <<state, mutex, alive, pending, run, wait, result, handler,
                   verdict, ends, told, runs, waits, reported>>

DeliverEnd(o) ==
    /\ TakeEvent(o)
    /\ state' = o
    /\ handler' = o
    /\ UNCHANGED <<mutex, alive, pending, run, wait, result, verdict, emitted,
                   ends, told, runs, waits, reported>>

\* QObject::event ignores a system event that no handler is written for.
DeliverOther ==
    /\ TakeEvent("Release")
    /\ UNCHANGED <<state, mutex, alive, pending, run, wait, result, handler,
                   verdict, emitted, ends, told, runs, waits, reported>>

\* emit ended( _state ) reads _state again, which other threads may have
\* written since the event set it.
EmitEnded ==
    /\ alive /\ handler \in Outcome
    /\ emitted' = Append(emitted, state)
    /\ told' = [told EXCEPT ![handler] = @ + 1]
    /\ handler' = "slots"
    /\ UNCHANGED <<state, mutex, alive, events, batch, pending, run, wait,
                   result, verdict, ends, runs, waits, reported>>

\* The slots have returned: the Tasklet is destroyed if it was to be; the
\* events still posted to it go with it.
LeaveHandler ==
    /\ WaitAt(Main, "idle") /\ handler = "slots"
    /\ handler' = "none"
    /\ IF AutoDelete /\ Deletable
       THEN alive' = FALSE /\ events' = <<>> /\ batch' = 0
       ELSE UNCHANGED <<alive, events, batch>>
    /\ UNCHANGED <<state, mutex, pending, run, wait, result, verdict, emitted,
                   ends, told, runs, waits, reported>>

-----------------------------------------------------------------------------
(* Tasklet::cancel                                                         *)

Cancel(t) ==
    /\ t \in Cancellers /\ InClientCode(t)
    /\ state' = "Aborted"
    /\ UNCHANGED <<mutex, alive, events, batch, pending, run, wait, result,
                   handler, verdict, emitted, ends, told, runs, waits,
                   reported>>

-----------------------------------------------------------------------------
(* Tasklet::waitForFinished                                                *)

CallWait(t) ==
    /\ t \in Waiters /\ InClientCode(t) /\ waits < MaxWaits
    /\ waits' = waits + 1
    /\ wait' = [wait EXCEPT ![t] = "lock"]
    /\ UNCHANGED <<state, mutex, alive, events, batch, pending, run, result,
                   handler, verdict, emitted, ends, told, runs, reported>>

\* The locker takes the mutex, on entry or on the way out of the sleep.
LockToWait(t) ==
    /\ alive /\ wait[t] \in {"lock", "woken", "expired"} /\ LockIsFree
    /\ mutex' = t
    /\ wait' = [wait EXCEPT ![t] = CASE @ = "lock"    -> "check"
                                     [] @ = "woken"   -> "returnTrue"
                                     [] @ = "expired" -> "returnFalse"]
    /\ UNCHANGED <<state, alive, events, batch, pending, run, result, handler,
                   verdict, emitted, ends, told, runs, waits, reported>>

\* Sleeping on the condition releases the mutex in the same step.
CheckFinished(t) ==
    /\ WaitAt(t, "check")
    /\ IF state \in Unfinished
       THEN /\ wait' = [wait EXCEPT ![t] = "asleep"]
            /\ mutex' = NoThread
       ELSE /\ wait' = [wait EXCEPT ![t] = "returnTrue"]
            /\ UNCHANGED mutex
    /\ UNCHANGED <<state, alive, events, batch, pending, run, result, handler,
                   verdict, emitted, ends, told, runs, waits, reported>>

Expire(t) ==
    /\ t \in Timed /\ WaitAt(t, "asleep")
    /\ wait' = [wait EXCEPT ![t] = "expired"]
    /\ UNCHANGED <<state, mutex, alive, events, batch, pending, run, result,
                   handler, verdict, emitted, ends, told, runs, waits,
                   reported>>

ReturnFromWait(t) ==
    /\ alive /\ wait[t] \in {"returnTrue", "returnFalse"}
    /\ result' = [result EXCEPT ![t] = wait[t]]
    /\ wait' = [wait EXCEPT ![t] = "idle"]
    /\ mutex' = NoThread
    /\ UNCHANGED <<state, alive, events, batch, pending, run, handler,
                   verdict, emitted, ends, told, runs, waits, reported>>

-----------------------------------------------------------------------------
\* What the library does once it was called; the body of the runner and the
\* application decide on the rest.
Library(t) ==
    \/ MarkRunning(t) \/ LockForRun(t) \/ AnnounceStart(t)
    \/ PostEnd(t) \/ WakeOne(t) \/ UnlockRun(t)
    \/ LockToWait(t) \/ CheckFinished(t) \/ Expire(t) \/ ReturnFromWait(t)

EventLoop ==
    \/ DeliverStarted \/ DeliverProgress \/ DeliverOther
    \/ \E o \in Outcome : DeliverEnd(o)
    \/ EmitEnded \/ LeaveHandler

Runner(t) == StopRunning(t) \/ \E o \in Outcome : EndRun(t, o)

Application(t) ==
    \/ RunSynchronously(t) \/ RunAsynchronously(t)
    \/ Cancel(t) \/ CallWait(t)

Next ==
    \/ EventLoop
    \/ \E t \in Threads :
        \/ Application(t) \/ TakeJob(t)
        \/ Library(t)
        \/ Runner(t) \/ ReportProgress(t)

Spec == Init /\ [][Next]_vars

\* The scheduler runs every thread, the pool every job and Main its loop.
Scheduling ==
    /\ WF_vars(EventLoop)
    /\ \A t \in Threads : WF_vars(Library(t))
    /\ \A t \in Workers : WF_vars(TakeJob(t))

\* On top of it, a runner never works for ever.
RunnersEnd == \A t \in Threads : WF_vars(Runner(t))

FairSpec == Spec /\ Scheduling /\ RunnersEnd

-----------------------------------------------------------------------------
(* Properties.                                                             *)

TypeOK ==
    /\ state \in State
    /\ mutex \in Threads \cup {NoThread}
    /\ alive \in BOOLEAN
    /\ events \in Seq(EventType)
    /\ batch \in 0 .. Len(events)
    /\ pending \in Nat
    /\ run \in [Threads -> RunPoint]
    /\ wait \in [Threads -> WaitPoint]
    /\ result \in [Threads -> {"none", "returnTrue", "returnFalse"}]
    /\ handler \in Outcome \cup {"none", "slots"}
    /\ verdict \in Outcome \cup {"none"}
    /\ emitted \in Seq(State \cup {"started", "progress"})
    /\ ends \in [Outcome -> Nat]
    /\ told \in [Outcome -> Nat]
    /\ runs \in 0 .. MaxRuns
    /\ waits \in 0 .. MaxWaits
    /\ reported \in 0 .. MaxProgress

\* Where the code of thread t runs with _waitMutex held: from the lock in
\* runnerStarted to the unlock at the end of the run, and in waitForFinished
\* outside of the sleep.
InSection(t) ==
    \/ run[t] \in {"announce", "working", "stopping", "post", "wake", "unlock",
                   "closing"}
    \/ wait[t] \in {"check", "returnTrue", "returnFalse"}

\* The mutex that runnerStarted leaves locked is held by the thread of the run
\* until that run ends, so two runs of a Tasklet never overlap and no
\* waitForFinished looks at _state while the body of a run executes.
RunsAreSerialised == \A t \in Threads : InSection(t) <=> mutex = t

\* waitForFinished never returns true before a run has ended: not when the
\* wait was entered after a cancel, not after a late StartedEvent, and not
\* when the thread was woken.
WaitTrueMeansEnded ==
    \A t \in Threads : (wait[t] = "returnTrue" \/ result[t] = "returnTrue")
                          => verdict # "none"

\* How many of the signals emitted up to the i-th satisfy S.
CountTo(i, S) == Cardinality({j \in 1 .. i : emitted[j] \in S})

\* A slot never hears of more runs that ended than of runs that started,
\* whatever the threads of the runs and the priorities of their events: the
\* receiver of ended() may rely on started() having come.
NoEndBeforeStart ==
    \A i \in 1 .. Len(emitted) : CountTo(i, State) <= CountTo(i, {"started"})

\* While a thread without a timeout sleeps in waitForFinished and a run executes
\* elsewhere than on Main, the end of that run wakes a thread: no wake-up is
\* lost.  It may be another one that sleeps, because wakeOne wakes one.
SleeperIsWoken ==
    \A t \in Waiters \ Timed :
        wait[t] = "asleep" /\ (\E r \in Threads \ {Main} : run[r] = "working")
            ~> \E u \in Waiters : wait[u] = "woken"

\* A wait with a timeout returns, provided the runs do: the mutex always comes
\* back, whichever path the end of a run takes.
TimedWaitReturns ==
    \A t \in Timed : wait[t] # "idle" ~> wait[t] = "idle"

\* Every run that ends is announced by ended(): Tasklet.hpp says the calls that
\* end a run handle the dispatch of that signal.
EndIsAnnounced ==
    verdict # "none" ~> \E i \in 1 .. Len(emitted) : emitted[i] \in State

\* Tasklet.hpp: waitForFinished waits for the Tasklet to be finished.  So once
\* a run has ended, a thread that waits comes back (or the Tasklet runs again,
\* which MaxRuns = 1 excludes).
WaiterReturns ==
    \A t \in Waiters :
        (wait[t] # "idle" /\ verdict # "none") ~> wait[t] = "idle"

\* The signals follow TaskletPromise, whatever threads run the Tasklet and
\* cancel it; a run that was canceled is excepted from the obligation to
\* announce its end (see EndIsAnnounced).
Promise == INSTANCE TaskletPromise
               WITH telling <- IF handler \in Outcome THEN handler ELSE "none",
                    said <- IF handler \in Outcome THEN state ELSE "none",
                    signals <- emitted,
                    Announced <- {"Failed", "Completed"},
                    MaxEnds <- MaxRuns
PromiseKept == Promise!Spec

\* Tasklet.hpp, of the parameter of ended(): "state at the end".  So each
\* outcome is told as often as an end with that outcome was announced.
EndedTellsTheOutcome ==
    \A o \in Outcome : CountTo(Len(emitted), {o}) = told[o]
=============================================================================
