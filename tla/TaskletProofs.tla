---------------------------- MODULE TaskletProofs ----------------------------
(***************************************************************************)
(* The invariants of Tasklet, for any number of threads, runs, waits and   *)
(* progress reports.                                                       *)
(***************************************************************************)
EXTENDS Tasklet, FiniteSetTheorems, SequenceTheorems, TLAPS

(* Posting keeps the queue a sequence of events and makes it one longer.   *)
LEMMA PostHighType ==
    ASSUME NEW S, events \in Seq(S), batch \in 0 .. Len(events),
           NEW e \in S, PostHigh(e)
    PROVE  /\ events' \in Seq(S)
           /\ Len(events') = Len(events) + 1
<1> DEFINE n == batch + Cardinality(HighBeyond(batch))
<1>1. batch \in Nat /\ Len(events) \in Nat /\ batch <= Len(events)
  OBVIOUS
<1>2. n \in Nat /\ n <= Len(events)
  <2>1. /\ IsFiniteSet((batch + 1) .. Len(events))
        /\ Cardinality((batch + 1) .. Len(events)) = Len(events) - batch
    <3> DEFINE k == batch + 1
               l == Len(events)
    <3>1. k \in Int /\ l \in Int /\ (k > l => l = batch) /\ l - k + 1 = l - batch
      BY <1>1
    <3> HIDE DEF k, l
    <3>2. /\ IsFiniteSet(k .. l)
          /\ Cardinality(k .. l) = IF k > l THEN 0 ELSE l - k + 1
      BY <3>1, FS_Interval
    <3>3. l = batch => l - batch = 0
      BY <1>1 DEF l
    <3>4. QED
      BY <3>1, <3>2, <3>3 DEF k, l
  <2>2. HighBeyond(batch) \subseteq (batch + 1) .. Len(events)
    BY DEF HighBeyond
  <2>3. /\ Cardinality(HighBeyond(batch)) \in Nat
        /\ Cardinality(HighBeyond(batch)) <= Len(events) - batch
    BY <2>1, <2>2, FS_Subset, FS_CardinalityType
  <2>4. QED
    BY <1>1, <2>3
<1>3. events' = SubSeq(events, 1, n) \o <<e>>
                    \o SubSeq(events, n + 1, Len(events))
  BY DEF PostHigh
<1>4. /\ SubSeq(events, 1, n) \in Seq(S)
      /\ Len(SubSeq(events, 1, n)) = n
  BY <1>1, <1>2
<1>5. /\ SubSeq(events, n + 1, Len(events)) \in Seq(S)
      /\ Len(SubSeq(events, n + 1, Len(events))) = Len(events) - n
  BY <1>1, <1>2
<1>6. <<e>> \in Seq(S) /\ Len(<<e>>) = 1
  OBVIOUS
<1> DEFINE a == SubSeq(events, 1, n)
           c == SubSeq(events, n + 1, Len(events))
<1>7. a \in Seq(S) /\ c \in Seq(S) /\ events' = a \o <<e>> \o c
  BY <1>3, <1>4, <1>5
<1>8. Len(a) = n /\ Len(c) = Len(events) - n
  BY <1>4, <1>5
<1> HIDE DEF a, c, n
<1>9. /\ a \o <<e>> \in Seq(S)
      /\ Len(a \o <<e>>) = n + 1
  BY <1>2, <1>7, <1>8
<1>10. /\ events' \in Seq(S)
       /\ Len(events') = Len(a \o <<e>>) + Len(c)
  BY <1>7, <1>9
<1>11. QED
  BY <1>1, <1>2, <1>8, <1>9, <1>10

(* Taking an event leaves a shorter queue, and what is left of the dispatch. *)
LEMMA TakeEventType ==
    ASSUME NEW S, events \in Seq(S), batch \in 0 .. Len(events),
           NEW e, TakeEvent(e)
    PROVE  /\ events' \in Seq(S)
           /\ batch' \in 0 .. Len(events')
           /\ e \in S
<1>1. events # <<>> /\ events' = Tail(events)
  BY DEF TakeEvent
<1>2. /\ events' \in Seq(S)
      /\ Len(events') = Len(events) - 1 /\ Len(events) > 0
  BY <1>1
<1>3. batch' = (IF batch = 0 THEN Len(events) ELSE batch) - 1
  BY DEF TakeEvent
<1>4. e \in S
  BY DEF TakeEvent
<1>5. QED
  BY <1>2, <1>3, <1>4

(* A run that posts, wakes or unlocks has been decided.                    *)
DecidedAtEnd ==
    \A t \in Threads :
        run[t] \in {"post", "wake", "unlock", "closing"} => verdict # "none"

LEMMA DecidedAtEndStep ==
    ASSUME run \in [Threads -> RunPoint], DecidedAtEnd, [Next]_vars
    PROVE  DecidedAtEnd'
<1> USE DEF DecidedAtEnd
<1>1. ASSUME NEW t \in Threads, MarkRunning(t) \/ LockForRun(t) \/ AnnounceStart(t)
                                 \/ StopRunning(t) \/ TakeJob(t)
                                 \/ RunSynchronously(t)
      PROVE  DecidedAtEnd'
  BY <1>1 DEF MarkRunning, LockForRun, AnnounceStart, StopRunning, TakeJob,
              RunSynchronously
<1>2. ASSUME NEW t \in Threads, NEW o \in Outcome, EndRun(t, o)
      PROVE  DecidedAtEnd'
  BY <1>2 DEF EndRun, Outcome
<1>3. ASSUME NEW t \in Threads, PostEnd(t) \/ WakeOne(t) \/ UnlockRun(t)
      PROVE  DecidedAtEnd'
  BY <1>3 DEF PostEnd, WakeOne, UnlockRun, RunAt
<1>4. ASSUME UNCHANGED <<run, verdict>>
      PROVE  DecidedAtEnd'
  BY <1>4
<1>5. CASE EventLoop
  BY <1>4, <1>5 DEF EventLoop, DeliverStarted, DeliverProgress, DeliverEnd,
                    DeliverOther, EmitEnded, LeaveHandler
<1>6. ASSUME NEW t \in Threads,
             \/ RunAsynchronously(t) \/ ReportProgress(t) \/ Cancel(t)
             \/ CallWait(t) \/ LockToWait(t) \/ CheckFinished(t) \/ Expire(t)
             \/ ReturnFromWait(t)
      PROVE  DecidedAtEnd'
  BY <1>4, <1>6 DEF RunAsynchronously, ReportProgress, Cancel, CallWait, LockToWait,
                    CheckFinished, Expire, ReturnFromWait
<1>7. CASE UNCHANGED vars
  BY <1>4, <1>7 DEF vars
<1>8. QED
  BY <1>1, <1>2, <1>3, <1>5, <1>6, <1>7 DEF Next, Application, Library, Runner

(* Every variable keeps to its type; in particular the dispatch in progress *)
(* never covers more events than there are (Qt's insertion offset).         *)
THEOREM TypeCorrect == Spec => []TypeOK
<1>1. Init => TypeOK /\ DecidedAtEnd
  BY ThreadsAssumption, ParametersAssumption
  DEF Init, TypeOK, DecidedAtEnd, State, Unfinished, EventType, ProgressEvent, HighEvent, Outcome, RunPoint,
      WaitPoint
<1>2. TypeOK /\ DecidedAtEnd /\ [Next]_vars => TypeOK' /\ DecidedAtEnd'
  <2> SUFFICES ASSUME TypeOK, DecidedAtEnd, [Next]_vars PROVE TypeOK'
    BY DecidedAtEndStep DEF TypeOK
  <2> USE DEF TypeOK, State, Unfinished, EventType, ProgressEvent, HighEvent, Outcome, RunPoint,
              WaitPoint, RunAt, WaitAt
  <2>1. ASSUME NEW t \in Threads, RunSynchronously(t) PROVE TypeOK'
    BY <2>1, ParametersAssumption DEF RunSynchronously
  <2>2. ASSUME NEW t \in Threads, RunAsynchronously(t) PROVE TypeOK'
    BY <2>2, ParametersAssumption DEF RunAsynchronously
  <2>3. ASSUME NEW t \in Threads, TakeJob(t) PROVE TypeOK'
    BY <2>3 DEF TakeJob
  <2>4. ASSUME NEW t \in Threads, MarkRunning(t) PROVE TypeOK'
    BY <2>4 DEF MarkRunning
  <2>5. ASSUME NEW t \in Threads, LockForRun(t) PROVE TypeOK'
    BY <2>5 DEF LockForRun
  <2>6. ASSUME NEW t \in Threads, AnnounceStart(t) PROVE TypeOK'
    <3>1. run' \in [Threads -> RunPoint]
      BY <2>6 DEF AnnounceStart
    <3>2. CASE t = Main
      <4>1. emitted' \in Seq(State \cup {"started", "progress"})
        <5>1. emitted' = Append(emitted, "started")
          BY <2>6, <3>2 DEF AnnounceStart
        <5>2. QED
          BY <5>1
      <4>2. QED
        BY <2>6, <3>1, <3>2, <4>1 DEF AnnounceStart
    <3>3. CASE t # Main
      <4>1. PostHigh("Running") /\ UNCHANGED <<state, emitted, batch>>
        BY <2>6, <3>3 DEF AnnounceStart
      <4>2. /\ events' \in Seq(EventType)
            /\ Len(events') = Len(events) + 1
        BY <4>1, PostHighType
      <4>3. batch' \in 0 .. Len(events')
        BY <4>1, <4>2
      <4>4. QED
        BY <2>6, <3>1, <4>1, <4>2, <4>3 DEF AnnounceStart
    <3>4. QED
      BY <3>2, <3>3
  <2>7. ASSUME NEW t \in Threads, ReportProgress(t) PROVE TypeOK'
    <3>1. reported' \in 0 .. MaxProgress
      BY <2>7, ParametersAssumption DEF ReportProgress
    <3>2. /\ events' \in Seq(EventType)
          /\ Len(events') >= Len(events)
          /\ emitted' \in Seq(State \cup {"started", "progress"})
      <4>1. CASE t = Main
        <5>1. emitted' = Append(emitted, "progress") /\ events' = events
          BY <2>7, <4>1 DEF ReportProgress
        <5>2. QED
          BY <5>1
      <4>2. CASE t # Main
        <5>1. events' = Append(events, "Progress") /\ emitted' = emitted
          BY <2>7, <4>2 DEF ReportProgress, PostNormal, ProgressEvent
        <5>2. QED
          BY <5>1
      <4>3. QED
        BY <4>1, <4>2
    <3>3. batch' \in 0 .. Len(events')
      BY <2>7, <3>2 DEF ReportProgress
    <3>4. QED
      BY <2>7, <3>1, <3>2, <3>3 DEF ReportProgress
  <2>8. ASSUME NEW t \in Threads, StopRunning(t) PROVE TypeOK'
    BY <2>8 DEF StopRunning
  <2>9. ASSUME NEW t \in Threads, NEW o \in Outcome, EndRun(t, o) PROVE TypeOK'
    <3>1. ends' \in [Outcome -> Nat]
      BY <2>9 DEF EndRun
    <3>2. handler' \in Outcome \cup {"none", "slots"} /\ run' \in [Threads -> RunPoint]
      BY <2>9 DEF EndRun
    <3>3. QED
      BY <2>9, <3>1, <3>2 DEF EndRun
  <2>10. ASSUME NEW t \in Threads, PostEnd(t) PROVE TypeOK'
    <3>1. EndEvent(verdict) \in EventType
      BY <2>10 DEF PostEnd, EndEvent, DecidedAtEnd
    <3>2. /\ events' \in Seq(EventType)
          /\ Len(events') = Len(events) + 1
      BY <2>10, <3>1, PostHighType DEF PostEnd
    <3>3. batch' \in 0 .. Len(events')
      BY <2>10, <3>2 DEF PostEnd
    <3>4. QED
      BY <2>10, <3>2, <3>3 DEF PostEnd
  <2>11. ASSUME NEW t \in Threads, WakeOne(t) PROVE TypeOK'
    BY <2>11 DEF WakeOne
  <2>12. ASSUME NEW t \in Threads, UnlockRun(t) PROVE TypeOK'
    BY <2>12 DEF UnlockRun
  <2>13. CASE DeliverStarted
    <3>1. events' \in Seq(EventType) /\ batch' \in 0 .. Len(events')
      BY <2>13, TakeEventType DEF DeliverStarted
    <3>2. QED
      BY <2>13, <3>1 DEF DeliverStarted
  <2>14. CASE DeliverProgress
    <3>1. events' \in Seq(EventType) /\ batch' \in 0 .. Len(events')
      BY <2>14, TakeEventType DEF DeliverProgress, ProgressEvent
    <3>2. QED
      BY <2>14, <3>1 DEF DeliverProgress
  <2>15. ASSUME NEW o \in Outcome, DeliverEnd(o) PROVE TypeOK'
    <3>1. events' \in Seq(EventType) /\ batch' \in 0 .. Len(events')
      BY <2>15, TakeEventType DEF DeliverEnd
    <3>2. QED
      BY <2>15, <3>1 DEF DeliverEnd
  <2>16. CASE DeliverOther
    <3>1. events' \in Seq(EventType) /\ batch' \in 0 .. Len(events')
      BY <2>16, TakeEventType DEF DeliverOther
    <3>2. QED
      BY <2>16, <3>1 DEF DeliverOther
  <2>17. CASE EmitEnded
    <3>1. told' \in [Outcome -> Nat]
      BY <2>17 DEF EmitEnded
    <3>2. QED
      BY <2>17, <3>1 DEF EmitEnded
  <2>18. CASE LeaveHandler
    <3>1. events' \in Seq(EventType) /\ batch' \in 0 .. Len(events')
      <4>1. CASE events' = <<>> /\ batch' = 0
        BY <4>1
      <4>2. CASE UNCHANGED <<events, batch>>
        BY <4>2
      <4>3. QED
        BY <2>18, <4>1, <4>2 DEF LeaveHandler
    <3>2. QED
      BY <2>18, <3>1 DEF LeaveHandler
  <2>19. ASSUME NEW t \in Threads, Cancel(t) PROVE TypeOK'
    BY <2>19 DEF Cancel
  <2>20. ASSUME NEW t \in Threads, CallWait(t) PROVE TypeOK'
    BY <2>20, ParametersAssumption DEF CallWait
  <2>21. ASSUME NEW t \in Threads, LockToWait(t) PROVE TypeOK'
    BY <2>21 DEF LockToWait
  <2>22. ASSUME NEW t \in Threads, CheckFinished(t) PROVE TypeOK'
    BY <2>22 DEF CheckFinished
  <2>23. ASSUME NEW t \in Threads, Expire(t) PROVE TypeOK'
    BY <2>23 DEF Expire
  <2>24. ASSUME NEW t \in Threads, ReturnFromWait(t) PROVE TypeOK'
    BY <2>24 DEF ReturnFromWait
  <2>25. CASE UNCHANGED vars
    BY <2>25 DEF vars
  <2>26. QED
    BY <2>1, <2>2, <2>3, <2>4, <2>5, <2>6, <2>7, <2>8, <2>9, <2>10, <2>11,
       <2>12, <2>13, <2>14, <2>15, <2>16, <2>17, <2>18, <2>19, <2>20,
       <2>21, <2>22, <2>23, <2>24, <2>25
    DEF Next, EventLoop, Application, Library, Runner
<1>3. QED
  BY <1>1, <1>2, PTL DEF Spec

-----------------------------------------------------------------------------
(* Mutual exclusion.  No thread is in the section both by its run and by a *)
(* wait: a slot that waits during a run on its own thread only blocks.     *)
NeverInBoth ==
    \A t \in Threads :
        ~ /\ run[t] \in {"announce", "working", "stopping", "post", "wake",
                          "unlock", "closing"}
          /\ wait[t] \in {"check", "returnTrue", "returnFalse"}

MutexInv == RunsAreSerialised /\ NeverInBoth

LEMMA MutexStep ==
    ASSUME TypeOK, MutexInv, [Next]_vars
    PROVE  MutexInv'
<1> USE DEF MutexInv, RunsAreSerialised, NeverInBoth, InSection
<1>1. /\ run \in [Threads -> RunPoint]
      /\ wait \in [Threads -> WaitPoint]
      /\ NoThread \notin Threads
  BY ThreadsAssumption DEF TypeOK
<1>2. ASSUME UNCHANGED <<run, wait, mutex>>
      PROVE  MutexInv'
  BY <1>2
<1>3. ASSUME NEW t \in Threads,
             TakeJob(t) \/ RunSynchronously(t) \/ MarkRunning(t)
      PROVE  MutexInv'
  BY <1>1, <1>3 DEF TakeJob, RunSynchronously, MarkRunning, RunAt
<1>4. ASSUME NEW t \in Threads, LockForRun(t)
      PROVE  MutexInv'
  BY <1>1, <1>4 DEF LockForRun, RunAt, LockIsFree
<1>5. ASSUME NEW t \in Threads,
             AnnounceStart(t) \/ StopRunning(t) \/ PostEnd(t)
      PROVE  MutexInv'
  BY <1>1, <1>5 DEF AnnounceStart, StopRunning, PostEnd, Working, RunAt
<1>6. ASSUME NEW t \in Threads, NEW o \in Outcome, EndRun(t, o)
      PROVE  MutexInv'
  BY <1>1, <1>6 DEF EndRun, Working, RunAt
<1>7. ASSUME NEW t \in Threads, WakeOne(t)
      PROVE  MutexInv'
  <2>1. /\ run[t] = "wake"
        /\ run' = [run EXCEPT ![t] = "unlock"]
        /\ mutex' = mutex
    BY <1>7 DEF WakeOne, RunAt
  <2>2. \A u \in Threads :
            wait'[u] = wait[u] \/ (wait[u] = "asleep" /\ wait'[u] = "woken")
    BY <1>1, <1>7 DEF WakeOne, Sleepers
  <2>3. QED
    BY <1>1, <2>1, <2>2
<1>8. ASSUME NEW t \in Threads, UnlockRun(t)
      PROVE  MutexInv'
  BY <1>1, <1>8 DEF UnlockRun, RunIsOver, RunAt
<1>9. ASSUME NEW t \in Threads, CallWait(t) \/ Expire(t)
      PROVE  MutexInv'
  BY <1>1, <1>9 DEF CallWait, Expire, InClientCode, WaitAt
<1>10. ASSUME NEW t \in Threads, LockToWait(t)
       PROVE  MutexInv'
  BY <1>1, <1>10 DEF LockToWait, LockIsFree
<1>11. ASSUME NEW t \in Threads, CheckFinished(t)
       PROVE  MutexInv'
  BY <1>1, <1>11 DEF CheckFinished, WaitAt
<1>12. ASSUME NEW t \in Threads, ReturnFromWait(t)
       PROVE  MutexInv'
  BY <1>1, <1>12 DEF ReturnFromWait
<1>13. CASE EventLoop
  BY <1>2, <1>13 DEF EventLoop, DeliverStarted, DeliverProgress, DeliverEnd,
                     DeliverOther, EmitEnded, LeaveHandler
<1>14. ASSUME NEW t \in Threads,
              RunAsynchronously(t) \/ ReportProgress(t) \/ Cancel(t)
       PROVE  MutexInv'
  BY <1>2, <1>14 DEF RunAsynchronously, ReportProgress, Cancel
<1>15. CASE UNCHANGED vars
  BY <1>2, <1>15 DEF vars
<1>16. QED
  BY <1>3, <1>4, <1>5, <1>6, <1>7, <1>8, <1>9, <1>10, <1>11, <1>12, <1>13, <1>14,
     <1>15
  DEF Next, Application, Library, Runner

(* The mutex that runnerStarted locks and the end of the run unlocks       *)
(* belongs to exactly the thread that runs or looks at the state: runs     *)
(* never overlap, for any number of threads and of calls.                  *)
THEOREM Serialised == Spec => []RunsAreSerialised
<1>1. Init => MutexInv
  BY ThreadsAssumption
  DEF Init, MutexInv, RunsAreSerialised, NeverInBoth, InSection
<1>2. TypeOK /\ MutexInv /\ [Next]_vars => MutexInv'
  BY MutexStep
<1>3. QED
  BY <1>1, <1>2, TypeCorrect, PTL DEF Spec, MutexInv

-----------------------------------------------------------------------------
(* As long as no run has ended, nothing in the system says that one has.   *)
NothingSaysEnded ==
    verdict = "none" =>
        /\ state \in Unfinished
        /\ events \in Seq(EventType \ Outcome)
        /\ \A t \in Threads :
              /\ wait[t] \notin {"woken", "returnTrue"}
              /\ result[t] # "returnTrue"

LEMMA NothingSaysEndedStep ==
    ASSUME TypeOK, DecidedAtEnd, NothingSaysEnded, [Next]_vars
    PROVE  NothingSaysEnded'
<1> SUFFICES ASSUME verdict' = "none"
             PROVE  /\ state' \in Unfinished
                    /\ events' \in Seq(EventType \ Outcome)
                    /\ \A t \in Threads :
                          /\ wait'[t] \notin {"woken", "returnTrue"}
                          /\ result'[t] # "returnTrue"
  BY DEF NothingSaysEnded
<1> DEFINE Quiet == EventType \ Outcome
<1>1. verdict = "none"
  <2>1. ASSUME NEW t \in Threads, NEW o \in Outcome, EndRun(t, o) PROVE FALSE
    BY <2>1 DEF EndRun, Outcome
  <2>2. QED
    BY <2>1 DEF Next, vars, EventLoop, Application, Library, Runner, DeliverStarted,
       DeliverProgress, DeliverEnd, DeliverOther, EmitEnded, LeaveHandler,
       RunSynchronously, RunAsynchronously, TakeJob, MarkRunning, LockForRun,
       AnnounceStart, ReportProgress, StopRunning, PostEnd, WakeOne, UnlockRun,
       Cancel, CallWait, LockToWait, CheckFinished, Expire, ReturnFromWait
<1>2. /\ state \in Unfinished
      /\ events \in Seq(Quiet)
      /\ \A t \in Threads : wait[t] \notin {"woken", "returnTrue"}
      /\ \A t \in Threads : result[t] # "returnTrue"
      /\ \A t \in Threads : run[t] \notin {"post", "wake", "unlock", "closing"}
  BY <1>1 DEF NothingSaysEnded, DecidedAtEnd
<1>3. /\ "Running" \in Unfinished /\ "Aborted" \in Unfinished
      /\ "Running" \in Quiet /\ "Progress" \in Quiet
  BY DEF Unfinished, EventType, ProgressEvent, HighEvent, Outcome
<1>4. /\ wait \in [Threads -> WaitPoint] /\ batch \in 0 .. Len(events)
      /\ result \in [Threads -> {"none", "returnTrue", "returnFalse"}]
  BY DEF TypeOK
<1> HIDE DEF Quiet
<1>5. state' \in Unfinished
  <2>1. ASSUME NEW o \in Outcome, DeliverEnd(o) PROVE FALSE
    BY <1>2, <1>4, <2>1, TakeEventType DEF DeliverEnd, Quiet
  <2>2. ASSUME NEW t \in Threads, NEW o \in Outcome, EndRun(t, o) PROVE FALSE
    BY <2>2 DEF EndRun, Outcome
  <2>3. QED
    BY <1>2, <1>3, <2>1, <2>2
    DEF Next, vars, EventLoop, Application, Library, Runner, DeliverStarted,
        DeliverProgress, DeliverOther, EmitEnded, LeaveHandler, RunSynchronously,
        RunAsynchronously, TakeJob, MarkRunning, LockForRun, AnnounceStart,
        ReportProgress, StopRunning, PostEnd, WakeOne, UnlockRun, Cancel, CallWait,
        LockToWait, CheckFinished, Expire, ReturnFromWait
<1>6. events' \in Seq(Quiet)
  <2>1. CASE events' = events
    BY <1>2, <2>1
  <2>2. ASSUME NEW t \in Threads, AnnounceStart(t) PROVE events' \in Seq(Quiet)
    <3>1. PostHigh("Running") \/ events' = events
      BY <2>2 DEF AnnounceStart
    <3>2. QED
      BY <1>2, <1>3, <1>4, <3>1, PostHighType
  <2>3. ASSUME NEW t \in Threads, ReportProgress(t) PROVE events' \in Seq(Quiet)
    <3>1. events' = Append(events, "Progress") \/ events' = events
      BY <2>3 DEF ReportProgress, PostNormal, ProgressEvent
    <3>2. QED
      BY <1>2, <1>3, <3>1
  <2>4. ASSUME NEW e, TakeEvent(e) PROVE events' \in Seq(Quiet)
    BY <1>2, <1>4, <2>4, TakeEventType
  <2>5. CASE LeaveHandler
    <3>1. events' = <<>> \/ events' = events
      BY <2>5 DEF LeaveHandler
    <3>2. <<>> \in Seq(Quiet)
      OBVIOUS
    <3>3. QED
      BY <1>2, <3>1, <3>2
  <2>6. ASSUME NEW t \in Threads, PostEnd(t) PROVE FALSE
    BY <1>2, <2>6 DEF PostEnd, RunAt
  <2>7. QED
    BY <2>1, <2>2, <2>3, <2>4, <2>5, <2>6
    DEF Next, vars, EventLoop, Application, Library, Runner, DeliverStarted,
        DeliverProgress, DeliverEnd, DeliverOther, EmitEnded, RunSynchronously,
        RunAsynchronously, TakeJob, MarkRunning, LockForRun, StopRunning, EndRun,
        WakeOne, UnlockRun, Cancel, CallWait, LockToWait, CheckFinished, Expire,
        ReturnFromWait
<1> DEFINE Unaware == \A t \in Threads :
                          /\ wait'[t] \notin {"woken", "returnTrue"}
                          /\ result'[t] # "returnTrue"
<1>7. Unaware
  <2>1. CASE UNCHANGED <<wait, result>>
    BY <1>2, <2>1
  <2>2. ASSUME NEW t \in Threads, WakeOne(t) PROVE FALSE
    BY <1>2, <2>2 DEF WakeOne, RunAt
  <2>3. ASSUME NEW t \in Threads, CallWait(t) \/ Expire(t) \/ LockToWait(t)
        PROVE  Unaware
    BY <1>2, <1>4, <2>3 DEF CallWait, Expire, LockToWait
  <2>4. ASSUME NEW t \in Threads, CheckFinished(t) PROVE Unaware
    BY <1>2, <1>4, <2>4 DEF CheckFinished
  <2>5. ASSUME NEW t \in Threads, ReturnFromWait(t) PROVE Unaware
    BY <1>2, <1>4, <2>5 DEF ReturnFromWait
  <2>6. QED
    BY <2>1, <2>2, <2>3, <2>4, <2>5
    DEF Next, vars, EventLoop, Application, Library, Runner, DeliverStarted,
        DeliverProgress, DeliverEnd, DeliverOther, EmitEnded, LeaveHandler,
        RunSynchronously, RunAsynchronously, TakeJob, MarkRunning, LockForRun,
        AnnounceStart, ReportProgress, StopRunning, EndRun, PostEnd, UnlockRun, Cancel
<1>8. QED
  BY <1>5, <1>6, <1>7 DEF Quiet

(* waitForFinished returns true only when a run has ended, whatever the    *)
(* cancels, the late events and the wake-ups in between.                   *)
THEOREM WaitIsHonest == Spec => []WaitTrueMeansEnded
<1>1. Init => DecidedAtEnd /\ NothingSaysEnded
  BY DEF Init, DecidedAtEnd, NothingSaysEnded, Unfinished
<1>2. TypeOK /\ DecidedAtEnd /\ NothingSaysEnded /\ [Next]_vars
          => DecidedAtEnd' /\ NothingSaysEnded'
  BY DecidedAtEndStep, NothingSaysEndedStep DEF TypeOK
<1>3. NothingSaysEnded => WaitTrueMeansEnded
  BY DEF NothingSaysEnded, WaitTrueMeansEnded
<1>4. QED
  BY <1>1, <1>2, <1>3, TypeCorrect, PTL DEF Spec

-----------------------------------------------------------------------------
(* How many of the first k elements of a sequence are in a set.            *)
Count(s, k, S) == Cardinality({j \in 1 .. k : s[j] \in S})

LEMMA CountNat ==
    ASSUME NEW s, NEW k \in Nat, NEW S
    PROVE  IsFiniteSet({j \in 1 .. k : s[j] \in S}) /\ Count(s, k, S) \in Nat
<1>1. IsFiniteSet(1 .. k)
  BY FS_Interval
<1>2. IsFiniteSet({j \in 1 .. k : s[j] \in S})
  BY <1>1, FS_Subset
<1>3. QED
  BY <1>2, FS_CardinalityType DEF Count

LEMMA CountZero ==
    ASSUME NEW s, NEW S
    PROVE  Count(s, 0, S) = 0
<1>1. {j \in 1 .. 0 : s[j] \in S} = {}
  OBVIOUS
<1>2. QED
  BY <1>1, FS_EmptySet DEF Count

LEMMA CountNext ==
    ASSUME NEW s, NEW k \in Nat, NEW S
    PROVE  Count(s, k + 1, S) = Count(s, k, S) + IF s[k + 1] \in S THEN 1 ELSE 0
<1> DEFINE old == {j \in 1 .. k : s[j] \in S}
           new == {j \in 1 .. k + 1 : s[j] \in S}
<1>1. IsFiniteSet(old) /\ Cardinality(old) \in Nat
  BY CountNat DEF Count
<1>2. CASE s[k + 1] \in S
  <2>1. new = old \cup {k + 1} /\ k + 1 \notin old
    BY <1>2
  <2>2. Cardinality(new) = Cardinality(old) + 1
    BY <1>1, <2>1, FS_AddElement
  <2>3. QED
    BY <1>2, <2>2 DEF Count
<1>3. CASE s[k + 1] \notin S
  <2>1. new = old
    BY <1>3
  <2>2. QED
    BY <1>1, <1>3, <2>1 DEF Count
<1>4. QED
  BY <1>2, <1>3

LEMMA CountSame ==
    ASSUME NEW s, NEW t, NEW k \in Nat, NEW S, \A j \in 1 .. k : t[j] \in S <=> s[j] \in S
    PROVE  Count(t, k, S) = Count(s, k, S)
<1>1. {j \in 1 .. k : t[j] \in S} = {j \in 1 .. k : s[j] \in S}
  OBVIOUS
<1>2. QED
  BY <1>1 DEF Count

LEMMA CountRest ==
    ASSUME NEW s, NEW n \in Nat, NEW k \in Nat, NEW S, n <= k, \A j \in (n + 1) .. k : s[j] \notin S
    PROVE  Count(s, k, S) = Count(s, n, S)
<1>1. {j \in 1 .. k : s[j] \in S} = {j \in 1 .. n : s[j] \in S}
  <2>1. ASSUME NEW j \in 1 .. k, s[j] \in S
        PROVE  j \in 1 .. n
    <3>1. j \notin (n + 1) .. k
      BY <2>1
    <3>2. QED
      BY <3>1
  <2>2. \A j \in 1 .. n : j \in 1 .. k
    OBVIOUS
  <2>3. QED
    BY <2>1, <2>2
<1>2. QED
  BY <1>1 DEF Count

(* Without the first element, what is left moves up by one.                *)
LEMMA CountTail ==
    ASSUME NEW s, NEW t, NEW k \in Nat, NEW S, \A j \in 1 .. k : t[j] = s[j + 1]
    PROVE  Count(s, k + 1, S) = Count(t, k, S) + IF s[1] \in S THEN 1 ELSE 0
<1> DEFINE old == {j \in 1 .. k + 1 : s[j] \in S}
           late == {j \in 2 .. k + 1 : s[j] \in S}
           new == {j \in 1 .. k : t[j] \in S}
           f == [j \in new |-> j + 1]
<1>1. /\ IsFiniteSet(new) /\ Cardinality(new) \in Nat
  BY CountNat DEF Count
<1>2. f \in [new -> late]
  <2>1. \A j \in new : j + 1 \in late
    OBVIOUS
  <2>2. QED
    BY <2>1
<1>3. \A a, b \in new : f[a] = f[b] => a = b
  OBVIOUS
<1>4. ASSUME NEW j \in late
      PROVE  \E i \in new : f[i] = j
  <2>1. j - 1 \in 1 .. k /\ (j - 1) + 1 = j
    OBVIOUS
  <2>2. j - 1 \in new
    BY <2>1
  <2>3. QED
    BY <2>1, <2>2
<1>5. f \in Bijection(new, late)
  BY <1>2, <1>3, <1>4 DEF Bijection, Injection, Surjection, IsInjective
<1>6. IsFiniteSet(late) /\ Cardinality(late) = Cardinality(new)
  <2> HIDE DEF late, new, f
  <2>1. ExistsBijection(new, late)
    BY <1>5 DEF ExistsBijection
  <2>2. QED
    BY <1>1, <2>1, FS_Bijection
<1>7. CASE s[1] \in S
  <2>1. old = late \cup {1} /\ 1 \notin late
    BY <1>7
  <2> HIDE DEF late, old, new
  <2>2. Cardinality(old) = Cardinality(late) + 1
    BY <1>6, <2>1, FS_AddElement
  <2>3. QED
    BY <1>6, <1>7, <2>2 DEF Count, old, new
<1>8. CASE s[1] \notin S
  <2>1. old = late
    <3>1. \A j \in 1 .. k + 1 : j = 1 \/ j \in 2 .. k + 1
      OBVIOUS
    <3>2. QED
      BY <1>8, <3>1
  <2> HIDE DEF late, old, new
  <2>2. QED
    BY <1>1, <1>6, <1>8, <2>1 DEF Count, old, new
<1>9. QED
  BY <1>7, <1>8

(* How many more of the first k elements are in P than in M, for disjoint  *)
(* sets P and M.                                                           *)
Excess(s, k, P, M) == Count(s, k, P) - Count(s, k, M)
Weight(x, P, M) == IF x \in P THEN 1 ELSE IF x \in M THEN -1 ELSE 0

LEMMA ExcessZero ==
    ASSUME NEW s, NEW P, NEW M
    PROVE  Excess(s, 0, P, M) = 0
BY CountZero DEF Excess

LEMMA ExcessInt ==
    ASSUME NEW s, NEW k \in Nat, NEW P, NEW M
    PROVE  Excess(s, k, P, M) \in Int
<1>1. Count(s, k, P) \in Nat /\ Count(s, k, M) \in Nat
  BY CountNat
<1>2. QED
  BY <1>1 DEF Excess

LEMMA ExcessNext ==
    ASSUME NEW s, NEW k \in Nat, NEW P, NEW M, P \cap M = {}, NEW m, m = k + 1
    PROVE  Excess(s, m, P, M) = Excess(s, k, P, M) + Weight(s[m], P, M)
<1>1. /\ Count(s, k, P) \in Nat /\ Count(s, k, M) \in Nat
  BY CountNat
<1>2. /\ Count(s, k + 1, P) = Count(s, k, P) + IF s[k + 1] \in P THEN 1 ELSE 0
      /\ Count(s, k + 1, M) = Count(s, k, M) + IF s[k + 1] \in M THEN 1 ELSE 0
  BY CountNext
<1>3. ~(s[m] \in P /\ s[m] \in M)
  OBVIOUS
<1>4. QED
  BY <1>1, <1>2, <1>3 DEF Excess, Weight

LEMMA ExcessSame ==
    ASSUME NEW s, NEW t, NEW k \in Nat, NEW P, NEW M, \A j \in 1 .. k : t[j] = s[j]
    PROVE  Excess(t, k, P, M) = Excess(s, k, P, M)
BY CountSame DEF Excess

LEMMA ExcessRest ==
    ASSUME NEW s, NEW n \in Nat, NEW k \in Nat, NEW P, NEW M, n <= k,
           \A j \in (n + 1) .. k : s[j] \notin P /\ s[j] \notin M
    PROVE  Excess(s, k, P, M) = Excess(s, n, P, M)
BY CountRest DEF Excess

LEMMA ExcessTail ==
    ASSUME NEW s, NEW t, NEW k \in Nat, NEW P, NEW M, P \cap M = {}, NEW m, m = k + 1,
           \A j \in 1 .. k : t[j] = s[j + 1]
    PROVE  Excess(s, m, P, M) = Excess(t, k, P, M) + Weight(s[1], P, M)
<1>1. /\ Count(t, k, P) \in Nat /\ Count(t, k, M) \in Nat
  BY CountNat
<1>2. /\ Count(s, k + 1, P) = Count(t, k, P) + IF s[1] \in P THEN 1 ELSE 0
      /\ Count(s, k + 1, M) = Count(t, k, M) + IF s[1] \in M THEN 1 ELSE 0
  BY CountTail
<1>3. ~(s[1] \in P /\ s[1] \in M)
  OBVIOUS
<1>4. QED
  BY <1>1, <1>2, <1>3 DEF Excess, Weight

-----------------------------------------------------------------------------
(* Behind the dispatch in progress the high events come first, so they are *)
(* delivered in the order they were posted in.                             *)
HighFirst ==
    \A i, j \in (batch + 1) .. Len(events) :
        i < j /\ events[j] \in HighEvent => events[i] \in HighEvent

LEMMA HighPrefix ==
    ASSUME events \in Seq(EventType), batch \in 0 .. Len(events), HighFirst
    PROVE  LET n == batch + Cardinality(HighBeyond(batch))
           IN  /\ n \in batch .. Len(events)
               /\ \A i \in (batch + 1) .. n : events[i] \in HighEvent
               /\ \A i \in (n + 1) .. Len(events) : events[i] \notin HighEvent
<1> DEFINE H == HighBeyond(batch)
           k == Cardinality(H)
           b == batch
           l == Len(events)
<1>1. b \in Nat /\ l \in Nat /\ b <= l /\ b + 1 \in Int
  OBVIOUS
<1>2. \A x \in Int : b <= x => /\ IsFiniteSet((b + 1) .. x)
                               /\ Cardinality((b + 1) .. x) = x - b
  <2>1. ASSUME NEW x \in Int, b <= x
        PROVE  IsFiniteSet((b + 1) .. x) /\ Cardinality((b + 1) .. x) = x - b
    <3>1. PICK c \in Int : c = b + 1
      BY <1>1
    <3>2. IsFiniteSet(c .. x) /\ Cardinality(c .. x) = IF c > x THEN 0 ELSE x - c + 1
      BY FS_Interval
    <3>3. (IF c > x THEN 0 ELSE x - c + 1) = x - b
      BY <1>1, <2>1, <3>1
    <3>4. QED
      BY <3>1, <3>2, <3>3
  <2>2. QED
    BY <2>1
<1>3. /\ H \subseteq (b + 1) .. l
      /\ \A x \in H : \A y \in (b + 1) .. x : y \in H
      /\ \A y \in (b + 1) .. l : y \in H <=> events[y] \in HighEvent
  BY <1>1 DEF HighBeyond, HighFirst
<1> HIDE DEF H, b, l
<1>4. IsFiniteSet(H) /\ k \in Nat /\ k <= l - b
  <2>1. IsFiniteSet((b + 1) .. l) /\ Cardinality((b + 1) .. l) = l - b
    BY <1>1, <1>2
  <2>2. IsFiniteSet(H) /\ Cardinality(H) <= l - b
    BY <1>3, <2>1, FS_Subset
  <2>3. QED
    BY <2>2, FS_CardinalityType
<1>5. \A x \in H : x - b <= k
  <2>1. ASSUME NEW x \in H
        PROVE  x - b <= k
    <3>1. (b + 1) .. x \in SUBSET H /\ x \in Int /\ b <= x
      BY <1>1, <1>3
    <3>2. Cardinality((b + 1) .. x) <= Cardinality(H)
      BY <1>4, <3>1, FS_Subset
    <3>3. QED
      BY <1>2, <3>1, <3>2
  <2>2. QED
    BY <2>1
<1> HIDE DEF k
<1>6. H \subseteq (b + 1) .. (b + k)
  BY <1>1, <1>3, <1>4, <1>5
<1>7. b + k \in Int /\ b <= b + k
  BY <1>1, <1>4
<1>8. IsFiniteSet((b + 1) .. (b + k)) /\ Cardinality((b + 1) .. (b + k)) = k
  BY <1>1, <1>2, <1>4, <1>7
<1>9. H = (b + 1) .. (b + k)
  <2>1. Cardinality(H) = k
    BY DEF k
  <2>2. QED
    BY <1>6, <1>8, <2>1, FS_Subset
<1>10. /\ b + k \in b .. l
       /\ \A i \in (b + 1) .. (b + k) : events[i] \in HighEvent
       /\ \A i \in (b + k + 1) .. l : events[i] \notin HighEvent
  BY <1>1, <1>3, <1>4, <1>9
<1>11. QED
  BY <1>10 DEF b, k, l, H

(* What PostHigh inserts comes after all the high events.                  *)
LEMMA Posted ==
    ASSUME events \in Seq(EventType), batch \in 0 .. Len(events), HighFirst,
           NEW e \in EventType, PostHigh(e)
    PROVE  \E n \in batch .. Len(events) :
               /\ events' \in Seq(EventType) /\ Len(events') = Len(events) + 1
               /\ \A i \in 1 .. n : events'[i] = events[i]
               /\ events'[n + 1] = e
               /\ \A i \in (n + 1) .. Len(events) : /\ events[i] \notin HighEvent
                                                    /\ events'[i + 1] = events[i]
               /\ \A i \in (batch + 1) .. n : events[i] \in HighEvent
<1> DEFINE n == batch + Cardinality(HighBeyond(batch))
           a == SubSeq(events, 1, n)
           c == SubSeq(events, n + 1, Len(events))
<1>1. /\ n \in batch .. Len(events)
      /\ \A i \in (batch + 1) .. n : events[i] \in HighEvent
      /\ \A i \in (n + 1) .. Len(events) : events[i] \notin HighEvent
  BY HighPrefix
<1>2. events' = a \o <<e>> \o c
  BY DEF PostHigh
<1> HIDE DEF n
<1>3. n \in Nat /\ n <= Len(events) /\ Len(events) \in Nat
  BY <1>1
<1>4. a \in Seq(EventType) /\ Len(a) = n /\ \A i \in 1 .. n : a[i] = events[i]
  BY <1>3
<1>5. /\ c \in Seq(EventType) /\ Len(c) = Len(events) - n
      /\ \A i \in 1 .. Len(events) - n : c[i] = events[n + i]
  BY <1>3
<1> HIDE DEF a, c
<1> DEFINE d == a \o <<e>>
<1>6. d \in Seq(EventType) /\ Len(d) = n + 1 /\ d[n + 1] = e /\ \A i \in 1 .. n : d[i] = a[i]
  BY <1>3, <1>4
<1> HIDE DEF d
<1>7. events' = d \o c
  BY <1>2 DEF d
<1>8. /\ events' \in Seq(EventType) /\ Len(events') = (n + 1) + (Len(events) - n)
      /\ \A i \in 1 .. n + 1 : events'[i] = d[i]
      /\ \A i \in 1 .. Len(events) - n : events'[n + 1 + i] = c[i]
  <2>1. /\ d \o c \in Seq(EventType) /\ Len(d \o c) = Len(d) + Len(c)
        /\ \A i \in 1 .. Len(d) + Len(c) :
              (d \o c)[i] = IF i <= Len(d) THEN d[i] ELSE c[i - Len(d)]
    BY <1>5, <1>6, ConcatProperties
  <2>2. Len(d) = n + 1 /\ Len(c) = Len(events) - n
    BY <1>5, <1>6
  <2>3. ASSUME NEW i \in 1 .. Len(events) - n
        PROVE  (d \o c)[n + 1 + i] = c[i]
    <3>1. PICK j \in Int : j = n + 1 + i
      BY <1>3
    <3>2. j \in 1 .. Len(d) + Len(c) /\ ~(j <= Len(d)) /\ j - Len(d) = i
      BY <1>3, <2>2, <3>1
    <3>3. (d \o c)[j] = c[j - Len(d)]
      BY <2>1, <3>2
    <3>4. QED
      BY <3>1, <3>2, <3>3
  <2>4. ASSUME NEW i \in 1 .. n + 1
        PROVE  (d \o c)[i] = d[i]
    <3>1. i \in 1 .. Len(d) + Len(c) /\ i <= Len(d)
      BY <1>3, <2>2
    <3>2. QED
      BY <2>1, <3>1
  <2>5. QED
    BY <1>7, <2>1, <2>2, <2>3, <2>4
<1>9. ASSUME NEW i \in (n + 1) .. Len(events)
      PROVE  events'[i + 1] = events[i]
  <2>1. i - n \in 1 .. Len(events) - n /\ n + 1 + (i - n) = i + 1 /\ n + (i - n) = i
    BY <1>3
  <2>2. QED
    BY <1>5, <1>8, <2>1
<1>10. Len(events') = Len(events) + 1
  BY <1>3, <1>8
<1>11. /\ \A i \in 1 .. n : events'[i] = events[i]
       /\ events'[n + 1] = e
  BY <1>3, <1>4, <1>6, <1>8
<1>12. QED
  BY <1>1, <1>8, <1>9, <1>10, <1>11

LEMMA PostedKeepsHighFirst ==
    ASSUME events \in Seq(EventType), batch \in 0 .. Len(events), HighFirst,
           NEW e \in HighEvent, PostHigh(e), batch' = batch
    PROVE  HighFirst'
<1>1. e \in EventType
  BY DEF EventType
<1>2. PICK n \in batch .. Len(events) :
         /\ events' \in Seq(EventType) /\ Len(events') = Len(events) + 1
         /\ \A i \in 1 .. n : events'[i] = events[i]
         /\ events'[n + 1] = e
         /\ \A i \in (n + 1) .. Len(events) : /\ events[i] \notin HighEvent
                                              /\ events'[i + 1] = events[i]
         /\ \A i \in (batch + 1) .. n : events[i] \in HighEvent
  BY <1>1, Posted
<1>3. batch \in Nat /\ n \in Nat /\ batch <= n /\ Len(events) \in Nat /\ n <= Len(events)
  OBVIOUS
<1>4. \A i \in (batch + 1) .. (n + 1) : events'[i] \in HighEvent
  <2>1. ASSUME NEW i \in (batch + 1) .. (n + 1)
        PROVE  events'[i] \in HighEvent
    <3>1. i = n + 1 \/ (i \in 1 .. n /\ i \in (batch + 1) .. n)
      BY <1>3
    <3>2. QED
      BY <1>2, <3>1
  <2>2. QED
    BY <2>1
<1>5. ASSUME NEW i \in (n + 2) .. Len(events')
      PROVE  events'[i] \notin HighEvent
  <2>1. i - 1 \in (n + 1) .. Len(events) /\ (i - 1) + 1 = i
    BY <1>2, <1>3
  <2>2. QED
    BY <1>2, <2>1
<1>6. ASSUME NEW i \in (batch + 1) .. Len(events'), NEW j \in (batch + 1) .. Len(events'),
             i < j, events'[j] \in HighEvent
      PROVE  events'[i] \in HighEvent
  <2>1. j \notin (n + 2) .. Len(events')
    BY <1>5, <1>6
  <2>2. i \in (batch + 1) .. (n + 1)
    BY <1>2, <1>3, <1>6, <2>1
  <2>3. QED
    BY <1>4, <2>2
<1>7. QED
  BY <1>6 DEF HighFirst

LEMMA TakenKeepsHighFirst ==
    ASSUME events \in Seq(EventType), batch \in 0 .. Len(events), HighFirst,
           NEW e, TakeEvent(e)
    PROVE  /\ HighFirst'
           /\ events \in Seq(EventType) /\ Len(events) >= 1 /\ e = events[1]
           /\ events' \in Seq(EventType) /\ Len(events') = Len(events) - 1
           /\ \A i \in 1 .. Len(events') : events'[i] = events[i + 1]
<1>1. /\ Len(events) \in Nat /\ batch \in Nat /\ batch <= Len(events)
      /\ Len(events) >= 1 /\ e = events[1]
      /\ events' \in Seq(EventType) /\ Len(events') = Len(events) - 1
      /\ \A i \in 1 .. Len(events') : events'[i] = events[i + 1]
      /\ batch' = (IF batch = 0 THEN Len(events) ELSE batch) - 1
  BY DEF TakeEvent
<1>2. ASSUME NEW i \in (batch' + 1) .. Len(events'), NEW j \in (batch' + 1) .. Len(events'),
             i < j, events'[j] \in HighEvent
      PROVE  events'[i] \in HighEvent
  <2>1. batch # 0 /\ batch' = batch - 1
    BY <1>1, <1>2
  <2>2. /\ i + 1 \in (batch + 1) .. Len(events) /\ j + 1 \in (batch + 1) .. Len(events)
        /\ i + 1 < j + 1 /\ i \in 1 .. Len(events') /\ j \in 1 .. Len(events')
    BY <1>1, <1>2, <2>1
  <2>3. QED
    BY <1>1, <1>2, <2>2 DEF HighFirst
<1>3. QED
  BY <1>1, <1>2 DEF HighFirst

-----------------------------------------------------------------------------
(* How many more starts than ends the slots have heard of, and how many    *)
(* more the first k posted events will tell them.                          *)
Heard == Excess(emitted, Len(emitted), {"started"}, State)
Told(k) == Excess(events, k, {"Running"}, Outcome)

(* The ends that Main will emit without another event: the one it is about *)
(* to emit, and that of a run on Main that was announced.                  *)
Owed == (IF handler \in Outcome THEN 1 ELSE 0)
            + (IF run[Main] \in {"working", "stopping"} THEN 1 ELSE 0)

(* A run elsewhere that posted its start, and will post its end.           *)
Announced(t) == run[t] \in {"working", "stopping", "post"}

MainInRun ==
    /\ run[Main] \in {"idle", "begin", "lock", "announce", "working", "stopping", "closing"}
    /\ run[Main] \notin {"idle", "closing"} => handler = "none"

(* Whatever is delivered next, no more ends than starts.                   *)
SignalsInv ==
    /\ HighFirst
    /\ MainInRun
    /\ \A i \in 1 .. Len(emitted) : 0 <= Excess(emitted, i, {"started"}, State)
    /\ \A k \in 0 .. Len(events) : Owed <= Heard + Told(k)
    /\ alive => \A t \in Threads \ {Main} :
                    Announced(t) => Owed + 1 <= Heard + Told(Len(events))

LEMMA SignalNumbers ==
    ASSUME TypeOK
    PROVE  /\ Owed \in Int /\ 0 <= Owed
           /\ Heard \in Int /\ \A k \in Nat : Told(k) \in Int
           /\ Told(0) = 0 /\ Len(events) \in Nat /\ Len(emitted) \in Nat
           /\ "started" \notin State /\ {"started"} \cap State = {}
           /\ {"Running"} \cap Outcome = {}
<1>1. /\ {"started"} \cap State = {} /\ {"Running"} \cap Outcome = {} /\ "started" \notin State
  BY DEF State, Unfinished, Outcome
<1>2. Len(events) \in Nat /\ Len(emitted) \in Nat
  BY DEF TypeOK
<1>3. Heard \in Int
  BY <1>2, ExcessInt DEF Heard
<1>4. \A k \in Nat : Told(k) \in Int
  BY ExcessInt DEF Told
<1>5. Told(0) = 0
  BY ExcessZero DEF Told
<1>6. QED
  BY <1>1, <1>2, <1>3, <1>4, <1>5 DEF Owed, Outcome

(* A signal changes what was heard by its weight.                          *)
LEMMA HeardMore ==
    ASSUME TypeOK, NEW x, emitted' = Append(emitted, x)
    PROVE  /\ Heard' = Heard + Weight(x, {"started"}, State)
           /\ Len(emitted') = Len(emitted) + 1
           /\ \A i \in 1 .. Len(emitted) :
                 Excess(emitted', i, {"started"}, State) = Excess(emitted, i, {"started"}, State)
           /\ Excess(emitted', Len(emitted'), {"started"}, State) = Heard'
<1> DEFINE l == Len(emitted)
<1>1. /\ l \in Nat /\ Len(emitted') = l + 1 /\ emitted'[l + 1] = x
      /\ \A j \in 1 .. l : emitted'[j] = emitted[j]
  <2>1. emitted \in Seq(State \cup {"started", "progress"})
    BY DEF TypeOK
  <2>2. QED
    BY <2>1
<1>2. /\ \A i \in 1 .. l :
            Excess(emitted', i, {"started"}, State) = Excess(emitted, i, {"started"}, State)
      /\ Excess(emitted', l + 1, {"started"}, State)
            = Excess(emitted, l, {"started"}, State) + Weight(emitted'[l + 1], {"started"}, State)
  <2>1. ASSUME NEW t, Len(t) = l + 1, \A j \in 1 .. l : t[j] = emitted[j]
        PROVE  /\ \A i \in 1 .. l :
                     Excess(t, i, {"started"}, State) = Excess(emitted, i, {"started"}, State)
               /\ Excess(t, l + 1, {"started"}, State)
                     = Excess(emitted, l, {"started"}, State) + Weight(t[l + 1], {"started"}, State)
    <3> DEFINE P == {"started"}
               M == State
    <3>1. P \cap M = {} /\ l \in Nat
      BY <1>1, SignalNumbers
    <3> HIDE DEF P, M, l
    <3>2. PICK m \in Int : m = l + 1
      BY <3>1
    <3>3. /\ \A i \in 1 .. l : Excess(t, i, P, M) = Excess(emitted, i, P, M)
          /\ Excess(t, m, P, M) = Excess(emitted, l, P, M) + Weight(t[m], P, M)
      <4>1. ASSUME NEW i \in 0 .. l
            PROVE  Excess(t, i, P, M) = Excess(emitted, i, P, M)
        <5>1. i \in Nat /\ \A j \in 1 .. i : t[j] = emitted[j]
          BY <2>1, <3>1
        <5>2. QED
          BY <5>1, ExcessSame
      <4>2. Excess(t, m, P, M) = Excess(t, l, P, M) + Weight(t[m], P, M)
        BY <3>1, <3>2, ExcessNext
      <4>3. l \in 0 .. l /\ \A i \in 1 .. l : i \in 0 .. l
        BY <3>1
      <4>4. QED
        BY <4>1, <4>2, <4>3
    <3>4. QED
      BY <3>2, <3>3 DEF P, M
  <2>2. QED
    BY <1>1, <2>1
<1>3. QED
  BY <1>1, <1>2 DEF Heard

(* An event that is posted is told after all that is to be told already.   *)
LEMMA ToldMore ==
    ASSUME TypeOK, HighFirst, NEW e \in HighEvent, PostHigh(e)
    PROVE  /\ Len(events') = Len(events) + 1
           /\ \A k \in 0 .. Len(events') :
                 \/ /\ k \in 0 .. Len(events)
                    /\ Excess(events', k, {"Running"}, Outcome) = Told(k)
                 \/ Excess(events', k, {"Running"}, Outcome)
                       = Told(Len(events)) + Weight(e, {"Running"}, Outcome)
           /\ Excess(events', Len(events'), {"Running"}, Outcome)
                 = Told(Len(events)) + Weight(e, {"Running"}, Outcome)
<1> DEFINE l == Len(events)
           P == {"Running"}
           M == Outcome
<1>1. /\ events \in Seq(EventType) /\ batch \in 0 .. Len(events) /\ e \in EventType
      /\ P \cap M = {} /\ l \in Nat
  BY SignalNumbers DEF TypeOK, EventType
<1>2. PICK n \in batch .. Len(events) :
         /\ Len(events') = l + 1
         /\ \A i \in 1 .. n : events'[i] = events[i]
         /\ events'[n + 1] = e
         /\ \A i \in (n + 1) .. l : /\ events[i] \notin HighEvent
                                    /\ events'[i + 1] = events[i]
  BY <1>1, Posted
<1>3. n \in Nat /\ n <= l
  BY <1>1
<1>4. \A x : x \notin HighEvent => x \notin P /\ x \notin M
  BY DEF HighEvent
<1> HIDE DEF l, P, M
<1>5. ASSUME NEW k \in 0 .. n
      PROVE  Excess(events', k, P, M) = Excess(events, k, P, M)
  BY <1>2, <1>3, ExcessSame
<1>6. Excess(events, l, P, M) = Excess(events, n, P, M)
  <2>1. \A i \in (n + 1) .. l : events[i] \notin P /\ events[i] \notin M
    BY <1>2, <1>4
  <2>2. QED
    BY <1>1, <1>3, <2>1, ExcessRest
<1>7. Excess(events', n + 1, P, M) = Excess(events', n, P, M) + Weight(e, P, M)
  <2>1. PICK m \in Int : m = n + 1
    BY <1>3
  <2>2. Excess(events', m, P, M) = Excess(events', n, P, M) + Weight(events'[m], P, M)
    BY <1>1, <1>3, <2>1, ExcessNext
  <2>3. QED
    BY <1>2, <2>1, <2>2
<1>8. ASSUME NEW k \in (n + 1) .. (l + 1)
      PROVE  Excess(events', k, P, M) = Excess(events', n + 1, P, M)
  <2>1. ASSUME NEW i \in ((n + 1) + 1) .. k
        PROVE  events'[i] \notin P /\ events'[i] \notin M
    <3>1. i - 1 \in (n + 1) .. l /\ (i - 1) + 1 = i
      BY <1>1, <1>3
    <3>2. QED
      BY <1>2, <1>4, <3>1
  <2>2. n + 1 \in Nat /\ k \in Nat /\ n + 1 <= k
    BY <1>1, <1>3
  <2>3. QED
    BY <2>1, <2>2, ExcessRest
<1>9. n \in 0 .. n
  BY <1>3
<1>10. \A k \in (n + 1) .. (l + 1) :
          Excess(events', k, P, M) = Excess(events, l, P, M) + Weight(e, P, M)
  BY <1>5, <1>6, <1>7, <1>8, <1>9
<1>11. /\ \A k \in 0 .. l + 1 : (k \in 0 .. n /\ k \in 0 .. l) \/ k \in (n + 1) .. (l + 1)
       /\ l + 1 \in (n + 1) .. (l + 1)
  BY <1>1, <1>3
<1>12. QED
  BY <1>2, <1>5, <1>10, <1>11 DEF Told, P, M, l

(* An event that is delivered leaves the rest to be told.                  *)
LEMMA ToldLess ==
    ASSUME TypeOK, HighFirst, NEW e, TakeEvent(e)
    PROVE  /\ Len(events') \in Nat /\ Len(events') + 1 = Len(events)
           /\ \A k \in 0 .. Len(events') :
                 /\ k + 1 \in 0 .. Len(events)
                 /\ Excess(events', k, {"Running"}, Outcome) \in Int
                 /\ Told(k + 1) = Excess(events', k, {"Running"}, Outcome)
                                     + Weight(e, {"Running"}, Outcome)
<1> DEFINE P == {"Running"}
           M == Outcome
<1>1. /\ events \in Seq(EventType) /\ batch \in 0 .. Len(events)
      /\ P \cap M = {} /\ Len(events) \in Nat
  BY SignalNumbers DEF TypeOK
<1>2. /\ Len(events) >= 1 /\ e = events[1]
      /\ Len(events') = Len(events) - 1
      /\ \A i \in 1 .. Len(events') : events'[i] = events[i + 1]
  BY <1>1, TakenKeepsHighFirst
<1> HIDE DEF P, M
<1>3. ASSUME NEW k \in 0 .. Len(events')
      PROVE  /\ Excess(events', k, P, M) \in Int
             /\ Excess(events, k + 1, P, M) = Excess(events', k, P, M) + Weight(e, P, M)
  <2>1. k \in Nat /\ \A j \in 1 .. k : events'[j] = events[j + 1]
    BY <1>1, <1>2
  <2>2. PICK m \in Int : m = k + 1
    BY <2>1
  <2>3. Excess(events, m, P, M) = Excess(events', k, P, M) + Weight(events[1], P, M)
    BY <1>1, <2>1, <2>2, ExcessTail
  <2>4. QED
    BY <1>2, <2>1, <2>2, <2>3, ExcessInt
<1>4. \A k \in 0 .. Len(events') : k + 1 \in 0 .. Len(events)
  BY <1>1, <1>2
<1>5. QED
  BY <1>1, <1>2, <1>3, <1>4 DEF Told, P, M

-----------------------------------------------------------------------------
LEMMA SignalBounds ==
    ASSUME TypeOK, SignalsInv
    PROVE  /\ Owed \in {0, 1, 2} /\ Heard \in Int
           /\ \A k \in 0 .. Len(events) : Told(k) \in Int /\ Owed <= Heard + Told(k)
           /\ Owed <= Heard
           /\ Len(events) \in 0 .. Len(events)
<1>1. \A k \in 0 .. Len(events) : k \in Nat
  BY SignalNumbers
<1>2. 0 \in 0 .. Len(events) /\ Len(events) \in 0 .. Len(events)
  BY SignalNumbers
<1>3. Owed \in {0, 1, 2}
  BY DEF Owed, Outcome
<1>4. \A k \in 0 .. Len(events) : Told(k) \in Int /\ Owed <= Heard + Told(k)
  BY <1>1, SignalNumbers DEF SignalsInv
<1>5. Owed <= Heard
  BY <1>2, <1>3, <1>4, SignalNumbers
<1>6. QED
  BY <1>2, <1>3, <1>4, <1>5, SignalNumbers

(* Steps that neither post nor deliver nor emit.                           *)
LEMMA SilentStep ==
    ASSUME TypeOK, SignalsInv, UNCHANGED <<events, batch, emitted, alive>>,
           MainInRun', Owed' <= Owed, Owed' \in Int,
           \A t \in Threads \ {Main} : Announced(t)' => Announced(t)
    PROVE  SignalsInv'
<1>1. /\ HighFirst' /\ Heard' = Heard
      /\ \A k \in 0 .. Len(events) : Excess(events', k, {"Running"}, Outcome) = Told(k)
      /\ \A i \in 1 .. Len(emitted) : 0 <= Excess(emitted', i, {"started"}, State)
  BY DEF SignalsInv, HighFirst, Heard, Told
<1>2. \A k \in 0 .. Len(events') : Owed' <= Heard' + Excess(events', k, {"Running"}, Outcome)
  BY <1>1, SignalBounds
<1>3. ASSUME alive', NEW t \in Threads \ {Main}, Announced(t)'
      PROVE  Owed' + 1 <= Heard' + Excess(events', Len(events'), {"Running"}, Outcome)
  <2>1. Owed + 1 <= Heard + Told(Len(events))
    BY <1>3 DEF SignalsInv
  <2>2. Told(Len(events)) \in Int /\ Owed \in Int /\ Heard \in Int
    BY SignalBounds
  <2>3. Excess(events', Len(events'), {"Running"}, Outcome) = Told(Len(events))
    BY <1>1, SignalBounds
  <2>4. QED
    BY <1>1, <2>1, <2>2, <2>3
<1>4. QED
  BY <1>1, <1>2, <1>3 DEF SignalsInv, Told

(* Emitting a signal of weight w, when what is owed changes by at most w.  *)
LEMMA EmitStep ==
    ASSUME TypeOK, SignalsInv, UNCHANGED <<events, batch, alive>>,
           NEW x, emitted' = Append(emitted, x),
           Owed' \in {0, 1, 2}, Owed' <= Owed + Weight(x, {"started"}, State),
           MainInRun',
           \A t \in Threads \ {Main} : Announced(t)' => Announced(t)
    PROVE  SignalsInv'
<1> DEFINE w == Weight(x, {"started"}, State)
<1>1. w \in Int
  BY DEF Weight
<1>2. /\ Heard' = Heard + w /\ Len(emitted') = Len(emitted) + 1
      /\ \A i \in 1 .. Len(emitted) :
            Excess(emitted', i, {"started"}, State) = Excess(emitted, i, {"started"}, State)
      /\ Excess(emitted', Len(emitted'), {"started"}, State) = Heard'
  BY HeardMore
<1> HIDE DEF w
<1>3. /\ HighFirst'
      /\ \A k \in 0 .. Len(events) : Excess(events', k, {"Running"}, Outcome) = Told(k)
  BY DEF SignalsInv, HighFirst, Told
<1>4. ASSUME NEW k \in 0 .. Len(events')
      PROVE  Owed' <= Heard' + Excess(events', k, {"Running"}, Outcome)
  <2>1. k \in 0 .. Len(events) /\ Excess(events', k, {"Running"}, Outcome) = Told(k)
    BY <1>3
  <2>2. Told(k) \in Int /\ Owed <= Heard + Told(k) /\ Heard \in Int /\ Owed \in Int
    BY <2>1, SignalBounds
  <2>3. Owed' \in Int /\ Owed' <= Owed + w
    BY DEF w
  <2>4. QED
    BY <1>1, <1>2, <2>1, <2>2, <2>3
<1>5. ASSUME alive', NEW t \in Threads \ {Main}, Announced(t)'
      PROVE  Owed' + 1 <= Heard' + Excess(events', Len(events'), {"Running"}, Outcome)
  <2>1. Owed + 1 <= Heard + Told(Len(events))
    BY <1>5 DEF SignalsInv
  <2>2. Told(Len(events)) \in Int /\ Owed \in Int /\ Heard \in Int
    BY SignalBounds
  <2>3. Excess(events', Len(events'), {"Running"}, Outcome) = Told(Len(events))
    BY <1>3, SignalBounds
  <2>4. Owed' \in Int /\ Owed' <= Owed + w
    BY DEF w
  <2>5. QED
    BY <1>1, <1>2, <2>1, <2>2, <2>3, <2>4
<1>6. 0 <= Heard'
  <2>1. Owed <= Heard /\ Heard \in Int /\ Owed \in Int
    BY SignalBounds
  <2>2. Owed' \in Int /\ 0 <= Owed' /\ Owed' <= Owed + w
    BY DEF w
  <2>3. QED
    BY <1>1, <1>2, <2>1, <2>2
<1>7. ASSUME NEW i \in 1 .. Len(emitted')
      PROVE  0 <= Excess(emitted', i, {"started"}, State)
  <2>1. i \in 1 .. Len(emitted) \/ i = Len(emitted')
    BY <1>2, SignalNumbers
  <2>2. QED
    BY <1>2, <1>6, <2>1 DEF SignalsInv
<1>8. QED
  BY <1>3, <1>4, <1>5, <1>7 DEF SignalsInv, Told

(* Posting a high event of weight w: the start of a run that is announced  *)
(* by it, or the end of the only one that was.                             *)
LEMMA PostStep ==
    ASSUME TypeOK, SignalsInv, UNCHANGED <<batch, emitted, alive>>,
           NEW e \in HighEvent, PostHigh(e), alive,
           MainInRun', Owed' = Owed,
           \/ Weight(e, {"Running"}, Outcome) = 1
           \/ /\ Owed + 1 <= Heard + Told(Len(events))
              /\ \A t \in Threads \ {Main} : ~Announced(t)'
    PROVE  SignalsInv'
<1> DEFINE w == Weight(e, {"Running"}, Outcome)
           l == Len(events)
           Tells(k) == Excess(events', k, {"Running"}, Outcome)
<1>1. w \in Int /\ -1 <= w
  BY DEF Weight
<1>2. /\ Len(events') = l + 1
      /\ \A k \in 0 .. Len(events') :
            \/ k \in 0 .. l /\ Tells(k) = Told(k)
            \/ Tells(k) = Told(l) + w
      /\ Tells(Len(events')) = Told(l) + w
  BY ToldMore DEF SignalsInv
<1>3. HighFirst'
  BY PostedKeepsHighFirst DEF SignalsInv, TypeOK
<1>4. /\ Owed \in Int /\ Heard \in Int /\ Heard' = Heard /\ Told(l) \in Int
      /\ Owed <= Heard + Told(l)
      /\ \A k \in 0 .. l : Told(k) \in Int /\ Owed <= Heard + Told(k)
  BY SignalBounds DEF Heard
<1>5. w = 1 \/ (Owed + 1 <= Heard + Told(l) /\ \A t \in Threads \ {Main} : ~Announced(t)')
  OBVIOUS
<1> HIDE DEF w, l, Tells
<1>6. Owed <= Heard + (Told(l) + w)
  BY <1>1, <1>4, <1>5
<1>7. \A k \in 0 .. Len(events') : Owed' <= Heard' + Tells(k)
  BY <1>2, <1>4, <1>6
<1>8. ASSUME NEW t \in Threads \ {Main}, Announced(t)'
      PROVE  Owed' + 1 <= Heard' + Tells(Len(events'))
  <2>1. w = 1
    BY <1>5, <1>8
  <2>2. QED
    BY <1>2, <1>4, <2>1
<1>9. \A i \in 1 .. Len(emitted') : 0 <= Excess(emitted', i, {"started"}, State)
  BY DEF SignalsInv
<1>10. QED
  BY <1>3, <1>7, <1>8, <1>9 DEF SignalsInv, Told, Tells

LEMMA BalanceKept ==
    ASSUME NEW o \in Int, NEW h \in Int, NEW n \in Int, NEW g \in Int, NEW w \in Int, NEW k \in Int,
           g - n = h - o + w
    PROVE  /\ o <= h + (k + w) => n <= g + k
           /\ o + 1 <= h + (k + w) => n + 1 <= g + k
OBVIOUS

(* Delivering an event: what it told is heard, or owed.                    *)
LEMMA DeliverStep ==
    ASSUME TypeOK, SignalsInv, NEW e, TakeEvent(e), UNCHANGED <<run, alive>>,
           Owed' \in {0, 1, 2}, Heard' \in Int,
           Heard' - Owed' = Heard - Owed + Weight(e, {"Running"}, Outcome),
           \A i \in 1 .. Len(emitted') : 0 <= Excess(emitted', i, {"started"}, State)
    PROVE  SignalsInv'
<1> DEFINE w == Weight(e, {"Running"}, Outcome)
           Tells(k) == Excess(events', k, {"Running"}, Outcome)
<1>1. w \in Int
  BY DEF Weight
<1>2. /\ Len(events') \in Nat /\ Len(events') + 1 = Len(events)
      /\ \A k \in 0 .. Len(events') :
            k + 1 \in 0 .. Len(events) /\ Tells(k) \in Int /\ Told(k + 1) = Tells(k) + w
  BY ToldLess DEF SignalsInv
<1>3. HighFirst'
  BY TakenKeepsHighFirst DEF SignalsInv, TypeOK
<1>4. MainInRun'
  BY DEF TakeEvent, RunAt, MainInRun
<1> HIDE DEF w, Tells
<1>5. ASSUME NEW k \in 0 .. Len(events')
      PROVE  Owed' <= Heard' + Tells(k)
  <2>1. PICK m \in 0 .. Len(events) : m = k + 1
    BY <1>2
  <2>2. Owed <= Heard + Told(m) /\ Heard \in Int /\ Owed \in Int
    BY SignalBounds
  <2>3. Told(m) = Tells(k) + w /\ Tells(k) \in Int
    BY <1>2, <2>1
  <2>4. Owed <= Heard + (Tells(k) + w)
    BY <2>2, <2>3
  <2>5. QED
    BY <1>1, <2>2, <2>3, <2>4, BalanceKept DEF w
<1>6. ASSUME alive', NEW t \in Threads \ {Main}, Announced(t)'
      PROVE  Owed' + 1 <= Heard' + Tells(Len(events'))
  <2>1. Owed + 1 <= Heard + Told(Len(events)) /\ Heard \in Int /\ Owed \in Int
    BY <1>6, SignalBounds DEF SignalsInv, Announced
  <2>2. PICK n \in 0 .. Len(events') : n = Len(events')
    BY <1>2
  <2>3. Told(n + 1) = Tells(n) + w /\ Tells(n) \in Int /\ n + 1 = Len(events)
    BY <1>2, <2>2
  <2>4. Owed + 1 <= Heard + (Tells(n) + w)
    BY <2>1, <2>3
  <2>5. QED
    BY <1>1, <2>1, <2>2, <2>3, <2>4, BalanceKept DEF w
<1>7. QED
  BY <1>3, <1>4, <1>5, <1>6 DEF SignalsInv, Told, Tells

(* What is emitted at the delivery of an event of the same weight.         *)
LEMMA HeardLater ==
    ASSUME TypeOK, SignalsInv, NEW e, NEW x, emitted' = Append(emitted, x),
           Weight(x, {"started"}, State) = Weight(e, {"Running"}, Outcome),
           0 <= Weight(x, {"started"}, State), Owed' = Owed
    PROVE  /\ Owed' \in {0, 1, 2} /\ Heard' \in Int
           /\ Heard' - Owed' = Heard - Owed + Weight(e, {"Running"}, Outcome)
           /\ \A i \in 1 .. Len(emitted') : 0 <= Excess(emitted', i, {"started"}, State)
<1>1. /\ Owed \in {0, 1, 2} /\ Heard \in Int /\ Owed <= Heard
      /\ Weight(x, {"started"}, State) \in Int
  BY SignalBounds DEF Weight
<1>2. /\ Heard' = Heard + Weight(x, {"started"}, State)
      /\ Len(emitted') = Len(emitted) + 1
      /\ \A i \in 1 .. Len(emitted) :
            Excess(emitted', i, {"started"}, State) = Excess(emitted, i, {"started"}, State)
      /\ Excess(emitted', Len(emitted'), {"started"}, State) = Heard'
  BY HeardMore
<1>3. /\ Heard' \in Int /\ 0 <= Heard'
      /\ Heard' - Owed' = Heard - Owed + Weight(e, {"Running"}, Outcome)
  BY <1>1, <1>2
<1>4. ASSUME NEW i \in 1 .. Len(emitted')
      PROVE  0 <= Excess(emitted', i, {"started"}, State)
  <2>1. PICK l, m : l = Len(emitted) /\ m = Len(emitted')
    OBVIOUS
  <2>2. l \in Nat /\ m = l + 1 /\ i \in 1 .. m
    <3>1. l \in Nat
      BY <2>1, SignalNumbers
    <3>2. m = l + 1
      BY <1>2, <2>1
    <3>3. i \in 1 .. m
      BY <1>4, <2>1
    <3>4. QED
      BY <3>1, <3>2, <3>3
  <2>3. i \in 1 .. l \/ i = m
    BY <2>2
  <2>4. CASE i \in 1 .. l
    <3>1. i \in 1 .. Len(emitted)
      BY <2>1, <2>4
    <3>2. QED
      BY <1>2, <3>1 DEF SignalsInv
  <2>5. CASE i = m
    BY <1>2, <1>3, <2>1, <2>5
  <2>6. QED
    BY <2>3, <2>4, <2>5
<1>5. QED
  BY <1>1, <1>3, <1>4

LEMMA SignalsInvStep ==
    ASSUME TypeOK, MutexInv, DecidedAtEnd, SignalsInv, [Next]_vars
    PROVE  SignalsInv'
<1> USE DEF RunAt, WaitAt
<1>1. /\ run \in [Threads -> RunPoint] /\ Main \in Threads /\ Main \notin Workers
      /\ handler \in Outcome \cup {"none", "slots"} /\ state \in State
      /\ MainInRun /\ Owed \in {0, 1, 2} /\ Heard \in Int
  BY ThreadsAssumption, SignalBounds DEF TypeOK, SignalsInv, Threads
<1>2. ASSUME UNCHANGED <<events, batch, emitted, alive, run, handler>>
      PROVE  SignalsInv'
  <2>1. /\ MainInRun' /\ Owed' = Owed /\ Owed' <= Owed /\ Owed' \in Int
        /\ \A t \in Threads \ {Main} : Announced(t)' => Announced(t)
    BY <1>1, <1>2 DEF MainInRun, Owed, Announced, Outcome
  <2>2. QED
    BY <1>2, <2>1, SilentStep
<1>3. ASSUME NEW t \in Threads,
             \/ RunSynchronously(t) \/ TakeJob(t) \/ MarkRunning(t) \/ LockForRun(t)
             \/ StopRunning(t) \/ WakeOne(t) \/ UnlockRun(t)
      PROVE  SignalsInv'
  <2>1. UNCHANGED <<events, batch, emitted, alive, handler>>
    BY <1>3 DEF RunSynchronously, TakeJob, MarkRunning, LockForRun, StopRunning, WakeOne,
                UnlockRun
  <2>2. PICK p : /\ run' = [run EXCEPT ![t] = p]
                 /\ \/ p = "begin" /\ (t = Main => handler = "none" /\ run[t] = "idle")
                    \/ p = "lock" /\ run[t] = "begin"
                    \/ p = "announce" /\ run[t] = "lock"
                    \/ p = "stopping" /\ run[t] = "working"
                    \/ p = "unlock" /\ run[t] = "wake"
                    \/ p = "idle"
    BY <1>1, <1>3 DEF RunSynchronously, TakeJob, MarkRunning, LockForRun, StopRunning, Working,
                      WakeOne, UnlockRun
  <2>3. run'[t] = p /\ \A u \in Threads : u # t => run'[u] = run[u]
    BY <1>1, <2>2
  <2>4. MainInRun'
    BY <1>1, <2>1, <2>2, <2>3 DEF MainInRun
  <2>5. Owed' <= Owed /\ Owed' \in Int
    BY <1>1, <2>1, <2>2, <2>3 DEF Owed, Outcome
  <2>6. \A u \in Threads \ {Main} : Announced(u)' => Announced(u)
    BY <2>2, <2>3 DEF Announced
  <2>7. QED
    BY <2>1, <2>4, <2>5, <2>6, SilentStep
<1>4. ASSUME NEW t \in Threads, AnnounceStart(t)
      PROVE  SignalsInv'
  <2>1. /\ run[t] = "announce" /\ run' = [run EXCEPT ![t] = "working"] /\ alive
        /\ UNCHANGED <<batch, handler, alive>>
    BY <1>4 DEF AnnounceStart
  <2>2. run'[t] = "working" /\ \A u \in Threads : u # t => run'[u] = run[u]
    BY <1>1, <2>1
  <2>3. MainInRun'
    BY <1>1, <2>1, <2>2 DEF MainInRun
  <2>4. CASE t = Main
    <3>1. emitted' = Append(emitted, "started") /\ UNCHANGED events
      BY <1>4, <2>4 DEF AnnounceStart
    <3>2. Weight("started", {"started"}, State) = 1
      BY DEF Weight
    <3>3. handler = "none" /\ Owed = 0 /\ Owed' = 1
      BY <1>1, <2>1, <2>2, <2>4 DEF MainInRun, Owed, Outcome
    <3>4. \A u \in Threads \ {Main} : Announced(u)' => Announced(u)
      BY <2>2, <2>4 DEF Announced
    <3>5. Owed' \in {0, 1, 2} /\ Owed' <= Owed + Weight("started", {"started"}, State)
      BY <3>2, <3>3
    <3>6. QED
      BY <2>1, <2>3, <3>1, <3>4, <3>5, EmitStep
  <2>5. CASE t # Main
    <3>1. PostHigh("Running") /\ UNCHANGED emitted
      BY <1>4, <2>5 DEF AnnounceStart
    <3>2. "Running" \in HighEvent /\ Weight("Running", {"Running"}, Outcome) = 1
      BY DEF HighEvent, Weight
    <3>3. Owed' = Owed
      BY <1>1, <2>1, <2>2, <2>5 DEF Owed, Outcome
    <3>4. QED
      BY <2>1, <2>3, <3>1, <3>2, <3>3, PostStep
  <2>6. QED
    BY <2>4, <2>5
<1>5. ASSUME NEW t \in Threads, ReportProgress(t)
      PROVE  SignalsInv'
  <2>1. UNCHANGED <<batch, run, handler, alive>>
    BY <1>5 DEF ReportProgress
  <2>2. /\ MainInRun' /\ Owed' = Owed
        /\ \A u \in Threads \ {Main} : Announced(u)' => Announced(u)
    BY <1>1, <2>1 DEF MainInRun, Owed, Announced, Outcome
  <2>3. CASE t = Main
    <3>1. emitted' = Append(emitted, "progress") /\ UNCHANGED events
      BY <1>5, <2>3 DEF ReportProgress
    <3>2. Weight("progress", {"started"}, State) = 0
      BY DEF Weight, State, Unfinished, Outcome
    <3>3. Owed' \in {0, 1, 2} /\ Owed' <= Owed + Weight("progress", {"started"}, State)
      BY <1>1, <2>2, <3>2
    <3>4. QED
      BY <2>1, <2>2, <3>1, <3>3, EmitStep
  <2>4. CASE t # Main
    <3>1. events' = Append(events, "Progress") /\ emitted' = emitted
      BY <1>5, <2>4 DEF ReportProgress, PostNormal, ProgressEvent
    <3>2. /\ Len(events) \in Nat /\ Len(events') = Len(events) + 1
          /\ events'[Len(events) + 1] = "Progress" /\ "Progress" \notin HighEvent
          /\ \A j \in 1 .. Len(events) : events'[j] = events[j]
      <4>1. events \in Seq(EventType)
        BY DEF TypeOK
      <4>2. QED
        BY <3>1, <4>1 DEF HighEvent, Outcome
    <3>3. PICK l \in Nat : l = Len(events)
      BY <3>2
    <3>4. \A i \in (batch + 1) .. l + 1 : i \in (batch + 1) .. l \/ i = l + 1
      BY <3>3 DEF TypeOK
    <3>5. ASSUME NEW q, q = events'
          PROVE  /\ \A k \in 0 .. l : Excess(q, k, {"Running"}, Outcome) = Told(k)
                 /\ Excess(q, l + 1, {"Running"}, Outcome) = Told(l)
                 /\ HighFirst'
      <4>1. /\ Len(q) = l + 1 /\ q[l + 1] = "Progress"
            /\ \A j \in 1 .. l : q[j] = events[j]
        BY <3>2, <3>3, <3>5
      <4>2. /\ Len(events') = Len(q) /\ \A i \in 1 .. l + 1 : events'[i] = q[i]
        BY <3>5
      <4>3. ASSUME NEW k \in 0 .. l
            PROVE  Excess(q, k, {"Running"}, Outcome) = Told(k)
        <5>1. k \in Nat /\ \A j \in 1 .. k : q[j] = events[j]
          BY <4>1
        <5>2. QED
          BY <5>1, ExcessSame DEF Told
      <4>4. Excess(q, l + 1, {"Running"}, Outcome) = Excess(q, l, {"Running"}, Outcome)
        <5>1. \A j \in (l + 1) .. (l + 1) : q[j] \notin {"Running"} /\ q[j] \notin Outcome
          BY <4>1 DEF Outcome
        <5>2. PICK m \in Nat : m = l + 1
          OBVIOUS
        <5>3. Excess(q, m, {"Running"}, Outcome) = Excess(q, l, {"Running"}, Outcome)
          <6>1. \A j \in (l + 1) .. m : q[j] \notin {"Running"} /\ q[j] \notin Outcome
            BY <5>1, <5>2
          <6>2. m \in Nat /\ l \in Nat /\ l <= m
            BY <5>2
          <6>3. QED
            BY <6>1, <6>2, ExcessRest
        <5>4. QED
          BY <5>2, <5>3
      <4>5. HighFirst'
        <5>1. ASSUME NEW i \in (batch + 1) .. l + 1, NEW j \in (batch + 1) .. l + 1,
                     i < j, q[j] \in HighEvent
              PROVE  q[i] \in HighEvent
          <6>1. batch \in Nat /\ j # l + 1
            <7>1. batch \in Nat
              BY <3>2 DEF TypeOK
            <7>2. "Progress" \notin HighEvent
              BY <3>2
            <7>3. q[l + 1] \notin HighEvent
              BY <4>1, <7>2
            <7>4. QED
              BY <5>1, <7>1, <7>3
          <6>2. i \in (batch + 1) .. l /\ j \in (batch + 1) .. l /\ i \in 1 .. l /\ j \in 1 .. l
            BY <5>1, <6>1
          <6>3. QED
            BY <3>3, <4>1, <5>1, <6>2 DEF SignalsInv, HighFirst
        <5>2. QED
          BY <2>1, <3>5, <4>1, <5>1 DEF HighFirst
      <4>6. l \in 0 .. l
        OBVIOUS
      <4>7. QED
        BY <4>3, <4>4, <4>5, <4>6
    <3>6. /\ \A k \in 0 .. l : Excess(events', k, {"Running"}, Outcome) = Told(k)
          /\ Excess(events', l + 1, {"Running"}, Outcome) = Told(l)
          /\ HighFirst'
      BY <3>5
    <3>7. Len(events') = l + 1 /\ Heard' = Heard
      BY <3>1, <3>2, <3>3 DEF Heard
    <3>8. /\ l \in 0 .. l
          /\ \A k \in 0 .. l + 1 : k \in 0 .. l \/ k = l + 1
      OBVIOUS
    <3>9. \A k \in 0 .. Len(events') : Owed' <= Heard' + Excess(events', k, {"Running"}, Outcome)
      BY <2>2, <3>3, <3>6, <3>7, <3>8, SignalBounds
    <3>10. ASSUME alive', NEW u \in Threads \ {Main}, Announced(u)'
           PROVE  Owed' + 1 <= Heard' + Excess(events', Len(events'), {"Running"}, Outcome)
      BY <2>1, <2>2, <3>3, <3>6, <3>7, <3>10 DEF SignalsInv
    <3>11. \A i \in 1 .. Len(emitted') : 0 <= Excess(emitted', i, {"started"}, State)
      BY <3>1 DEF SignalsInv
    <3>12. QED
      BY <2>2, <3>6, <3>9, <3>10, <3>11 DEF SignalsInv, Told
  <2>5. QED
    BY <2>3, <2>4
<1>6. ASSUME NEW t \in Threads, NEW o \in Outcome, EndRun(t, o)
      PROVE  SignalsInv'
  <2>1. /\ UNCHANGED <<events, batch, emitted, alive>>
        /\ run[t] \in {"working", "stopping"}
        /\ IF t = Main THEN run' = [run EXCEPT ![t] = "closing"] /\ handler' = o
                       ELSE run' = [run EXCEPT ![t] = "post"] /\ handler' = handler
    BY <1>6 DEF EndRun, Working
  <2>2. /\ run'[t] = IF t = Main THEN "closing" ELSE "post"
        /\ \A u \in Threads : u # t => run'[u] = run[u]
    BY <1>1, <2>1
  <2>3. MainInRun' /\ Owed' <= Owed /\ Owed' \in Int
    BY <1>1, <2>1, <2>2 DEF MainInRun, Owed, Outcome
  <2>4. \A u \in Threads \ {Main} : Announced(u)' => Announced(u)
    BY <2>1, <2>2 DEF Announced
  <2>5. QED
    BY <2>1, <2>3, <2>4, SilentStep
<1>7. ASSUME NEW t \in Threads, PostEnd(t)
      PROVE  SignalsInv'
  <2>1. /\ run[t] = "post" /\ run' = [run EXCEPT ![t] = "wake"] /\ alive
        /\ PostHigh(EndEvent(verdict)) /\ UNCHANGED <<batch, emitted, handler, alive>>
    BY <1>7 DEF PostEnd
  <2>2. t # Main
    BY <1>1, <2>1 DEF MainInRun
  <2>3. run'[t] = "wake" /\ \A u \in Threads : u # t => run'[u] = run[u]
    BY <1>1, <2>1
  <2>4. MainInRun' /\ Owed' = Owed
    BY <1>1, <2>1, <2>2, <2>3 DEF MainInRun, Owed, Outcome
  <2>5. EndEvent(verdict) \in HighEvent
    BY <2>1 DEF EndEvent, DecidedAtEnd, HighEvent, TypeOK
  <2>6. Owed + 1 <= Heard + Told(Len(events))
    BY <2>1, <2>2 DEF SignalsInv, Announced
  <2>7. ASSUME NEW u \in Threads \ {Main}, Announced(u)'
        PROVE  FALSE
    <3>1. u # t /\ Announced(u)
      BY <2>3, <2>7 DEF Announced
    <3>2. InSection(u) /\ InSection(t)
      BY <2>1, <3>1 DEF InSection, Announced
    <3>3. QED
      BY <3>1, <3>2 DEF MutexInv, RunsAreSerialised
  <2>8. QED
    BY <2>1, <2>4, <2>5, <2>6, <2>7, PostStep
<1>8. CASE DeliverStarted
  <2>1. TakeEvent("Running") /\ emitted' = Append(emitted, "started") /\ UNCHANGED <<run, alive, handler>>
    BY <1>8 DEF DeliverStarted
  <2>2. /\ Weight("started", {"started"}, State) = 1 /\ Weight("Running", {"Running"}, Outcome) = 1
        /\ Owed' = Owed
    BY <2>1 DEF Weight, Owed, Outcome
  <2>3. QED
    BY <1>1, <2>1, <2>2, HeardLater, DeliverStep
<1>9. CASE DeliverProgress
  <2>1. TakeEvent("Progress") /\ emitted' = Append(emitted, "progress") /\ UNCHANGED <<run, alive, handler>>
    BY <1>9 DEF DeliverProgress, ProgressEvent
  <2>2. /\ Weight("progress", {"started"}, State) = 0 /\ Weight("Progress", {"Running"}, Outcome) = 0
        /\ Owed' = Owed
    BY <2>1 DEF Weight, Owed, State, Unfinished, Outcome
  <2>3. QED
    BY <1>1, <2>1, <2>2, HeardLater, DeliverStep
<1>10. ASSUME NEW e, TakeEvent(e), UNCHANGED <<run, alive, emitted>>,
              Owed' \in {0, 1, 2}, Owed' = Owed - Weight(e, {"Running"}, Outcome)
       PROVE  SignalsInv'
  <2>1. /\ Heard' = Heard
        /\ \A i \in 1 .. Len(emitted') : 0 <= Excess(emitted', i, {"started"}, State)
    BY <1>10 DEF Heard, SignalsInv
  <2>2. Weight(e, {"Running"}, Outcome) \in Int
    BY DEF Weight
  <2>3. Heard' \in Int /\ Heard' - Owed' = Heard - Owed + Weight(e, {"Running"}, Outcome)
    BY <1>1, <1>10, <2>1, <2>2
  <2>4. QED
    BY <1>10, <2>1, <2>3, DeliverStep
<1>11. ASSUME NEW o \in Outcome, DeliverEnd(o)
       PROVE  SignalsInv'
  <2>1. /\ TakeEvent(o) /\ UNCHANGED <<run, alive, emitted>> /\ handler' = o
        /\ handler = "none" /\ run[Main] = "idle"
    BY <1>11 DEF DeliverEnd, TakeEvent
  <2>2. Weight(o, {"Running"}, Outcome) = -1 /\ Owed' = 1 /\ Owed = 0
    BY <2>1 DEF Weight, Owed, Outcome
  <2>3. Owed' \in {0, 1, 2} /\ Owed' = Owed - Weight(o, {"Running"}, Outcome)
    BY <2>2
  <2>4. QED
    BY <1>10, <2>1, <2>3
<1>12. CASE DeliverOther
  <2>1. TakeEvent("Release") /\ UNCHANGED <<run, alive, emitted, handler>>
    BY <1>12 DEF DeliverOther
  <2>2. Weight("Release", {"Running"}, Outcome) = 0 /\ Owed' = Owed
    BY <2>1 DEF Weight, Owed, Outcome
  <2>3. Owed' \in {0, 1, 2} /\ Owed' = Owed - Weight("Release", {"Running"}, Outcome)
    BY <1>1, <2>2
  <2>4. QED
    BY <1>10, <2>1, <2>3
<1>13. CASE EmitEnded
  <2>1. /\ emitted' = Append(emitted, state) /\ handler \in Outcome /\ handler' = "slots"
        /\ UNCHANGED <<events, batch, alive, run>>
    BY <1>13 DEF EmitEnded
  <2>2. run[Main] \in {"idle", "closing"} /\ run'[Main] = run[Main]
    BY <1>1, <2>1 DEF MainInRun, Outcome
  <2>3. Weight(state, {"started"}, State) = -1
    BY <1>1, SignalNumbers DEF Weight
  <2>4. Owed = 1 /\ Owed' = 0 /\ MainInRun'
    BY <2>1, <2>2 DEF Owed, MainInRun, Outcome
  <2>5. Owed' \in {0, 1, 2} /\ Owed' <= Owed + Weight(state, {"started"}, State)
    BY <2>3, <2>4
  <2>6. \A u \in Threads \ {Main} : Announced(u)' => Announced(u)
    BY <2>1 DEF Announced
  <2>7. QED
    BY <2>1, <2>4, <2>5, <2>6, EmitStep
<1>14. CASE LeaveHandler
  <2>1. /\ handler = "slots" /\ handler' = "none" /\ UNCHANGED <<run, emitted>>
        /\ \/ alive' = FALSE /\ events' = <<>> /\ batch' = 0
           \/ UNCHANGED <<alive, events, batch>>
    BY <1>14 DEF LeaveHandler
  <2>2. MainInRun' /\ Owed' = Owed /\ Heard' = Heard
    BY <1>1, <2>1 DEF MainInRun, Owed, Heard, Outcome
  <2>3. CASE UNCHANGED <<alive, events, batch>>
    <3>1. /\ Owed' <= Owed /\ Owed' \in Int
          /\ \A u \in Threads \ {Main} : Announced(u)' => Announced(u)
      BY <1>1, <2>1, <2>2 DEF Announced
    <3>2. QED
      BY <2>1, <2>2, <2>3, <3>1, SilentStep
  <2>4. CASE alive' = FALSE /\ events' = <<>> /\ batch' = 0
    <3>1. HighFirst' /\ Len(events') = 0
      BY <2>4 DEF HighFirst
    <3>2. Excess(events', 0, {"Running"}, Outcome) = 0
      BY ExcessZero
    <3>3. \A k \in 0 .. Len(events') : k = 0
      BY <3>1
    <3>4. Owed' <= Heard' + 0
      BY <1>1, <2>2, SignalBounds
    <3>5. \A k \in 0 .. Len(events') : Owed' <= Heard' + Excess(events', k, {"Running"}, Outcome)
      BY <3>2, <3>3, <3>4
    <3>6. \A i \in 1 .. Len(emitted') : 0 <= Excess(emitted', i, {"started"}, State)
      BY <2>1 DEF SignalsInv
    <3>7. QED
      BY <2>2, <2>4, <3>1, <3>5, <3>6 DEF SignalsInv, Told
  <2>5. QED
    BY <2>1, <2>3, <2>4
<1>15. ASSUME NEW t \in Threads,
              \/ RunAsynchronously(t) \/ Cancel(t) \/ CallWait(t) \/ LockToWait(t)
              \/ CheckFinished(t) \/ Expire(t) \/ ReturnFromWait(t)
       PROVE  SignalsInv'
  BY <1>2, <1>15 DEF RunAsynchronously, Cancel, CallWait, LockToWait, CheckFinished, Expire,
                     ReturnFromWait
<1>16. CASE UNCHANGED vars
  BY <1>2, <1>16 DEF vars
<1>17. QED
  BY <1>3, <1>4, <1>5, <1>6, <1>7, <1>8, <1>9, <1>11, <1>12, <1>13, <1>14, <1>15, <1>16
  DEF Next, EventLoop, Application, Library, Runner

LEMMA SignalsStart == Init => SignalsInv /\ MutexInv /\ DecidedAtEnd
<1>1. Init => SignalsInv
  <2>1. SUFFICES ASSUME Init PROVE SignalsInv
    OBVIOUS
  <2>2. /\ events = <<>> /\ emitted = <<>> /\ batch = 0 /\ Owed = 0 /\ MainInRun
        /\ \A t \in Threads : ~Announced(t)
    BY <2>1, ThreadsAssumption DEF Init, Owed, MainInRun, Announced, Threads, Outcome
  <2>3. Len(events) = 0 /\ Len(emitted) = 0 /\ HighFirst
    BY <2>2 DEF HighFirst
  <2>4. Heard = 0 /\ Told(0) = 0
    BY <2>3, ExcessZero DEF Heard, Told
  <2>5. \A k \in 0 .. Len(events) : k = 0
    BY <2>3
  <2>6. \A k \in 0 .. Len(events) : Owed <= Heard + Told(k)
    BY <2>2, <2>4, <2>5
  <2>7. QED
    BY <2>2, <2>3, <2>6 DEF SignalsInv
<1>2. Init => MutexInv /\ DecidedAtEnd
  BY ThreadsAssumption
  DEF Init, MutexInv, RunsAreSerialised, NeverInBoth, InSection, DecidedAtEnd
<1>3. QED
  BY <1>1, <1>2

(* No slot ever hears of more ends than starts, for any number of threads, *)
(* runs, cancels and progress reports: the priorities of the events keep   *)
(* each end behind its start, and no two runs overlap.                     *)
THEOREM NoEndBeforeStartHolds == Spec => []NoEndBeforeStart
<1>1. Init => SignalsInv /\ MutexInv /\ DecidedAtEnd
  BY SignalsStart
<1>2. TypeOK /\ MutexInv /\ DecidedAtEnd /\ SignalsInv /\ [Next]_vars
          => MutexInv' /\ DecidedAtEnd' /\ SignalsInv'
  BY MutexStep, DecidedAtEndStep, SignalsInvStep DEF TypeOK
<1>3. TypeOK /\ SignalsInv => NoEndBeforeStart
  <2>1. SUFFICES ASSUME TypeOK, SignalsInv, NEW i \in 1 .. Len(emitted)
                 PROVE  CountTo(i, State) <= CountTo(i, {"started"})
    BY DEF NoEndBeforeStart
  <2>2. i \in Nat /\ 0 <= Excess(emitted, i, {"started"}, State)
    BY <2>1 DEF SignalsInv
  <2>3. Count(emitted, i, State) \in Nat /\ Count(emitted, i, {"started"}) \in Nat
    BY <2>2, CountNat
  <2>4. /\ CountTo(i, State) = Count(emitted, i, State)
        /\ CountTo(i, {"started"}) = Count(emitted, i, {"started"})
    BY DEF CountTo, Count
  <2>5. QED
    BY <2>2, <2>3, <2>4 DEF Excess
<1>4. QED
  BY <1>1, <1>2, <1>3, TypeCorrect, PTL DEF Spec

-----------------------------------------------------------------------------
(* The promise.  How many elements of a sequence are in a set.             *)
Of(s, S) == Count(s, Len(s), S)

LEMMA OfNat ==
    ASSUME NEW X, NEW s \in Seq(X), NEW S
    PROVE  Of(s, S) \in Nat
<1>1. Len(s) \in Nat
  OBVIOUS
<1>2. QED
  BY <1>1, CountNat DEF Of

LEMMA AppendedOf ==
    ASSUME NEW X, NEW s \in Seq(X), NEW x \in X, NEW S
    PROVE  Of(Append(s, x), S) = Of(s, S) + IF x \in S THEN 1 ELSE 0
<1>1. PICK l \in Nat : l = Len(s)
  OBVIOUS
<1>2. PICK q : q = Append(s, x)
  OBVIOUS
<1>3. Len(q) = l + 1 /\ q[l + 1] = x /\ \A j \in 1 .. l : q[j] = s[j]
  BY <1>1, <1>2
<1>4. Count(q, l, S) = Count(s, l, S)
  BY <1>3, CountSame
<1>5. Count(q, l + 1, S) = Count(q, l, S) + IF q[l + 1] \in S THEN 1 ELSE 0
  BY CountNext
<1>6. QED
  BY <1>1, <1>2, <1>3, <1>4, <1>5 DEF Of

LEMMA PostedOf ==
    ASSUME TypeOK, HighFirst, NEW e \in HighEvent, PostHigh(e),
           NEW S, S \subseteq HighEvent
    PROVE  Of(events', S) = Of(events, S) + IF e \in S THEN 1 ELSE 0
<1>1. /\ events \in Seq(EventType) /\ batch \in 0 .. Len(events) /\ e \in EventType
  BY DEF TypeOK, EventType
<1>2. PICK l \in Nat : l = Len(events)
  BY <1>1
<1>3. PICK n \in batch .. l :
         /\ Len(events') = l + 1
         /\ \A i \in 1 .. n : events'[i] = events[i]
         /\ events'[n + 1] = e
         /\ \A i \in (n + 1) .. l : /\ events[i] \notin HighEvent
                                    /\ events'[i + 1] = events[i]
  BY <1>1, <1>2, Posted
<1>4. n \in Nat /\ n <= l
  BY <1>1, <1>2
<1>5. PICK q : q = events'
  OBVIOUS
<1>6. /\ Len(q) = l + 1 /\ q[n + 1] = e
      /\ \A i \in 1 .. n : q[i] = events[i]
      /\ \A i \in (n + 1) .. l : events[i] \notin S /\ q[i + 1] = events[i]
  BY <1>3, <1>5
<1>7. Count(q, n, S) = Count(events, n, S)
  BY <1>4, <1>6, CountSame
<1>8. Count(events, l, S) = Count(events, n, S)
  BY <1>2, <1>4, <1>6, CountRest
<1>9. PICK m \in Nat : m = n + 1
  BY <1>4
<1>10. Count(q, m, S) = Count(q, n, S) + IF q[m] \in S THEN 1 ELSE 0
  BY <1>4, <1>9, CountNext
<1>11. Count(q, l + 1, S) = Count(q, m, S)
  <2>1. ASSUME NEW i \in (m + 1) .. (l + 1)
        PROVE  q[i] \notin S
    <3>1. i - 1 \in (n + 1) .. l /\ (i - 1) + 1 = i
      BY <1>2, <1>4, <1>9
    <3>2. QED
      BY <1>6, <3>1
  <2>2. l + 1 \in Nat /\ m <= l + 1
    BY <1>2, <1>4, <1>9
  <2>3. QED
    BY <1>9, <2>1, <2>2, CountRest
<1>12. q[m] = e
  BY <1>6, <1>9
<1>13. Count(q, l + 1, S) = Count(events, l, S) + IF e \in S THEN 1 ELSE 0
  BY <1>7, <1>8, <1>10, <1>11, <1>12
<1>14. QED
  BY <1>2, <1>5, <1>6, <1>13 DEF Of

LEMMA TakenOf ==
    ASSUME TypeOK, HighFirst, NEW e, TakeEvent(e), NEW S
    PROVE  /\ Of(events, S) = Of(events', S) + IF e \in S THEN 1 ELSE 0
           /\ Of(events', S) \in Nat
<1>1. /\ events \in Seq(EventType) /\ batch \in 0 .. Len(events)
  BY DEF TypeOK
<1>2. /\ Len(events) >= 1 /\ e = events[1] /\ events' \in Seq(EventType)
      /\ Len(events') = Len(events) - 1
      /\ \A i \in 1 .. Len(events') : events'[i] = events[i + 1]
  BY <1>1, TakenKeepsHighFirst
<1>3. PICK k \in Nat : k = Len(events')
  BY <1>2
<1>4. Len(events) = k + 1
  BY <1>1, <1>2, <1>3
<1>5. Count(events, k + 1, S) = Count(events', k, S) + IF events[1] \in S THEN 1 ELSE 0
  BY <1>2, <1>3, CountTail
<1>6. QED
  BY <1>2, <1>3, <1>4, <1>5, CountNat DEF Of

(* The same for a single value.                                            *)
Times(s, x) == Of(s, {x})

LEMMA AppendedTimes ==
    ASSUME NEW X, NEW s \in Seq(X), NEW x \in X, NEW y
    PROVE  /\ Times(Append(s, x), y) = Times(s, y) + IF x = y THEN 1 ELSE 0
           /\ Times(s, y) \in Nat
BY AppendedOf, OfNat DEF Times

LEMMA PostedTimes ==
    ASSUME TypeOK, HighFirst, NEW e \in HighEvent, PostHigh(e), NEW y \in HighEvent
    PROVE  Times(events', y) = Times(events, y) + IF e = y THEN 1 ELSE 0
<1>1. {y} \subseteq HighEvent /\ (e \in {y} <=> e = y)
  OBVIOUS
<1>2. PICK S : S = {y}
  OBVIOUS
<1>3. Of(events', S) = Of(events, S) + IF e \in S THEN 1 ELSE 0
  BY <1>1, <1>2, PostedOf
<1>4. QED
  BY <1>1, <1>2, <1>3 DEF Times

LEMMA TakenTimes ==
    ASSUME TypeOK, HighFirst, NEW e, TakeEvent(e), NEW y
    PROVE  /\ Times(events, y) = Times(events', y) + IF e = y THEN 1 ELSE 0
           /\ Times(events', y) \in Nat /\ Times(events', y) <= Times(events, y)
<1>1. PICK S : S = {y}
  OBVIOUS
<1>2. /\ Of(events, S) = Of(events', S) + IF e \in S THEN 1 ELSE 0
      /\ Of(events', S) \in Nat
  BY TakenOf
<1>3. e \in S <=> e = y
  BY <1>1
<1>4. QED
  BY <1>1, <1>2, <1>3 DEF Times

-----------------------------------------------------------------------------
(* Each outcome is told, about to be told, posted or about to be posted at *)
(* most once for each end with it.                                         *)
Posting(o) == verdict = o /\ \E t \in Threads : run[t] = "post"
AtHand(o) == IF handler = o THEN 1 ELSE 0
ToPost(o) == IF Posting(o) THEN 1 ELSE 0
Unaccounted(o) == told[o] + AtHand(o) + Times(events, o) + ToPost(o) - ends[o]

AccountInv == \A o \in Outcome : Unaccounted(o) <= 0

LEMMA AccountNumbers ==
    ASSUME TypeOK, NEW o
    PROVE  /\ AtHand(o) \in 0 .. 1 /\ ToPost(o) \in 0 .. 1 /\ Times(events, o) \in Nat
           /\ o \in Outcome => told[o] \in Nat /\ ends[o] \in Nat
<1>1. events \in Seq(EventType)
  BY DEF TypeOK
<1>2. Times(events, o) \in Nat
  BY <1>1, AppendedTimes, OfNat DEF Times
<1>3. AtHand(o) \in 0 .. 1 /\ ToPost(o) \in 0 .. 1
  BY DEF AtHand, ToPost
<1>4. QED
  BY <1>2, <1>3 DEF TypeOK

(* Steps after which no outcome weighs more than before.                   *)
LEMMA AccountKept ==
    ASSUME TypeOK, AccountInv, UNCHANGED ends, UNCHANGED told,
           \A o \in Outcome :
              /\ Times(events', o) \in Nat /\ AtHand(o)' \in 0 .. 1 /\ ToPost(o)' \in 0 .. 1
              /\ AtHand(o)' + Times(events', o) + ToPost(o)'
                    <= AtHand(o) + Times(events, o) + ToPost(o)
    PROVE  AccountInv'
<1>1. SUFFICES ASSUME NEW o \in Outcome
               PROVE  told[o] + AtHand(o)' + Times(events', o) + ToPost(o)' - ends[o] <= 0
  BY DEF AccountInv, Unaccounted
<1>2. told[o] + AtHand(o) + Times(events, o) + ToPost(o) - ends[o] <= 0
  BY DEF AccountInv, Unaccounted
<1>3. QED
  BY <1>2, AccountNumbers

(* At most one thread is past the lock of a run.                           *)
LEMMA AloneInRun ==
    ASSUME TypeOK, MutexInv, NEW t \in Threads, NEW u \in Threads, t # u,
           run[t] \in {"announce", "working", "stopping", "post", "wake", "unlock", "closing"}
    PROVE  run[u] \notin {"announce", "working", "stopping", "post", "wake", "unlock",
                          "closing"}
<1>1. InSection(t)
  BY DEF InSection
<1>2. mutex = t
  BY <1>1 DEF MutexInv, RunsAreSerialised
<1>3. ~InSection(u)
  BY <1>2 DEF MutexInv, RunsAreSerialised
<1>4. QED
  BY <1>3 DEF InSection

LEMMA AccountStep ==
    ASSUME TypeOK, MutexInv, DecidedAtEnd, HighFirst, MainInRun, AccountInv, [Next]_vars
    PROVE  AccountInv'
<1> USE DEF RunAt, WaitAt
<1>1. /\ run \in [Threads -> RunPoint] /\ Main \in Threads
      /\ events \in Seq(EventType) /\ MainInRun
      /\ \A o \in Outcome : /\ AtHand(o) \in 0 .. 1 /\ ToPost(o) \in 0 .. 1
                            /\ Times(events, o) \in Nat
                            /\ told[o] \in Nat /\ ends[o] \in Nat
  BY AccountNumbers, ThreadsAssumption DEF TypeOK, Threads
<1>2. ASSUME UNCHANGED <<events, handler, verdict, ends, told>>,
             \A t \in Threads : run'[t] = "post" => run[t] = "post"
      PROVE  AccountInv'
  <2>1. ASSUME NEW o \in Outcome
        PROVE  AtHand(o)' = AtHand(o) /\ ToPost(o)' \in 0 .. 1 /\ ToPost(o)' <= ToPost(o)
    BY <1>2 DEF AtHand, ToPost, Posting
  <2>2. ASSUME NEW o \in Outcome
        PROVE  /\ Times(events', o) \in Nat /\ AtHand(o)' \in 0 .. 1 /\ ToPost(o)' \in 0 .. 1
               /\ AtHand(o)' + Times(events', o) + ToPost(o)'
                     <= AtHand(o) + Times(events, o) + ToPost(o)
    <3>1. Times(events', o) = Times(events, o)
      BY <1>2
    <3>2. QED
      BY <1>1, <2>1, <3>1
  <2>3. QED
    BY <1>2, <2>2, AccountKept
<1>3. ASSUME NEW t \in Threads,
             \/ RunSynchronously(t) \/ TakeJob(t) \/ MarkRunning(t) \/ LockForRun(t)
             \/ StopRunning(t) \/ WakeOne(t) \/ UnlockRun(t)
      PROVE  AccountInv'
  <2>1. UNCHANGED <<events, handler, verdict, ends, told>>
    BY <1>3 DEF RunSynchronously, TakeJob, MarkRunning, LockForRun, StopRunning, WakeOne,
                UnlockRun
  <2>2. \E p \in {"begin", "lock", "announce", "stopping", "unlock", "idle"} :
            run' = [run EXCEPT ![t] = p]
    BY <1>3 DEF RunSynchronously, TakeJob, MarkRunning, LockForRun, StopRunning, WakeOne,
                UnlockRun
  <2>3. \A u \in Threads : run'[u] = "post" => run[u] = "post"
    BY <1>1, <2>2
  <2>4. QED
    BY <1>2, <2>1, <2>3
<1>4. ASSUME NEW t \in Threads,
             \/ RunAsynchronously(t) \/ Cancel(t) \/ CallWait(t) \/ LockToWait(t)
             \/ CheckFinished(t) \/ Expire(t) \/ ReturnFromWait(t)
      PROVE  AccountInv'
  BY <1>2, <1>4 DEF RunAsynchronously, Cancel, CallWait, LockToWait, CheckFinished, Expire,
                    ReturnFromWait
<1>5. CASE UNCHANGED vars
  BY <1>2, <1>5 DEF vars
(* Steps that only change the queue, by what is no outcome or goes.        *)
<1>6. ASSUME UNCHANGED <<handler, verdict, ends, told>>,
             \A t \in Threads : run'[t] = "post" => run[t] = "post",
             \A o \in Outcome : Times(events', o) \in Nat /\ Times(events', o) <= Times(events, o)
      PROVE  AccountInv'
  <2>1. ASSUME NEW o \in Outcome
        PROVE  AtHand(o)' = AtHand(o) /\ ToPost(o)' \in 0 .. 1 /\ ToPost(o)' <= ToPost(o)
    BY <1>6 DEF AtHand, ToPost, Posting
  <2>2. ASSUME NEW o \in Outcome
        PROVE  /\ Times(events', o) \in Nat /\ AtHand(o)' \in 0 .. 1 /\ ToPost(o)' \in 0 .. 1
               /\ AtHand(o)' + Times(events', o) + ToPost(o)'
                     <= AtHand(o) + Times(events, o) + ToPost(o)
    BY <1>1, <1>6, <2>1
  <2>3. QED
    BY <1>6, <2>2, AccountKept
<1>7. ASSUME NEW t \in Threads, AnnounceStart(t)
      PROVE  AccountInv'
  <2>1. /\ UNCHANGED <<handler, verdict, ends, told>>
        /\ run' = [run EXCEPT ![t] = "working"]
        /\ PostHigh("Running") \/ UNCHANGED events
    BY <1>7 DEF AnnounceStart
  <2>2. ASSUME NEW o \in Outcome
        PROVE  Times(events', o) \in Nat /\ Times(events', o) <= Times(events, o)
    <3>1. "Running" \in HighEvent /\ o \in HighEvent /\ "Running" # o
      BY DEF HighEvent, Outcome
    <3>2. Times(events', o) = Times(events, o)
      <4>1. CASE PostHigh("Running")
        <5>1. Times(events', o) = Times(events, o) + IF "Running" = o THEN 1 ELSE 0
          BY <3>1, <4>1, PostedTimes
        <5>2. QED
          BY <1>1, <3>1, <5>1
      <4>2. QED
        BY <2>1, <4>1
    <3>3. QED
      BY <1>1, <3>2
  <2>3. \A u \in Threads : run'[u] = "post" => run[u] = "post"
    BY <1>1, <2>1
  <2>4. QED
    BY <1>6, <2>1, <2>2, <2>3
<1>8. ASSUME NEW t \in Threads, ReportProgress(t)
      PROVE  AccountInv'
  <2>1. /\ UNCHANGED <<handler, verdict, ends, told, run>>
        /\ events' = Append(events, "Progress") \/ events' = events
    BY <1>8 DEF ReportProgress, PostNormal, ProgressEvent
  <2>2. ASSUME NEW o \in Outcome
        PROVE  Times(events', o) \in Nat /\ Times(events', o) <= Times(events, o)
    <3>1. "Progress" \in EventType /\ "Progress" # o
      BY DEF EventType, ProgressEvent, Outcome
    <3>2. Times(Append(events, "Progress"), o)
             = Times(events, o) + IF "Progress" = o THEN 1 ELSE 0
      BY <1>1, <3>1, AppendedTimes
    <3>3. Times(Append(events, "Progress"), o) = Times(events, o)
      BY <1>1, <3>1, <3>2
    <3>4. Times(events', o) = Times(events, o)
      BY <2>1, <3>3
    <3>5. QED
      BY <1>1, <3>4
  <2>3. QED
    BY <1>6, <2>1, <2>2
<1>9. CASE DeliverStarted \/ DeliverProgress \/ DeliverOther
  <2>1. /\ UNCHANGED <<handler, verdict, ends, told, run>>
        /\ \E e : TakeEvent(e)
    BY <1>9 DEF DeliverStarted, DeliverProgress, DeliverOther
  <2>2. PICK e : TakeEvent(e)
    BY <2>1
  <2>3. ASSUME NEW o \in Outcome
        PROVE  Times(events', o) \in Nat /\ Times(events', o) <= Times(events, o)
    <3>1. /\ Times(events, o) = Times(events', o) + IF e = o THEN 1 ELSE 0
          /\ Times(events', o) \in Nat
      BY <2>2, TakenTimes
    <3>2. QED
      BY <3>1
  <2>4. QED
    BY <1>6, <2>1, <2>3
<1>10. CASE LeaveHandler
  <2>1. /\ UNCHANGED <<verdict, ends, told, run>>
        /\ handler = "slots" /\ handler' = "none"
        /\ events' = <<>> \/ events' = events
    BY <1>10 DEF LeaveHandler
  <2>2. ASSUME NEW o \in Outcome
        PROVE  /\ Times(events', o) \in Nat /\ AtHand(o)' \in 0 .. 1 /\ ToPost(o)' \in 0 .. 1
               /\ AtHand(o)' + Times(events', o) + ToPost(o)'
                     <= AtHand(o) + Times(events, o) + ToPost(o)
    <3>1. AtHand(o) = 0 /\ AtHand(o)' = 0 /\ ToPost(o)' = ToPost(o)
      BY <2>1 DEF AtHand, ToPost, Posting, Outcome
    <3>2. Times(<<>>, o) = 0
      BY CountZero DEF Of, Times
    <3>3. Times(events', o) \in Nat /\ Times(events', o) <= Times(events, o)
      BY <1>1, <2>1, <3>2
    <3>4. QED
      BY <1>1, <3>1, <3>3
  <2>3. QED
    BY <2>1, <2>2, AccountKept
<1>11. ASSUME NEW o \in Outcome, DeliverEnd(o)
       PROVE  AccountInv'
  <2>1. /\ UNCHANGED <<verdict, ends, told, run>> /\ TakeEvent(o)
        /\ handler = "none" /\ handler' = o
    BY <1>11 DEF DeliverEnd, TakeEvent
  <2>2. ASSUME NEW p \in Outcome
        PROVE  /\ Times(events', p) \in Nat /\ AtHand(p)' \in 0 .. 1 /\ ToPost(p)' \in 0 .. 1
               /\ AtHand(p)' + Times(events', p) + ToPost(p)'
                     <= AtHand(p) + Times(events, p) + ToPost(p)
    <3>1. /\ AtHand(p) = 0 /\ AtHand(p)' = (IF o = p THEN 1 ELSE 0)
          /\ ToPost(p)' = ToPost(p)
      BY <2>1 DEF AtHand, ToPost, Posting, Outcome
    <3>2. /\ Times(events, p) = Times(events', p) + IF o = p THEN 1 ELSE 0
          /\ Times(events', p) \in Nat
      BY <2>1, TakenTimes
    <3>3. QED
      BY <1>1, <3>1, <3>2
  <2>3. QED
    BY <2>1, <2>2, AccountKept
<1>12. ASSUME NEW t \in Threads, PostEnd(t)
       PROVE  AccountInv'
  <2>1. /\ UNCHANGED <<handler, verdict, ends, told>>
        /\ run[t] = "post" /\ run' = [run EXCEPT ![t] = "wake"]
        /\ PostHigh(EndEvent(verdict))
    BY <1>12 DEF PostEnd
  <2>2. verdict \in Outcome /\ EndEvent(verdict) \in HighEvent
    BY <2>1 DEF DecidedAtEnd, TypeOK, EndEvent, HighEvent
  <2>3. \A u \in Threads : run'[u] # "post"
    BY <1>1, <2>1, AloneInRun
  <2>4. ASSUME NEW o \in Outcome
        PROVE  /\ Times(events', o) \in Nat /\ AtHand(o)' \in 0 .. 1 /\ ToPost(o)' \in 0 .. 1
               /\ AtHand(o)' + Times(events', o) + ToPost(o)'
                     <= AtHand(o) + Times(events, o) + ToPost(o)
    <3>1. AtHand(o)' = AtHand(o) /\ ToPost(o)' = 0 /\ (verdict = o => ToPost(o) = 1)
      BY <2>1, <2>3 DEF AtHand, ToPost, Posting
    <3>2. o \in HighEvent
      BY DEF HighEvent
    <3>3. Times(events', o) = Times(events, o) + IF EndEvent(verdict) = o THEN 1 ELSE 0
      BY <2>1, <2>2, <3>2, PostedTimes
    <3>4. EndEvent(verdict) = o => verdict = o
      BY <2>2 DEF EndEvent, Outcome
    <3>5. QED
      BY <1>1, <3>1, <3>3, <3>4
  <2>5. QED
    BY <2>1, <2>4, AccountKept
<1>13. ASSUME NEW t \in Threads, NEW o \in Outcome, EndRun(t, o)
       PROVE  AccountInv'
  <2>1. /\ UNCHANGED <<events, told>> /\ ends' = [ends EXCEPT ![o] = @ + 1]
        /\ run[t] \in {"working", "stopping"} /\ verdict' = o
        /\ IF t = Main THEN run' = [run EXCEPT ![t] = "closing"] /\ handler' = o
                       ELSE run' = [run EXCEPT ![t] = "post"] /\ handler' = handler
    BY <1>13 DEF EndRun, Working
  <2>2. \A u \in Threads : run[u] # "post" /\ (t = Main => run'[u] # "post")
    BY <1>1, <2>1, AloneInRun
  <2>3. t = Main => handler = "none"
    BY <1>1, <2>1 DEF MainInRun
  <2>4. ASSUME NEW p \in Outcome
        PROVE  Unaccounted(p)' <= 0
    <3>1. Unaccounted(p) <= 0
      BY DEF AccountInv
    <3>2. ends'[p] = ends[p] + IF p = o THEN 1 ELSE 0
      BY <2>1 DEF TypeOK
    <3>3. ToPost(p) = 0 /\ ToPost(p)' = IF p = o /\ t # Main THEN 1 ELSE 0
      <4>1. run'[t] = IF t = Main THEN "closing" ELSE "post"
        BY <1>1, <2>1
      <4>2. QED
        BY <2>1, <2>2, <4>1 DEF ToPost, Posting
    <3>4. AtHand(p)' = AtHand(p) + IF p = o /\ t = Main THEN 1 ELSE 0
      BY <2>1, <2>3 DEF AtHand, Outcome
    <3>5. Times(events', p) = Times(events, p) /\ told'[p] = told[p]
      BY <2>1
    <3>6. Unaccounted(p)'
             = told[p] + AtHand(p)' + Times(events, p) + ToPost(p)' - ends'[p]
      BY <3>5 DEF Unaccounted
    <3>7. told[p] + AtHand(p) + Times(events, p) + ToPost(p) - ends[p] <= 0
      BY <3>1 DEF Unaccounted
    <3>8. CASE p = o
      <4>1. /\ ends'[p] = ends[p] + 1
            /\ AtHand(p)' + ToPost(p)' = AtHand(p) + 1
        BY <1>1, <3>2, <3>3, <3>4, <3>8
      <4>2. PICK a, b \in Nat : a = told[p] + Times(events, p) /\ b = AtHand(p)' + ToPost(p)'
        BY <1>1, <3>3, <3>4
      <4>3. a + AtHand(p) - ends[p] <= 0
        BY <1>1, <3>3, <3>7, <4>2
      <4>4. a + b - ends'[p] <= 0
        <5>1. PICK d, h \in Nat : d = ends[p] /\ h = AtHand(p)
          BY <1>1
        <5>2. a + h - d <= 0 /\ b = h + 1 /\ ends'[p] = d + 1
          BY <4>1, <4>2, <4>3, <5>1
        <5>3. QED
          BY <5>1, <5>2
      <4>5. told[p] + AtHand(p)' + Times(events, p) + ToPost(p)' - ends'[p] <= 0
        <5>1. PICK w, m, h, x, d \in Nat :
                 /\ w = told[p] /\ m = Times(events, p) /\ h = AtHand(p)' /\ x = ToPost(p)'
                 /\ d = ends'[p]
          <6>1. AtHand(p)' \in Nat /\ ToPost(p)' \in Nat
            BY <1>1, <3>3, <3>4
          <6>2. ends'[p] \in Nat
            BY <1>1, <4>1
          <6>3. told[p] \in Nat /\ Times(events, p) \in Nat
            BY <1>1
          <6>4. QED
            BY <6>1, <6>2, <6>3
        <5>2. (w + m) + (h + x) - d <= 0
          BY <4>2, <4>4, <5>1
        <5>3. w + h + m + x - d <= 0
          BY <5>2
        <5>4. QED
          BY <5>1, <5>3
      <4>6. QED
        BY <3>6, <4>5
    <3>9. CASE p # o
      BY <1>1, <3>2, <3>3, <3>4, <3>6, <3>7, <3>9
    <3>10. QED
      BY <3>8, <3>9
  <2>5. QED
    BY <2>4 DEF AccountInv
<1>14. CASE EmitEnded
  <2>1. /\ UNCHANGED <<events, verdict, ends, run>>
        /\ told' = [told EXCEPT ![handler] = @ + 1]
        /\ handler \in Outcome /\ handler' = "slots"
    BY <1>14 DEF EmitEnded
  <2>2. ASSUME NEW p \in Outcome
        PROVE  Unaccounted(p)' <= 0
    <3>1. Unaccounted(p) <= 0
      BY DEF AccountInv
    <3>2. told'[p] = told[p] + IF p = handler THEN 1 ELSE 0
      BY <2>1 DEF TypeOK
    <3>3. /\ AtHand(p) = (IF p = handler THEN 1 ELSE 0) /\ AtHand(p)' = 0
          /\ ToPost(p)' = ToPost(p)
      BY <2>1 DEF AtHand, ToPost, Posting, Outcome
    <3>4. Unaccounted(p)'
             = told'[p] + AtHand(p)' + Times(events, p) + ToPost(p)' - ends[p]
      BY <2>1 DEF Unaccounted
    <3>5. QED
      BY <1>1, <3>1, <3>2, <3>3, <3>4 DEF Unaccounted
  <2>3. QED
    BY <2>2 DEF AccountInv
<1>15. QED
  BY <1>3, <1>4, <1>5, <1>7, <1>8, <1>9, <1>10, <1>11, <1>12, <1>13, <1>14
  DEF Next, EventLoop, Application, Library, Runner

-----------------------------------------------------------------------------
(* No more starts are heard of and posted than runs ended and one.         *)
InBody == \E t \in Threads : run[t] \in {"working", "stopping"}
Now == IF InBody THEN 1 ELSE 0
Starts == Times(emitted, "started")
Coming == Times(events, "Running")
Over == ends["Canceled"] + ends["Failed"] + ends["Completed"]

StartsInv == Starts + Coming <= Over + Now

LEMMA StartNumbers ==
    ASSUME TypeOK
    PROVE  Starts \in Nat /\ Coming \in Nat /\ Over \in Nat /\ Now \in 0 .. 1
<1>1. Starts \in Nat /\ Coming \in Nat
  <2>1. events \in Seq(EventType) /\ emitted \in Seq(State \cup {"started", "progress"})
    BY DEF TypeOK
  <2>2. QED
    BY <2>1, OfNat DEF Starts, Coming, Times
<1>2. Over \in Nat
  BY DEF TypeOK, Over, Outcome
<1>3. QED
  BY <1>1, <1>2 DEF Now

LEMMA SumKept ==
    ASSUME NEW s \in Nat, NEW c \in Nat, NEW o \in Nat, NEW n \in Nat, s + c <= o + n,
           NEW b \in Nat
    PROVE  /\ b <= c => s + b <= o + n
           /\ c = b + 1 => (s + 1) + b <= o + n
OBVIOUS

LEMMA StartsKept ==
    ASSUME NEW s \in Nat, NEW c \in Nat, NEW o \in Nat, NEW n \in Nat,
           s = Starts', c = Coming', o = Over', n = Now', s + c <= o + n
    PROVE  StartsInv'
BY DEF StartsInv

LEMMA StartsStep ==
    ASSUME TypeOK, MutexInv, DecidedAtEnd, HighFirst, StartsInv, [Next]_vars
    PROVE  StartsInv'
<1> USE DEF RunAt, WaitAt
<1>1. /\ run \in [Threads -> RunPoint]
      /\ events \in Seq(EventType) /\ emitted \in Seq(State \cup {"started", "progress"})
  BY DEF TypeOK
<1>2. /\ Starts \in Nat /\ Coming \in Nat /\ Over \in Nat /\ Now \in Nat /\ Now' \in Nat
      /\ Now <= 1 /\ Now' <= 1
      /\ Starts + Coming <= Over + Now
  <2>1. Now \in 0 .. 1 /\ Now' \in 0 .. 1
    BY DEF Now
  <2>2. QED
    BY <2>1, StartNumbers DEF StartsInv
<1>3. ASSUME UNCHANGED <<events, emitted, ends>>, InBody => InBody'
      PROVE  StartsInv'
  <2>1. Starts' = Starts /\ Coming' = Coming /\ Over' = Over
    BY <1>3 DEF Starts, Coming, Over
  <2>2. Now <= Now'
    BY <1>3 DEF Now
  <2>3. QED
    BY <1>2, <2>1, <2>2, StartsKept
<1>4. ASSUME NEW t \in Threads,
             \/ RunSynchronously(t) \/ TakeJob(t) \/ MarkRunning(t) \/ LockForRun(t)
             \/ StopRunning(t) \/ WakeOne(t) \/ UnlockRun(t)
      PROVE  StartsInv'
  <2>1. UNCHANGED <<events, emitted, ends>>
    BY <1>4 DEF RunSynchronously, TakeJob, MarkRunning, LockForRun, StopRunning, WakeOne,
                UnlockRun
  <2>2. \E p : /\ run' = [run EXCEPT ![t] = p]
               /\ p = "stopping" \/ run[t] \notin {"working", "stopping"}
    BY <1>4 DEF RunSynchronously, TakeJob, MarkRunning, LockForRun, StopRunning, WakeOne,
                UnlockRun, RunIsOver
  <2>3. InBody => InBody'
    BY <1>1, <2>2 DEF InBody
  <2>4. QED
    BY <1>3, <2>1, <2>3
<1>5. ASSUME NEW t \in Threads,
             \/ RunAsynchronously(t) \/ Cancel(t) \/ CallWait(t) \/ LockToWait(t)
             \/ CheckFinished(t) \/ Expire(t) \/ ReturnFromWait(t)
      PROVE  StartsInv'
  BY <1>3, <1>5 DEF InBody, RunAsynchronously, Cancel, CallWait, LockToWait, CheckFinished,
                    Expire, ReturnFromWait
<1>6. CASE UNCHANGED vars
  BY <1>3, <1>6 DEF vars, InBody
<1>7. ASSUME NEW t \in Threads, AnnounceStart(t)
      PROVE  StartsInv'
  <2>1. /\ run[t] = "announce" /\ run' = [run EXCEPT ![t] = "working"] /\ UNCHANGED ends
        /\ \/ emitted' = Append(emitted, "started") /\ UNCHANGED events
           \/ PostHigh("Running") /\ UNCHANGED emitted
    BY <1>7 DEF AnnounceStart
  <2>2. Now = 0 /\ Now' = 1 /\ Over' = Over
    <3>1. ~InBody
      BY <2>1, AloneInRun DEF InBody
    <3>2. InBody'
      BY <1>1, <2>1 DEF InBody
    <3>3. QED
      BY <2>1, <3>1, <3>2 DEF Now, Over
  <2>3. Starts' + Coming' = Starts + Coming + 1
    <3>1. CASE emitted' = Append(emitted, "started") /\ UNCHANGED events
      <4>1. Times(Append(emitted, "started"), "started") = Times(emitted, "started") + 1
        BY <1>1, AppendedTimes
      <4>2. Starts' = Starts + 1 /\ Coming' = Coming
        BY <3>1, <4>1 DEF Starts, Coming
      <4>3. QED
        BY <1>2, <4>2
    <3>2. CASE PostHigh("Running") /\ UNCHANGED emitted
      <4>1. Times(events', "Running") = Times(events, "Running") + 1
        BY <3>2, PostedTimes DEF HighEvent
      <4>2. Coming' = Coming + 1 /\ Starts' = Starts
        BY <3>2, <4>1 DEF Starts, Coming
      <4>3. QED
        BY <1>2, <4>2
    <3>3. QED
      BY <2>1, <3>1, <3>2
  <2>4. Starts' + Coming' <= Over' + Now'
    BY <1>2, <2>2, <2>3
  <2>5. QED
    BY <2>4 DEF StartsInv
(* Steps that tell no start, and hear of none.                             *)
<1>8. ASSUME UNCHANGED <<ends, run>>, Starts' = Starts, Coming' \in Nat, Coming' <= Coming
      PROVE  StartsInv'
  <2>1. Over' = Over /\ Now' = Now
    BY <1>8 DEF Over, Now, InBody
  <2>2. Starts + Coming' <= Over + Now
    BY <1>2, <1>8, SumKept
  <2>3. Starts' \in Nat /\ Over' \in Nat /\ Starts' + Coming' <= Over' + Now'
    BY <1>2, <1>8, <2>1, <2>2
  <2>4. QED
    BY <1>2, <1>8, <2>3, StartsKept
<1>9. ASSUME NEW x \in State \cup {"progress"}, emitted' = Append(emitted, x)
      PROVE  Starts' = Starts
  <2>1. x # "started"
    BY <1>9 DEF State, Unfinished, Outcome
  <2>2. Times(Append(emitted, x), "started") = Times(emitted, "started") + 0
    BY <1>1, <2>1, AppendedTimes
  <2>3. QED
    BY <1>2, <1>9, <2>2 DEF Starts
<1>10. ASSUME NEW t \in Threads, ReportProgress(t)
       PROVE  StartsInv'
  <2>1. /\ UNCHANGED <<ends, run>>
        /\ \/ emitted' = Append(emitted, "progress") /\ UNCHANGED events
           \/ events' = Append(events, "Progress") /\ UNCHANGED emitted
    BY <1>10 DEF ReportProgress, PostNormal, ProgressEvent
  <2>2. Starts' = Starts
    BY <1>9, <2>1 DEF Starts
  <2>3. Coming' = Coming
    <3>1. "Progress" \in EventType
      BY DEF EventType, ProgressEvent
    <3>2. Times(Append(events, "Progress"), "Running") = Times(events, "Running") + 0
      BY <1>1, <3>1, AppendedTimes
    <3>3. Times(Append(events, "Progress"), "Running") = Times(events, "Running")
      BY <1>2, <3>2 DEF Coming
    <3>4. QED
      BY <2>1, <3>3 DEF Coming
  <2>4. QED
    BY <1>2, <1>8, <2>1, <2>2, <2>3
<1>11. CASE DeliverProgress \/ DeliverOther \/ \E o \in Outcome : DeliverEnd(o)
  <2>1. /\ UNCHANGED <<ends, run>>
        /\ emitted' = emitted \/ emitted' = Append(emitted, "progress")
        /\ \E e : TakeEvent(e)
    BY <1>11 DEF DeliverProgress, DeliverOther, DeliverEnd
  <2>2. Starts' = Starts
    BY <1>9, <2>1 DEF Starts
  <2>3. Coming' \in Nat /\ Coming' <= Coming
    <3>1. PICK e : TakeEvent(e)
      BY <2>1
    <3>2. /\ Times(events', "Running") <= Times(events, "Running")
          /\ Times(events', "Running") \in Nat
      BY <3>1, TakenTimes
    <3>3. QED
      BY <3>2 DEF Coming
  <2>4. QED
    BY <1>8, <2>1, <2>2, <2>3
<1>12. CASE DeliverStarted
  <2>1. /\ UNCHANGED <<ends, run>> /\ TakeEvent("Running")
        /\ emitted' = Append(emitted, "started")
    BY <1>12 DEF DeliverStarted
  <2>2. Over' = Over /\ Now' = Now
    BY <2>1 DEF Over, Now, InBody
  <2>3. Times(Append(emitted, "started"), "started") = Times(emitted, "started") + 1
    BY <1>1, AppendedTimes
  <2>4. Starts' = Starts + 1
    BY <2>1, <2>3 DEF Starts
  <2>5. Coming = Coming' + 1 /\ Coming' \in Nat
    BY <2>1, TakenTimes DEF Coming
  <2>6. (Starts + 1) + Coming' <= Over + Now
    BY <1>2, <2>5, SumKept
  <2>7. /\ Starts' \in Nat /\ Over' \in Nat /\ Now' \in Nat
        /\ Starts' + Coming' <= Over' + Now'
    BY <1>2, <2>2, <2>4, <2>6
  <2>8. QED
    BY <2>5, <2>7, StartsKept
<1>13. CASE LeaveHandler
  <2>1. /\ UNCHANGED <<ends, run, emitted>>
        /\ events' = <<>> \/ events' = events
    BY <1>13 DEF LeaveHandler
  <2>2. Times(<<>>, "Running") = 0
    BY CountZero DEF Times, Of
  <2>3. Coming' \in Nat /\ Coming' <= Coming /\ Starts' = Starts
    BY <1>2, <2>1, <2>2 DEF Coming, Starts
  <2>4. QED
    BY <1>8, <2>1, <2>3
<1>14. CASE EmitEnded
  <2>1. UNCHANGED <<ends, run, events>> /\ emitted' = Append(emitted, state) /\ state \in State
    BY <1>14 DEF EmitEnded, TypeOK
  <2>2. Starts' = Starts /\ Coming' = Coming
    BY <1>9, <2>1 DEF Coming
  <2>3. QED
    BY <1>2, <1>8, <2>1, <2>2
<1>15. ASSUME NEW t \in Threads, PostEnd(t)
       PROVE  StartsInv'
  <2>1. /\ UNCHANGED <<ends, emitted>> /\ PostHigh(EndEvent(verdict))
        /\ run[t] = "post" /\ run' = [run EXCEPT ![t] = "wake"]
    BY <1>15 DEF PostEnd
  <2>2. EndEvent(verdict) \in HighEvent /\ EndEvent(verdict) # "Running"
    BY <2>1 DEF DecidedAtEnd, TypeOK, EndEvent, HighEvent, Outcome
  <2>3. Times(events', "Running") = Times(events, "Running") + 0
    BY <2>1, <2>2, PostedTimes DEF HighEvent
  <2>4. Starts' = Starts /\ Coming' = Coming /\ Over' = Over
    BY <1>2, <2>1, <2>3 DEF Coming, Starts, Over
  <2>5. InBody => InBody'
    BY <1>1, <2>1 DEF InBody
  <2>6. Now <= Now'
    BY <2>5 DEF Now
  <2>7. QED
    BY <1>2, <2>4, <2>6, StartsKept
<1>16. ASSUME NEW t \in Threads, NEW o \in Outcome, EndRun(t, o)
       PROVE  StartsInv'
  <2>1. UNCHANGED <<events, emitted>> /\ ends' = [ends EXCEPT ![o] = @ + 1]
    BY <1>16 DEF EndRun
  <2>2. Starts' = Starts /\ Coming' = Coming
    BY <2>1 DEF Starts, Coming
  <2>3. Over' = Over + 1
    BY <2>1 DEF TypeOK, Over, Outcome
  <2>4. QED
    BY <1>2, <2>2, <2>3, StartsKept
<1>17. QED
  BY <1>4, <1>5, <1>6, <1>7, <1>10, <1>11, <1>12, <1>13, <1>14, <1>15, <1>16
  DEF Next, EventLoop, Application, Library, Runner

-----------------------------------------------------------------------------
(* As long as no start was heard of, each progress has one before it.      *)
ProgressInv ==
    Starts = 0 =>
        \A i \in 1 .. Len(events) : events[i] = "Progress" =>
            \E j \in 1 .. Len(events) : j < i /\ events[j] = "Running"

(* A run that may report progress was announced.                           *)
LEMMA StartIsComing ==
    ASSUME TypeOK, SignalsInv, alive, NEW t \in Threads, run[t] = "working"
    PROVE  /\ t = Main => Starts > 0
           /\ Starts = 0 => \E j \in 1 .. Len(events) : events[j] = "Running"
<1>1. /\ Len(events) \in Nat /\ Len(emitted) \in Nat
      /\ Owed \in Nat /\ Heard \in Int /\ Told(Len(events)) \in Int /\ Owed <= Heard
  BY SignalNumbers, SignalBounds
<1>2. /\ Heard <= Starts
      /\ Told(Len(events)) <= Coming
  <2>1. Count(emitted, Len(emitted), State) \in Nat /\ Count(events, Len(events), Outcome) \in Nat
    BY <1>1, CountNat
  <2>2. Starts \in Nat /\ Coming \in Nat
    BY StartNumbers
  <2>3. /\ Heard = Starts - Count(emitted, Len(emitted), State)
        /\ Told(Len(events)) = Coming - Count(events, Len(events), Outcome)
    BY DEF Heard, Told, Excess, Starts, Coming, Times, Of
  <2>4. QED
    BY <2>1, <2>2, <2>3
<1>3. CASE t = Main
  <2>1. Owed >= 1
    BY <1>3 DEF Owed
  <2>2. Starts > 0
    BY <1>1, <1>2, <2>1, StartNumbers
  <2>3. QED
    BY <2>2
<1>4. CASE t # Main
  <2>1. Owed + 1 <= Heard + Told(Len(events))
    BY <1>4 DEF SignalsInv, Announced
  <2>2. Starts = 0 => Coming # 0
    BY <1>1, <1>2, <2>1, StartNumbers
  <2>3. ASSUME \A j \in 1 .. Len(events) : events[j] # "Running"
        PROVE  Coming = 0
    <3>1. {j \in 1 .. Len(events) : events[j] \in {"Running"}} = {}
      BY <2>3
    <3>2. QED
      BY <3>1, FS_EmptySet DEF Coming, Times, Of, Count
  <2>4. QED
    BY <1>4, <2>2, <2>3
<1>5. QED
  BY <1>3, <1>4

LEMMA ProgressStep ==
    ASSUME TypeOK, DecidedAtEnd, SignalsInv, ProgressInv, [Next]_vars
    PROVE  ProgressInv'
<1> USE DEF RunAt, WaitAt
<1>1. /\ events \in Seq(EventType) /\ emitted \in Seq(State \cup {"started", "progress"})
      /\ batch \in 0 .. Len(events) /\ Len(events) \in Nat /\ Starts \in Nat /\ HighFirst
  BY StartNumbers DEF TypeOK, SignalsInv
<1>2. ASSUME UNCHANGED <<events, emitted>>
      PROVE  ProgressInv'
  BY <1>2 DEF ProgressInv, Starts
<1>3. ASSUME NEW x \in State \cup {"progress", "started"}, emitted' = Append(emitted, x)
      PROVE  /\ Starts' = 0 => Starts = 0
             /\ x = "started" => Starts' # 0
  <2>1. Times(Append(emitted, x), "started")
           = Times(emitted, "started") + IF x = "started" THEN 1 ELSE 0
    BY <1>1, AppendedTimes
  <2>2. Starts' = Starts + IF x = "started" THEN 1 ELSE 0
    BY <1>3, <2>1 DEF Starts
  <2>3. QED
    BY <1>1, <2>2
<1>4. ASSUME NEW x \in State \cup {"progress", "started"}, emitted' = Append(emitted, x),
             UNCHANGED events
      PROVE  ProgressInv'
  BY <1>3, <1>4 DEF ProgressInv
<1>5. ASSUME NEW e \in HighEvent, PostHigh(e), UNCHANGED emitted
      PROVE  ProgressInv'
  <2>1. PICK n \in batch .. Len(events) :
           /\ Len(events') = Len(events) + 1
           /\ \A i \in 1 .. n : events'[i] = events[i]
           /\ events'[n + 1] = e
           /\ \A i \in (n + 1) .. Len(events) : /\ events[i] \notin HighEvent
                                                /\ events'[i + 1] = events[i]
    BY <1>1, <1>5, Posted DEF EventType
  <2>2. e # "Progress" /\ "Running" \in HighEvent
    BY DEF HighEvent, Outcome
  <2>3. Starts' = Starts
    BY <1>5 DEF Starts
  <2>4. SUFFICES ASSUME Starts = 0, NEW i \in 1 .. Len(events'), events'[i] = "Progress"
                 PROVE  \E j \in 1 .. Len(events') : j < i /\ events'[j] = "Running"
    BY <2>3 DEF ProgressInv
  <2>5. PICK k \in 1 .. Len(events) : events[k] = "Progress" /\ k <= i
    <3>1. i # n + 1
      BY <2>1, <2>2, <2>4
    <3>2. CASE i \in 1 .. n
      <4>1. i \in 1 .. Len(events) /\ events[i] = "Progress"
        BY <1>1, <2>1, <2>4, <3>2
      <4>2. QED
        BY <4>1
    <3>3. CASE i > n + 1
      <4>1. i - 1 \in (n + 1) .. Len(events) /\ (i - 1) + 1 = i
        BY <1>1, <2>1, <2>4, <3>3
      <4>2. i - 1 \in 1 .. Len(events) /\ i - 1 <= i
        BY <1>1, <4>1
      <4>3. events[i - 1] = "Progress"
        BY <2>1, <2>4, <4>1
      <4>4. QED
        BY <4>2, <4>3
    <3>4. QED
      BY <1>1, <2>4, <3>1, <3>2, <3>3
  <2>6. PICK j \in 1 .. Len(events) : j < k /\ events[j] = "Running"
    BY <2>4, <2>5 DEF ProgressInv
  <2>7. j \in 1 .. n
    <3>1. j \notin (n + 1) .. Len(events)
      BY <2>1, <2>2, <2>6
    <3>2. QED
      BY <1>1, <2>6, <3>1
  <2>8. j \in 1 .. Len(events') /\ j < i /\ events'[j] = "Running"
    BY <1>1, <2>1, <2>5, <2>6, <2>7
  <2>9. QED
    BY <2>8
<1>6. ASSUME NEW e, TakeEvent(e), Starts' = 0 => Starts = 0 /\ e # "Running"
      PROVE  ProgressInv'
  <2>1. /\ Len(events) >= 1 /\ e = events[1] /\ Len(events') = Len(events) - 1
        /\ \A i \in 1 .. Len(events') : events'[i] = events[i + 1]
    BY <1>1, <1>6, TakenKeepsHighFirst
  <2>2. SUFFICES ASSUME Starts' = 0, NEW i \in 1 .. Len(events'), events'[i] = "Progress"
                 PROVE  \E j \in 1 .. Len(events') : j < i /\ events'[j] = "Running"
    BY DEF ProgressInv
  <2>3. i + 1 \in 1 .. Len(events) /\ events[i + 1] = "Progress"
    BY <1>1, <2>1, <2>2
  <2>4. PICK j \in 1 .. Len(events) : j < i + 1 /\ events[j] = "Running"
    BY <1>6, <2>2, <2>3 DEF ProgressInv
  <2>5. j # 1
    BY <1>6, <2>1, <2>2, <2>4
  <2>6. j - 1 \in 1 .. Len(events') /\ j - 1 < i /\ (j - 1) + 1 = j
    BY <1>1, <2>1, <2>2, <2>4, <2>5
  <2>7. events'[j - 1] = "Running"
    BY <2>1, <2>4, <2>6
  <2>8. QED
    BY <2>6, <2>7
<1>7. ASSUME NEW t \in Threads, AnnounceStart(t)
      PROVE  ProgressInv'
  <2>1. \/ emitted' = Append(emitted, "started") /\ UNCHANGED events
        \/ PostHigh("Running") /\ UNCHANGED emitted
    BY <1>7 DEF AnnounceStart
  <2>2. "Running" \in HighEvent
    BY DEF HighEvent
  <2>3. QED
    BY <1>4, <1>5, <2>1, <2>2
<1>8. ASSUME NEW t \in Threads, PostEnd(t)
      PROVE  ProgressInv'
  <2>1. PostHigh(EndEvent(verdict)) /\ UNCHANGED emitted
    BY <1>8 DEF PostEnd
  <2>2. EndEvent(verdict) \in HighEvent
    BY <1>8 DEF PostEnd, DecidedAtEnd, TypeOK, EndEvent, HighEvent
  <2>3. QED
    BY <1>5, <2>1, <2>2
<1>9. ASSUME NEW t \in Threads, ReportProgress(t)
      PROVE  ProgressInv'
  <2>1. /\ alive /\ run[t] = "working"
        /\ \/ emitted' = Append(emitted, "progress") /\ UNCHANGED events
           \/ events' = Append(events, "Progress") /\ UNCHANGED emitted
    BY <1>9 DEF ReportProgress, PostNormal, ProgressEvent, Working
  <2>2. CASE emitted' = Append(emitted, "progress") /\ UNCHANGED events
    BY <1>4, <2>2
  <2>3. CASE events' = Append(events, "Progress") /\ UNCHANGED emitted
    <3>1. /\ Len(events') = Len(events) + 1
          /\ \A i \in 1 .. Len(events) : events'[i] = events[i]
      BY <1>1, <2>3
    <3>2. Starts' = Starts
      BY <2>3 DEF Starts
    <3>3. SUFFICES ASSUME Starts = 0, NEW i \in 1 .. Len(events'), events'[i] = "Progress"
                   PROVE  \E j \in 1 .. Len(events) : j < i /\ events[j] = "Running"
      BY <1>1, <3>1, <3>2 DEF ProgressInv
    <3>4. CASE i \in 1 .. Len(events)
      <4>1. events[i] = "Progress"
        BY <3>1, <3>3, <3>4
      <4>2. QED
        BY <3>3, <3>4, <4>1 DEF ProgressInv
    <3>5. CASE i = Len(events) + 1
      <4>1. PICK j \in 1 .. Len(events) : events[j] = "Running"
        BY <2>1, <3>3, StartIsComing
      <4>2. j < i
        BY <1>1, <3>5, <4>1
      <4>3. QED
        BY <4>1, <4>2
    <3>6. QED
      BY <1>1, <3>1, <3>3, <3>4, <3>5
  <2>4. QED
    BY <2>1, <2>2, <2>3
<1>10. CASE DeliverStarted
  <2>1. TakeEvent("Running") /\ emitted' = Append(emitted, "started")
    BY <1>10 DEF DeliverStarted
  <2>2. Starts' # 0
    BY <1>3, <2>1
  <2>3. QED
    BY <2>2 DEF ProgressInv
<1>11. CASE DeliverProgress
  <2>1. TakeEvent("Progress") /\ emitted' = Append(emitted, "progress")
    BY <1>11 DEF DeliverProgress, ProgressEvent
  <2>2. Starts' = 0 => Starts = 0
    BY <1>3, <2>1
  <2>3. QED
    BY <1>6, <2>1, <2>2
<1>12. CASE DeliverOther \/ \E o \in Outcome : DeliverEnd(o)
  <2>1. PICK e : TakeEvent(e) /\ e # "Running" /\ UNCHANGED emitted
    BY <1>12 DEF DeliverOther, DeliverEnd, Outcome
  <2>2. Starts' = Starts
    BY <2>1 DEF Starts
  <2>3. QED
    BY <1>6, <2>1, <2>2
<1>13. CASE LeaveHandler
  <2>1. UNCHANGED emitted /\ (events' = <<>> \/ events' = events)
    BY <1>13 DEF LeaveHandler
  <2>2. events' = <<>> => Len(events') = 0
    OBVIOUS
  <2>3. QED
    BY <1>2, <2>1, <2>2 DEF ProgressInv
<1>14. CASE EmitEnded
  <2>1. emitted' = Append(emitted, state) /\ UNCHANGED events /\ state \in State
    BY <1>14 DEF EmitEnded, TypeOK
  <2>2. QED
    BY <1>4, <2>1
<1>15. ASSUME NEW t \in Threads,
              \/ RunSynchronously(t) \/ TakeJob(t) \/ MarkRunning(t) \/ LockForRun(t)
              \/ StopRunning(t) \/ WakeOne(t) \/ UnlockRun(t) \/ RunAsynchronously(t)
              \/ \E o \in Outcome : EndRun(t, o)
       PROVE  ProgressInv'
  BY <1>2, <1>15 DEF RunSynchronously, TakeJob, MarkRunning, LockForRun, StopRunning, WakeOne,
                     UnlockRun, RunAsynchronously, EndRun
<1>16. ASSUME NEW t \in Threads,
              \/ Cancel(t) \/ CallWait(t) \/ LockToWait(t)
              \/ CheckFinished(t) \/ Expire(t) \/ ReturnFromWait(t)
       PROVE  ProgressInv'
  BY <1>2, <1>16 DEF Cancel, CallWait, LockToWait, CheckFinished, Expire, ReturnFromWait
<1>17. CASE UNCHANGED vars
  BY <1>2, <1>17 DEF vars
<1>18. QED
  BY <1>7, <1>8, <1>9, <1>10, <1>11, <1>12, <1>13, <1>14, <1>15, <1>16, <1>17
  DEF Next, EventLoop, Application, Library, Runner

-----------------------------------------------------------------------------
(* A step of the Tasklet is a step of the promise, or none.                *)
PromiseInv == AccountInv /\ StartsInv /\ ProgressInv

Telling == IF handler \in Outcome THEN handler ELSE "none"
Saying == IF handler \in Outcome THEN state ELSE "none"
promised == <<ends, told, Telling, Saying, emitted>>

LEMMA SameCardinality == ASSUME NEW S PROVE Promise!Cardinality(S) = Cardinality(S)
BY DEF Promise!Cardinality, Cardinality

LEMMA PromiseStep ==
    ASSUME TypeOK, MutexInv, DecidedAtEnd, SignalsInv, PromiseInv, [Next]_vars
    PROVE  [Promise!Next]_promised
<1> USE DEF RunAt, WaitAt
<1>1. /\ Promise!Outcome = Outcome /\ "none" \notin Outcome /\ "slots" \notin Outcome
      /\ events \in Seq(EventType) /\ emitted \in Seq(State \cup {"started", "progress"})
      /\ MainInRun /\ HighFirst /\ AccountInv /\ StartsInv /\ ProgressInv
      /\ handler \in Outcome \cup {"none", "slots"}
  BY DEF Outcome, Promise!Outcome, TypeOK, SignalsInv, PromiseInv
<1>2. /\ Promise!Heard({"started"}) = Starts
      /\ Promise!Decided = Over
  BY SameCardinality DEF Promise!Heard, Promise!Decided, Starts, Over, Times, Of, Count
<1>3. ASSUME UNCHANGED <<ends, told, handler, emitted>>, state' = state \/ handler \notin Outcome
      PROVE  [Promise!Next]_promised
  BY <1>3 DEF promised, Telling, Saying
<1>4. ASSUME UNCHANGED <<ends, told, handler, emitted>>, state' \in {"Aborted", "Running"}
      PROVE  [Promise!Next]_promised
  <2>1. CASE handler \in Outcome
    <3>1. Promise!Overwrite
      BY <1>1, <1>4, <2>1 DEF Promise!Overwrite
    <3>2. QED
      BY <3>1 DEF Promise!Next
  <2>2. QED
    BY <1>3, <1>4, <2>1
(* A start is heard of when all the earlier ones are over.                 *)
<1>5. ASSUME UNCHANGED <<ends, told, handler>>, handler = "none",
             emitted' = Append(emitted, "started"), Starts <= Over
      PROVE  [Promise!Next]_promised
  <2>1. Promise!Start
    BY <1>1, <1>2, <1>5 DEF Promise!Start
  <2>2. QED
    BY <2>1 DEF Promise!Next
<1>6. ASSUME UNCHANGED <<ends, told, handler>>, handler = "none",
             emitted' = Append(emitted, "progress"), Starts > 0
      PROVE  [Promise!Next]_promised
  <2>1. Promise!Progress
    BY <1>1, <1>2, <1>6 DEF Promise!Progress
  <2>2. QED
    BY <2>1 DEF Promise!Next
<1>7. ASSUME NEW t \in Threads, AnnounceStart(t)
      PROVE  [Promise!Next]_promised
  <2>1. /\ UNCHANGED <<ends, told, handler>> /\ run[t] = "announce"
        /\ \/ t = Main /\ emitted' = Append(emitted, "started")
           \/ UNCHANGED <<state, emitted>>
    BY <1>7 DEF AnnounceStart
  <2>2. CASE t = Main /\ emitted' = Append(emitted, "started")
    <3>1. handler = "none"
      BY <1>1, <2>1, <2>2 DEF MainInRun
    <3>2. ~InBody
      BY <2>1, AloneInRun DEF InBody
    <3>3. Starts + Coming <= Over + Now /\ Now = 0
      BY <1>1, <3>2 DEF StartsInv, Now
    <3>4. Starts <= Over
      BY <3>3, StartNumbers
    <3>5. QED
      BY <1>5, <2>1, <2>2, <3>1, <3>4
  <2>3. QED
    BY <1>3, <2>1, <2>2
<1>8. ASSUME NEW t \in Threads, ReportProgress(t)
      PROVE  [Promise!Next]_promised
  <2>1. /\ UNCHANGED <<ends, told, handler, state>> /\ run[t] = "working" /\ alive
        /\ \/ t = Main /\ emitted' = Append(emitted, "progress")
           \/ UNCHANGED emitted
    BY <1>8 DEF ReportProgress, Working
  <2>2. CASE t = Main /\ emitted' = Append(emitted, "progress")
    <3>1. handler = "none"
      BY <1>1, <2>1, <2>2 DEF MainInRun
    <3>2. Starts > 0
      BY <2>1, <2>2, StartIsComing
    <3>3. QED
      BY <1>6, <2>1, <2>2, <3>1, <3>2
  <2>3. QED
    BY <1>3, <2>1, <2>2
<1>9. ASSUME NEW t \in Threads, NEW o \in Outcome, EndRun(t, o)
      PROVE  [Promise!Next]_promised
  <2>1. /\ UNCHANGED <<told, emitted>> /\ ends' = [ends EXCEPT ![o] = @ + 1] /\ state' = o
        /\ run[t] \in {"working", "stopping"}
        /\ IF t = Main THEN handler' = o ELSE handler' = handler
    BY <1>9 DEF EndRun, Working
  <2>2. CASE t = Main
    <3>1. handler = "none"
      BY <1>1, <2>1, <2>2 DEF MainInRun
    <3>2. Promise!DecideHere(o)
      BY <1>1, <2>1, <2>2, <3>1 DEF Promise!DecideHere
    <3>3. QED
      BY <1>1, <3>2 DEF Promise!Next
  <2>3. CASE t # Main
    <3>1. Promise!Decide(o)
      BY <1>1, <2>1, <2>3 DEF Promise!Decide
    <3>2. QED
      BY <1>1, <3>1 DEF Promise!Next
  <2>4. QED
    BY <2>2, <2>3
<1>10. CASE DeliverStarted
  <2>1. /\ UNCHANGED <<ends, told, handler>> /\ TakeEvent("Running") /\ handler = "none"
        /\ emitted' = Append(emitted, "started")
    BY <1>10 DEF DeliverStarted, TakeEvent
  <2>2. Coming > 0
    <3>1. Coming = Times(events', "Running") + 1 /\ Times(events', "Running") \in Nat
      BY <1>1, <2>1, TakenTimes DEF Coming
    <3>2. QED
      BY <3>1
  <2>3. Starts <= Over
    BY <1>1, <2>2, StartNumbers DEF StartsInv
  <2>4. QED
    BY <1>5, <2>1, <2>3
<1>11. CASE DeliverProgress
  <2>1. /\ UNCHANGED <<ends, told, handler>> /\ TakeEvent("Progress") /\ handler = "none"
        /\ emitted' = Append(emitted, "progress")
    BY <1>11 DEF DeliverProgress, TakeEvent, ProgressEvent
  <2>2. 1 \in 1 .. Len(events) /\ events[1] = "Progress"
    BY <1>1, <2>1 DEF TakeEvent
  <2>3. Starts # 0
    BY <1>1, <2>2 DEF ProgressInv
  <2>4. Starts > 0
    BY <2>3, StartNumbers
  <2>5. QED
    BY <1>6, <2>1, <2>4
<1>12. ASSUME NEW o \in Outcome, DeliverEnd(o)
       PROVE  [Promise!Next]_promised
  <2>1. /\ UNCHANGED <<ends, told, emitted>> /\ TakeEvent(o) /\ handler = "none"
        /\ handler' = o /\ state' = o
    BY <1>12 DEF DeliverEnd, TakeEvent
  <2>2. told[o] < ends[o]
    <3>1. Times(events, o) = Times(events', o) + 1 /\ Times(events', o) \in Nat
      BY <1>1, <2>1, TakenTimes
    <3>2. told[o] + AtHand(o) + Times(events, o) + ToPost(o) - ends[o] <= 0
      BY <1>1 DEF AccountInv, Unaccounted
    <3>3. QED
      BY <3>1, <3>2, AccountNumbers
  <2>3. Promise!Announce(o)
    BY <1>1, <2>1, <2>2 DEF Promise!Announce
  <2>4. QED
    BY <1>1, <2>3 DEF Promise!Next
<1>13. CASE EmitEnded
  <2>1. /\ handler \in Outcome /\ handler' = "slots" /\ ends' = ends
        /\ told' = [told EXCEPT ![handler] = @ + 1]
        /\ emitted' = Append(emitted, state)
    BY <1>13 DEF EmitEnded
  <2>2. Promise!Heard(Promise!Said) < Starts
    <3>1. PICK l \in Nat : l = Len(emitted)
      BY <1>1
    <3>2. Owed >= 1 /\ Owed <= Heard /\ Owed \in Int /\ Heard \in Int
      BY <2>1, SignalBounds DEF Owed
    <3>3. Heard = Starts - Count(emitted, l, State)
      BY <3>1 DEF Heard, Excess, Starts, Times, Of
    <3>4. Count(emitted, l, State) \in Nat
      BY CountNat
    <3>5. /\ Promise!Heard(Promise!Said) \in Nat
          /\ Promise!Heard(Promise!Said) <= Count(emitted, l, State)
      <4>1. Promise!Said \subseteq State
        BY DEF Promise!Said, Promise!Outcome, State, Unfinished, Outcome
      <4>2. {i \in 1 .. l : emitted[i] \in Promise!Said}
               \subseteq {i \in 1 .. l : emitted[i] \in State}
        BY <4>1
      <4>3. IsFiniteSet({i \in 1 .. l : emitted[i] \in State})
        BY CountNat
      <4>4. QED
        BY <3>1, <4>2, <4>3, FS_Subset, FS_CardinalityType, SameCardinality DEF Promise!Heard, Count
    <3>6. QED
      BY <3>2, <3>3, <3>4, <3>5, StartNumbers
  <2>3. Promise!End
    BY <1>1, <1>2, <2>1, <2>2 DEF Promise!End
  <2>4. QED
    BY <2>3 DEF Promise!Next
<1>14. CASE LeaveHandler
  <2>1. /\ UNCHANGED <<ends, told, emitted, state>>
        /\ handler = "slots" /\ handler' = "none"
    BY <1>14 DEF LeaveHandler
  <2>2. QED
    BY <1>1, <2>1 DEF promised, Telling, Saying
<1>15. CASE DeliverOther
  BY <1>3, <1>15 DEF DeliverOther
<1>16. ASSUME NEW t \in Threads, MarkRunning(t) \/ Cancel(t)
       PROVE  [Promise!Next]_promised
  BY <1>4, <1>16 DEF MarkRunning, Cancel
<1>17. ASSUME NEW t \in Threads,
              \/ RunSynchronously(t) \/ RunAsynchronously(t) \/ TakeJob(t)
              \/ LockForRun(t) \/ StopRunning(t) \/ PostEnd(t)
              \/ WakeOne(t) \/ UnlockRun(t)
       PROVE  [Promise!Next]_promised
  BY <1>3, <1>17 DEF RunSynchronously, RunAsynchronously, TakeJob, LockForRun,
                     StopRunning, PostEnd, WakeOne, UnlockRun
<1>18. ASSUME NEW t \in Threads,
              \/ CallWait(t) \/ LockToWait(t) \/ CheckFinished(t) \/ Expire(t)
              \/ ReturnFromWait(t)
       PROVE  [Promise!Next]_promised
  BY <1>3, <1>18 DEF CallWait, LockToWait, CheckFinished, Expire, ReturnFromWait
<1>19. CASE UNCHANGED vars
  BY <1>3, <1>19 DEF vars
<1>20. QED
  BY <1>7, <1>8, <1>9, <1>10, <1>11, <1>12, <1>13, <1>14, <1>15, <1>16, <1>17, <1>18, <1>19
  DEF Next, EventLoop, Application, Library, Runner

(* A Tasklet implements TaskletPromise up to its obligation to go on, for  *)
(* any threads, runs, cancels, waits and progress reports: a start is      *)
(* heard of when all runs heard of before were decided, ended() no more    *)
(* often than started(), each outcome at most once for each run that ended *)
(* with it, and what ended() says is that outcome unless _state was        *)
(* written in between.                                                     *)
THEOREM PromiseIsFollowed ==
    Spec => Promise!Init /\ [][Promise!Next]_promised
<1>1. Init => /\ Promise!Init /\ PromiseInv /\ SignalsInv
              /\ MutexInv /\ DecidedAtEnd
  <2>1. SUFFICES ASSUME Init PROVE Promise!Init /\ PromiseInv
    BY SignalsStart
  <2>2. /\ Len(events) = 0 /\ events = <<>> /\ emitted = <<>> /\ verdict = "none"
        /\ handler = "none" /\ \A o \in Outcome : ends[o] = 0 /\ told[o] = 0
    BY <2>1 DEF Init
  <2>3. \A x : Times(events, x) = 0 /\ Times(emitted, x) = 0
    BY <2>2, CountZero DEF Times, Of
  <2>4. AccountInv
    <3>1. \A o \in Outcome : AtHand(o) = 0 /\ ToPost(o) = 0
      BY <2>2 DEF AtHand, ToPost, Posting, Outcome
    <3>2. QED
      BY <2>2, <2>3, <3>1 DEF AccountInv, Unaccounted
  <2>5. StartsInv
    <3>1. Starts = 0 /\ Coming = 0 /\ Over = 0
      BY <2>2, <2>3 DEF Starts, Coming, Over, Outcome
    <3>2. Now \in 0 .. 1
      BY DEF Now
    <3>3. QED
      BY <3>1, <3>2 DEF StartsInv
  <2>6. ProgressInv
    BY <2>2 DEF ProgressInv
  <2>7. Promise!Init
    BY <2>1, <2>2 DEF Init, Promise!Init, Promise!Outcome, Outcome
  <2>8. QED
    BY <2>4, <2>5, <2>6, <2>7 DEF PromiseInv
<1>2. /\ TypeOK /\ MutexInv /\ DecidedAtEnd /\ SignalsInv /\ PromiseInv /\ [Next]_vars
           => /\ MutexInv' /\ DecidedAtEnd' /\ SignalsInv' /\ PromiseInv'
              /\ [Promise!Next]_promised
  BY MutexStep, DecidedAtEndStep, SignalsInvStep, AccountStep, StartsStep, ProgressStep,
     PromiseStep
  DEF TypeOK, SignalsInv, PromiseInv
<1>3. QED
  BY <1>1, <1>2, TypeCorrect, PTL DEF Spec
=============================================================================
