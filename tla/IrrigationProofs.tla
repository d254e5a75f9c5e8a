-------------------------- MODULE IrrigationProofs --------------------------
(***************************************************************************)
(* Proofs that the irrigation system has at most one watering schedule,    *)
(* never leaves the valve open behind a run and interrupts the run that    *)
(* was cancelled and no other, for any number of tasks and of exceptions.  *)
(***************************************************************************)
EXTENDS Irrigation, TLAPS, FiniteSetTheorems

\* Only the newest task can be in the executor, and none is when the callback
\* has cancelled it and is about to schedule the next.
ScheduleInv ==
  /\ Live \subseteq {scheduledFuture}
  /\ callback \in {"stop", "schedule"} => scheduledFuture < MaxTasks
  /\ callback = "schedule" => Live = {}

\* What each place of the run knows of the valve and of the status.
RunInv ==
  /\ running = 0 => at = "end"
  /\ at = "end" => ~isIrrigation
  /\ at \in {"open", "pulse", "after"} => isIrrigation
  /\ valve = "open" => isIrrigation /\ at \in {"pulse", "abort"}

IInv == TypeOK /\ ScheduleInv /\ RunInv

\* The thread's task is one that was started, and the only one that runs; tasks
\* to come are not known to the executor yet.
CancelInv ==
  /\ \A t \in Tasks : state[t] = "running" => t = running
  /\ running # 0 => state[running] \in {"running", "cancelled", "dead"}
  /\ \A t \in Tasks : t > scheduledFuture => state[t] = "unused"
  /\ CancelReachesItsRun

-----------------------------------------------------------------------------
LEMMA InitIInv == Init => IInv
<1> SUFFICES ASSUME Init PROVE IInv
  OBVIOUS
<1>1. TypeOK
  <2>1. state \in [Tasks -> {"unused", "delayed", "running", "cancelled", "dead"}]
    BY DEF Init
  <2>2. isIrrigation \in BOOLEAN /\ interval \in BOOLEAN /\ interrupted \in BOOLEAN
    BY Zenon DEF Init
  <2>3. scheduledFuture \in 0 .. MaxTasks /\ running \in 0 .. MaxTasks /\ faults \in 0 .. MaxFaults
    BY IrrigationBounds DEF Init
  <2> QED
    BY <2>1, <2>2, <2>3 DEF Init, TypeOK
<1>2. Live = {}
  BY DEF Init, Live
<1> QED
  BY <1>1, <1>2 DEF Init, IInv, ScheduleInv, RunInv

\* A callback changes the schedule, never what a run has done.
LEMMA CallbackIInv == ASSUME IInv, Callback PROVE IInv'
<1> USE IrrigationBounds DEF IInv, TypeOK, Tasks
<1>1. CASE OnAttach \/ OnControlRequest \/ OnStartRequest \/ OnDetachedFromUser
  BY <1>1 DEF OnAttach, OnControlRequest, OnStartRequest, OnDetachedFromUser, executor,
              ScheduleInv, RunInv, Live
<1>2. CASE StopCurrentTask
  <2>1. TypeOK'
    BY <1>2 DEF StopCurrentTask, executor, Live
  <2>2. Live' \subseteq Live \ {scheduledFuture}
    BY <1>2 DEF StopCurrentTask, Live
  <2>3. ScheduleInv' /\ RunInv'
    BY <1>2, <2>2 DEF StopCurrentTask, executor, ScheduleInv, RunInv
  <2> QED
    BY <2>1, <2>3
<1>3. CASE ScheduleTask
  <2>1. TypeOK'
    BY <1>3 DEF ScheduleTask, executor, ScheduleInv
  <2>2. Live' \subseteq {scheduledFuture'}
    BY <1>3 DEF ScheduleTask, Live, ScheduleInv
  <2>3. ScheduleInv' /\ RunInv'
    BY <1>3, <2>2 DEF ScheduleTask, executor, ScheduleInv, RunInv
  <2> QED
    BY <2>1, <2>3
<1> QED
  BY <1>1, <1>2, <1>3 DEF Callback

\* A step of the executor's thread puts no task there that was not there before.
LEMMA RunIInv ==
  ASSUME IInv, Run \/ PulseEnds \/ \E t \in Tasks : StartRun(t) PROVE IInv'
<1> USE IrrigationBounds DEF IInv, TypeOK, Tasks
<1>1. ASSUME NEW t \in Tasks, StartRun(t) PROVE IInv'
  <2>1. TypeOK'
    <3>1. state' \in [Tasks -> {"unused", "delayed", "running", "cancelled", "dead"}]
      BY <1>1 DEF StartRun
    <3>2. running' \in 0 .. MaxTasks
      BY <1>1 DEF StartRun
    <3>3. interrupted' \in BOOLEAN
      BY <1>1 DEF StartRun
    <3> QED
      BY <1>1, <3>1, <3>2, <3>3 DEF StartRun
  <2>2. Live' = Live
    BY <1>1 DEF StartRun, Live
  <2>3. ScheduleInv' /\ RunInv'
    BY <1>1, <2>2 DEF StartRun, ScheduleInv, RunInv
  <2> QED
    BY <2>1, <2>3
<1>2. CASE BeforeIrrigation \/ OpenValve \/ PulseEnds \/ PulseInterrupted
             \/ AfterIrrigation \/ CloseValve
  <2>1. TypeOK'
    <3>1. UNCHANGED <<state, scheduledFuture, interval, callback, running>>
      BY <1>2 DEF BeforeIrrigation, OpenValve, PulseEnds, PulseInterrupted, AfterIrrigation,
                  CloseValve, Step, schedule
    <3>2. at' \in {"before", "open", "pulse", "after", "abort", "abortAfter", "end"}
      BY <1>2 DEF BeforeIrrigation, OpenValve, PulseEnds, PulseInterrupted, AfterIrrigation,
                  CloseValve, Step
    <3>3. valve' \in {"closed", "open", "stuck"} /\ faults' \in 0 .. MaxFaults
      BY <1>2 DEF BeforeIrrigation, OpenValve, PulseEnds, PulseInterrupted, AfterIrrigation,
                  CloseValve, Step
    <3>4. interrupted' \in BOOLEAN /\ isIrrigation' \in BOOLEAN
      BY <1>2 DEF BeforeIrrigation, OpenValve, PulseEnds, PulseInterrupted, AfterIrrigation,
                  CloseValve
    <3> QED
      BY <3>1, <3>2, <3>3, <3>4
  <2>2. ScheduleInv'
    BY <1>2 DEF BeforeIrrigation, OpenValve, PulseEnds, PulseInterrupted, AfterIrrigation,
                CloseValve, Step, schedule, ScheduleInv, Live
  <2>3. RunInv'
    BY <1>2 DEF BeforeIrrigation, OpenValve, PulseEnds, PulseInterrupted, AfterIrrigation,
                CloseValve, Step, schedule, RunInv
  <2> QED
    BY <2>1, <2>2, <2>3
<1>3. CASE AbortAfterIrrigation \/ EndRun
  <2>1. TypeOK'
    <3>1. state' \in [Tasks -> {"unused", "delayed", "running", "cancelled", "dead"}]
      BY <1>3 DEF AbortAfterIrrigation, EndRun
    <3>2. isIrrigation' \in BOOLEAN
      BY <1>3, Zenon DEF AbortAfterIrrigation, EndRun
    <3>3. running' \in 0 .. MaxTasks /\ faults' \in 0 .. MaxFaults
      BY <1>3 DEF AbortAfterIrrigation, EndRun
    <3> QED
      BY <1>3, <3>1, <3>2, <3>3 DEF AbortAfterIrrigation, EndRun
  <2>2. Live' \subseteq Live
    BY <1>3 DEF AbortAfterIrrigation, EndRun, Live
  <2>3. ScheduleInv' /\ RunInv'
    BY <1>3, <2>2 DEF AbortAfterIrrigation, EndRun, ScheduleInv, RunInv
  <2> QED
    BY <2>1, <2>3
<1> QED
  BY <1>1, <1>2, <1>3 DEF Run

LEMMA Inductive == Spec => []IInv
<1>1. IInv /\ UNCHANGED vars => IInv'
  BY DEF IInv, TypeOK, ScheduleInv, RunInv, Live, Tasks, vars
<1>2. IInv /\ [Next]_vars => IInv'
  BY <1>1, CallbackIInv, RunIInv DEF Next
<1> QED
  BY <1>2, InitIInv, PTL DEF Spec

-----------------------------------------------------------------------------
\* A cancellation is for the newest task: it interrupts the thread only when that
\* task is on it, and then makes it cancelled.
LEMMA CallbackCancelInv == ASSUME IInv, CancelInv, Callback PROVE CancelInv'
<1> USE IrrigationBounds DEF Tasks
<1>1. /\ state \in [Tasks -> {"unused", "delayed", "running", "cancelled", "dead"}]
      /\ scheduledFuture \in 0 .. MaxTasks /\ running \in 0 .. MaxTasks
      /\ interrupted \in BOOLEAN
  BY DEF IInv, TypeOK
<1>2. UNCHANGED <<running, at>>
  BY DEF Callback, OnAttach, OnControlRequest, OnStartRequest, OnDetachedFromUser,
         StopCurrentTask, ScheduleTask, executor
<1>3. CASE OnAttach \/ OnControlRequest \/ OnStartRequest \/ OnDetachedFromUser
  BY <1>2, <1>3 DEF OnAttach, OnControlRequest, OnStartRequest, OnDetachedFromUser, executor,
                    CancelInv, CancelReachesItsRun
<1>4. CASE StopCurrentTask
  <2>1. CASE scheduledFuture \in Live
    <3>1. /\ scheduledFuture \in Tasks /\ state[scheduledFuture] \in {"delayed", "running"}
          /\ state' = [state EXCEPT ![scheduledFuture] = "cancelled"]
          /\ interrupted' = (interrupted \/ running = scheduledFuture)
          /\ UNCHANGED scheduledFuture
      BY <1>4, <2>1 DEF StopCurrentTask, Live
    <3>2. \A t \in Tasks :
            state'[t] = IF t = scheduledFuture THEN "cancelled" ELSE state[t]
      BY <1>1, <3>1
    <3>3. CancelReachesItsRun'
      <4>1. CASE running = scheduledFuture
        <5>1. interrupted' /\ state'[running'] = "cancelled"
          BY <1>2, <3>1, <3>2, <4>1
        <5> QED
          BY <5>1 DEF CancelReachesItsRun
      <4>2. CASE running # scheduledFuture
        <5>1. interrupted' = interrupted
          BY <1>1, <3>1, <4>2
        <5>2. running # 0 => state'[running] = state[running]
          BY <1>1, <3>2, <4>2
        <5> QED
          BY <1>2, <5>1, <5>2 DEF CancelInv, CancelReachesItsRun
      <4> QED
        BY <4>1, <4>2
    <3> QED
      BY <1>1, <1>2, <3>1, <3>2, <3>3 DEF CancelInv
  <2>2. CASE scheduledFuture \notin Live
    BY <1>2, <1>4, <2>2 DEF StopCurrentTask, CancelInv, CancelReachesItsRun
  <2> QED
    BY <2>1, <2>2
<1>5. CASE ScheduleTask
  <2>1. CASE interval
    <3>1. /\ scheduledFuture' = scheduledFuture + 1
          /\ state' = [state EXCEPT ![scheduledFuture'] = "delayed"]
          /\ interrupted' = interrupted
      BY <1>5, <2>1 DEF ScheduleTask
    <3>2. scheduledFuture' \in Tasks
      BY <1>1, <1>5, <3>1 DEF ScheduleTask, IInv, ScheduleInv
    <3>3. running # scheduledFuture'
      BY <1>1, <3>1, <3>2 DEF CancelInv
    <3>4. \A t \in Tasks : state'[t] = IF t = scheduledFuture' THEN "delayed" ELSE state[t]
      BY <1>1, <3>1, <3>2
    <3>5. \A t \in Tasks : t > scheduledFuture' => t > scheduledFuture /\ t # scheduledFuture'
      BY <1>1, <3>1
    <3>6. CancelReachesItsRun'
      BY <1>1, <1>2, <3>1, <3>3, <3>4 DEF CancelInv, CancelReachesItsRun
    <3> QED
      BY <1>1, <1>2, <3>3, <3>4, <3>5, <3>6 DEF CancelInv
  <2>2. CASE ~interval
    BY <1>2, <1>5, <2>2 DEF ScheduleTask, CancelInv, CancelReachesItsRun
  <2> QED
    BY <2>1, <2>2
<1> QED
  BY <1>3, <1>4, <1>5 DEF Callback

\* The pool forgets the interruption of an earlier run before it starts the next,
\* and within a run only the pulse takes one away.
LEMMA RunCancelInv ==
  ASSUME IInv, CancelInv, Run \/ PulseEnds \/ \E t \in Tasks : StartRun(t) PROVE CancelInv'
<1>1. /\ state \in [Tasks -> {"unused", "delayed", "running", "cancelled", "dead"}]
      /\ running \in 0 .. MaxTasks /\ (running # 0 => running \in Tasks)
  BY IrrigationBounds DEF IInv, TypeOK, Tasks
<1>2. UNCHANGED scheduledFuture
  BY DEF Run, BeforeIrrigation, OpenValve, PulseEnds, PulseInterrupted, AfterIrrigation,
         CloseValve, AbortAfterIrrigation, EndRun, StartRun, Step, schedule
<1>3. ASSUME NEW t \in Tasks, StartRun(t) PROVE CancelInv'
  <2>1. /\ running = 0 /\ state[t] = "delayed" /\ running' = t /\ interrupted' = FALSE
        /\ \A u \in Tasks : state'[u] = IF u = t THEN "running" ELSE state[u]
    BY <1>1, <1>3 DEF StartRun
  <2>2. \A u \in Tasks : state[u] # "running"
    BY <2>1 DEF CancelInv, Tasks
  <2> QED
    BY <1>2, <2>1, <2>2 DEF CancelInv, CancelReachesItsRun
<1>4. CASE BeforeIrrigation \/ OpenValve
  <2>1. at \in {"before", "open"} /\ UNCHANGED <<state, running, interrupted>>
    BY <1>4 DEF BeforeIrrigation, OpenValve, Step, schedule
  <2> QED
    BY <1>2, <2>1 DEF CancelInv, CancelReachesItsRun
<1>5. CASE PulseEnds \/ PulseInterrupted \/ AfterIrrigation \/ CloseValve
  <2>1. at' \notin {"before", "open", "pulse"} /\ UNCHANGED <<state, running>>
    BY <1>5 DEF PulseEnds, PulseInterrupted, AfterIrrigation, CloseValve, Step, schedule
  <2> QED
    BY <1>2, <2>1 DEF CancelInv, CancelReachesItsRun
<1>6. CASE AbortAfterIrrigation
  <2>1. at' = "end" /\ running # 0 /\ running' = running
    BY <1>6 DEF AbortAfterIrrigation
  <2>2. state' \in {state, [state EXCEPT ![running] = IF @ = "running" THEN "dead" ELSE @]}
    BY <1>6 DEF AbortAfterIrrigation
  <2>3. \A u \in Tasks : state'[u] = state[u] \/ (state[u] = "running" /\ state'[u] = "dead")
    BY <1>1, <2>1, <2>2
  <2> QED
    BY <1>1, <1>2, <2>1, <2>3 DEF CancelInv, CancelReachesItsRun
<1>7. CASE EndRun
  <2>1. /\ running # 0 /\ running' = 0
        /\ \A u \in Tasks :
             state'[u] = IF u = running /\ state[u] = "running" THEN "delayed" ELSE state[u]
    BY <1>1, <1>7 DEF EndRun
  <2> QED
    BY <1>1, <1>2, <2>1 DEF CancelInv, CancelReachesItsRun
<1> QED
  BY <1>3, <1>4, <1>5, <1>6, <1>7 DEF Run

-----------------------------------------------------------------------------
(* The types of IMSController's fields and of the executor's state.          *)
THEOREM TypeCorrect == Spec => []TypeOK
  BY Inductive, PTL DEF IInv

(* However stopCurrentTask and schedule interleave with the runs, the        *)
(* executor holds one live task at most.                                     *)
THEOREM ScheduleIsUnique == Spec => []OneSchedule
<1>1. ASSUME IInv PROVE OneSchedule
  <2>1. IsFiniteSet({scheduledFuture}) /\ Cardinality({scheduledFuture}) = 1
    BY FS_Singleton
  <2>2. Cardinality(Live) <= Cardinality({scheduledFuture})
    BY <1>1, <2>1, FS_Subset DEF IInv, ScheduleInv
  <2> QED
    BY <2>1, <2>2 DEF OneSchedule
<1> QED
  BY <1>1, Inductive, PTL

(* No exception and no interruption leaves a run with the water on, or with  *)
(* the status the subscribers were sent saying that it is.                   *)
THEOREM NoWaterBehindARun == Spec => []ValveClosedWhenIdle
<1>1. IInv => ValveClosedWhenIdle
  BY DEF IInv, RunInv, ValveClosedWhenIdle
<1> QED
  BY <1>1, Inductive, PTL
(* A cancellation stays with the thread until the pulse of its run sees it,  *)
(* and an earlier task's never cuts a later watering short.                  *)
THEOREM TheCancelledIsInterrupted == Spec => []CancelReachesItsRun
<1>1. Init => CancelInv
  BY DEF Init, CancelInv, CancelReachesItsRun
<1>2. IInv /\ CancelInv /\ UNCHANGED vars => CancelInv'
  BY DEF CancelInv, CancelReachesItsRun, vars
<1>3. IInv /\ CancelInv /\ [Next]_vars => CancelInv'
  BY <1>2, CallbackCancelInv, RunCancelInv DEF Next
<1>4. CancelInv => CancelReachesItsRun
  BY DEF CancelInv
<1> QED
  BY <1>1, <1>3, <1>4, Inductive, PTL DEF Spec
=============================================================================
