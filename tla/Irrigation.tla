----------------------------- MODULE Irrigation -----------------------------
(***************************************************************************)
(* The irrigation system (IMSController).  A single-threaded executor runs *)
(* a periodic watering task; the callbacks of the Kaa client (external:    *)
(* one callback thread) replace that task: they cancel the current one,    *)
(* interrupting it, and schedule another.  Watering opens a relay, sleeps  *)
(* and closes it.  A delay may elapse at any time; of an interval only     *)
(* whether it is zero matters, because the executor refuses that one.      *)
(***************************************************************************)
EXTENDS Naturals, FiniteSets

CONSTANTS
  MaxTasks,    \* tasks scheduled in one behaviour
  MaxFaults    \* exceptions out of the Kaa client or the pins

ASSUME IrrigationBounds == MaxTasks \in Nat /\ MaxFaults \in Nat

VARIABLES
  state,           \* what the executor knows of each task
  scheduledFuture, \* the newest task, 0 before the first
  running,         \* the task on the executor's thread, 0 when it is free
  at,              \* where in the task's run the thread is
  interrupted,     \* the thread's interrupt status
  valve,           \* the relay; "stuck" is open after an attempt to close it failed
  isIrrigation,    \* the status the subscribers are sent
  interval,        \* FALSE stands for an interval of zero
  callback,        \* what the running callback still has to do
  faults

vars == <<state, scheduledFuture, running, at, interrupted, valve, isIrrigation, interval,
          callback, faults>>

executor == <<running, at, valve, isIrrigation>>
schedule == <<state, scheduledFuture, interval, callback>>

Tasks == 1 .. MaxTasks
Live == {t \in Tasks : state[t] \in {"delayed", "running"}}

TypeOK ==
  /\ state \in [Tasks -> {"unused", "delayed", "running", "cancelled", "dead"}]
  /\ scheduledFuture \in 0 .. MaxTasks
  /\ running \in 0 .. MaxTasks
  /\ at \in {"before", "open", "pulse", "after", "abort", "abortAfter", "end"}
  /\ interrupted \in BOOLEAN
  /\ valve \in {"closed", "open", "stuck"}
  /\ isIrrigation \in BOOLEAN /\ interval \in BOOLEAN
  /\ callback \in {"idle", "stop", "detach", "schedule"}
  /\ faults \in 0 .. MaxFaults

Init ==
  /\ state = [t \in Tasks |-> "unused"]
  /\ scheduledFuture = 0 /\ running = 0
  /\ at = "end" /\ interrupted = FALSE
  /\ valve = "closed" /\ isIrrigation = FALSE
  /\ interval = TRUE
  /\ callback = "idle" /\ faults = 0

-----------------------------------------------------------------------------
\* The callback thread.

\* onAttach with SUCCESS, onAttachedToUser: (re)start the schedule.
OnAttach ==
  /\ scheduledFuture < MaxTasks
  /\ callback = "idle" /\ callback' = "stop"
  /\ UNCHANGED <<executor, state, scheduledFuture, interval, interrupted, faults>>

\* An IrrigationControlRequest: the new interval first, the schedule after it.
OnControlRequest ==
  /\ scheduledFuture < MaxTasks
  /\ callback = "idle" /\ callback' = "stop"
  /\ interval' \in BOOLEAN
  /\ UNCHANGED <<executor, state, scheduledFuture, interrupted, faults>>

\* A StartIrrigationRequest is ignored while the status says watering.
OnStartRequest ==
  /\ scheduledFuture < MaxTasks
  /\ callback = "idle" /\ ~isIrrigation
  /\ callback' = "stop"
  /\ UNCHANGED <<executor, state, scheduledFuture, interval, interrupted, faults>>

OnDetachedFromUser ==
  /\ callback = "idle" /\ callback' = "detach"
  /\ UNCHANGED <<executor, state, scheduledFuture, interval, interrupted, faults>>

\* Mutant: a task that is running already is not cancelled.
StopDelayedTask ==
  /\ callback \in {"stop", "detach"}
  /\ callback' = IF callback = "stop" THEN "schedule" ELSE "idle"
  /\ IF scheduledFuture \in Live /\ running # scheduledFuture
       THEN state' = [state EXCEPT ![scheduledFuture] = "cancelled"]
       ELSE UNCHANGED state
  /\ UNCHANGED <<executor, scheduledFuture, interval, interrupted, faults>>

\* Mutant: cancel(false) lets the run go on.
StopWithoutInterrupt ==
  /\ callback \in {"stop", "detach"}
  /\ callback' = IF callback = "stop" THEN "schedule" ELSE "idle"
  /\ IF scheduledFuture \in Live
       THEN state' = [state EXCEPT ![scheduledFuture] = "cancelled"]
       ELSE UNCHANGED state
  /\ UNCHANGED <<executor, scheduledFuture, interval, interrupted, faults>>

\* stopCurrentTask: cancel(true) interrupts the thread if the task is on it.
StopCurrentTask ==
  /\ callback \in {"stop", "detach"}
  /\ callback' = IF callback = "stop" THEN "schedule" ELSE "idle"
  /\ IF scheduledFuture \in Live
       THEN /\ state' = [state EXCEPT ![scheduledFuture] = "cancelled"]
            /\ interrupted' = (interrupted \/ running = scheduledFuture)
       ELSE UNCHANGED <<state, interrupted>>
  /\ UNCHANGED <<executor, scheduledFuture, interval, faults>>

\* scheduleWithFixedDelay: it throws when the interval is not positive, and
\* the task cancelled before that stays cancelled.
ScheduleTask ==
  /\ callback = "schedule" /\ callback' = "idle"
  /\ IF interval
       THEN /\ scheduledFuture' = scheduledFuture + 1
            /\ state' = [state EXCEPT ![scheduledFuture'] = "delayed"]
       ELSE UNCHANGED <<state, scheduledFuture>>
  /\ UNCHANGED <<executor, interval, interrupted, faults>>

-----------------------------------------------------------------------------
\* The executor's thread.

\* The delay of a task is over; the pool clears the thread's interrupt status.
StartRun(t) ==
  /\ running = 0 /\ state[t] = "delayed"
  /\ state' = [state EXCEPT ![t] = "running"]
  /\ running' = t /\ at' = "before" /\ interrupted' = FALSE
  /\ UNCHANGED <<scheduledFuture, interval, callback, valve, isIrrigation, faults>>

\* One step of the run: on to the next, or an exception to the handler.
Step(from, to, handler) ==
  /\ running # 0 /\ at = from
  /\ \/ at' = to /\ UNCHANGED faults
     \/ at' = handler /\ faults < MaxFaults /\ faults' = faults + 1
  /\ UNCHANGED <<schedule, running>>

BeforeIrrigation ==
  /\ Step("before", "open", "abort")
  /\ isIrrigation' = TRUE
  /\ UNCHANGED <<interrupted, valve>>

\* togglePinToHight does nothing when the configured duration is not positive.
OpenValve ==
  /\ running # 0 /\ at = "open"
  /\ \/ at' = "pulse" /\ valve' = "open"
     \/ at' = "after" /\ UNCHANGED valve
  /\ UNCHANGED <<schedule, running, interrupted, isIrrigation, faults>>

PulseEnds ==
  /\ Step("pulse", "after", "abort")
  /\ ~interrupted
  /\ valve' = IF at' = "after" THEN "closed" ELSE valve
  /\ UNCHANGED <<interrupted, isIrrigation>>

\* Mutant: the handler of the interruption forgets to close the valve.
PulseInterruptedOpen ==
  /\ running # 0 /\ at = "pulse" /\ interrupted
  /\ at' = "end" /\ interrupted' = FALSE
  /\ UNCHANGED <<schedule, running, valve, isIrrigation, faults>>

PulseInterrupted ==
  /\ running # 0 /\ at = "pulse" /\ interrupted
  /\ at' = "abort" /\ interrupted' = FALSE
  /\ UNCHANGED <<schedule, running, valve, isIrrigation, faults>>

AfterIrrigation ==
  /\ Step("after", "end", "abort")
  /\ isIrrigation' = FALSE
  /\ UNCHANGED <<interrupted, valve>>

\* The handler closes the valve; when that throws too it goes on all the same.
CloseValve ==
  /\ Step("abort", "abortAfter", "abortAfter")
  /\ valve' = IF faults' = faults THEN "closed" ELSE IF valve = "closed" THEN "closed" ELSE "stuck"
  /\ UNCHANGED <<interrupted, isIrrigation>>

\* An exception out of the handler ends the periodic task for good.
AbortAfterIrrigation ==
  /\ running # 0 /\ at = "abortAfter" /\ at' = "end"
  /\ isIrrigation' = FALSE
  /\ \/ UNCHANGED <<state, faults>>
     \/ /\ faults < MaxFaults /\ faults' = faults + 1
        /\ state' = [state EXCEPT ![running] = IF @ = "running" THEN "dead" ELSE @]
  /\ UNCHANGED <<scheduledFuture, interval, callback, running, interrupted, valve>>

\* A task that is neither cancelled nor dead waits for its next run.
EndRun ==
  /\ running # 0 /\ at = "end"
  /\ running' = 0
  /\ state' = [state EXCEPT ![running] = IF @ = "running" THEN "delayed" ELSE @]
  /\ UNCHANGED <<scheduledFuture, interval, callback, at, interrupted, valve, isIrrigation, faults>>

-----------------------------------------------------------------------------
Callback ==
  \/ OnAttach \/ OnControlRequest \/ OnStartRequest \/ OnDetachedFromUser
  \/ StopCurrentTask \/ ScheduleTask

Run ==
  \/ BeforeIrrigation \/ OpenValve \/ PulseInterrupted \/ AfterIrrigation
  \/ CloseValve \/ AbortAfterIrrigation \/ EndRun

Next == Callback \/ Run \/ PulseEnds \/ \E t \in Tasks : StartRun(t)

Spec == Init /\ [][Next]_vars

\* The threads are scheduled; the configured duration may be longer than
\* anyone cares to wait, so that a pulse ends by itself is not assumed.
FairSpec == Spec /\ WF_vars(Run) /\ WF_vars(StopCurrentTask) /\ WF_vars(ScheduleTask)

-----------------------------------------------------------------------------
\* However often and whenever the task is replaced, the one before is out of
\* the executor for good: never two watering schedules at a time.
OneSchedule == Cardinality(Live) <= 1

\* Water runs only inside a run that has announced itself, and when the thread
\* is free the status says that it does not run, whatever statement of the run was
\* interrupted or threw, unless the closing of the valve itself threw ("stuck").
ValveClosedWhenIdle ==
  /\ valve = "open" => running # 0 /\ isIrrigation
  /\ running = 0 => ~isIrrigation

\* As long as a run may still open the valve or holds it open, its thread is
\* interrupted exactly when its task was cancelled: a cancellation stays until the
\* pulse sees it, whatever statement it met, and none of an earlier task is left
\* over for the run of a later one.
CancelReachesItsRun ==
  running # 0 /\ at \in {"before", "open", "pulse"} =>
    (interrupted <=> state[running] = "cancelled")

\* Cancelling a watering stops the water without waiting for the end of the
\* pulse: the interruption reaches the thread.
CancelStopsWater ==
  \A t \in Tasks : running = t /\ state[t] = "cancelled" ~> running # t
=============================================================================
