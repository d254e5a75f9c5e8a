------------------------- MODULE TrafficController -------------------------
(***************************************************************************)
(* The traffic-light half of the City Lights controller.                   *)
(*                                                                         *)
(* Three kinds of thread touch TrafficLightState:                          *)
(*   - a new thread per HTTP report (a tag read by a car, a button press), *)
(*     whose whole work runs inside the monitor of ControllerResource;     *)
(*   - the main thread, which calls startSwitchTimer once at start-up;     *)
(*   - the single thread of the scheduled executor, which runs the switch  *)
(*     and walk timers OUTSIDE the monitor and enters it only in           *)
(*     startSwitchTimer.                                                   *)
(* The three flags of TrafficLightState are volatile, so one step below is *)
(* one read or write of a flag, or one half of a REST call: the moment the *)
(* server's configuration changes, and the moment the caller learns of it. *)
(* The server (external) keeps the configuration that the traffic light    *)
(* device polls; it outlives the controller.                               *)
(***************************************************************************)
EXTENDS Naturals

CONSTANTS
  MaxBacklog,   \* reports arrive while fewer threads and timers than this are outstanding
  MaxFaults,    \* REST calls that may throw in one behaviour
  MaxRestarts   \* times the controller process may be killed and started again

ASSUME BoundsAssumption ==
  /\ MaxBacklog \in Nat
  /\ MaxFaults \in Nat
  /\ MaxRestarts \in Nat

VARIABLES
  mainRoad, carPending, pedestrianPending,   \* TrafficLightState
  server,         \* mainRoadState active on the server: TRUE is ALLOW
  threads,        \* threads[r]: report threads of kind r not yet in the monitor
  holder,         \* who is inside the monitor of ControllerResource.class
  pc,             \* where that thread is
  exec,           \* where the executor thread is
  execAllow,      \* the state captured by the switch timer the executor runs
  allowTimers,    \* armed switch timers that will set ALLOW
  disallowTimers, \* armed switch timers that will set DISALLOW
  walkTimers,     \* armed walk timers
  started,        \* main has made its call of startSwitchTimer
  excused,        \* history: the last update was overtaken, failed, or none was made yet
  faults, restarts

trafficState == <<mainRoad, carPending, pedestrianPending>>
timers == <<allowTimers, disallowTimers, walkTimers>>
budgets == <<faults, restarts>>
vars == <<mainRoad, carPending, pedestrianPending, server, threads, holder, pc,
          exec, execAllow, allowTimers, disallowTimers, walkTimers, started, excused,
          faults, restarts>>

ALLOW == TRUE
DISALLOW == FALSE

\* What a report can say: a tag of mainRoadAllowTags, any other tag, a button press.
Reports == {"allowTag", "otherTag", "button"}

Holders == {"none", "main", "car", "button", "executor"}

MonitorPCs == {"idle", "allowCheck", "allowCall", "allowSet",
               "leaveCall", "leaveSet", "leaveClear", "leaveBranch",
               "walkRequest", "walkCall", "walkSet", "walkSchedule",
               "timerCheck", "timerArm", "street"}

ExecPCs == {"idle", "switchCheck", "switchCall", "switchSet",
            "walkClear", "walkCall", "walkSet", "walkCheck", "arm", "locked"}

TypeOK ==
  /\ mainRoad \in BOOLEAN /\ carPending \in BOOLEAN /\ pedestrianPending \in BOOLEAN
  /\ server \in BOOLEAN
  /\ threads \in [Reports -> Nat]
  /\ holder \in Holders
  /\ pc \in MonitorPCs
  /\ exec \in ExecPCs
  /\ execAllow \in BOOLEAN
  /\ allowTimers \in Nat /\ disallowTimers \in Nat /\ walkTimers \in Nat
  /\ started \in BOOLEAN
  /\ excused \in BOOLEAN
  /\ faults \in Nat
  /\ restarts \in Nat

ArmedTimers == allowTimers + disallowTimers + walkTimers
WaitingThreads == threads["allowTag"] + threads["otherTag"] + threads["button"]

-----------------------------------------------------------------------------
Init ==
  /\ mainRoad = TRUE /\ carPending = FALSE /\ pedestrianPending = FALSE
  /\ server \in BOOLEAN          \* whatever the last run left active
  /\ threads = [r \in Reports |-> 0]
  /\ holder = "none" /\ pc = "idle"
  /\ exec = "idle" /\ execAllow = ALLOW
  /\ allowTimers = 0 /\ disallowTimers = 0 /\ walkTimers = 0
  /\ started = FALSE
  /\ excused = TRUE
  /\ faults = MaxFaults /\ restarts = MaxRestarts

-----------------------------------------------------------------------------
(* The REST resource: onCarLog and onPedestrainLog start a thread per report. *)

Submit(r) ==
  /\ WaitingThreads + ArmedTimers < MaxBacklog
  /\ threads' = [threads EXCEPT ![r] = @ + 1]
  /\ UNCHANGED <<trafficState, server, holder, pc, exec, execAllow, timers,
                 started, excused, budgets>>

\* A waiting thread of kind r gets the monitor, as holder h, and stops at `at`.
EnterMonitor(r, h, at) ==
  /\ holder = "none"
  /\ threads[r] > 0
  /\ threads' = [threads EXCEPT ![r] = @ - 1]
  /\ holder' = h
  /\ pc' = at
  /\ UNCHANGED <<mainRoad, pedestrianPending, server, exec, execAllow, timers,
                 started, excused, budgets>>

\* processRfidLog, tag in mainRoadAllowTags.
EnterAllowTag ==
  /\ EnterMonitor("allowTag", "car", IF carPending THEN "street" ELSE "allowCheck")
  /\ carPending' = TRUE

\* processRfidLog, any other tag: the car has left the traffic light zone.
EnterOtherTag ==
  /\ EnterMonitor("otherTag", "car", IF carPending THEN "leaveCall" ELSE "street")
  /\ UNCHANGED carPending

\* processTrafficLog: BUTTON is the only event type its schema has.
EnterButton ==
  /\ EnterMonitor("button", "button", "walkRequest")
  /\ UNCHANGED carPending

\* main calls startSwitchTimer after the HTTP server is up.
StartMain ==
  /\ ~started
  /\ holder = "none"
  /\ started' = TRUE
  /\ holder' = "main"
  /\ pc' = "timerCheck"
  /\ UNCHANGED <<trafficState, server, threads, exec, execAllow, timers, excused, budgets>>

-----------------------------------------------------------------------------
(* Steps of the thread inside the monitor.                                  *)

\* Where a thread goes when the traffic part of its work is done: a car's
\* thread still has processStreetLights to do, everyone else releases the monitor.
EndSection ==
  IF holder = "car"
    THEN pc' = "street" /\ UNCHANGED <<holder, exec>>
    ELSE /\ pc' = "idle"
         /\ holder' = "none"
         /\ exec' = IF holder = "executor" THEN "idle" ELSE exec

\* The street lights do not touch this state (StreetLightController models them).
StreetLights ==
  /\ pc = "street"
  /\ pc' = "idle"
  /\ holder' = "none"
  /\ UNCHANGED <<trafficState, server, threads, exec, execAllow, timers,
                 started, excused, budgets>>

\* Mutant: the test of the pedestrian is the wrong way round.
AllowCheckInverted ==
  /\ pc = "allowCheck"
  /\ pc' = IF pedestrianPending THEN "allowCall" ELSE "street"
  /\ UNCHANGED <<trafficState, server, threads, holder, exec, execAllow, timers,
                 started, excused, budgets>>

AllowCheck ==
  /\ pc = "allowCheck"
  /\ pc' = IF pedestrianPending THEN "street" ELSE "allowCall"
  /\ UNCHANGED <<trafficState, server, threads, holder, exec, execAllow, timers,
                 started, excused, budgets>>

(* updateTrafficLightsState by the thread in the monitor.  The call throws   *)
(* before or after the server has activated the configuration; either way    *)
(* the exception is swallowed and mainRoad keeps its value.                  *)
HolderUpdate(call, set, next, allow) ==
  /\ \/ /\ pc = call
        /\ server' = allow
        /\ pc' = set
        /\ excused' = FALSE
        /\ UNCHANGED <<mainRoad, faults>>
     \/ /\ pc = call
        /\ faults > 0
        /\ faults' = faults - 1
        /\ server' = server \/ server' = allow
        /\ pc' = next
        /\ excused' = TRUE
        /\ UNCHANGED mainRoad
     \/ /\ pc = set
        /\ mainRoad' = allow
        /\ pc' = next
        /\ UNCHANGED <<server, excused, faults>>
  /\ UNCHANGED <<carPending, pedestrianPending, threads, holder, exec, execAllow,
                 timers, started, restarts>>

AllowUpdate == HolderUpdate("allowCall", "allowSet", "street", ALLOW)
\* Mutant: a departing car leaves the road as it was set for it.
LeaveUpdateAllows == HolderUpdate("leaveCall", "leaveSet", "leaveClear", ALLOW)
LeaveUpdate == HolderUpdate("leaveCall", "leaveSet", "leaveClear", DISALLOW)
WalkUpdate == HolderUpdate("walkCall", "walkSet", "walkSchedule", DISALLOW)

LeaveClear ==
  /\ pc = "leaveClear"
  /\ carPending' = FALSE
  /\ pc' = "leaveBranch"
  /\ UNCHANGED <<mainRoad, pedestrianPending, server, threads, holder, exec, execAllow,
                 timers, started, excused, budgets>>

\* Mutants: the departure forgets to start the timers, or to let the pedestrian walk.
LeaveBranchForgetsTimer ==
  /\ pc = "leaveBranch"
  /\ pc' = IF pedestrianPending THEN "walkRequest" ELSE "street"
  /\ UNCHANGED <<trafficState, server, threads, holder, exec, execAllow, timers,
                 started, excused, budgets>>

LeaveBranchForgetsWalk ==
  /\ pc = "leaveBranch"
  /\ pc' = "timerCheck"
  /\ UNCHANGED <<trafficState, server, threads, holder, exec, execAllow, timers,
                 started, excused, budgets>>

LeaveBranch ==
  /\ pc = "leaveBranch"
  /\ pc' = IF pedestrianPending THEN "walkRequest" ELSE "timerCheck"
  /\ UNCHANGED <<trafficState, server, threads, holder, exec, execAllow, timers,
                 started, excused, budgets>>

\* Mutant: a walk is granted although a car is in the zone.
WalkRequestIgnoresCar ==
  /\ pc = "walkRequest"
  /\ pedestrianPending' = TRUE
  /\ pc' = "walkCall"
  /\ UNCHANGED <<mainRoad, carPending, server, threads, holder, exec, execAllow, timers,
                 started, excused, budgets>>

\* processPedestrianWalkRequest, up to its test of carPending.
WalkRequest ==
  /\ pc = "walkRequest"
  /\ pedestrianPending' = TRUE
  /\ \/ ~carPending /\ pc' = "walkCall" /\ UNCHANGED <<holder, exec>>
     \/ carPending /\ EndSection
  /\ UNCHANGED <<mainRoad, carPending, server, threads, execAllow, timers,
                 started, excused, budgets>>

\* Mutant: nobody ends the walk.
WalkScheduleForgotten ==
  /\ pc = "walkSchedule"
  /\ EndSection
  /\ UNCHANGED <<trafficState, server, threads, execAllow, timers, started, excused, budgets>>

WalkSchedule ==
  /\ pc = "walkSchedule"
  /\ walkTimers' = walkTimers + 1
  /\ EndSection
  /\ UNCHANGED <<trafficState, server, threads, execAllow, allowTimers, disallowTimers,
                 started, excused, budgets>>

\* startSwitchTimer, its test of the two pending flags.
TimerCheck ==
  /\ pc = "timerCheck"
  /\ \/ ~carPending /\ ~pedestrianPending /\ pc' = "timerArm" /\ UNCHANGED <<holder, exec>>
     \/ (carPending \/ pedestrianPending) /\ EndSection
  /\ UNCHANGED <<trafficState, server, threads, execAllow, timers,
                 started, excused, budgets>>

\* Mutant: the timer sets the state the light already has.
TimerArmSameState ==
  /\ pc = "timerArm"
  /\ \/ mainRoad /\ allowTimers' = allowTimers + 1 /\ UNCHANGED disallowTimers
     \/ ~mainRoad /\ disallowTimers' = disallowTimers + 1 /\ UNCHANGED allowTimers
  /\ EndSection
  /\ UNCHANGED <<trafficState, server, threads, execAllow, walkTimers,
                 started, excused, budgets>>

\* startSwitchTimer, the schedule: the timer will set the opposite of mainRoad.
TimerArm ==
  /\ pc = "timerArm"
  /\ \/ mainRoad /\ disallowTimers' = disallowTimers + 1 /\ UNCHANGED allowTimers
     \/ ~mainRoad /\ allowTimers' = allowTimers + 1 /\ UNCHANGED disallowTimers
  /\ EndSection
  /\ UNCHANGED <<trafficState, server, threads, execAllow, walkTimers,
                 started, excused, budgets>>

-----------------------------------------------------------------------------
(* Steps of the executor thread, outside the monitor.                       *)

\* Mutant: the switch timer is periodic, and re-armed by hand as well.
FireSwitchPeriodic ==
  /\ exec = "idle"
  /\ allowTimers + disallowTimers > 0
  /\ exec' = "switchCheck"
  /\ execAllow' = (allowTimers > 0)
  /\ UNCHANGED <<trafficState, server, threads, holder, pc, timers, started, excused, budgets>>

\* The durations are configured and a REST call takes as long as it takes, so
\* any armed timer may be the next to fire.
FireSwitch ==
  /\ exec = "idle"
  /\ exec' = "switchCheck"
  /\ \/ /\ allowTimers > 0
        /\ allowTimers' = allowTimers - 1
        /\ execAllow' = ALLOW
        /\ UNCHANGED disallowTimers
     \/ /\ disallowTimers > 0
        /\ disallowTimers' = disallowTimers - 1
        /\ execAllow' = DISALLOW
        /\ UNCHANGED allowTimers
  /\ UNCHANGED <<trafficState, server, threads, holder, pc, walkTimers,
                 started, excused, budgets>>

FireWalk ==
  /\ exec = "idle"
  /\ walkTimers > 0
  /\ walkTimers' = walkTimers - 1
  /\ exec' = "walkClear"
  /\ UNCHANGED <<trafficState, server, threads, holder, pc, execAllow, allowTimers,
                 disallowTimers, started, excused, budgets>>

\* The timer's own test; when it fails this chain of timers ends.
SwitchCheck ==
  /\ exec = "switchCheck"
  /\ exec' = IF carPending \/ pedestrianPending THEN "idle" ELSE "switchCall"
  /\ UNCHANGED <<trafficState, server, threads, holder, pc, execAllow, timers,
                 started, excused, budgets>>

\* Mutant: the end of the walk does not open the road again.
WalkClearOnly ==
  /\ exec = "walkClear"
  /\ pedestrianPending' = FALSE
  /\ exec' = "walkCheck"
  /\ UNCHANGED <<mainRoad, carPending, server, threads, holder, pc, execAllow, timers,
                 started, excused, budgets>>

WalkClear ==
  /\ exec = "walkClear"
  /\ pedestrianPending' = FALSE
  /\ exec' = "walkCall"
  /\ UNCHANGED <<mainRoad, carPending, server, threads, holder, pc, execAllow, timers,
                 started, excused, budgets>>

(* updateTrafficLightsState by the executor.  `spoils` says whether the      *)
(* update goes against a request made since the executor decided on it.      *)
ExecUpdate(call, set, next, allow, spoils) ==
  /\ \/ /\ exec = call
        /\ server' = allow
        /\ exec' = set
        /\ excused' = spoils
        /\ UNCHANGED <<mainRoad, faults>>
     \/ /\ exec = call
        /\ faults > 0
        /\ faults' = faults - 1
        /\ server' = server \/ server' = allow
        /\ exec' = next
        /\ excused' = TRUE
        /\ UNCHANGED mainRoad
     \/ /\ exec = set
        /\ mainRoad' = allow
        /\ exec' = next
        /\ UNCHANGED <<server, excused, faults>>
  /\ UNCHANGED <<carPending, pedestrianPending, threads, holder, pc, execAllow,
                 timers, started, restarts>>

SwitchUpdate ==
  ExecUpdate("switchCall", "switchSet", "arm", execAllow,
             excused \/ carPending \/ pedestrianPending)

\* ALLOW is what a pending car waits for, unless its departure is under way.
WalkEndUpdate ==
  ExecUpdate("walkCall", "walkSet", "walkCheck", ALLOW,
             IF carPending /\ pc \notin {"leaveSet", "leaveClear"}
               THEN FALSE
               ELSE excused \/ pedestrianPending)

WalkCheck ==
  /\ exec = "walkCheck"
  /\ exec' = IF carPending THEN "idle" ELSE "arm"
  /\ UNCHANGED <<trafficState, server, threads, holder, pc, execAllow, timers,
                 started, excused, budgets>>

\* The executor enters the monitor in startSwitchTimer.
Arm ==
  /\ exec = "arm"
  /\ holder = "none"
  /\ exec' = "locked"
  /\ holder' = "executor"
  /\ pc' = "timerCheck"
  /\ UNCHANGED <<trafficState, server, threads, execAllow, timers,
                 started, excused, budgets>>

-----------------------------------------------------------------------------
\* The process is killed and started again: only the server's state survives.
Restart ==
  /\ restarts > 0
  /\ restarts' = restarts - 1
  /\ mainRoad' = TRUE /\ carPending' = FALSE /\ pedestrianPending' = FALSE
  /\ threads' = [r \in Reports |-> 0]
  /\ holder' = "none" /\ pc' = "idle"
  /\ exec' = "idle" /\ execAllow' = ALLOW
  /\ allowTimers' = 0 /\ disallowTimers' = 0 /\ walkTimers' = 0
  /\ started' = FALSE
  /\ excused' = TRUE
  /\ UNCHANGED <<server, faults>>

Enter == EnterAllowTag \/ EnterOtherTag \/ EnterButton

HolderStep ==
  \/ AllowCheck \/ AllowUpdate \/ LeaveUpdate \/ LeaveClear \/ LeaveBranch
  \/ WalkRequest \/ WalkUpdate \/ WalkSchedule \/ TimerCheck \/ TimerArm
  \/ StreetLights

ExecStep ==
  \/ FireSwitch \/ FireWalk \/ SwitchCheck \/ SwitchUpdate
  \/ WalkClear \/ WalkEndUpdate \/ WalkCheck

Next ==
  \/ \E r \in Reports : Submit(r)
  \/ Enter \/ StartMain \/ HolderStep \/ ExecStep \/ Arm \/ Restart

Spec == Init /\ [][Next]_vars

(* Threads run: a runnable thread is eventually scheduled (weak fairness),   *)
(* and a thread that wants the monitor is not starved of it for ever while   *)
(* it is released again and again (strong fairness).  Nothing makes reports  *)
(* arrive, calls fail or the process restart.                                *)
Fairness ==
  /\ WF_vars(HolderStep) /\ WF_vars(ExecStep)
  /\ SF_vars(Arm) /\ SF_vars(StartMain)
  /\ SF_vars(EnterAllowTag) /\ SF_vars(EnterOtherTag) /\ SF_vars(EnterButton)

FairSpec == Spec /\ Fairness

-----------------------------------------------------------------------------
(* The light never stalls: whenever no car and no pedestrian is pending,     *)
(* some timer is armed or some thread is on its way to arm one.  Car         *)
(* arrivals and button presses end chains of timers (createTimerRunnable and *)
(* startSwitchTimer return early), and it is up to the departure of the car  *)
(* and the end of the walk to start a new one.                               *)
NoStall ==
  ~carPending /\ ~pedestrianPending =>
    \/ ~started
    \/ ArmedTimers > 0
    \/ exec # "idle"
    \/ pc \in {"leaveBranch", "walkRequest", "walkCall", "walkSet", "walkSchedule",
               "timerCheck", "timerArm"}

(* A pedestrian whose request no car holds up has a walk timer armed, or the *)
(* thread that will arm it is in the monitor: the flag that stops every      *)
(* switch timer cannot stay up with nobody left to take it down.             *)
PedestrianNeverStranded ==
  pedestrianPending /\ ~carPending =>
    \/ walkTimers > 0
    \/ exec = "walkClear"
    \/ pc \in {"leaveBranch", "walkRequest", "walkCall", "walkSet", "walkSchedule"}

(* While a pedestrian walks, the server's configuration keeps the main road  *)
(* closed, unless the last REST call failed or an update that the executor   *)
(* had decided on before the request overtook it (the executor tests the     *)
(* flags and calls the server outside the monitor).                          *)
CrossingProtected ==
  pedestrianPending /\ ~carPending /\ ~excused /\ pc # "walkCall" => server = DISALLOW

(* A car inside the traffic light zone with no pedestrian ahead of it has    *)
(* the main road open once its report has been processed, with the same two  *)
(* exceptions.                                                               *)
CarHasRightOfWay ==
  /\ carPending /\ ~pedestrianPending /\ ~excused
  /\ pc \notin {"allowCheck", "allowCall", "leaveSet", "leaveClear"}
  /\ exec # "walkCall"
  => server = ALLOW

(* Timers never multiply: armed timers, the timer being run and the reports  *)
(* that may still arm one are together never more than before, except by a   *)
(* new report or a restart.  A chain of timers forks only when a report      *)
(* starts one of its own.                                                    *)
Chains ==
  ArmedTimers + WaitingThreads + (IF started THEN 0 ELSE 1)
    + (IF exec = "idle" THEN 0 ELSE 1)
    + (IF holder \in {"car", "button", "main"} /\ pc # "street" THEN 1 ELSE 0)

TimersNeverMultiply ==
  [][Chains' > Chains =>
       \/ \E r \in Reports : Submit(r)
       \/ restarts' # restarts]_vars

(* With no car and no pedestrian pending from some point on, the light keeps *)
(* changing: each of ALLOW and DISALLOW is active on the server again and    *)
(* again, however the REST calls before it failed (a restart begins a new  *)
(* behaviour, with the server in any state).                                *)
LightAlternates ==
  <>[](~carPending /\ ~pedestrianPending) => []<>(server = ALLOW) /\ []<>(server = DISALLOW)

(* A car that stays in the zone holds the light: every chain of timers dies  *)
(* out and no button press moves the light until the car has left.           *)
CarHoldsLight ==
  <>[]carPending => <>[](server = ALLOW) \/ <>[](server = DISALLOW)

(* A car that arrives gets the main road, unless it leaves or its update is  *)
(* overtaken or lost: in particular the walk it waited for does end and the  *)
(* walk timer opens the road for it.                                         *)
CarGetsGreen ==
  carPending ~> (server = ALLOW \/ ~carPending \/ excused)

(* Without a car, a walk always comes to its end.                            *)
WalkEnds ==
  <>[]~carPending => []<>~pedestrianPending
=============================================================================
