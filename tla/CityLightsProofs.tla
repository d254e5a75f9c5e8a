-------------------------- MODULE CityLightsProofs --------------------------
(***************************************************************************)
(* Proofs about the two ends of a car's report.  First the controller of   *)
(* the traffic light: its safety properties, for every backlog, every      *)
(* number of REST failures and every number of restarts.  Then the reader  *)
(* in the car: it never invents a tag, falls into step again and keeps its *)
(* owner informed, for every length of the frame's parts and every number  *)
(* of lost bytes.                                                          *)
(***************************************************************************)
EXTENDS TrafficController, RfidReader, TLAPS

-----------------------------------------------------------------------------
(* The controller.                                                           *)

(* The strengthening: who is where while the monitor is held, and what the  *)
(* pending flags are at each place.  carPending is written only inside the  *)
(* monitor; pedestrianPending is raised only inside it, but the executor    *)
(* lowers it at any moment.                                                 *)

MonitorInv ==
  /\ holder = "none" <=> pc = "idle"
  /\ holder = "executor" <=> exec = "locked"
  /\ holder \in {"main", "executor"} => pc \in {"timerCheck", "timerArm"}
  /\ holder = "button" => pc \in {"walkRequest", "walkCall", "walkSet", "walkSchedule"}
  /\ holder = "main" => started

CarFlagInv ==
  /\ pc \in {"allowCheck", "allowCall", "allowSet", "leaveCall", "leaveSet", "leaveClear"}
       => carPending
  /\ pc \in {"leaveBranch", "walkCall", "walkSet", "walkSchedule"} => ~carPending
  /\ pc = "timerArm" => ~carPending /\ ~pedestrianPending
  /\ holder = "car" /\ pc = "walkRequest" => ~carPending
  /\ holder = "car" /\ pc = "timerCheck" => ~carPending /\ ~pedestrianPending

\* The departure of a car leaves the road closed to the pedestrian behind it.
DepartureInv ==
  pc \in {"leaveSet", "leaveClear"} /\ pedestrianPending /\ ~excused => server = DISALLOW

IInv ==
  /\ TypeOK
  /\ MonitorInv /\ CarFlagInv /\ DepartureInv
  /\ NoStall /\ PedestrianNeverStranded
  /\ CrossingProtected /\ CarHasRightOfWay

-----------------------------------------------------------------------------

\* The initial states, with the server in any state.
LEMMA InitIInv == Init => IInv
<1> SUFFICES ASSUME Init PROVE IInv
  OBVIOUS
<1>1. TypeOK
  <2>1. threads \in [Reports -> Nat]
    BY DEF Init
  <2>2. QED
    BY <2>1, BoundsAssumption
    DEF Init, TypeOK, Holders, MonitorPCs, ExecPCs, ALLOW
<1>2. MonitorInv /\ CarFlagInv /\ DepartureInv
  BY DEF Init, MonitorInv, CarFlagInv, DepartureInv
<1>3. NoStall /\ PedestrianNeverStranded /\ CrossingProtected /\ CarHasRightOfWay
  BY DEF Init, NoStall, PedestrianNeverStranded, CrossingProtected, CarHasRightOfWay
<1>4. QED
  BY <1>1, <1>2, <1>3 DEF IInv

\* A REST call by the thread in the monitor, by the executor: the types of what it writes.

LEMMA HolderUpdateType ==
  ASSUME TypeOK, NEW call, NEW set \in MonitorPCs, NEW next \in MonitorPCs,
         NEW allow \in BOOLEAN, HolderUpdate(call, set, next, allow)
  PROVE  TypeOK'
<1> USE DEF HolderUpdate, TypeOK, trafficState, timers, budgets
<1>1. faults' \in Nat /\ restarts' \in Nat
  OBVIOUS
<1>2. pc' \in MonitorPCs
  OBVIOUS
<1>3. server' \in BOOLEAN /\ mainRoad' \in BOOLEAN /\ excused' \in BOOLEAN
  OBVIOUS
<1>4. QED
  BY <1>1, <1>2, <1>3


LEMMA ExecUpdateType ==
  ASSUME TypeOK, NEW call, NEW set \in ExecPCs, NEW next \in ExecPCs,
         NEW STATE allow, allow \in BOOLEAN, NEW STATE spoils, spoils \in BOOLEAN,
         ExecUpdate(call, set, next, allow, spoils)
  PROVE  TypeOK'
<1> USE DEF ExecUpdate, TypeOK, trafficState, timers, budgets
<1>1. faults' \in Nat /\ restarts' \in Nat
  OBVIOUS
<1>2. exec' \in ExecPCs
  OBVIOUS
<1>3. server' \in BOOLEAN /\ mainRoad' \in BOOLEAN /\ excused' \in BOOLEAN
  OBVIOUS
<1>4. QED
  BY <1>1, <1>2, <1>3


\* Types are preserved.
LEMMA TypeNext ==
  ASSUME TypeOK, [Next]_vars PROVE TypeOK'
<1> USE DEF TypeOK, Reports, Holders, MonitorPCs, ExecPCs, ALLOW, DISALLOW,
          trafficState, timers, budgets
<1>1. ASSUME NEW r \in Reports, Submit(r) PROVE TypeOK'
  BY <1>1 DEF Submit
<1>2. CASE EnterAllowTag
  BY <1>2 DEF EnterAllowTag, EnterMonitor
<1>3. CASE EnterOtherTag
  BY <1>3 DEF EnterOtherTag, EnterMonitor
<1>4. CASE EnterButton
  BY <1>4 DEF EnterButton, EnterMonitor
<1>5. CASE StartMain
  BY <1>5 DEF StartMain
<1>6. CASE AllowCheck
  BY <1>6 DEF AllowCheck
<1>7. CASE AllowUpdate
  BY <1>7, HolderUpdateType DEF AllowUpdate
<1>8. CASE LeaveUpdate
  BY <1>8, HolderUpdateType DEF LeaveUpdate
<1>9. CASE LeaveClear
  BY <1>9 DEF LeaveClear
<1>10. CASE LeaveBranch
  BY <1>10 DEF LeaveBranch
<1>11. CASE WalkRequest
  BY <1>11 DEF WalkRequest, EndSection
<1>12. CASE WalkUpdate
  BY <1>12, HolderUpdateType DEF WalkUpdate
<1>13. CASE WalkSchedule
  BY <1>13 DEF WalkSchedule, EndSection
<1>14. CASE TimerCheck
  BY <1>14 DEF TimerCheck, EndSection
<1>15. CASE TimerArm
  <2>1. allowTimers' \in Nat /\ disallowTimers' \in Nat
    BY <1>15 DEF TimerArm
  <2>2. QED
    BY <1>15, <2>1 DEF TimerArm, EndSection
<1>16. CASE StreetLights
  BY <1>16 DEF StreetLights
<1>17. CASE FireSwitch
  <2>1. allowTimers' \in Nat /\ disallowTimers' \in Nat
    BY <1>17 DEF FireSwitch
  <2>2. execAllow' \in BOOLEAN /\ exec' \in ExecPCs
    BY <1>17 DEF FireSwitch
  <2>3. QED
    BY <1>17, <2>1, <2>2 DEF FireSwitch
<1>18. CASE FireWalk
  BY <1>18 DEF FireWalk
<1>19. CASE SwitchCheck
  BY <1>19 DEF SwitchCheck
<1>20. CASE SwitchUpdate
  BY <1>20, ExecUpdateType DEF SwitchUpdate
<1>21. CASE WalkClear
  <2>1. pedestrianPending' \in BOOLEAN /\ exec' \in ExecPCs
    BY <1>21 DEF WalkClear
  <2>2. QED
    BY <1>21, <2>1 DEF WalkClear
<1>22. CASE WalkEndUpdate
  <2> DEFINE spoils == IF carPending /\ pc \notin {"leaveSet", "leaveClear"}
                         THEN FALSE ELSE excused \/ pedestrianPending
  <2>1. spoils \in BOOLEAN
    OBVIOUS
  <2>2. ExecUpdate("walkCall", "walkSet", "walkCheck", ALLOW, spoils)
    BY <1>22 DEF WalkEndUpdate
  <2> HIDE DEF spoils
  <2>3. QED
    BY <2>1, <2>2, ExecUpdateType
<1>23. CASE WalkCheck
  BY <1>23 DEF WalkCheck
<1>24. CASE Arm
  BY <1>24 DEF Arm
<1>25. CASE Restart
  <2>1. threads' \in [Reports -> Nat] /\ restarts' \in Nat
    BY <1>25 DEF Restart
  <2>2. allowTimers' \in Nat /\ disallowTimers' \in Nat /\ walkTimers' \in Nat
    BY <1>25 DEF Restart
  <2>3. QED
    BY <1>25, <2>1, <2>2 DEF Restart
<1>26. CASE UNCHANGED vars
  BY <1>26 DEF vars
<1>27. QED
  BY <1>1, <1>2, <1>3, <1>4, <1>5, <1>6, <1>7, <1>8, <1>9, <1>10, <1>11, <1>12, <1>13,
     <1>14, <1>15, <1>16, <1>17, <1>18, <1>19, <1>20, <1>21, <1>22, <1>23, <1>24,
     <1>25, <1>26
  DEF Next, Enter, HolderStep, ExecStep

\* The monitor is held by one thread, which is where its kind can be.
LEMMA MonitorNext ==
  ASSUME TypeOK, MonitorInv, [Next]_vars PROVE MonitorInv'
<1> USE DEF TypeOK, MonitorInv, Reports, Holders, MonitorPCs, ExecPCs, trafficState,
          timers, budgets
<1>1. ASSUME NEW r \in Reports, Submit(r) PROVE MonitorInv'
  BY <1>1 DEF Submit
<1>2. CASE EnterAllowTag \/ EnterOtherTag \/ EnterButton
  BY <1>2 DEF EnterAllowTag, EnterMonitor, EnterOtherTag, EnterButton
<1>3. CASE StartMain \/ Restart
  BY <1>3 DEF StartMain, Restart
<1>4. CASE AllowUpdate
  BY <1>4 DEF AllowUpdate, HolderUpdate
<1>5. CASE LeaveUpdate
  BY <1>5 DEF LeaveUpdate, HolderUpdate
<1>6. CASE WalkUpdate
  BY <1>6 DEF WalkUpdate, HolderUpdate
<1>7. CASE AllowCheck \/ LeaveClear \/ LeaveBranch
  BY <1>7 DEF AllowCheck, LeaveClear, LeaveBranch
<1>8. CASE WalkRequest \/ WalkSchedule \/ TimerCheck \/ TimerArm
  BY <1>8 DEF WalkRequest, EndSection, WalkSchedule, TimerCheck, TimerArm
<1>9. CASE StreetLights \/ Arm
  BY <1>9 DEF StreetLights, Arm
<1>10. CASE FireSwitch
  BY <1>10 DEF FireSwitch
<1>11. CASE FireWalk \/ SwitchCheck \/ WalkClear \/ WalkCheck
  BY <1>11 DEF FireWalk, SwitchCheck, WalkClear, WalkCheck
<1>12. CASE SwitchUpdate
  BY <1>12 DEF SwitchUpdate, ExecUpdate
<1>13. CASE WalkEndUpdate
  BY <1>13 DEF WalkEndUpdate, ExecUpdate
<1>14. CASE UNCHANGED vars
  BY <1>14 DEF vars
<1>15. QED
  BY <1>1, <1>2, <1>3, <1>4, <1>5, <1>6, <1>7, <1>8, <1>9, <1>10, <1>11, <1>12, <1>13,
     <1>14
  DEF Next, Enter, HolderStep, ExecStep

\* Inside the monitor the flags are what the code has just tested or set.
LEMMA FlagNext ==
  ASSUME TypeOK, MonitorInv, CarFlagInv, [Next]_vars PROVE CarFlagInv'
<1> USE DEF TypeOK, MonitorInv, CarFlagInv, Reports, Holders, MonitorPCs, ExecPCs,
          trafficState, timers, budgets
<1>1. ASSUME NEW r \in Reports, Submit(r) PROVE CarFlagInv'
  BY <1>1 DEF Submit
<1>2. CASE EnterAllowTag \/ EnterOtherTag \/ EnterButton
  BY <1>2 DEF EnterAllowTag, EnterMonitor, EnterOtherTag, EnterButton
<1>3. CASE StartMain \/ Restart
  BY <1>3 DEF StartMain, Restart
<1>4. CASE AllowUpdate \/ LeaveUpdate \/ WalkUpdate
  BY <1>4 DEF AllowUpdate, HolderUpdate, LeaveUpdate, WalkUpdate
<1>5. CASE AllowCheck
  BY <1>5 DEF AllowCheck
<1>6. CASE LeaveClear
  BY <1>6 DEF LeaveClear
<1>7. CASE LeaveBranch
  BY <1>7 DEF LeaveBranch
<1>8. CASE WalkRequest
  BY <1>8 DEF WalkRequest, EndSection
<1>9. CASE WalkSchedule
  BY <1>9 DEF WalkSchedule, EndSection
<1>10. CASE TimerCheck
  BY <1>10 DEF TimerCheck, EndSection
<1>11. CASE TimerArm \/ StreetLights
  BY <1>11 DEF TimerArm, EndSection, StreetLights
<1>12. CASE FireSwitch
  BY <1>12 DEF FireSwitch
<1>13. CASE FireWalk \/ SwitchCheck \/ WalkClear \/ WalkCheck \/ Arm
  BY <1>13 DEF FireWalk, SwitchCheck, WalkClear, WalkCheck, Arm
<1>14. CASE SwitchUpdate
  BY <1>14 DEF SwitchUpdate, ExecUpdate
<1>15. CASE WalkEndUpdate
  BY <1>15 DEF WalkEndUpdate, ExecUpdate
<1>16. CASE UNCHANGED vars
  BY <1>16 DEF vars
<1>17. QED
  BY <1>1, <1>2, <1>3, <1>4, <1>5, <1>6, <1>7, <1>8, <1>9, <1>10, <1>11, <1>12, <1>13,
     <1>14, <1>15, <1>16
  DEF Next, Enter, HolderStep, ExecStep

\* Whoever ends a chain of timers leaves another, or a pending flag, behind.
LEMMA NoStallNext ==
  ASSUME TypeOK, MonitorInv, CarFlagInv, NoStall, [Next]_vars PROVE NoStall'
<1> USE DEF TypeOK, MonitorInv, CarFlagInv, NoStall, ArmedTimers, trafficState,
          timers, budgets
<1>1. ASSUME NEW r \in Reports, Submit(r) PROVE NoStall'
  BY <1>1 DEF Submit
<1>2. CASE EnterAllowTag \/ EnterOtherTag \/ EnterButton
  BY <1>2 DEF EnterAllowTag, EnterMonitor, EnterOtherTag, EnterButton
<1>3. CASE StartMain \/ Restart
  BY <1>3 DEF StartMain, Restart
<1>4. CASE AllowUpdate \/ LeaveUpdate \/ WalkUpdate
  BY <1>4 DEF AllowUpdate, HolderUpdate, LeaveUpdate, WalkUpdate
<1>5. CASE AllowCheck \/ LeaveClear \/ LeaveBranch \/ WalkRequest
  BY <1>5 DEF AllowCheck, LeaveClear, LeaveBranch, WalkRequest, EndSection
<1>6. CASE WalkSchedule
  <2>1. ArmedTimers' > 0
    BY <1>6 DEF WalkSchedule, ArmedTimers
  <2>2. QED
    BY <2>1 DEF NoStall
<1>7. CASE TimerCheck
  BY <1>7 DEF TimerCheck, EndSection
<1>8. CASE TimerArm
  <2>1. ArmedTimers' > 0
    BY <1>8 DEF TimerArm, ArmedTimers
  <2>2. QED
    BY <2>1 DEF NoStall
<1>9. CASE StreetLights
  BY <1>9 DEF StreetLights
<1>10. CASE FireSwitch
  BY <1>10 DEF FireSwitch
<1>11. CASE FireWalk \/ SwitchCheck \/ WalkClear \/ WalkCheck \/ Arm
  BY <1>11 DEF FireWalk, SwitchCheck, WalkClear, WalkCheck, Arm
<1>12. CASE SwitchUpdate \/ WalkEndUpdate
  BY <1>12 DEF SwitchUpdate, ExecUpdate, WalkEndUpdate
<1>13. CASE UNCHANGED vars
  BY <1>13 DEF vars
<1>14. QED
  BY <1>1, <1>2, <1>3, <1>4, <1>5, <1>6, <1>7, <1>8, <1>9, <1>10, <1>11, <1>12, <1>13
  DEF Next, Enter, HolderStep, ExecStep

\* The flag of a pedestrian never outlives the last walk timer.
LEMMA StrandedNext ==
  ASSUME TypeOK, MonitorInv, CarFlagInv, PedestrianNeverStranded,
         [Next]_vars
  PROVE  PedestrianNeverStranded'
<1> USE DEF TypeOK, MonitorInv, CarFlagInv, PedestrianNeverStranded, trafficState,
          timers, budgets
<1>1. ASSUME NEW r \in Reports, Submit(r) PROVE PedestrianNeverStranded'
  BY <1>1 DEF Submit
<1>2. CASE EnterAllowTag \/ EnterOtherTag \/ EnterButton
  BY <1>2 DEF EnterAllowTag, EnterMonitor, EnterOtherTag, EnterButton
<1>3. CASE StartMain \/ Restart
  BY <1>3 DEF StartMain, Restart
<1>4. CASE AllowUpdate \/ LeaveUpdate \/ WalkUpdate
  BY <1>4 DEF AllowUpdate, HolderUpdate, LeaveUpdate, WalkUpdate
<1>5. CASE AllowCheck \/ LeaveClear \/ LeaveBranch
  BY <1>5 DEF AllowCheck, LeaveClear, LeaveBranch
<1>6. CASE WalkRequest
  BY <1>6 DEF WalkRequest, EndSection
<1>7. CASE WalkSchedule
  BY <1>7 DEF WalkSchedule, EndSection
<1>8. CASE TimerCheck \/ TimerArm \/ StreetLights
  BY <1>8 DEF TimerCheck, EndSection, TimerArm, StreetLights
<1>9. CASE FireSwitch
  BY <1>9 DEF FireSwitch
<1>10. CASE FireWalk \/ SwitchCheck \/ WalkClear \/ WalkCheck \/ Arm
  BY <1>10 DEF FireWalk, SwitchCheck, WalkClear, WalkCheck, Arm
<1>11. CASE SwitchUpdate \/ WalkEndUpdate
  BY <1>11 DEF SwitchUpdate, ExecUpdate, WalkEndUpdate
<1>12. CASE UNCHANGED vars
  BY <1>12 DEF vars
<1>13. QED
  BY <1>1, <1>2, <1>3, <1>4, <1>5, <1>6, <1>7, <1>8, <1>9, <1>10, <1>11, <1>12
  DEF Next, Enter, HolderStep, ExecStep

\* Between the departing car's DISALLOW and the test of pedestrianPending.
LEMMA DepartureNext ==
  ASSUME TypeOK, MonitorInv, CarFlagInv, DepartureInv, [Next]_vars PROVE DepartureInv'
<1> USE DEF TypeOK, MonitorInv, CarFlagInv, DepartureInv, ALLOW, DISALLOW,
          trafficState, timers, budgets
<1>1. ASSUME NEW r \in Reports, Submit(r) PROVE DepartureInv'
  BY <1>1 DEF Submit
<1>2. CASE EnterAllowTag \/ EnterOtherTag \/ EnterButton
  BY <1>2 DEF EnterAllowTag, EnterMonitor, EnterOtherTag, EnterButton
<1>3. CASE StartMain \/ Restart
  BY <1>3 DEF StartMain, Restart
<1>4. CASE AllowUpdate \/ LeaveUpdate \/ WalkUpdate
  BY <1>4 DEF AllowUpdate, HolderUpdate, LeaveUpdate, WalkUpdate
<1>5. CASE AllowCheck \/ LeaveClear \/ LeaveBranch
  BY <1>5 DEF AllowCheck, LeaveClear, LeaveBranch
<1>6. CASE WalkRequest
  BY <1>6 DEF WalkRequest, EndSection
<1>7. CASE WalkSchedule
  BY <1>7 DEF WalkSchedule, EndSection
<1>8. CASE TimerCheck \/ TimerArm \/ StreetLights
  BY <1>8 DEF TimerCheck, EndSection, TimerArm, StreetLights
<1>9. CASE FireSwitch
  BY <1>9 DEF FireSwitch
<1>10. CASE FireWalk \/ SwitchCheck \/ WalkClear \/ WalkCheck \/ Arm
  BY <1>10 DEF FireWalk, SwitchCheck, WalkClear, WalkCheck, Arm
<1>11. CASE SwitchUpdate \/ WalkEndUpdate
  BY <1>11 DEF SwitchUpdate, ExecUpdate, WalkEndUpdate
<1>12. CASE UNCHANGED vars
  BY <1>12 DEF vars
<1>13. QED
  BY <1>1, <1>2, <1>3, <1>4, <1>5, <1>6, <1>7, <1>8, <1>9, <1>10, <1>11, <1>12
  DEF Next, Enter, HolderStep, ExecStep

\* Every step that leaves a pedestrian walking leaves the road closed.
LEMMA CrossingNext ==
  ASSUME TypeOK, MonitorInv, CarFlagInv, DepartureInv, CrossingProtected,
         [Next]_vars
  PROVE  CrossingProtected'
<1> USE DEF TypeOK, MonitorInv, CarFlagInv, DepartureInv, CrossingProtected, ALLOW,
          DISALLOW, trafficState, timers, budgets
<1>1. ASSUME NEW r \in Reports, Submit(r) PROVE CrossingProtected'
  BY <1>1 DEF Submit
<1>2. CASE EnterAllowTag \/ EnterOtherTag \/ EnterButton
  BY <1>2 DEF EnterAllowTag, EnterMonitor, EnterOtherTag, EnterButton
<1>3. CASE StartMain \/ Restart
  BY <1>3 DEF StartMain, Restart
<1>4. CASE AllowUpdate \/ LeaveUpdate \/ WalkUpdate
  BY <1>4 DEF AllowUpdate, HolderUpdate, LeaveUpdate, WalkUpdate
<1>5. CASE AllowCheck \/ LeaveClear \/ LeaveBranch
  BY <1>5 DEF AllowCheck, LeaveClear, LeaveBranch
<1>6. CASE WalkRequest
  BY <1>6 DEF WalkRequest, EndSection
<1>7. CASE WalkSchedule
  BY <1>7 DEF WalkSchedule, EndSection
<1>8. CASE TimerCheck \/ TimerArm \/ StreetLights
  BY <1>8 DEF TimerCheck, EndSection, TimerArm, StreetLights
<1>9. CASE FireSwitch
  BY <1>9 DEF FireSwitch
<1>10. CASE FireWalk \/ SwitchCheck \/ WalkClear \/ WalkCheck \/ Arm
  BY <1>10 DEF FireWalk, SwitchCheck, WalkClear, WalkCheck, Arm
<1>11. CASE SwitchUpdate \/ WalkEndUpdate
  BY <1>11 DEF SwitchUpdate, ExecUpdate, WalkEndUpdate
<1>12. CASE UNCHANGED vars
  BY <1>12 DEF vars
<1>13. QED
  BY <1>1, <1>2, <1>3, <1>4, <1>5, <1>6, <1>7, <1>8, <1>9, <1>10, <1>11, <1>12
  DEF Next, Enter, HolderStep, ExecStep

\* Every step that leaves a car waiting alone leaves the road open.
LEMMA CarNext ==
  ASSUME TypeOK, MonitorInv, CarFlagInv, CarHasRightOfWay, [Next]_vars PROVE CarHasRightOfWay'
<1> USE DEF TypeOK, MonitorInv, CarFlagInv, CarHasRightOfWay, ALLOW, DISALLOW,
          trafficState, timers, budgets
<1>1. ASSUME NEW r \in Reports, Submit(r) PROVE CarHasRightOfWay'
  BY <1>1 DEF Submit
<1>2. CASE EnterAllowTag \/ EnterOtherTag \/ EnterButton
  BY <1>2 DEF EnterAllowTag, EnterMonitor, EnterOtherTag, EnterButton
<1>3. CASE StartMain \/ Restart
  BY <1>3 DEF StartMain, Restart
<1>4. CASE AllowUpdate \/ LeaveUpdate \/ WalkUpdate
  BY <1>4 DEF AllowUpdate, HolderUpdate, LeaveUpdate, WalkUpdate
<1>5. CASE AllowCheck \/ LeaveClear \/ LeaveBranch
  BY <1>5 DEF AllowCheck, LeaveClear, LeaveBranch
<1>6. CASE WalkRequest
  BY <1>6 DEF WalkRequest, EndSection
<1>7. CASE WalkSchedule
  BY <1>7 DEF WalkSchedule, EndSection
<1>8. CASE TimerCheck \/ TimerArm \/ StreetLights
  BY <1>8 DEF TimerCheck, EndSection, TimerArm, StreetLights
<1>9. CASE FireSwitch
  BY <1>9 DEF FireSwitch
<1>10. CASE FireWalk \/ SwitchCheck \/ WalkClear \/ WalkCheck \/ Arm
  BY <1>10 DEF FireWalk, SwitchCheck, WalkClear, WalkCheck, Arm
<1>11. CASE SwitchUpdate \/ WalkEndUpdate
  BY <1>11 DEF SwitchUpdate, ExecUpdate, WalkEndUpdate
<1>12. CASE UNCHANGED vars
  BY <1>12 DEF vars
<1>13. QED
  BY <1>1, <1>2, <1>3, <1>4, <1>5, <1>6, <1>7, <1>8, <1>9, <1>10, <1>11, <1>12
  DEF Next, Enter, HolderStep, ExecStep

\* The conjunction is inductive.
LEMMA Inductive == Spec => []IInv
<1>1. IInv /\ [Next]_vars => IInv'
  BY TypeNext, MonitorNext, FlagNext, NoStallNext, StrandedNext, DepartureNext,
     CrossingNext, CarNext
  DEF IInv
<1>2. QED
  BY InitIInv, <1>1, PTL DEF Spec

\* No step but a report and a restart adds to the number of chains.
LEMMA ChainsNext ==
  ASSUME TypeOK, MonitorInv, CarFlagInv, [Next]_vars,
         ~(\E r \in Reports : Submit(r)), ~Restart
  PROVE  Chains' <= Chains
<1> USE DEF TypeOK, MonitorInv, CarFlagInv, Chains, ArmedTimers, WaitingThreads,
          Reports, trafficState, timers, budgets
<1>1. CASE EnterAllowTag
  BY <1>1 DEF EnterAllowTag, EnterMonitor
<1>2. CASE EnterOtherTag
  BY <1>2 DEF EnterOtherTag, EnterMonitor
<1>3. CASE EnterButton
  BY <1>3 DEF EnterButton, EnterMonitor
<1>4. CASE StartMain
  BY <1>4 DEF StartMain
<1>5. CASE AllowCheck \/ LeaveClear \/ LeaveBranch
  BY <1>5 DEF AllowCheck, LeaveClear, LeaveBranch
<1>6. CASE AllowUpdate \/ LeaveUpdate \/ WalkUpdate
  BY <1>6 DEF AllowUpdate, HolderUpdate, LeaveUpdate, WalkUpdate
<1>7. CASE WalkRequest
  BY <1>7 DEF WalkRequest, EndSection
<1>8. CASE WalkSchedule
  <2>1. ArmedTimers' = ArmedTimers + 1 /\ UNCHANGED <<WaitingThreads, started>>
    BY <1>8 DEF WalkSchedule
  <2>2. CASE holder = "car"
    <3>1. pc # "street" /\ pc' = "street" /\ UNCHANGED <<holder, exec>>
      BY <1>8, <2>2 DEF WalkSchedule, EndSection
    <3>2. QED
      BY <2>1, <2>2, <3>1
  <2>3. CASE holder = "executor"
    <3>1. exec # "idle" /\ exec' = "idle" /\ holder' = "none"
      BY <1>8, <2>3 DEF WalkSchedule, EndSection
    <3>2. QED
      BY <2>1, <2>3, <3>1
  <2>4. CASE holder \in {"main", "button"}
    <3>1. pc # "street" /\ holder' = "none" /\ exec' = exec
      BY <1>8, <2>4 DEF WalkSchedule, EndSection
    <3>2. QED
      BY <2>1, <2>4, <3>1
  <2>5. QED
    BY <1>8, <2>2, <2>3, <2>4 DEF WalkSchedule, Holders
<1>9. CASE TimerCheck
  BY <1>9 DEF TimerCheck, EndSection
<1>10. CASE TimerArm
  <2>1. ArmedTimers' = ArmedTimers + 1 /\ UNCHANGED <<WaitingThreads, started>>
    BY <1>10 DEF TimerArm
  <2>2. CASE holder = "car"
    <3>1. pc # "street" /\ pc' = "street" /\ UNCHANGED <<holder, exec>>
      BY <1>10, <2>2 DEF TimerArm, EndSection
    <3>2. QED
      BY <2>1, <2>2, <3>1
  <2>3. CASE holder = "executor"
    <3>1. exec # "idle" /\ exec' = "idle" /\ holder' = "none"
      BY <1>10, <2>3 DEF TimerArm, EndSection
    <3>2. QED
      BY <2>1, <2>3, <3>1
  <2>4. CASE holder \in {"main", "button"}
    <3>1. pc # "street" /\ holder' = "none" /\ exec' = exec
      BY <1>10, <2>4 DEF TimerArm, EndSection
    <3>2. QED
      BY <2>1, <2>4, <3>1
  <2>5. QED
    BY <1>10, <2>2, <2>3, <2>4 DEF TimerArm, Holders
<1>11. CASE StreetLights
  BY <1>11 DEF StreetLights
<1>12. CASE FireSwitch
  BY <1>12 DEF FireSwitch
<1>13. CASE FireWalk
  BY <1>13 DEF FireWalk
<1>14. CASE SwitchCheck \/ WalkClear \/ WalkCheck \/ Arm
  BY <1>14 DEF SwitchCheck, WalkClear, WalkCheck, Arm
<1>15. CASE SwitchUpdate
  BY <1>15 DEF SwitchUpdate, ExecUpdate
<1>16. CASE WalkEndUpdate
  <2>1. exec # "idle"
    BY <1>16 DEF WalkEndUpdate, ExecUpdate
  <2>2. UNCHANGED <<threads, holder, pc, allowTimers, disallowTimers, walkTimers, started>>
    BY <1>16 DEF WalkEndUpdate, ExecUpdate
  <2>3. QED
    BY <2>1, <2>2
<1>17. CASE UNCHANGED vars
  BY <1>17 DEF vars
<1>18. QED
  BY <1>1, <1>2, <1>3, <1>4, <1>5, <1>6, <1>7, <1>8, <1>9, <1>10, <1>11, <1>12, <1>13,
     <1>14, <1>15, <1>16, <1>17
  DEF Next, Enter, HolderStep, ExecStep

-----------------------------------------------------------------------------
(* The types, for every value of the bounds.                                *)
THEOREM TypeCorrect == Spec => []TypeOK
  BY Inductive, PTL DEF IInv

(* The light never stalls: with nothing pending, a timer is armed or about   *)
(* to be.                                                                    *)
THEOREM LightNeverStalls == Spec => []NoStall
  BY Inductive, PTL DEF IInv

(* A pending pedestrian that no car holds up has a walk timer.               *)
THEOREM PedestrianHasTimer == Spec => []PedestrianNeverStranded
  BY Inductive, PTL DEF IInv

(* The main road is closed on the server while a pedestrian walks, unless    *)
(* the last update failed or was overtaken by the executor.                  *)
THEOREM CrossingIsProtected == Spec => []CrossingProtected
  BY Inductive, PTL DEF IInv

(* The main road is open on the server for a car in the zone, with the same  *)
(* exceptions.                                                               *)
THEOREM CarIsServed == Spec => []CarHasRightOfWay
  BY Inductive, PTL DEF IInv

(* Only a report or a restart can add a chain of timers.                     *)
THEOREM ChainsDoNotMultiply == Spec => TimersNeverMultiply
<1>1. IInv /\ [Next]_vars =>
        [Chains' > Chains => \/ \E r \in Reports : Submit(r)
                             \/ restarts' # restarts]_vars
  <2> SUFFICES ASSUME IInv, [Next]_vars,
                      ~(\E r \in Reports : Submit(r)), ~(restarts' # restarts)
               PROVE  ~(Chains' > Chains)
    OBVIOUS
  <2>1. ~Restart
    BY DEF Restart, IInv, TypeOK
  <2>2. Chains' <= Chains
    BY <2>1, ChainsNext DEF IInv
  <2>3. Chains \in Nat /\ Chains' \in Nat
    BY TypeNext DEF IInv, TypeOK, Chains, ArmedTimers, WaitingThreads, Reports
  <2>4. QED
    BY <2>2, <2>3
<1>2. QED
  BY <1>1, Inductive, PTL DEF Spec, TimersNeverMultiply

-----------------------------------------------------------------------------
(* The reader in the car.                                                    *)

\* The part of ReaderTypeOK the argument needs.
FrameTypeOK ==
  /\ frame \in Tags /\ pos \in 0 .. FrameLength - 1
  /\ rfid_state \in ReadStates
  /\ rfid_counter \in Nat
  /\ skipped \in Nat /\ lost \in Nat /\ since \in Nat
  /\ skipped <= lost

\* How far the counters go.
CounterInv ==
  /\ rfid_state \in {"WAIT_START", "WAIT_FINISH"} => rfid_counter = 0
  /\ rfid_state = "LEFT_GUARD" => rfid_counter < RFID_SKIP_LEFT
  /\ rfid_state = "READ" => rfid_counter < RFID_LENGTH
  /\ rfid_state = "RIGHT_GUARD" => rfid_counter < RFID_SKIP_RIGHT

\* In a read the line is ahead of the reader by the bytes lost in it, counted
\* round the frame for as long as they are fewer than a frame.
OffsetInv ==
  rfid_state # "WAIT_START" /\ skipped < FrameLength =>
    \/ pos = Progress + skipped
    \/ pos = Progress + skipped - FrameLength

\* Digits stored in a read that has lost nothing are those of the line's frame.
BufferInv ==
  rfid_state # "WAIT_START" /\ skipped = 0 /\ Progress > FirstDigit => rfid_buffer = frame

\* A read that lost a byte ends within the frame's length of it, and the wait for
\* the next guard ends when the line comes to it.
ReadSince == rfid_state # "WAIT_START" /\ skipped > 0 => since < Progress
WaitSince == rfid_state = "WAIT_START" /\ pos # 0 => since + 2 <= FrameLength + pos
SinceInv == ReadSince /\ WaitSince

ReaderInv == FrameTypeOK /\ CounterInv /\ OffsetInv /\ BufferInv /\ SinceInv /\ NoPhantomTag

USE ReaderAssumption DEF FirstDigit, FrameLength, ReadStates

(* A frame has its two guards and at least one byte of each other part.      *)
LEMMA FrameIsLong == FrameLength \in Nat /\ FrameLength >= 5
  OBVIOUS

(* The arithmetic of WaitSince, for the values q and t of pos' and since'.    *)
LEMMA WaitBound ==
  ASSUME NEW q \in Nat, NEW t \in Nat,
         \/ t = 0
         \/ pos \in Nat /\ since \in Nat /\ q = pos + 1 /\ t <= since + 1
              /\ since + 2 <= FrameLength + pos
         \/ since \in Nat /\ since < FrameLength - 1 /\ q > 0 /\ t <= since + 1
  PROVE  t + 2 <= FrameLength + q
  BY FrameIsLong

(* The initial states satisfy the invariant: nothing has been read.          *)
LEMMA InitReaderInv == ReaderInit => ReaderInv
  BY DEF ReaderInit, ReaderInv, FrameTypeOK, CounterInv, OffsetInv, BufferInv, SinceInv,
         ReadSince, WaitSince, NoPhantomTag, Progress

(* How far the reader is, state by state.                                    *)
LEMMA ProgressOf ==
  /\ rfid_state = "WAIT_START" => Progress = 0
  /\ rfid_state = "LEFT_GUARD" => Progress = 1 + rfid_counter
  /\ rfid_state = "READ" => Progress = FirstDigit + rfid_counter
  /\ rfid_state = "RIGHT_GUARD" => Progress = FirstDigit + RFID_LENGTH + rfid_counter
  /\ rfid_state = "WAIT_FINISH" => Progress = FrameLength - 1
  BY DEF Progress

LEMMA ProgressThen ==
  /\ rfid_state' = "WAIT_START" => Progress' = 0
  /\ rfid_state' = "LEFT_GUARD" => Progress' = 1 + rfid_counter'
  /\ rfid_state' = "READ" => Progress' = FirstDigit + rfid_counter'
  /\ rfid_state' = "RIGHT_GUARD" => Progress' = FirstDigit + RFID_LENGTH + rfid_counter'
  /\ rfid_state' = "WAIT_FINISH" => Progress' = FrameLength - 1
  BY DEF Progress

(* A byte taken counts once, if at all.                                      *)
LEMMA SinceStep == ASSUME TakeByte, since \in Nat PROVE since' \in Nat /\ since' <= since + 1
  <1>1. since' = since + 1 \/ since' = since
    BY DEF TakeByte
  <1> QED
    BY <1>1

(* A byte taken in the middle of a read moves line and reader on together.   *)
LEMMA StepTogether ==
  ASSUME ReaderInv, TakeByte, rfid_state # "WAIT_START", rfid_state' # "WAIT_START",
         FrameTypeOK', CounterInv',
         Progress' = Progress + 1, UNCHANGED <<skipped, lost>>,
         Progress = FirstDigit /\ pos = Progress => rfid_buffer' = frame,
         Progress > FirstDigit /\ pos = Progress /\ rfid_buffer = frame => rfid_buffer' = frame,
         UNCHANGED last_detected_rfid
  PROVE  ReaderInv'
  <1> USE DEF ReaderInv, FrameTypeOK, CounterInv
  <1>1. Progress \in Nat /\ Progress < FrameLength - 1 /\ Progress' < FrameLength
    BY ProgressOf, ProgressThen
  <1>2. OffsetInv'
    BY <1>1 DEF OffsetInv, TakeByte, NextByte
  <1>3. BufferInv'
    BY <1>1 DEF BufferInv, OffsetInv, TakeByte, NextByte
  <1>4. SinceInv'
    <2>1. since' \in Nat /\ since' <= since + 1
      BY SinceStep
    <2>2. skipped' > 0 => since < Progress
      BY DEF SinceInv, ReadSince
    <2>3. skipped' > 0 => since' < Progress'
      BY <1>1, <2>1, <2>2
    <2> QED
      BY <2>3 DEF SinceInv, ReadSince, WaitSince
  <1>5. NoPhantomTag'
    BY DEF NoPhantomTag
  <1> QED
    BY <1>2, <1>3, <1>4, <1>5

(* The invariant is inductive, one case per action.                          *)
LEMMA NextReaderInv == ReaderInv /\ [ReaderNext]_readerVars => ReaderInv'
  <1> SUFFICES ASSUME ReaderInv, [ReaderNext]_readerVars PROVE ReaderInv'
    OBVIOUS
  <1> USE DEF FrameTypeOK, CounterInv
  <1>1. CASE WaitStart
    <2>1. FrameTypeOK' /\ CounterInv'
      BY <1>1 DEF WaitStart, TakeByte, NextByte, ReaderInv
    <2>2. OffsetInv' /\ BufferInv'
      BY <1>1, <2>1, ProgressThen DEF WaitStart, TakeByte, NextByte, ReaderInv, OffsetInv, BufferInv
    <2>3. SinceInv'
      <3>1. ReadSince'
        BY <1>1, <2>1 DEF WaitStart, ReadSince
      <3>2. pos # 0 => since + 2 <= FrameLength + pos
        BY <1>1 DEF WaitStart, ReaderInv, SinceInv, WaitSince
      <3>3. rfid_state' = "WAIT_START" => pos # 0
        BY <1>1 DEF WaitStart
      <3>4. pos' # 0 => pos' = pos + 1
        BY <1>1 DEF WaitStart, TakeByte, NextByte
      <3>5. since' \in Nat /\ since' <= since + 1
        BY <1>1, SinceStep DEF WaitStart, ReaderInv
      <3>6. rfid_state' = "WAIT_START" /\ pos' # 0 => since' + 2 <= FrameLength + pos'
        <4> SUFFICES ASSUME rfid_state' = "WAIT_START", pos' # 0
                     PROVE since' + 2 <= FrameLength + pos'
          OBVIOUS
        <4>1. pos' = pos + 1 /\ since + 2 <= FrameLength + pos
          BY <3>2, <3>3, <3>4
        <4>2. pos \in Nat /\ since \in Nat /\ pos' \in Nat
          BY <2>1 DEF ReaderInv
        <4> QED
          BY <4>1, <4>2, <3>5, WaitBound
      <3> QED
        BY <3>1, <3>6 DEF SinceInv, WaitSince
    <2> QED
      BY <1>1, <2>1, <2>2, <2>3 DEF WaitStart, ReaderInv, NoPhantomTag, car
  <1>2. CASE LeftGuard
    <2>1. FrameTypeOK' /\ CounterInv'
      BY <1>2 DEF LeftGuard, TakeByte, NextByte, Count, ReaderInv
    <2>2. Progress' = Progress + 1 /\ Progress < FirstDigit
      BY <1>2, <2>1, ProgressOf, ProgressThen DEF LeftGuard, Count, ReaderInv
    <2> QED
      BY <1>2, <2>1, <2>2, StepTogether DEF LeftGuard, Count, car, ReaderInv
  <1>3. CASE Read
    <2>1. FrameTypeOK' /\ CounterInv'
      BY <1>3 DEF Read, TakeByte, NextByte, Count, ReaderInv
    <2>2. Progress' = Progress + 1 /\ Progress = FirstDigit + rfid_counter
      BY <1>3, <2>1, ProgressOf, ProgressThen DEF Read, Count, ReaderInv
    <2> QED
      <3>1. Progress = FirstDigit /\ pos = Progress => rfid_buffer' = frame
        BY <1>3, <2>2 DEF Read, ReaderInv
      <3>2. Progress > FirstDigit /\ pos = Progress /\ rfid_buffer = frame => rfid_buffer' = frame
        BY <1>3, <2>2 DEF Read, ReaderInv
      <3>3. TakeByte /\ rfid_state # "WAIT_START" /\ rfid_state' # "WAIT_START"
        BY <1>3 DEF Read, Count
      <3> QED
        BY <1>3, <2>1, <2>2, <3>1, <3>2, <3>3, StepTogether DEF Read, car
  <1>4. CASE RightGuard
    <2>1. FrameTypeOK' /\ CounterInv'
      BY <1>4 DEF RightGuard, TakeByte, NextByte, Count, ReaderInv
    <2>2. Progress' = Progress + 1 /\ Progress > FirstDigit
      BY <1>4, <2>1, ProgressOf, ProgressThen DEF RightGuard, Count, ReaderInv
    <2> QED
      BY <1>4, <2>1, <2>2, StepTogether DEF RightGuard, Count, car, ReaderInv
  <1>5. CASE WaitFinish
    <2>1. FrameTypeOK' /\ CounterInv'
      BY <1>5 DEF WaitFinish, TakeByte, NextByte, ReaderInv
    <2>2. OffsetInv' /\ BufferInv'
      BY <1>5, <2>1 DEF WaitFinish, OffsetInv, BufferInv
    <2>3. SinceInv'
      <3>1. Progress = FrameLength - 1
        BY <1>5, ProgressOf DEF WaitFinish
      <3>2. skipped = 0 => pos = FrameLength - 1
        BY <3>1, <1>5 DEF WaitFinish, ReaderInv, OffsetInv
      <3>3. skipped > 0 => since < FrameLength - 1
        BY <3>1, <1>5 DEF WaitFinish, ReaderInv, SinceInv, ReadSince
      <3>4. pos' # 0 => pos' = pos + 1 /\ pos # FrameLength - 1
        BY <1>5 DEF WaitFinish, TakeByte, NextByte
      <3>5. since' \in Nat /\ since' <= since + 1
        BY <1>5, SinceStep DEF WaitFinish, ReaderInv
      <3>6. pos' # 0 => since' + 2 <= FrameLength + pos'
        <4> SUFFICES ASSUME pos' # 0 PROVE since' + 2 <= FrameLength + pos'
          OBVIOUS
        <4>1. skipped > 0 /\ pos' = pos + 1
          BY <3>2, <3>4 DEF ReaderInv
        <4>2. since < FrameLength - 1 /\ pos' \in Nat /\ pos' > 0 /\ since \in Nat
          BY <4>1, <3>3 DEF ReaderInv
        <4> QED
          BY <4>2, <3>5, WaitBound
      <3>7. WaitSince'
        BY <3>6 DEF WaitSince
      <3> QED
        BY <1>5, <3>7 DEF WaitFinish, SinceInv, ReadSince
    <2>4. lost < FrameLength /\ pos = FrameLength - 1 => rfid_buffer # Garbled
      BY <1>5, ProgressOf DEF WaitFinish, ReaderInv, OffsetInv, BufferInv
    <2>5. NoPhantomTag'
      BY <1>5, <2>4 DEF WaitFinish, NoPhantomTag, ReaderInv, car
    <2> QED
      BY <2>1, <2>2, <2>3, <2>5 DEF ReaderInv
  <1>6. CASE LoseByte
    <2>1. FrameTypeOK' /\ CounterInv' /\ Progress' = Progress
      BY <1>6 DEF LoseByte, NextByte, ReaderInv, reader, Progress
    <2>2. Progress \in Nat /\ Progress < FrameLength /\ (rfid_state # "WAIT_START" => Progress > 0)
      BY ProgressOf DEF ReaderInv
    <2>3. OffsetInv'
      BY <1>6, <2>1, <2>2 DEF LoseByte, NextByte, ReaderInv, OffsetInv, reader
    <2>4. BufferInv'
      BY <1>6, <2>1 DEF LoseByte, ReaderInv, BufferInv, reader
    <2>5. ReadSince'
      BY <1>6, <2>1, <2>2 DEF LoseByte, ReadSince, reader
    <2>6. WaitSince'
      <3>1. since' = 0 /\ pos' \in Nat
        BY <1>6, <2>1 DEF LoseByte
      <3> QED
        BY <3>1, WaitBound DEF WaitSince
    <2> QED
      BY <1>6, <2>1, <2>3, <2>4, <2>5, <2>6 DEF LoseByte, ReaderInv, SinceInv, NoPhantomTag, car
  <1>7. CASE Configure \/ Stop \/ UNCHANGED readerVars
    BY <1>7 DEF Configure, Stop, readerVars, line, reader, car, ReaderInv, OffsetInv, BufferInv,
                SinceInv, ReadSince, WaitSince, NoPhantomTag, Progress
  <1> QED
    BY <1>1, <1>2, <1>3, <1>4, <1>5, <1>6, <1>7 DEF ReaderNext, Byte

(* The invariant holds throughout.                                           *)
LEMMA ReaderInductive == ReaderSpec => []ReaderInv
  <1> QED
    BY InitReaderInv, NextReaderInv, PTL DEF ReaderSpec

-----------------------------------------------------------------------------
(* No tag is made up of two frames before a whole frame's worth of bytes has *)
(* been lost (readRFID tests the guards only, never the checksum).           *)
THEOREM ReaderInventsNoTag == ReaderSpec => []NoPhantomTag
  BY ReaderInductive, PTL DEF ReaderInv

(* Two frames after the last lost byte the reader is in step with the line.  *)
THEOREM ReaderResynchronises == ReaderSpec => []Resynchronises
  <1>1. ReaderInv => Resynchronises
    BY ProgressOf DEF ReaderInv, FrameTypeOK, CounterInv, OffsetInv, SinceInv, ReadSince,
              WaitSince, Resynchronises
  <1> QED
    BY <1>1, ReaderInductive, PTL

-----------------------------------------------------------------------------
(* The owner.  The zone the car takes itself to be in is that of its last    *)
(* tag, and it was announced, unless one of the excuses holds.               *)

OwnerTypeOK ==
  /\ rfid_buffer \in Tags \cup {Garbled}
  /\ last_detected_rfid \in Tags \cup {Garbled, RFID_MAX_NUMBER}
  /\ current_zone_id \in Zones \cup {UNKNOWN_GEOFENCING_ZONE_ID}
  /\ configuration \in Configurations \cup {NoConfiguration}
  /\ logged \in Tags \cup {Garbled, RFID_MAX_NUMBER}
  /\ position \in {"HOME", "NEAR", "AWAY", "NONE"}
  /\ running \in BOOLEAN
  /\ lost \in 0 .. MaxLost /\ since \in 0 .. 2 * FrameLength
  /\ excuses \subseteq {"log", "event", "configuration"}

OwnerInv ==
  /\ last_detected_rfid # RFID_MAX_NUMBER =>
       /\ "log" \notin excuses => logged = last_detected_rfid
       /\ "configuration" \notin excuses =>
            current_zone_id = ZoneOf(last_detected_rfid, configuration)
  /\ "event" \notin excuses =>
       \/ position = PositionOf(current_zone_id)
       \/ position = "NONE" /\ current_zone_id = UNKNOWN_GEOFENCING_ZONE_ID

(* A search for a tag in a list of zones ends with a zone's id, or unknown.  *)
LEMMA ZoneType ==
  \A rfid : \A zones : ZoneOf(rfid, zones) \in Zones \cup {UNKNOWN_GEOFENCING_ZONE_ID}
  BY DEF ZoneOf

LEMMA InitOwner == ReaderInit => OwnerTypeOK /\ OwnerInv
<1> SUFFICES ASSUME ReaderInit PROVE OwnerTypeOK /\ OwnerInv
  OBVIOUS
<1>1. running \in BOOLEAN
  BY DEF ReaderInit
<1> QED
  BY <1>1 DEF ReaderInit, OwnerTypeOK, OwnerInv

(* Only the byte that ends a frame, a new configuration and a stop touch     *)
(* what the owner learns.                                                    *)
LEMMA OwnerNext ==
  ASSUME OwnerTypeOK, OwnerInv, frame \in Tags, [ReaderNext]_readerVars
  PROVE  OwnerTypeOK' /\ OwnerInv'
<1> USE DEF car
<1>1. CASE WaitStart \/ LeftGuard \/ Read \/ RightGuard
  <2>1. UNCHANGED <<last_detected_rfid, current_zone_id, logged, position, configuration,
                    running, lost, excuses>>
    BY <1>1 DEF WaitStart, LeftGuard, Read, RightGuard
  <2>2. rfid_buffer' \in Tags \cup {Garbled} /\ since' \in 0 .. 2 * FrameLength
    BY <1>1 DEF WaitStart, LeftGuard, Read, RightGuard, TakeByte, OwnerTypeOK
  <2> QED
    BY <2>1, <2>2 DEF OwnerTypeOK, OwnerInv
<1>2. CASE WaitFinish
  <2>1. UNCHANGED <<rfid_buffer, configuration, running, lost>> /\ since' \in 0 .. 2 * FrameLength
    BY <1>2 DEF WaitFinish, TakeByte, OwnerTypeOK
  <2>2. CASE UNCHANGED <<last_detected_rfid, current_zone_id, logged, position, excuses>>
    BY <2>1, <2>2 DEF OwnerTypeOK, OwnerInv
  <2>3. ASSUME NEW added \in BOOLEAN, NEW sent \in BOOLEAN,
               last_detected_rfid' = rfid_buffer,
               SendRFIDLog(rfid_buffer, added), CheckFencingPosition(rfid_buffer, sent),
               excuses' = Excuses(added, sent)
        PROVE  OwnerTypeOK' /\ OwnerInv'
    <3>1. logged' \in Tags \cup {Garbled, RFID_MAX_NUMBER}
            /\ ("log" \notin excuses' => logged' = last_detected_rfid')
      BY <2>3 DEF SendRFIDLog, Excuses, OwnerTypeOK
    <3>2. excuses' \subseteq {"log", "event", "configuration"}
      BY <2>3 DEF Excuses, OwnerTypeOK
    <3>3. CASE configuration = NoConfiguration
      <4>1. "configuration" \in excuses' /\ UNCHANGED <<current_zone_id, position>>
        BY <2>3, <3>3 DEF CheckFencingPosition, Excuses
      <4>2. "event" \notin excuses' => "event" \notin excuses
        BY <2>3, <4>1 DEF Excuses
      <4> QED
        BY <2>1, <2>3, <3>1, <3>2, <4>1, <4>2 DEF OwnerTypeOK, OwnerInv
    <3>4. CASE configuration # NoConfiguration
      <4> DEFINE zone == ZoneOf(rfid_buffer, configuration)
      <4>1. /\ current_zone_id' = zone
            /\ position' = IF zone # current_zone_id /\ sent THEN PositionOf(zone) ELSE position
        BY <2>3, <3>4 DEF CheckFencingPosition, NotifyOfNewFencingZone
      <4>2. zone \in Zones \cup {UNKNOWN_GEOFENCING_ZONE_ID}
        BY ZoneType
      <4>3. PositionOf(zone) \in {"HOME", "NEAR", "AWAY"}
        BY <4>2 DEF PositionOf, Zones
      <4>4. "event" \notin excuses' =>
              \/ zone # current_zone_id /\ sent
              \/ zone = current_zone_id /\ "event" \notin excuses
        BY <2>3, <4>1 DEF Excuses
      <4>5. OwnerTypeOK'
        BY <2>1, <2>3, <3>1, <3>2, <4>1, <4>2, <4>3 DEF OwnerTypeOK
      <4>6. "event" \notin excuses' =>
              \/ position' = PositionOf(zone)
              \/ position' = "NONE" /\ zone = UNKNOWN_GEOFENCING_ZONE_ID
        BY <4>1, <4>4 DEF OwnerInv
      <4> QED
        BY <2>1, <2>3, <3>1, <4>1, <4>5, <4>6 DEF OwnerInv
    <3> QED
      BY <3>3, <3>4
  <2> QED
    BY <1>2, <2>2, <2>3 DEF WaitFinish
<1>3. CASE LoseByte
  <2>1. lost' \in 0 .. MaxLost /\ since' \in 0 .. 2 * FrameLength
    BY <1>3, FrameIsLong DEF LoseByte, OwnerTypeOK
  <2> QED
    BY <1>3, <2>1 DEF LoseByte, reader, OwnerTypeOK, OwnerInv
<1>4. CASE Configure
  BY <1>4 DEF Configure, reader, OwnerTypeOK, OwnerInv
<1>5. CASE Stop
  <2>1. running' \in BOOLEAN
    BY <1>5 DEF Stop
  <2> QED
    BY <1>5, <2>1 DEF Stop, reader, OwnerTypeOK, OwnerInv
<1>6. CASE UNCHANGED readerVars
  BY <1>6 DEF readerVars, OwnerTypeOK, OwnerInv
<1> QED
  BY <1>1, <1>2, <1>3, <1>4, <1>5, <1>6 DEF ReaderNext, Byte

LEMMA OwnerInductive == ReaderSpec => [](OwnerTypeOK /\ OwnerInv)
<1>1. ReaderInv => frame \in Tags
  BY DEF ReaderInv, FrameTypeOK
<1>2. ReaderInv /\ OwnerTypeOK /\ OwnerInv /\ [ReaderNext]_readerVars => (OwnerTypeOK /\ OwnerInv)'
  BY <1>1, OwnerNext
<1> QED
  BY <1>2, InitOwner, ReaderInductive, PTL DEF ReaderSpec

(* The types of the reader's, the car's and the line's state.                *)
THEOREM ReaderTypeCorrect == ReaderSpec => []ReaderTypeOK
<1>1. ReaderInv /\ OwnerTypeOK => ReaderTypeOK
  BY DEF ReaderInv, FrameTypeOK, CounterInv, OwnerTypeOK, ReaderTypeOK
<1> QED
  BY <1>1, ReaderInductive, OwnerInductive, PTL

(* The owner knows the zone of the last tag, however zones and lists change, *)
(* unless a send failed or the list was absent or has changed since.         *)
THEOREM OwnerIsInformed == ReaderSpec => []OwnerKnowsPosition
<1>1. OwnerInv => OwnerKnowsPosition
  BY DEF OwnerInv, OwnerKnowsPosition
<1> QED
  BY <1>1, OwnerInductive, PTL
=============================================================================
