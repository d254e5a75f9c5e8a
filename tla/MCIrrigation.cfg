SPECIFICATION FairSpec
CONSTANTS
  MaxTasks = 3
  MaxFaults = 2
INVARIANTS
  OneSchedule
  ValveClosedWhenIdle
  CancelReachesItsRun
PROPERTIES
  CancelStopsWater
