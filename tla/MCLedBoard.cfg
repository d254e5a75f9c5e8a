SPECIFICATION FairSpec
CONSTANTS
  MaxNotes = 2
  MaxConfigs = 1
  MaxFaults = 1
INVARIANTS
  SteadyBoardIsCurrent
  NoNotificationIsLost
  BoardEndsWhenTold
PROPERTIES
  NotificationsAreShown
  ShutdownEnds
CHECK_DEADLOCK FALSE
