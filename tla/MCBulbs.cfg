SPECIFICATION FairSpec
CONSTANTS
  Bulb = {b1, b2}
  Requests <- MCRequests
  MaxRequests = 2
  MaxCrashes = 1
INVARIANTS
  TypeOK
  ToldUnlessCutOff
PROPERTIES
  PinFollowsState
