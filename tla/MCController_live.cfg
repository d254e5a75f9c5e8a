SPECIFICATION FairSpec
CONSTANTS
  MaxBacklog = 1
  MaxFaults = 1
  MaxRestarts = 0
PROPERTIES
  LightAlternates
  CarHoldsLight
  CarGetsGreen
  WalkEnds
