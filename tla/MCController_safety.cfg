SPECIFICATION Spec
CONSTANTS
  MaxBacklog = 3
  MaxFaults = 1
  MaxRestarts = 1
INVARIANTS
  NoStall
  PedestrianNeverStranded
  CrossingProtected
  CarHasRightOfWay
PROPERTIES
  TimersNeverMultiply
