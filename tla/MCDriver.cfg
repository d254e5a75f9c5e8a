SPECIFICATION FairSpec
CONSTANTS
  MaxResets = 2
INVARIANTS
  GreenFacesRed
  SteadyLamps
PROPERTIES
  ImplementsIntersection
  FollowsServer
