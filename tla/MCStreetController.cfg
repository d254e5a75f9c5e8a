SPECIFICATION FairSpec
CONSTANTS
  N = 3
  Tags = {10, 11, 12, 13}
  TagsOf <- MCTagsOf
  MaxFaults = 2
  MaxRestarts = 1
INVARIANTS
  LitZoneFollowsTag
  OneZoneAtATime
PROPERTIES
  Heals
