SPECIFICATION FairStreetSpec
CONSTANTS
  N = 2
  Tags = {10, 11, 12}
  TagsOf <- MCTagsOf
  GroupOrder <- MCGroupOrder
  MaxFaults = 1
  MaxRestarts = 1
  MaxResets = 1
INVARIANTS
  LampsFollowConfiguration
PROPERTIES
  StreetSettles
