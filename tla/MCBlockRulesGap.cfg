SPECIFICATION FairSpec
CONSTANTS
  Known <- MCKnown
  Place <- MCPlace
  Policies <- MCPolicies
  MaxPublish = 0
  MaxFaults = 1
  MaxBoots = 1
PROPERTY
  RulesComplete
CHECK_DEADLOCK FALSE
