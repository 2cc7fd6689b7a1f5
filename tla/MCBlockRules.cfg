SPECIFICATION FairSpec
CONSTANTS
  Known <- MCKnown
  Place <- MCPlace
  Policies <- MCPolicies
  MaxPublish = 1
  MaxFaults = 1
  MaxBoots = 2
INVARIANTS
  TypeOK
  RulesHaveGrounds
  CopiesBounded
PROPERTIES
  RulesSettle
CHECK_DEADLOCK FALSE
