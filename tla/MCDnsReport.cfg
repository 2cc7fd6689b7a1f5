SPECIFICATION FairSpec
CONSTANTS
  Domains <- MCDomains
  Policies <- MCPolicies
  PendingLimit = 1
  MaxQueries = 3
  MaxPolicies = 1
  MaxBoots = 2
INVARIANTS
  TypeOK
  QueriesConserved
  CountersAgree
  EventsDisjoint
PROPERTIES
  BacklogKeepsOldest
  QueriesArrive
CHECK_DEADLOCK FALSE
