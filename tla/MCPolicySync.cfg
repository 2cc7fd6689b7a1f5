SPECIFICATION FairSpec
CONSTANTS
  Names <- MCNames
  Norm <- MCNorm
  Supers <- MCSupers
  Traffic <- MCTraffic
  Local <- MCLocal
  ConfigMode = "monitoring"
  Modes <- MCModes
  ErrorBody = "error page"
  Policies <- MCPolicies
  MaxPublish = 2
INVARIANTS
  TypeOK
  LocalFloor
  BlocksAreGrounded
  ShadowStaysBlocked
  EnforcementIsOrdered
PROPERTIES
  Converges
