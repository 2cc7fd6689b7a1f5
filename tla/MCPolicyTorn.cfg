SPECIFICATION Spec
CONSTANTS
  Names <- MCNames
  Norm <- MCNorm
  Supers <- MCSupers
  Traffic <- MCTraffic
  Local <- MCLocal
  ConfigMode = "monitoring"
  Modes <- MCModes
  ErrorBody = "error page"
  Policies <- MCPolicies
  MaxPublish = 2
INVARIANT VerdictOfOnePolicy
