SPECIFICATION Spec
CONSTANTS
  Streams <- MCStreams
  Datagrams <- MCDatagrams
  RawConfigs <- MCRawConfigs
  LocalIPs = {8}
  Norm <- MCNorm
  Matched <- MCMatched
  Blocked <- MCBlocked
  MaxPayloadBuf = 13
  MaxFaults = 1
  MaxLabels = 20
INVARIANTS
  TypeOK
  RequestsFound
  DomainsAsked
  OneHeaderPerSession
  ClientRecognised
  ForgedIsAcceptable
