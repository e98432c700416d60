SPECIFICATION FairSpec
CONSTANTS
  c1 = c1
  c2 = c2
  None = None
  Conns = {c1, c2}
  Sockets = {10}
  Base = 16
  PortLen = 2
  IvLen = 2
  ServerMark = 3
  UpstreamMark = 2
  CipherFails = {c1}
  KeyStream <- MCKeyStream
  Request <- MCRequest
  Response <- MCResponse
  ReadSizes <- MCReadSizes
INVARIANTS
  TypeOK
  LookupIsDriven
  RequestUnderstood
  UpstreamSeesPayload
  ClientSeesResponse
  OrphansOnlyFromRaces
PROPERTY PayloadReachesUpstream
CHECK_DEADLOCK FALSE
