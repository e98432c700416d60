SPECIFICATION FairSpec
CONSTANTS
  Clients = {c1}
  NumPrograms = 1
  SessionIds = {s1}
  ZeroId = zero
  None = none
  MaxInFlight = 2
  num_threads = 1
  kServerMaxSynRetryTimes = 1
  kServerSynSentTimeout = 1
  kServerRunPeriodicTaskInterval = 1
  kServerSessionIdleSeconds = 1
  kServerSessionTimeWaitSeconds = 1
  ReconnectEnabled = {c1}
  kClientMaxSynRetryTimes = 1
  kClientSynSentTimeout = 1
  kClientRunPeriodicTaskInterval = 1
  kClientSessionIdleSeconds = 1
  kClientPingInterval = 1
PROPERTIES
  HandshakeEnds
  HalfOpenIsDetected
  AbandonedSessionIsReclaimed
  ReconnectingClientRetries
