SPECIFICATION TimelySpec
CONSTANTS
  Clients = {c1}
  NumPrograms = 1
  SessionIds = {s1, s2}
  ZeroId = zero
  None = none
  MaxInFlight = 3
  num_threads = 0
  kServerMaxSynRetryTimes = 1
  kServerSynSentTimeout = 1
  kServerRunPeriodicTaskInterval = 1
  kServerSessionIdleSeconds = 3
  kServerSessionTimeWaitSeconds = 1
  ReconnectEnabled = {c1}
  kClientMaxSynRetryTimes = 1
  kClientSynSentTimeout = 1
  kClientRunPeriodicTaskInterval = 1
  kClientSessionIdleSeconds = 3
  kClientPingInterval = 2
SYMMETRY IdSymmetry
INVARIANT PingsKeepSessionAlive
