SPECIFICATION Spec
CONSTANTS
  Clients = {c1, c2}
  NumPrograms = 1
  SessionIds = {s1}
  ZeroId = zero
  None = none
  MaxInFlight = 2
  num_threads = 0
  kServerMaxSynRetryTimes = 1
  kServerSynSentTimeout = 1
  kServerRunPeriodicTaskInterval = 1
  kServerSessionIdleSeconds = 1
  kServerSessionTimeWaitSeconds = 1
  ReconnectEnabled = {c1, c2}
  kClientMaxSynRetryTimes = 1
  kClientSynSentTimeout = 1
  kClientRunPeriodicTaskInterval = 1
  kClientSessionIdleSeconds = 1
  kClientPingInterval = 1
SYMMETRY AddressSymmetry
INVARIANTS
  TypeOK
  IdleMapMatchesSessionMap
  ClientStateMatchesPointers
  ReconnectTimerArmed
  SessionsWereOffered
PROPERTY DroppedIdsEnterTimeWait
