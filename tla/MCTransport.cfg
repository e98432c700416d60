SPECIFICATION FairSpec
CONSTANTS
  addr1 = addr1
  addr2 = addr2
  None = None
  ListenFamilies = {"AF_INET6"}
  Base = 7
  AdlerModulus = 47
  num_threads = 2
  Ids = {1, 2}
  Addresses = {addr1, addr2}
  kNumPacketsPerRead = 2
  kNumPacketsPerSend = 2
  kMaxPacketSize = 10
  kServerMaxWaitSessionClosedTryTimes = 2
  Arrivals <- MCArrivals
  OddArrivals <- MCOddArrivals
  Damaged = {5, 10}
  MaxArrivals = 3
  MaxOdd = 1
  MaxSessions = 2
  Bursts = {0, 3}
  MaxOut = 3
  MaxErrors = 1
INVARIANTS
  TypeOK
  OneDescriptor
  HeadersReadBack
  SentInOrderOnce
  CallbacksInOrder
  CounterOutlivesTasks
  OpenSessionsAreKept
PROPERTY DestructorEnds
CHECK_DEADLOCK FALSE
