SPECIFICATION Spec
CONSTANTS
  a = a
  b = b
  BytesOfA = 3
  BytesOfB = 1
  Notified = {}
  Closers = {}
  Ends <- MCEnds
  MaxBytes <- MCMaxBytes
  MaxAckList = 2
  MaxInFlight = 2
  SeqSpace = 16
  FirstSn = 14
  IKCP_WND_RCV = 3
  IKCP_OVERHEAD = 1
  mss = 2
  snd_wnd = 2
  rcv_wnd = 3
  fastresend = 1
  fastlimit = 1
  dead_link = 2
INVARIANTS
  TypeOK
  NoSegmentForgotten
  WindowNeverCloses
  QueuesWithinWindows
PROPERTY StreamsAreImplemented
CHECK_DEADLOCK FALSE
