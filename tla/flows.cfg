CONSTANTS
  NoPkt = NoPkt
  Modulus = 14
  StartSeq <- Starts
  Total <- Totals
  SegmentSizes <- Sizes
  Overlap = TRUE
  MaxBuff = 2
  GapStep = 1
  MaxPkts = 4
  BadSegs <- Seconds
  t1 = t1
  t2 = t2
  TcpThreads = {t1, t2}
  NoTcpThread = NoTcpThread
  Captured <- ServerFirst
  MaxSeen = 4
  MaxExpiries = 1
  n1 = n1
  n2 = n2
  n3 = n3
  n4 = n4
  Names = {n1, n2, n3, n4}
  Answers <- TheAnswers
  Ttls = {1, 2, 4}
  QueueOfTtl <- TheQueues
  MaxClock = 5
  e1 = e1
  e2 = e2
  k = k
  l = l
  m = m
  u = u
  v = v
  w = w
  r1 = r1
  r2 = r2
  Evts = {e1, e2}
  Listeners = {k, m}
  Filtered = {m}
  Users = {u}
  Attachers = {l}
  MaxHolds = 2
  Viewers = {v, w}
  Readers = {r1, r2}
  MaxChunks = 4
CONSTRAINT NotOdd
SPECIFICATION FlowsSpec
INVARIANTS  RepliesAfterRequests Lossless TimerFitsState StartsReachStream CacheIsSound EveryBeginEnds ReadsWhole
CHECK_DEADLOCK FALSE
