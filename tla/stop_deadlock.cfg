CONSTANTS
  a = a
  b = b
  NoOne = NoOne
  NoPkt = NoPkt
  Inputs = {a}
  Requests <- OneBlocking
  NumThreads = 1
  QueueMin = 1
  QueueMax = 2
  MaxPkts = 1
  MaxStarts = 1
  CanFail = FALSE
SPECIFICATION Spec
INVARIANT StopsCleanly
CHECK_DEADLOCK FALSE
