CONSTANTS
  a = a
  b = b
  NoOne = NoOne
  NoPkt = NoPkt
  Inputs = {a, b}
  Requests <- BlockingAndPinned
  NumThreads = 1
  QueueMin = 1
  QueueMax = 2
  MaxPkts = 3
  MaxStarts = 2
  CanFail = FALSE
SPECIFICATION FairSpec
INVARIANTS SleeperQueueEmpty InputWakeupPending
PROPERTY InputsGetOn
CHECK_DEADLOCK FALSE
