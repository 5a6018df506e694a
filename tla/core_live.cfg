CONSTANTS
  a = a
  b = b
  NoOne = NoOne
  NoPkt = NoPkt
  Inputs = {a}
  Requests <- OneBlocking
  NumThreads = 2
  QueueMin = 1
  QueueMax = 2
  MaxPkts = 2
  MaxStarts = 1
  CanFail = TRUE
SPECIFICATION FairSpec
PROPERTY EveryPacketProcessed
CHECK_DEADLOCK FALSE
