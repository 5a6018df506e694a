CONSTANTS
  a = a
  b = b
  NoOne = NoOne
  NoPkt = NoPkt
  Inputs = {a}
  Requests <- OneMixed
  NumThreads = 2
  QueueMin = 1
  QueueMax = 2
  MaxPkts = 3
  MaxStarts = 1
  CanFail = TRUE
  Clients = {a, b}
  Main = m
  Procs = {p}
  Nobody = Nobody
  MaxSessions = 2
  MaxListeners = 2
  MaxItems = 1
  m = m
  p = p
SPECIFICATION CoreMonitorSpec
INVARIANTS PauseExclusive CountExact FreedIsLeftAlone ListenersHear
PROPERTY ImplementsPath
CHECK_DEADLOCK FALSE
