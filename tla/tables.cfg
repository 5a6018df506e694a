CONSTANTS
  t1 = t1
  t2 = t2
  u = u
  v = v
  x = x
  y = y
  c = c
  NumThreads = 2
  Timers = {x, y}
  NoTimer = NoTimer
  Expiries = {1, 2}
  MaxTs = 3
  MaxPackets = 3
  MaxChanges = 2
  FThreads = {t1, t2}
  Cuts <- CutSet
  DatagramLen = 4
  MaxFragments = 4
  MaxTimeouts = 1
  RegUsers = {u, v}
  NoUser = NoUser
  Outputs = {x, y}
  Values = {0, 1}
  Default = 0
  Configs = {c}
  NoConfig = NoConfig
  MaxSaves = 2
SPECIFICATION TablesSpec
INVARIANTS FreedPacketUnused NoHole LoadRestores
PROPERTIES FiresBehindEveryThread DueFired
CHECK_DEADLOCK FALSE
