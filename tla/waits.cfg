CONSTANTS
  a = a
  b = b
  c = c
  p = p
  v = v
  x = x
  y = y
  t1 = t1
  t2 = t2
  t3 = t3
  Callers = {a, b, c}
  NoThread = NoThread
  MaxTs = 1
  MaxArrivals = 4
  XThreads = {t1, t2, t3}
  NoXThread = NoXThread
  Conns = {a, b}
  NoConn = NoConn
  Exps = {x, y}
  NoExp = NoExp
  Matches <- TheMatches
  Asks <- TheAsks
  Inputs = {a, b}
  Live = {b}
  Threads = {t1, t2, t3}
  User = User
  NoOne = NoOne
  Lookers = {w1}
  w1 = w1
  Patient = TRUE
  Viewers = {v}
  Readers = {p}
  MaxChunks = 3
SPECIFICATION WaitsSpec
INVARIANTS NoLostTurn CountMatches
PROPERTIES EveryTurnComes MatchIsHandled HandlerReturns ReadGoesOn
CHECK_DEADLOCK FALSE
