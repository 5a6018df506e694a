CONSTANTS
  a = a
  b = b
  t1 = t1
  t2 = t2
  t3 = t3
  Inputs = {a, b}
  Live = {b}
  Threads = {t1, t2, t3}
  User = User
  NoOne = NoOne
  Lookers = {w1, w2}
  w1 = w1
  w2 = w2
  Patient = FALSE
SPECIFICATION Spec
INVARIANT OneThread
CHECK_DEADLOCK FALSE
