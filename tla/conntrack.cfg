CONSTANTS
  e1 = e1
  e2 = e2
  e3 = e3
  e4 = e4
  t1 = t1
  t2 = t2
  t3 = t3
  ip = ip
  udp = udp
  tcp = tcp
  http = http
  sip = sip
  Threads = {t1, t2, t3}
  Entries = {e1, e2, e3, e4}
  Keys = {ip, udp, tcp, http}
  Unique = {http}
  Cancels = {ip, udp}
  Untimed = {http}
  Paths <- Transfers
  None = None
SYMMETRY Interchangeable
SPECIFICATION Spec
INVARIANTS HeldInTable WillEnd NothingLost
CHECK_DEADLOCK FALSE
