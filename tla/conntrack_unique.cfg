CONSTANTS
  e1 = e1
  e2 = e2
  e3 = e3
  e4 = e4
  t1 = t1
  t2 = t2
  t3 = t3
  ip = ip
  udp = udp
  tcp = tcp
  http = http
  sip = sip
  Threads = {t1, t2}
  Entries = {e1, e2, e3}
  Keys = {udp, sip}
  Unique = {sip}
  Cancels = {udp}
  Untimed = {}
  Paths <- Dialogs
  None = None
SYMMETRY Interchangeable
SPECIFICATION Spec
INVARIANT HeldInTable
CHECK_DEADLOCK FALSE
