SPECIFICATION Spec
CONSTANTS
  p1 = p1
  p2 = p2
  t1 = t1
  t2 = t2
  t3 = t3
  a1 = a1
  a2 = a2
  NoProc = NoProc
  NoThread = NoThread
  NoAddr = NoAddr
  Procs = {p1, p2}
  Threads = {t1, t2}
  Addrs = {a1}
  Owner <- OwnerTwo
  Main <- MainTwo
  Below <- BelowOne
  InitLive = {t1, t2}
  InitOther = {{}}
  PumpLimit = 2
  MaxEvents = 1
  W = 3
INVARIANTS
  ClearedRestores
CHECK_DEADLOCK FALSE
