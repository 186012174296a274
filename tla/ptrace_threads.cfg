SPECIFICATION Spec
CONSTANTS
  p1 = p1
  p2 = p2
  t1 = t1
  t2 = t2
  t3 = t3
  a1 = a1
  a2 = a2
  NoProc = NoProc
  NoThread = NoThread
  NoAddr = NoAddr
  Procs = {p1}
  Threads = {t1, t2}
  Addrs = {a1, a2}
  Owner <- OwnerOne
  Main <- MainOne
  Below <- BelowTwo
  InitLive = {t1}
  InitOther = {{}}
  PumpLimit = 2
  MaxEvents = 1
  W = 2
INVARIANTS
  Armed
  NoParkedThread
CHECK_DEADLOCK FALSE
