SPECIFICATION FairSpec
CONSTANTS
  p1 = p1
  p2 = p2
  t1 = t1
  t2 = t2
  t3 = t3
  a1 = a1
  a2 = a2
  NoProc = NoProc
  NoThread = NoThread
  NoAddr = NoAddr
  Procs = {p1, p2}
  Threads = {t1, t2, t3}
  Addrs = {a1}
  Owner <- OwnerOthers
  Main <- MainTwo
  Below <- BelowOne
  InitLive = {t1, t2, t3}
  InitOther = {{t3}, {t1, t3}}
  PumpLimit = 2
  MaxEvents = 1
  W = 3
INVARIANTS
  TypeOK
  RegistrationAttached
PROPERTIES
  CallsReturn
CHECK_DEADLOCK FALSE
