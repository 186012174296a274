CONSTANTS
  p1 = p1
  p2 = p2
  t1 = t1
  t2 = t2
  u1 = u1
  x = x
  w = w
  Procs = {p1, p2}
  NoProc = NoProc
  Threads = {t1, t2, u1}
  Owner <- MCOwner
  InitLive <- MCInitLive
  ExecKeys = {x}
  WatchKeys = {w}
  Values = {0, 1}
  InitValue = 0
  NoValue = NoValue
  NoKey = NoKey
  MaxHits = 1
SPECIFICATION Spec
INVARIANTS
  TypeOK
  HitsExact
  WatchBacked
PROPERTIES
  HitsReported
