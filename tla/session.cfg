CONSTANTS
  p1 = p1
  p2 = p2
  a1 = a1
  Pids = {p1, p2}
  NoPid = NoPid
  Addrs = {a1}
  ListIds = {1, 2}
  MaxTotal = 2
  MaxIndex = 2
  Head = 2
  PageSize = 1
  Status = 9
SPECIFICATION MCSpec
INVARIANTS
  TypeOK
  ListAgrees
  ListedIsSet
  TabsAgree
PROPERTIES
  ScanEnds
