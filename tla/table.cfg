SPECIFICATION FairSpec
CONSTANTS
  Addrs = {a1, a2}
  Values = {v0}
  Blank = Blank
  Zero = v0
  MaxRows = 2
  MaxJobs = 1
  MaxRanges = 1
INVARIANTS
  TypeOK
  UpdatesFitRows
PROPERTIES
  RefreshEnds
CHECK_DEADLOCK FALSE
