SPECIFICATION Spec
CONSTANTS
  Size = 4
  Cells = {0, 1}
  Regions <- MCRegions
  Width = 2
  Target <- MCTarget
  Workers = {w1, w2}
  Page = 2
  Chunk = 2
  Batch = 1
  MaxResults = 2
  Neon = FALSE
  MaxChanged = 1
INVARIANTS
  TypeOK
PROPERTIES
  Promised
SYMMETRY Symmetry
CHECK_DEADLOCK FALSE
