SPECIFICATION MCSpec
CONSTANTS
  Regions <- MCRegions
  Word = 2
  Chunk = 4
  Page = 4
  WordValues = {0, 4, 6, 11}
  MaxEntries = 5
  PageSize = 2
  Target = 7
  Depth = 3
  MaxOffset = 2
  MaxResults = 12
  Workers = {w1, w2}
  Processes = {1, 2}
  Cells = {4, 5, 6}
  Memories <- MCMemories
  Selections <- MCSelections
  Goals = {7}
  Height = 2
  Reach = 1
  FetchSize = 1
  Limit = 4
  Threads = {1, 2}
  Chains <- MCChains
  Commons <- MCCommons
  SessionMax = 2
  FilterMin = 2
  MinBatch = 1
  FirstBatch = 2
  MaxBatch = 4
  WindowCells = {4, 5}
  Layouts <- MCLayouts
  WindowGoal = 6
  WindowDepth = 2
  Unit = 1
  WindowResults = 2
  BatchSize = 1
  Files = {1, 2}
  MaxCrashes = 1
SYMMETRY Symmetry
INVARIANTS
  MCTypeOK
  SearchesExact
  CompareExact
