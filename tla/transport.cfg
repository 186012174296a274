CONSTANTS
  gui = gui
  worker = worker
  Callers = {gui, worker}
  MaxRequests = 4
  MaxConnections = 2
  Capacity = 1
  LongRequests = {2, 3}
  LongAnswers = {1, 3}
SPECIFICATION Spec
INVARIANTS
  TypeOK
PROPERTIES
  Promised
  CallsReturn
  ThreadsEnd
CHECK_DEADLOCK FALSE
