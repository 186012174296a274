CONSTANTS
  p1 = p1
  p2 = p2
  Procs = {p1, p2}
  NoProc = NoProc
  Sleepers = {p1}
SPECIFICATION Spec
INVARIANTS
  TypeOK
PROPERTIES
  RecordedStopsEnd
  KeepsTracee
  RegsTransparent
  StepHolds
