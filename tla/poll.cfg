CONSTANTS
  j1 = j1
  k1 = k1
  Patches = {1}
  Jobs = {j1}
  Pollers = {k1}
  Client = "other"
  MaxCommits = 1
  Ages = {30}
  MaxPr = 1
  PushesSerial = TRUE
  RecordsAlone = TRUE
  MaxFaults = 0
SPECIFICATION Spec
INVARIANTS
  DropsAreRight
  NoContradiction
  RebasesAreRight
