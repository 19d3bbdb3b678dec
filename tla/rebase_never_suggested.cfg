CONSTANTS
  k1 = k1
  Patches = {1}
  Jobs = {}
  Pollers = {k1}
  Client = "gh"
  MaxCommits = 2
  Ages = {}
  MaxPr = 1
  PushesSerial = TRUE
  RecordsAlone = TRUE
  MaxFaults = 0
SPECIFICATION Spec
INVARIANT
  RebaseReported
