CONSTANTS
  j1 = j1
  j2 = j2
  Patches = {1}
  Jobs = {j1, j2}
  Pollers = {}
  Client = "other"
  MaxCommits = 0
  Ages = {}
  MaxPr = 2
  PushesSerial = TRUE
  RecordsAlone = TRUE
  MaxFaults = 1
SPECIFICATION Spec
SYMMETRY Symmetry
INVARIANTS
  PollTypeOK
  EditsKept
  DroppedStaysGone
  NoSecondPr
