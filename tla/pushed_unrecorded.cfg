CONSTANTS
  j1 = j1
  Patches = {1}
  Jobs = {j1}
  Pollers = {}
  Client = "other"
  MaxCommits = 0
  Ages = {}
  MaxPr = 2
  PushesSerial = TRUE
  RecordsAlone = TRUE
  MaxFaults = 1
SPECIFICATION Spec
INVARIANT
  PushedIffOpened
