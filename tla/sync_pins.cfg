CONSTANTS
  f1 = f1
  c1 = c1
  Patch = {f1}
  MaxRev = 3
  Consumers = {c1}
  Clis = {}
  Ops = {"bump", "sync", "auto"}
  Modes = {"dev", "ci"}
  InitPins <- InitialPins
  Flags = {"true"}
  Env = {"fix", "resolve", "dirty"}
  RunsSerial = TRUE
  OperatorWaits = TRUE
  MaxFaults = 1
SPECIFICATION Spec
INVARIANTS
  SyncedIsConsistent
PROPERTIES
  PinsWholeBranch
  PinNeverRegresses
