CONSTANTS
  f1 = f1
  f2 = f2
  c1 = c1
  Patch = {f1, f2}
  MaxRev = 2
  Consumers = {c1}
  Clis = {}
  Ops = {"bumpTo", "rebase", "auto"}
  Modes = {"dev"}
  InitPins <- InitialPins
  Flags = {"true"}
  Env = {"fix", "topic", "resolve"}
  RunsSerial = TRUE
  OperatorWaits = TRUE
  MaxFaults = 1
SPECIFICATION Spec
SYMMETRY Symmetry
INVARIANTS
  FixesKept
