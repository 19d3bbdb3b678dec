CONSTANTS
  f1 = f1
  c1 = c1
  cli = cli
  Patch = {f1}
  MaxRev = 2
  Consumers = {c1}
  Clis = {cli}
  Ops = {"auto"}
  Modes = {"dev"}
  InitPins <- InitialPins
  Flags = {"absent", "false"}
  Env = {"fix", "push", "refetch", "foreign"}
  RunsSerial = FALSE
  OperatorWaits = FALSE
  MaxFaults = 1
SPECIFICATION Spec
INVARIANTS
  TypeOK
  ForeignWorkKept
