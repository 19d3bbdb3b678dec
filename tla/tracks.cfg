CONSTANTS
  f1 = f1
  c1 = c1
  cli = cli
  Patch = {f1}
  MaxRev = 3
  Consumers = {c1}
  Clis = {cli}
  Ops = {"auto"}
  Modes = {"dev"}
  InitPins <- PinsByHand
  Flags = {"true"}
  Env = {"fix", "refetch"}
  RunsSerial = FALSE
  OperatorWaits = TRUE
  MaxFaults = 1
SPECIFICATION FairSpec
PROPERTIES
  TracksUpstream
