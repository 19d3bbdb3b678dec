CONSTANTS
  f1 = f1
  c1 = c1
  cli = cli
  Patch = {f1}
  MaxRev = 3
  Consumers = {c1}
  Clis = {cli}
  Ops = {"auto", "dry"}
  Modes = {"dev"}
  InitPins <- PinsByHand
  Flags = {"true"}
  Env = {"refetch"}
  RunsSerial = TRUE
  OperatorWaits = TRUE
  MaxFaults = 1
SPECIFICATION FairSpec
PROPERTIES
  PinFollowsFork
