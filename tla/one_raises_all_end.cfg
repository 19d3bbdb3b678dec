CONSTANTS
  syncer = syncer
  verifier = verifier
  Sources = {1, 2, 3, 4}
  Kind <- OneOfEach
  AutoSync = {1, 2}
  Modes = {"dev", "ci"}
  MaxRev = 2
  Consumers = {syncer}
  Asked = {{1, 2, 3, 4}}
  Moving = {1, 2}
  Does <- SyncOnly
  Messy = {1}
  Patchy = {}
  MaxFaults = 0
SPECIFICATION Spec
INVARIANT
  EveryEntryAnswered
