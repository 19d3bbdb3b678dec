CONSTANTS
  syncer = syncer
  verifier = verifier
  Sources = {1, 2}
  Kind <- ServiceAndTool
  AutoSync = {1, 2}
  Modes = {"dev", "ci"}
  MaxRev = 3
  Consumers = {syncer}
  Asked = {{1, 2}}
  Moving = {1, 2}
  Does <- SyncOnly
  Messy = {1}
  Patchy = {2}
  MaxFaults = 2
SPECIFICATION FairSpec
PROPERTIES
  EarlierSourcesTrack
