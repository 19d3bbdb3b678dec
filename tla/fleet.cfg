CONSTANTS
  syncer = syncer
  verifier = verifier
  Sources = {1, 2}
  Kind <- ServiceAndTool
  AutoSync = {1, 2}
  Modes = {"dev", "ci"}
  MaxRev = 2
  Consumers = {syncer, verifier}
  Asked = {{1, 2}}
  Moving = {1, 2}
  Does <- ToEachItsOwn
  Messy = {1}
  Patchy = {2}
  MaxFaults = 1
SPECIFICATION FairSpec
INVARIANTS
  FleetTypeOK
PROPERTIES
  VerifyNoticesDrift
  VerifyClears
  EachPinFollowsItsFork
