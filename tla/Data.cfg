SPECIFICATION Spec
CONSTANTS
  RawRows <- MCRows
  MaxRaw = 4
  ChunkSize = 2
  CampaignStart = 1
  CampaignEnd = 7
  MaxRowsChoices = {2, 4}
  Horizon = 1
  OodUsers = {2}
  TrainEnd = 2
  Embargo1End = 3
  ValEnd = 4
  Embargo2End = 5
  TestEnd = 6
  Hour = 1
INVARIANT CanonicalIsSortedSet
INVARIANT LabelsMatchDefinition
INVARIANT NothingLeaksForward
INVARIANT ManifestDescribesModel
CHECK_DEADLOCK FALSE
