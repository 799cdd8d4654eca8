SPECIFICATION Spec
CONSTANTS
  MaxSegment = 3
  MaxCommitId = 4
  MaxOps = 2
  MaxRows = 8
  FlushBatch = 2
  Usage = {}
  MoverMayFail = TRUE
INVARIANTS
  TypeOK
  LogCoversDb
  FateMatchesDb
  StagedIsWhole
PROPERTY
  StreamSpec
