SPECIFICATION Spec
CONSTANTS
  MaxSegment = 2
  MaxCommitId = 3
  MaxOps = 2
  MaxRows = 5
  FlushBatch = 2
  ClockMayLag = FALSE
  MoverMayFail = TRUE
  PersistMayFail = FALSE
INVARIANTS
  TypeOK
  LogCoversDb
  FateMatchesDb
  ReadyIsWhole
  SegmentsInOrder
PROPERTY
  StreamSpec
