SPECIFICATION Spec

CONSTANTS
  MaxSegment = 0
  MaxDestinations = 1
  Layouts <- Interrupted
  Txns = 2
  RolledBack = {}
  ReplayMayStop = TRUE
  PausePushOnly = FALSE
  MarkMayFail = FALSE

INVARIANTS
  SyncedMeansApplied
