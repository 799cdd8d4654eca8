SPECIFICATION Spec

CONSTANTS
  MaxSegment = 1
  MaxDestinations = 2
  Layouts <- MCLayouts
  Txns = 2
  RolledBack = {1}
  ReplayMayStop = FALSE
  PausePushOnly = FALSE
  MarkMayFail = FALSE

INVARIANTS
  TypeOK
  UndeliveredIsReadable
  DeliveredInOrder
  AwaitIsExact

PROPERTIES
  EventuallyApplied
  StageIsCleaned
