SPECIFICATION Spec
CONSTANTS
  Sidecars = FALSE
  MaxSegment = 1
  MaxSessions = 1
  MaxAttempts = 1
  Archivers = 1
  Environments <- Early
INVARIANT
  ConsumedIsReplicated
