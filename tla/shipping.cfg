SPECIFICATION Spec
CONSTANTS
  Sidecars = TRUE
  MaxSegment = 1
  MaxSessions = 1
  MaxAttempts = 1
  Archivers = 2
  Environments <- Calm
INVARIANTS
  TypeOK
  ReplicatedFirst
  InOrder
