SPECIFICATION Spec
CONSTANTS
  Sidecars = FALSE
  MaxSegment = 2
  MaxSessions = 1
  MaxAttempts = 1
  Archivers = 2
  Environments <- CalmOrHopeless
PROPERTIES
  EventuallyShipped
  CloseCompletes
