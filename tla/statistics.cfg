CHECK_DEADLOCK FALSE
SPECIFICATION Spec
CONSTANTS
  Device <- Devices
  Layouts <- MCLayouts
  MaxSegment = 2
  MaxOpers = 1
INVARIANTS
  NeverReplayed
  StatusIsTrue
