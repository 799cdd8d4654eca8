CHECK_DEADLOCK FALSE
SPECIFICATION Spec
CONSTANTS
  Device <- Devices
  Layouts <- Undisturbed
  MaxSegment = 2
  MaxOpers = 1
INVARIANT
  SegmentsOfDevice
