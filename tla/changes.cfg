SPECIFICATION Spec
CONSTANTS
  Layouts <- MCLayouts
  Values = {"1", "2"}
CHECK_DEADLOCK FALSE
INVARIANTS
  TypeOK
  DestinationIsMapped
  OthersUntouched
  BatchAgrees
  NeverStuck
