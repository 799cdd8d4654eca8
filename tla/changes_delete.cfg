SPECIFICATION Spec
CONSTANTS
  Layouts <- WithDelete
  Values = {"1", "2"}
CHECK_DEADLOCK FALSE
INVARIANT OthersUntouched
