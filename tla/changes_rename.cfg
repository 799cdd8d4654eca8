SPECIFICATION Spec
CONSTANTS
  Layouts <- WithRename
  Values = {"1", "2"}
CHECK_DEADLOCK FALSE
INVARIANT NeverStuck
