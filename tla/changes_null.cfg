SPECIFICATION Spec
CONSTANTS
  Layouts <- WithNulls
  Values = {"1", "2"}
CHECK_DEADLOCK FALSE
INVARIANT RowForRow
