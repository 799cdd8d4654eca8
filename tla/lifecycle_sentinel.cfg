SPECIFICATION Spec
CONSTANTS
  Layouts <- InterruptedAgain
  Rows = {1, 2}
  MaxInbox = 3
INVARIANT RowsOnce
