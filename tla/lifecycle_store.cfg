SPECIFICATION Spec
CONSTANTS
  Layouts <- RemoteAgain
  Rows = {1, 2}
  MaxInbox = 3
INVARIANT RowsOnce
