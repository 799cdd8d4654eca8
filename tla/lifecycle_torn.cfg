SPECIFICATION Spec
CONSTANTS
  Layouts <- CutShortOnce
  Rows = {1, 2}
  MaxInbox = 3
INVARIANT SourceSeeded
