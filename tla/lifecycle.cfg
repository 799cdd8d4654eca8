SPECIFICATION LiveSpec
CONSTANTS
  Layouts <- MCLayouts
  Rows = {1, 2}
  MaxInbox = 3
INVARIANTS
  TypeOK
  SeededOnce
  PublishedIsBacked
PROPERTIES
  NoRewind
  EventuallySeeded
