SPECIFICATION Spec
CHECK_DEADLOCK FALSE
CONSTANTS
  NDest = 2
  a = a
  b = b
  Places = {a, b}
  DefaultPlace = b
  Openers = {"A", "B"}
  Waiters = {"w"}
  Layouts <- WhileOpening
INVARIANT OkMeansApplied
