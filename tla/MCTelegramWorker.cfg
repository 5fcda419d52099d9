SPECIFICATION Spec
CONSTANTS
  Request = {r1}
  Chunks = 2
  MaxAttempts = 2
  MaxUpdates = 1
  MaxCrashes = 1
INVARIANTS
  TypeOK
  KeyboardAfterItsText
PROPERTIES
  AskedIsShown
CHECK_DEADLOCK FALSE
