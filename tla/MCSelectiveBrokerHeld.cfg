SPECIFICATION Spec
CONSTANTS
  Session = {t1, t2}
  NoSession = NoSession
  Typing = {"text"}
  Tapping <- HeldButton
  MaxReplies = 1
  MaxUpdates = 3
  MaxRows = 1
  MaxTroubles = 1
SYMMETRY Symmetry
INVARIANTS
  DispatchedOnce
PROPERTIES
  CardSendsItsOwnText
  HeldNotLost
CHECK_DEADLOCK FALSE
