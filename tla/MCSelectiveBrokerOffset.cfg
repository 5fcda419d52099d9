SPECIFICATION Spec
CONSTANTS
  Session = {t1}
  NoSession = NoSession
  Typing = {"text"}
  Tapping = {}
  MaxReplies = 1
  MaxUpdates = 2
  MaxRows = 1
  MaxTroubles = 1
INVARIANTS
  OffsetBehindInbox
CHECK_DEADLOCK FALSE
