SPECIFICATION FairSpec
CONSTANTS
  Session = {t1}
  NoSession = NoSession
  Typing <- AnyTyping
  Tapping <- AnyButton
  MaxReplies = 1
  MaxUpdates = 2
  MaxRows = 1
  MaxTroubles = 1
INVARIANTS
  TypeOK
  OffsetBehindInboxUnlessFaulty
PROPERTIES
  UpdatesHandled
CHECK_DEADLOCK FALSE
