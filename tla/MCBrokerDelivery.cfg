SPECIFICATION FairSpec
CONSTANTS
  MaxHits = 5
  WindowPolls = 2
  MaxAttempts = 2
  MaxPerDrain = 2
  MaxReplies = 1
  MaxChunks = 2
  MaxEvents = 2
  MaxAsked = 1
  MaxTroubles = 1
INVARIANTS
  TypeOK
  EventsInOrder
  AckedIsOnThePhone
  OneChunkShownOnce
PROPERTIES
  EveryEventIsTold
  KeptNoticeDelivered
CHECK_DEADLOCK FALSE
