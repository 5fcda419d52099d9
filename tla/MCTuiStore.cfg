SPECIFICATION Spec
CONSTANTS
  Tracking = {t1, t2}
  Connection = {c1, c2}
  NoConnection = NoConnection
  ShortId = {s1, s2}
  NoShortId = NoShortId
  SessionState = {"connected", "busy"}
  Command = {k1, k2}
  MaxEvents = 4
SYMMETRY Symmetry
INVARIANTS
  TypeOK
  StreamTellsOwner
  OnlyTheHolderPublishes
  NoOvertaking
  ClaimedOnce
  ClaimedByAHolder
  ShortIdNamesOneSession
PROPERTIES
  LiveRowNotStolen
  MailboxSpec
CHECK_DEADLOCK FALSE
