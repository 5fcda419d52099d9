SPECIFICATION FairSpec
CONSTANTS
  Link = {l1}
  NoLink = NoLink
  Command = {k1, k2}
  Kind <- AllKinds
  MaxClaims = 2
  MaxEvents = 6
  MaxFaults = 1
INVARIANTS
  TypeOK
  ExecutedInOrder
  ReportTruthful
  SettledIsAnnounced
  RowMirrorsConnection
PROPERTIES
  ConnectedIsServed
CHECK_DEADLOCK FALSE
