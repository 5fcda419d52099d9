SPECIFICATION FairSpec
CONSTANTS
  Link = {l1}
  NoLink = NoLink
  Command = {k1, k2}
  Kind <- RelinkKinds
  MaxClaims = 2
  MaxEvents = 5
  MaxFaults = 0
PROPERTIES
  ClaimedIsReported
CHECK_DEADLOCK FALSE
