SPECIFICATION Spec
CONSTANTS
  Link = {l1}
  NoLink = NoLink
  Command = {k1, k2}
  Kind <- StopKinds
  MaxClaims = 2
  MaxEvents = 5
  MaxFaults = 0
INVARIANTS
  StopThenPromptDelivered
CHECK_DEADLOCK FALSE
