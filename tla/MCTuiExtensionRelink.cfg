SPECIFICATION Spec
CONSTANTS
  Link = {l1, l2}
  NoLink = NoLink
  Command = {k1, k2}
  Kind <- RelinkKinds
  MaxClaims = 2
  MaxEvents = 6
  MaxFaults = 1
SYMMETRY Symmetry
INVARIANTS
  RowNeedsOptIn
  UnlinkedForGood
PROPERTIES
  OptedInExecution
CHECK_DEADLOCK FALSE
