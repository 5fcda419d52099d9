SPECIFICATION Spec
CONSTANTS
  Question = {q1}
  Gated = {w1}
  Demo = Demo
  Choice = {"yes", "no"}
  Approve = "yes"
  MaxRequests = 2
  MaxActions = 1
  MaxHosts = 2
INVARIANTS
  TypeOK
  AnsweredAsDecided
PROPERTIES
  CompletedOnEvidence
  PromptsNeverInterleave
  AskedEnds
  RespondedIsSettled
  RequestPromise
CHECK_DEADLOCK FALSE
