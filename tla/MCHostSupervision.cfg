SPECIFICATION Spec
CONSTANTS
  HostPid = {h1, h2}
  WorkerPid = {w1, w2, w3}
INVARIANTS
  OneWorker
CHECK_DEADLOCK FALSE
