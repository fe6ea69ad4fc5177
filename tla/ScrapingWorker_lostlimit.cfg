SPECIFICATION Spec
CONSTANTS
  Calls = {c1}
  Workers = {w1}
  NoWorker = NoWorker
  MaxConcurrentTasks = 1
  FaultKinds = {"connection_lost"}
  MaxFaults = 1
INVARIANTS ChildLimit
CHECK_DEADLOCK FALSE
