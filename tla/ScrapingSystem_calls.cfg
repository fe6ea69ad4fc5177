SPECIFICATION Spec
CONSTANTS
  Calls = {c1, c2}
  Workers = {w1}
  NoWorker = NoWorker
  MaxConcurrentTasks = 1
  FaultKinds = {"worker_crash", "publish_failed"}
  MaxFaults = 1
  MaxGatewayFaults = 0
SYMMETRY AllSymmetry
INVARIANTS CompletedMeansSucceeded BusyNeedsLostChannel ChildLimit NoSurvivors
CHECK_DEADLOCK FALSE
