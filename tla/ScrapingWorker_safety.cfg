SPECIFICATION Spec
CONSTANTS
  Calls = {c1}
  Workers = {w1, w2}
  NoWorker = NoWorker
  MaxConcurrentTasks = 1
  FaultKinds = {"connection_lost", "worker_crash", "publish_failed"}
  MaxFaults = 2
SYMMETRY AllSymmetry
INVARIANTS TypeOK DeliveredIsHandled CompletedReplyIsTrue AckedWasAnswered
 
CHECK_DEADLOCK FALSE
