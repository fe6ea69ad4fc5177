SPECIFICATION FairSpec
CONSTANTS
  Calls = {c1}
  Workers = {w1, w2}
  NoWorker = NoWorker
  MaxConcurrentTasks = 1
  FaultKinds = {"connection_lost", "worker_crash", "publish_failed"}
  MaxFaults = 1
  MaxGatewayFaults = 1
PROPERTIES ImplementsRpcCall EveryCallEnds RequestSettles
CHECK_DEADLOCK FALSE
