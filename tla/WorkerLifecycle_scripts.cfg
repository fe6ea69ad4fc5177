SPECIFICATION Spec
CONSTANTS
  Tasks = {t1, t2}
  MaxFaults = 0
INVARIANTS NoScriptOutlivesWorker
CHECK_DEADLOCK FALSE
