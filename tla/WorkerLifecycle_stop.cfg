SPECIFICATION FairSpec
CONSTANTS
  Tasks = {t1, t2}
  MaxFaults = 2
INVARIANTS TypeOK OnlyLateScriptsSurvive ShutdownKeepsRequests NothingStaysConnected StoppedIsInactive
PROPERTIES SignalStops
CHECK_DEADLOCK FALSE
