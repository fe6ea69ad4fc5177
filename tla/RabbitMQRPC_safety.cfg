SPECIFICATION Spec
CONSTANTS
  Calls = {c1, c2}
  MaxGatewayFaults = 2
  MaxQueued = 2
SYMMETRY CallSymmetry
INVARIANTS TypeOK WaitingIsRegistered OnlyFailedPublishLeaks NoResultDiscarded
PROPERTIES ResolvedOnce
CHECK_DEADLOCK FALSE
