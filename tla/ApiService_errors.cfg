SPECIFICATION Spec
CONSTANTS
  Requests = {r1}
  MaxCrashes = 0
INVARIANT ErrorsKeepTheirStatus
