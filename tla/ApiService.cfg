SPECIFICATION FairSpec
CONSTANTS
  Requests = {r1, r2}
  MaxCrashes = 1
INVARIANTS TypeOK RefusedNeverRuns HandlersStayFew
PROPERTIES HealthyThenServed ImplementsRpcCall StopEnds
