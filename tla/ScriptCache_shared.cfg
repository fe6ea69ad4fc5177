SPECIFICATION Spec
CONSTANTS
  Workers = {w1, w2}
  Downloaders = {}
  Repositories = {"http"}
  MaxRelease = 1
  SingleFiles = {}
  Entryless = {}
  MaxCrashes = 0
INVARIANTS RunningScriptKeepsFiles
