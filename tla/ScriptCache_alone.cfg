SPECIFICATION Spec
CONSTANTS
  Workers = {w1}
  Downloaders = {w1}
  Repositories = {"git", "http", "s3"}
  MaxRelease = 2
  SingleFiles = {1}
  Entryless = {1}
  MaxCrashes = 2
INVARIANTS TypeOK ReadyScriptIsWhole RunningScriptKeepsFiles OtherVersionNeedsFallback LatestIsFresh
PROPERTY ImplementsScriptStore
