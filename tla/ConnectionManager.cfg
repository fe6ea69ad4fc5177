SPECIFICATION Spec
CONSTANTS
  Sockets = {s1, s2, s3, s4}
  Ids = {i1, i2}
  NoSocket = NoSocket
  NoId = NoId
SYMMETRY AllSymmetry
INVARIANTS TypeOK EntriesAreOpen AnswersStayWithId UnregisteredNeedsTwin BroadcastReachesAll
CHECK_DEADLOCK FALSE
