SPECIFICATION Spec
CONSTANTS
  Procs = {p1, p2}
  Keys = {k1, k2}
  Values = {v1}
  Null = Null  Absent = Absent  NoMap = NoMap  NoReply = NoReply
  Length <- UnitLength
  UIntSize <- FourBits
  quotaSize <- OneItem
  Operations = {"set", "remove"}
  MaxOperations = 3
  MaxDeletes = 1
  MaxMaps <- OneMap
  CanCrash = FALSE
  CanDisconnect = TRUE
  MayTerminate = FALSE
CHECK_DEADLOCK FALSE
SYMMETRY Symmetry
INVARIANTS CacheMatchesArea OwnChangesAreKept PendingMatchesInFlight 
