SPECIFICATION Spec
CONSTANTS
  Procs = {p1, p2}
  Keys = {k1}
  Values = {v1}
  Null = Null  Absent = Absent  NoMap = NoMap  NoReply = NoReply
  Length <- UnitLength
  UIntSize <- FourBits
  quotaSize <- NoQuota
  Operations = {"set", "clear"}
  MaxOperations = 3
  MaxDeletes = 0
  MaxMaps <- OneMap
  CanCrash = FALSE
  CanDisconnect = FALSE
  MayTerminate = FALSE
CHECK_DEADLOCK FALSE
INVARIANT OwnChangesAreKept
