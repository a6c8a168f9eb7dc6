SPECIFICATION FairSpec
CONSTANTS
  Procs = {p1, p2}
  Keys = {k1}
  Values = {v1}
  Null = Null  Absent = Absent  NoMap = NoMap  NoReply = NoReply
  Length <- UnitLength
  UIntSize <- FourBits
  quotaSize <- NoQuota
  Operations = {"set", "clear"}
  MaxOperations = 2
  MaxDeletes = 0
  MaxMaps <- TwoMaps
  CanCrash = TRUE
  CanDisconnect = FALSE
  MayTerminate = TRUE
CHECK_DEADLOCK FALSE
INVARIANTS NoPhantomValues PendingMatchesInFlight MessagesFindTheirArea
PROPERTY EverythingSettles
