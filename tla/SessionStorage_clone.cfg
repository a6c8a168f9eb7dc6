SPECIFICATION FairSpec
CONSTANTS
  Pages = {a, b}
  firstPage = a
  NoPage = NoPage
  Keys = {k1}
  Values = {v1}
  Null = Null  Absent = Absent  NoReply = NoReply
  Length <- UnitLength
  UIntSize <- FourBits
  quotaSize <- NoQuota
  MaxChanges = 2
CHECK_DEADLOCK FALSE
INVARIANTS PagesHaveTheirStorage CloneFindsNewNamespace StorageIsReleased
PROPERTY RepliesArrive
