CONSTANTS
  Keys = {k1, k2}
  Values = {v1, v2}
  Null = Null
  NoChange = NoChange
  maximumItemsToUpdate = 1
  CanFail = FALSE
  CanCrash = TRUE
SPECIFICATION FairSpec
INVARIANTS TypeOK PendingChangesAreScheduled MemoryIsDiskPlusPending
PROPERTIES FileCreatedOnlyToWrite ImplementsDurableMap  EventuallyWritten
