SPECIFICATION Spec
CONSTANTS
  Sizes <- ViewSizes
  MaxStates = 2
  MaxChanges = 2
  WaitRaces = FALSE
INVARIANTS HandledInItsState HandledInItsMode NobodyWaitsInVain DisplayIsScheduled ViewShowsThePage
