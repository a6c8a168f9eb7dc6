SPECIFICATION Spec
CONSTANTS
  Sizes <- ViewSizes
  MaxStates = 2
  MaxChanges = 2
  WaitRaces = TRUE
INVARIANT HandledInItsState
