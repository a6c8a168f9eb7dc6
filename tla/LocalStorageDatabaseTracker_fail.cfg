SPECIFICATION TrackerSpec
CONSTANTS
  Origins = {o1, o2, o3}
  NoOrigin = NoOrigin
  TrackerCanFail = TRUE
SYMMETRY Symmetry
INVARIANTS FilesAreTracked TrackerOutlivesDatabases
PROPERTY DeletionIsComplete
