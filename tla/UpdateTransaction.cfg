SPECIFICATION Spec
CONSTANTS
  Windows = {w1, w2}
  NoWindow = NoWindow
  MaxBuild = 2
  Ids = {i1, i2, i3, i4}
  NoId = NoId
  ReadsVersion = TRUE
  MaxLaunches = 4
  MaxReplaced = 1
  MaxLegacy = 1
SYMMETRY Interchangeable
INVARIANT Recoverable
PROPERTIES RollbackAfterThreeTries ImplementsUpdateTrial
CHECK_DEADLOCK FALSE
