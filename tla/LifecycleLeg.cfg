SPECIFICATION FairSpec
CONSTANTS
  Frames = 3
  Window = 3
  MaxStarts = 2
INVARIANTS StoredExactly AcceptedInTime ReplayApplied
PROPERTIES HandedOverIsStill EndSettles StopHandsOver
CHECK_DEADLOCK FALSE
