SPECIFICATION Spec
CONSTANTS
  Frames = 2
  Window = 2
  MaxStarts = 0
INVARIANT GoodbyeIsClean
CHECK_DEADLOCK FALSE
