SPECIFICATION ServedSpec
CONSTANTS
  Frames = 2
  Window = 2
  MaxStarts = 1
PROPERTY ExitIsHeard
CHECK_DEADLOCK FALSE
