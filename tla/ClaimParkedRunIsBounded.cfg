SPECIFICATION Spec
CONSTANTS
  Conn = {c1}
  MaxWaits = 1
  MaxTakeovers = 0
INVARIANT ParkedRunIsBounded
CHECK_DEADLOCK FALSE
