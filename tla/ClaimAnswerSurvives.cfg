SPECIFICATION Spec
CONSTANTS
  Conn = {c1}
  MaxWaits = 1
  MaxTakeovers = 0
INVARIANT AnswerSurvives
CHECK_DEADLOCK FALSE
