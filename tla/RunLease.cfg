SPECIFICATION FairSpec
CONSTANTS
  Conn = {c1}
  MaxWaits = 1
  MaxTakeovers = 1
INVARIANTS SettledOnce AnsweredNeverExpires ParkedRunHasAnEnding
PROPERTIES WaitEnds StopReturns
CHECK_DEADLOCK FALSE
