SPECIFICATION GrantSpec
CONSTANTS
  Domain = {d1, d2}
  Lane = {l1}
  Transport = {t1, t2}
  KernelAttempt = {}
  ShellAttempt = {}
  None = None
  MaxEpoch = 2
  ScanBudget = 0
  MaxDesyncEpisodes = 1
  HandshakeFailures = 1
  Handler = {h1}
  Closer = {c1}
INVARIANT LastFactFollowsLastMutation
CHECK_DEADLOCK FALSE
