SPECIFICATION PubSpec
CONSTANTS
  Domain = {d1}
  Lane = {l1}
  Transport = {t1}
  KernelAttempt = {k1}
  ShellAttempt = {}
  None = None
  MaxEpoch = 1
  ScanBudget = 0
  MaxDesyncEpisodes = 1
  HandshakeFailures = 1
  Handler = {h1}
  Closer = {c1}
CHECK_DEADLOCK FALSE
INVARIANTS BaselineKept QuietLaneIsTold
PROPERTIES ClosedBeforeTold AcceptBeforePrompt
