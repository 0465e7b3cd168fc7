CONSTANTS
    Domain = {d1}
    Lane = {l1}
    Transport = {t1}
    KernelAttempt = {k1}
    ShellAttempt = {s1}
    None = None
    MaxEpoch = 2
    ScanBudget = 0
    MaxDesyncEpisodes = 0
    HandshakeFailures = 1
SPECIFICATION Spec
INVARIANT AtMostOneAttemptOpen
CHECK_DEADLOCK FALSE
