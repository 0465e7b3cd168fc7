CONSTANTS
    Domain = {d1, d2}
    Lane = {l1}
    Transport = {t1, t2}
    KernelAttempt = {k1}
    ShellAttempt = {s1}
    None = None
    MaxEpoch = 2
    ScanBudget = 0
    MaxDesyncEpisodes = 0
    HandshakeFailures = 1
SPECIFICATION Spec
PROPERTY LossKeepsTopsFact
CHECK_DEADLOCK FALSE
