CONSTANTS
    Domain = {d1}
    Lane = {l1}
    Transport = {t1}
    KernelAttempt = {k1, k2}
    ShellAttempt = {s1, s2}
    None = None
    MaxEpoch = 1
    ScanBudget = 1
    MaxDesyncEpisodes = 1
    HandshakeFailures = 1
SYMMETRY Symmetry
SPECIFICATION Spec
INVARIANTS TypeOK AttemptsKept
PROPERTIES DeadStayDead
CHECK_DEADLOCK FALSE
