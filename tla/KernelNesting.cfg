CONSTANTS
    Domain = {d1, d2}
    Lane = {l1}
    Transport = {t1, t2}
    KernelAttempt = {k1}
    ShellAttempt = {}
    None = None
    MaxEpoch = 2
    ScanBudget = 0
    MaxDesyncEpisodes = 1
    HandshakeFailures = 1
SYMMETRY Symmetry
SPECIFICATION Spec
INVARIANTS FactMatchesStack OpenAttemptsAreLive
PROPERTIES RunningCommandKept ImplementsLaneAuthority
CHECK_DEADLOCK FALSE
