CONSTANTS
    Domain = {d1, d2, d3}
    Lane = {l1}
    Transport = {t1, t2}
    KernelAttempt = {}
    ShellAttempt = {}
    None = None
    MaxEpoch = 3
    ScanBudget = 0
    MaxDesyncEpisodes = 0
    HandshakeFailures = 1
SYMMETRY Symmetry
SPECIFICATION Spec
INVARIANTS OneAuthority
PROPERTIES FreshEpochs
CHECK_DEADLOCK FALSE
