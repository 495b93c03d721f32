SPECIFICATION Spec
CONSTANTS
    h1 = h1
    h2 = h2
    w1 = w1
    w2 = w2
    NoRun = NoRun
    NoCrash = NoCrash
    wd = wd
    Violations = {wd}
    Standing <- MendedForLast
    Runs <- ReuseRuns
    Wrappers <- ReuseWrappers
    PracticeRuns <- ReuseWithPractice
    ClosedRuns <- ReuseWrappers
    PidOf <- ReusedPid
    MaxCrashHistory = 1
    MaxFaults = 1
CHECK_DEADLOCK FALSE
INVARIANTS
    TypeOK
    NoFalseCrash
    LossNeedsOverlap
    RecoveredIsReported
    EvidenceIsExact
    HaltPreventsExec
