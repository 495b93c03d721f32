SPECIFICATION Spec
CONSTANTS
    h1 = h1
    h2 = h2
    w1 = w1
    w2 = w2
    NoRun = NoRun
    NoCrash = NoCrash
    wd = wd
    Violations = {}
    Standing <- NeverStanding
    Runs <- MixedRuns
    Wrappers <- MixedWrappers
    PracticeRuns = {}
    ClosedRuns = {}
    PidOf <- OwnPid
    MaxCrashHistory = 2
    MaxFaults = 0
CHECK_DEADLOCK FALSE
INVARIANTS
    FailedExecIsRecorded
