SPECIFICATION Spec
CONSTANTS
    r1 = r1
    r2 = r2
    r3 = r3
    artifacts = artifacts
    crash = crash
    NoRelease = NoRelease
    NoRef = NoRef
    Releases <- ThreeReleases
    CrashIds <- StableAndOwnIds
    Thresholds <- TwoOrFour
    Default = 2
    MaxCounted = 2
    MaxEvents = 2
    MaxGeneration = 5
    MaxRollbacks = 2
    MaxCrashes = 2
SYMMETRY Interchangeable
INVARIANTS
    TypeOK
    QualificationIsExact
    CountedAfterRollbacks
    AuditMatchesState
PROPERTIES
    FailClosedIsSticky
