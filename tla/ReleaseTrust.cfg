SPECIFICATION Spec
CONSTANTS
    good = good
    bad = bad
    fair = fair
    h1 = h1
    h2 = h2
    NoRelease = NoRelease
    Releases <- ThreeReleases
    Spiking <- TwoSpiking
    Hooks <- TwoHooks
    MinCurrent = 1
    MaxCurrent = 1
    MinPrior = 0
    MaxRecords = 2
    MaxSets = 1
    MaxClock = 5
SYMMETRY Interchangeable
INVARIANTS
    TypeOK
    RollbacksAreAccounted
    PreviousIsExact
    ConvictedOnce
