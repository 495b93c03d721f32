SPECIFICATION Spec
CONSTANTS
    good = good
    bad = bad
    fair = fair
    h1 = h1
    h2 = h2
    NoRelease = NoRelease
    Releases <- ThreeReleases
    Spiking <- TwoSpiking
    Hooks <- OneHook
    MinCurrent = 1
    MaxCurrent = 1
    MinPrior = 1
    MaxRecords = 3
    MaxSets = 2
    MaxClock = 4
PROPERTIES
    CondemnedStaysOut
