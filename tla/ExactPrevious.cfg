SPECIFICATION Spec
CONSTANTS
    good = good
    bad = bad
    fair = fair
    h1 = h1
    h2 = h2
    NoRelease = NoRelease
    Releases <- ThreeReleases
    Spiking <- TwoSpiking
    Hooks <- TwoHooks
    MinCurrent = 1
    MaxCurrent = 1
    MinPrior = 1
    MaxRecords = 2
    MaxSets = 2
    MaxClock = 3
SYMMETRY Interchangeable
PROPERTIES
    MovesToPrevious
