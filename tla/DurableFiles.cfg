SPECIFICATION Spec
CONSTANTS
    p1 = p1
    p2 = p2
    p3 = p3
    pidA = pidA
    pidB = pidB
    First = First
    Bak = Bak
    NoFile = NoFile
    Fixed = Fixed
    NoOne = NoOne
    Invocations <- ThreeUpdates
    Pids <- TwoPids
    PidOf <- ReusedPid
    MaxFaults = 2
INVARIANTS
    TypeOK
    DocumentsAreDurable
    LossesHaveCauses
    SweepSparesLiveWriters
PROPERTIES
    DamageIsContained
    ImplementsAtomicDocument
    EveryUpdateEnds
