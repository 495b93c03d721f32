SPECIFICATION Spec
CONSTANTS
    i1 = i1
    i2 = i2
    Invocations <- MCInvocations
    Packs <- MCPacks
    Pack <- MCPack
    Exempt = {"audit"}
    Calls <- MCCalls
    Call <- MCCall
    CorpusLimit = 1
    LogLimit = 1
    MaxRotated = 1
    MaxTroubles = 1
SYMMETRY Symmetry
INVARIANTS
    ResponseIsSeverest
    GateOrderHolds
    RecordsAreKept
CHECK_DEADLOCK FALSE
