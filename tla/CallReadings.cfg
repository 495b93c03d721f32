SPECIFICATION ReadingSpec
CONSTANTS
    Scripts <- AllScripts
    Names <- MCNames
    Shells = {"sh"}
    Wrappers <- MCWrappers
    TakesOperand = {"timeout"}
    LongFlags = {"login"}
    MaxDepth = 2
    Payloads <- AllPayloads
    Questions <- AllQuestions
    Written <- Paths
INVARIANTS
    EveryCommandIsSeen
    CallsAreJudged
    VerdictIsExecuted
    GuardsJudgeTheTarget
CHECK_DEADLOCK FALSE
