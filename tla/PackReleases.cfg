SPECIFICATION ReleaseSpec
CONSTANTS
    Submitted <- AllTexts
    Words <- MCWords
    Directives = {"run"}
    Negators = {"do not"}
    Releases <- AllReleases
    MaxChain = 3
    PackQuestions <- AllPackQuestions
    Stem <- MCStem
    Basename <- MCBasename
    Calls <- MCCalls
    NewFiles <- MCNewFiles
    MaxChanges = 2
    Inquiries <- AllInquiries
    BaseName <- MCBaseName
    Assignments = {"v=1"}
    LastName <- MCLastName
    RuleIds = {"a"}
    Refs = {"v1", "v2", "latest"}
    Nil = Nil
    Loaded <- MCLoaded
    HandWritten <- MCHandWritten
    HandPlaces <- MCHandPlaces
    Cadence = 1
    Expiries = {1, 3}
    MaxDay = 2
    MaxWrites = 2
    Samples <- AllSamples
    RateUnit = 8
    MinReleases = 2
    MinRise = 5
    DefaultSigma = 3
    Processes = {p1, p2}
    DefaultSize = 2
    Sizes = {0, 1, 3}
    BypassLimit = 1
    MaxRuns = 3
    MaxEvaluations = 3
INVARIANTS
    TextGatesHold
    WeakeningIsReported
    PackToolsAgree
    RegressionSuitesHold
    OverridesAreBound
    DenyRatesHold
    TelemetryIsItsTrail
CHECK_DEADLOCK FALSE
