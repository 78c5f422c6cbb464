CONSTANTS
    Lower <- MCLower
    MIN = 100
    MAX = 999
    Setups <- MCSetups
    Invalid <- MCInvalid
    BASELINE_OVERHEAD = 20
    MaxRemovals = 1
    Runs <- MCRuns
    r1 = r1
    r2 = r2
    r3 = r3
    r4 = r4
    Requests = {r1, r2, r3, r4}
    Fatal = {r4}
    Panicking = {r3}
    MaxConcurrency = 2
SPECIFICATION AllSpec
INVARIANTS
    OptionsInOrder
    ConfigErrorsExit3
    ClientAsSet
    CodesAsAsked
    RequestsPerHost
    NothingLeftWhenDone
    NoResponseLost
    UserErrorShown
    ExitCodeTells
    ReportShowsFailures
    SummaryAgrees
    ProgressComplete
    DumpTells
PROPERTIES CheckReturns ImplementsLinkCheck
