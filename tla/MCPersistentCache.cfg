SPECIFICATION Spec
CONSTANTS
    t1 = t1
    t2 = t2
    t3 = t3
    a = a
    b = b
    f = f
    m = m
    x = x
    NoUri = NoUri
    Requests = {t1, t3}
    Uris = {a, b, f, m, x}
    Parts <- MCParts
    FalsePositives = {x}
    UriOf <- MCUriOf
    Outcomes <- MCOutcomes
    Configs <- MCConfigs
    Clock = {20, 21}
    Wrap = 100
    MaxRuns = 2
INVARIANT GreenIsEarned
INVARIANT ErrorsRechecked
INVARIANT ExcludedConsistently
INVARIANT SuccessesStored
