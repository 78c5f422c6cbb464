CONSTANTS
    c1 = c1
    c2 = c2
    c3 = c3
    u = u
    v = v
    Calls = {c1, c2, c3}
    Uris = {u, v}
    UriOf <- MCUriOf
    NeedsBody = {c2}
    Codes = {200, 404, 429, 503}
    Asked = {0, 4}
    lower = lower
    upper = upper
    Setups <- MCSetups
    Spellings = {lower, upper}
    HostKey = lower
    DEFAULT_CONCURRENCY = 3
    DEFAULT_REQUEST_INTERVAL = 0
    FirstBackoff = 1
    LimitedCap = 2
    ServerStep = 1
    ServerCap = 1
    MAXIMUM_BACKOFF = 3
SPECIFICATION FairSpec
PROPERTY OwnTableHonoured
