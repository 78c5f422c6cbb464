CONSTANTS
    c1 = c1
    c2 = c2
    c3 = c3
    u = u
    v = v
    Calls = {c1, c2, c3}
    Uris = {u, v}
    UriOf <- MCUriOf
    NeedsBody = {c2}
    Codes = {200, 404, 429, 503}
    Asked = {0, 4}
    lower = lower
    upper = upper
    Setups <- MCSetups
    Spellings = {lower, upper}
    HostKey = lower
    DEFAULT_CONCURRENCY = 3
    DEFAULT_REQUEST_INTERVAL = 0
    FirstBackoff = 1
    LimitedCap = 2
    ServerStep = 1
    ServerCap = 1
    MAXIMUM_BACKOFF = 3
    t1 = t1
    t2 = t2
    t3 = t3
    anchor = anchor
    line = line
    page = page
    middle = middle
    end = end
    https = https
    circle = circle
    bad = bad
    NoUrl = NoUrl
    Nobody = Nobody
    Checks = {t1, t2, t3}
    Urls <- MCUrls
    UrlOf <- MCUrlOf
    PageOf <- MCPageOf
    NeedsText = {anchor, https}
    BadFragment = {https}
    Rewrite <- MCRewrite
    Unbuildable = {bad}
    HttpsOf <- MCHttpsOf
    Domain <- MCDomain
    Segments <- MCSegments
    Visibility <- MCVisibility
    GithubToken = TRUE
    RedirectTo <- MCRedirectTo
    Answers <- MCAnswers
    PluginAnswers <- MCPluginAnswers
    Accepted = {200}
    MaxRetries = 1
    MaxRedirects = 2
    RequireHttps = TRUE
SPECIFICATION AllSpec
INVARIANTS
    PermitsExact
    NoFetchWithAnswer
    
    BackoffHonoured
    HopsInOrder
    RetriesUsedUp
    HttpsPreferred
PROPERTIES
    ImplementsHostPromise
    LimitsAsPromised
    CallsReturn
    ChecksEnd
