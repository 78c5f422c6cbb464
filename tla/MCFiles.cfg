CONSTANTS
    url = url
    stdin = stdin
    file = file
    dir = dir
    glob = glob
    page = page
    piped = piped
    named = named
    d1 = d1
    d2 = d2
    dBroken = dBroken
    dBinary = dBinary
    g1 = g1
    gLink = gLink
    gBroken = gBroken
    Inputs = {url, stdin, file, dir, glob}
    Docs = {page, piped, named, d1, d2, dBroken, dBinary, g1, gLink, gBroken}
    Kind <- MCKind
    Doc <- MCDoc
    Unopenable = {file, dir}
    Unreliable = {page, piped, named, d1, g1}
    Unlocatable = {g1}
    Selections <- Selection
    c1 = c1
    c2 = c2
    Calls = {c1, c2}
    Links <- MCLinks
    Paths <- MCPaths
    FileSystems <- MCFileSystems
    Configs <- MCConfigs
    Ids = {"", "a", "A", "b", "B", "top", "%"}
    Decoded <- MCDecoded
    Lower <- MCLower
    Phrases = {"words", "more"}
    WikiBase <- MCWikiBase
    MaxEdits = 1
SYMMETRY MCSymmetry
SPECIFICATION AllSpec
INVARIANTS
    NothingSkippedSilently
    UserErrorAlone
    AcceptedHasTarget
    ExistingAccepted
    AnchorVerdicts
