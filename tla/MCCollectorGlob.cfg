SPECIFICATION CollectorSpec
CONSTANTS
    url = url
    stdin = stdin
    file = file
    dir = dir
    glob = glob
    page = page
    piped = piped
    named = named
    d1 = d1
    d2 = d2
    dBroken = dBroken
    dBinary = dBinary
    g1 = g1
    gLink = gLink
    gBroken = gBroken
    Inputs = {stdin, dir, glob}
    Docs = {piped, d1, g1, gLink, gBroken}
    Kind <- MCKind
    Doc <- MCDoc
    Unopenable = {dir}
    Unreliable = {piped, d1, g1}
    Unlocatable = {g1}
    Selections <- Selection
INVARIANT GlobErrorsInStream
