CONSTANTS
    c1 = c1
    c2 = c2
    Calls = {c1, c2}
    Links <- MCLinks
    Paths <- MCPaths
    FileSystems <- MCFileSystems
    Configs <- MCConfigs
    Ids = {"", "a", "A", "b", "B", "top", "%"}
    Decoded <- MCDecoded
    Lower <- MCLower
    Phrases = {"words", "more"}
    WikiBase <- MCWikiBase
    MaxEdits = 1
SYMMETRY MCSymmetry
SPECIFICATION Spec
INVARIANT ResolvedExists
