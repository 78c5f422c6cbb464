SPECIFICATION ProgramSpec
CONSTANTS
    Lower <- MCLower
    MIN = 100
    MAX = 999
    Setups <- MCTwice
    Invalid <- MCInvalid
    BASELINE_OVERHEAD = 20
    MaxRemovals = 1
INVARIANT HeadersInOrder
CHECK_DEADLOCK FALSE
