SPECIFICATION ProgramSpec
CONSTANTS
    Lower <- MCLower
    MIN = 100
    MAX = 999
    Setups <- MCSetups
    Invalid <- MCInvalid
    BASELINE_OVERHEAD = 20
    MaxRemovals = 1
INVARIANT AcceptedAsListed
CHECK_DEADLOCK FALSE
