SPECIFICATION SetupSpec
CONSTANTS
    p = p
    q = q
    Procs = {p, q}
    Cadences = {"daily"}
    MaxCommands = 3
    MaxFaults = 1
    MaxPasswords = 3
    MaxTokens = 2
SYMMETRY Symmetry
CHECK_DEADLOCK FALSE
INVARIANT
    RecordedWorks
