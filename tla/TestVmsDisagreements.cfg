CONSTANTS
    Containers = {"c"}
    Sizes <- MCSizes
    MaxPublished = 2
    MaxFaults = 1
    Tests <- MCTests
    Adds <- MCAdds
    Implied <- MCImplied
    Browser = {"t2"}
    Memory <- MCMemory
    Images <- MCImages
    Selections <- MCSelections
    Parallel = 2
    Available <- MCAvailable
    Unknown = Unknown
    Keep = {"never", "always"}
    MaxRuns = 3
SPECIFICATION Spec
CHECK_DEADLOCK FALSE
INVARIANTS
    FreshVm
    MemoryKept
    Reprepared
PROPERTY CtrlCOrphansNothing
