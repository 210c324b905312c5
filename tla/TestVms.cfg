CONSTANTS
    Containers = {"c"}
    Sizes <- MCSizes
    MaxPublished = 2
    MaxFaults = 2
    Tests <- MCTests
    Adds <- MCAdds
    Implied <- MCImplied
    Browser = {"t2"}
    Memory <- MCMemory
    Images <- MCImages
    Selections <- MCSelections
    Parallel = 2
    Available <- MCAvailable
    Unknown = Unknown
    Keep = {"failed"}
    MaxRuns = 3
SPECIFICATION Spec
CHECK_DEADLOCK FALSE
INVARIANTS
    ImagesSound
    PlanKept
    StrangersAreOld
    NoOrphans
