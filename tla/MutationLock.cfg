SPECIFICATION LockSpec
CONSTANTS
    p1 = p1
    p2 = p2
    p3 = p3
    r = r
    NoProcess = NoProcess
    Processes <- MCProcesses
    Resetters <- MCResetters
    f1 = f1
    f2 = f2
    f3 = f3
    f4 = f4
    Absent = Absent
    LockFiles <- MCLockFiles
    MaxDepth = 3
SYMMETRY Symmetry
INVARIANTS
    ExclusionUntilReset
    MutatingOwnsItsFile
PROPERTIES
    RefusedByAnother
    ImplementsMutex
