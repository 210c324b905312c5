SPECIFICATION Spec
CONSTANTS
    j1 = j1
    j2 = j2
    d1 = d1
    d2 = d2
    Nobody = Nobody
    Jobs <- MCJobs
    Files <- MCFiles
    Modes = {"daily", "manual"}
    Keep = 1
    MaxWrites = 1
    MaxSnapshots = 2
SYMMETRY Symmetry
INVARIANTS
    ColdSnapshotsConsistent
    NothingLingers
