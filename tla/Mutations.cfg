SPECIFICATION Spec
CONSTANTS
    p1 = p1
    p2 = p2
    a = a
    b = b
    Nobody = Nobody
    Procs <- MCProcs
    Services <- MCServices
    MaxBatch = 1
    EnrollPaths = {"cli"}
SYMMETRY Symmetry
INVARIANTS
    Settled
    EnrollmentSticks
PROPERTY
    OnlyOwnRoute
