CONSTANTS
    Services <- MCServices
    Native <- MCNative
    Volumes <- MCVolumes
    Tests <- MCTests
    Lifecycle = {"t1", "t3"}
    Script <- MCScript
    Selections <- MCPulling
    Rpc = FALSE
    MaxUser = 1
    MaxRuns = 2
    MaxFaults = 2
SPECIFICATION Spec
CHECK_DEADLOCK FALSE
INVARIANTS
    ServicesLeftUntouched
    LedgerTellsLeftovers
    NeverDeletesBlindly
