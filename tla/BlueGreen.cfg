SPECIFICATION SlotsSpec
CONSTANTS
    MaxVersion = 2
    Runtimes = {"podman", "native"}
    Routings = {TRUE, FALSE}
INVARIANTS
    OldSlotStopsLast
    FreshSlotRunsPlan
PROPERTIES
    ZeroDowntimeFromBlue
    LiveSlotUntouched
    DeployEnds

