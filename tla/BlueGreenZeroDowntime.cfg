SPECIFICATION SlotsSpec
CONSTANTS
    MaxVersion = 2
    Runtimes = {"podman", "native"}
    Routings = {TRUE, FALSE}
PROPERTY
    ZeroDowntime
