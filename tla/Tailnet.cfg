SPECIFICATION Spec
CONSTANTS
    m1 = m1
    m2 = m2
    x = x
    y = y
    z = z
    Machines = {m1, m2}
    Services = {"app"}
    Labels = {x, y, z}
    MaxCommands = 2
    MaxFaults = 1
    MaxRenames = 2
CHECK_DEADLOCK FALSE
INVARIANTS
    TailnetAgrees
PROPERTIES
    EventuallyRouted
