SPECIFICATION Spec
CONSTANTS
    m1 = m1
    m2 = m2
    x = x
    y = y
    z = z
    Machines = {m1, m2}
    Services = {"app"}
    Labels = {x, y, z}
    MaxCommands = 1
    MaxFaults = 0
    MaxRenames = 0
CHECK_DEADLOCK FALSE
INVARIANT ApproverInPlace
