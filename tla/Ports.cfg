SPECIFICATION Spec
CONSTANTS
    caddy = caddy
    web = web
    app = app
    Services <- MCServices
    Proxy = caddy
    BlueGreen = {web}
    PortNames <- MCPortNames
    Declared <- MCDeclared
    Gated <- MCGated
    Range10000 = {10000, 10001, 10002}
    HostPorts = {3000}
    MaxCommands = 4
CHECK_DEADLOCK FALSE
INVARIANTS
    PortsApart
