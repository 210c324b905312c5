SPECIFICATION Spec
CONSTANTS
    Proxy = caddy
    Idp = authelia
    Relay = inbucket
    Store = prometheus
    Dash = grafana
    app = app
    db = db
    site = site
    node = node
    Services <- MCServices
    Metrics = {db, node, site}
    HostNet = {node}
    Native = {site}
    Scenes <- MCScenes
    Requests <- MCRequests
    Commands = {"add", "remove", "configure", "upgrade", "reset"}
    MaxCommands = 5
    MaxFaults = 1
CHECK_DEADLOCK FALSE
INVARIANTS
    NoStaleWiring
    ConsumersJoined
    MetricsWired
    FailedAddUndone
