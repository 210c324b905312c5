SPECIFICATION Spec
CONSTANTS
    Proxy = caddy
    Idp = authelia
    Relay = inbucket
    Store = prometheus
    Dash = grafana
    app = app
    db = db
    site = site
    node = node
    Services <- MCServices
    Metrics = {db, node, site}
    HostNet = {node}
    Native = {site}
    Scenes <- MCScenes
    Requests <- MCRequests
    Commands = {"add", "configure", "upgrade"}
    MaxCommands = 5
    MaxFaults = 0
CHECK_DEADLOCK FALSE
INVARIANTS
    NativesScraped
    SnippetKept
    RedirectFollowsUrl
