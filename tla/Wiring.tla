-------------------------------- MODULE Wiring --------------------------------
(***************************************************************************)
(* What services hold of one another on a host: networks of providers in   *)
(* quadlets, routes in the proxy's Caddyfile, clients in the identity      *)
(* provider's configuration, scrape targets in the metrics store and       *)
(* datasources in the dashboard.  `ryra add`, `ryra remove`, `ryra config` *)
(* and `ryra upgrade` plan against the files as they are, then execute the *)
(* plan step by step; a step may fail, the command may be killed, and the  *)
(* machine may reboot.  Commands run one at a time (MutationLock).         *)
(*                                                                         *)
(* Left out: the rest of a service's own files (UpgradeFiles), blue/green  *)
(* slots (BlueGreen), the tailnet (Tailnet).                               *)
(***************************************************************************)
EXTENDS Naturals, Sequences, FiniteSets, SequencesExt

CONSTANTS
    Services,
    Proxy, Idp, Relay, Store, Dash,  \* the provider of each capability
    Metrics,      \* services that declare a [metrics] endpoint
    HostNet,      \* those whose endpoint is on the host's own network
    Native,       \* services with the native runtime
    Scenes,       \* what the registry offers: sets of services
    Requests,     \* per service: the records `ryra add` may ask for
    Commands,     \* the commands a run admits
    MaxCommands,  \* bound: commands that are begun
    MaxFaults     \* bound: failures, kills and reboots

Providers == {Proxy, Idp, Relay, Store, Dash}
Hosts == {"a", "b"}                     \* hostnames behind the proxy
Urls == Hosts \cup {"tailnet", "none"}
Record == [url : Urls, auth : BOOLEAN, smtp : BOOLEAN]

Nothing == [url |-> "none", auth |-> FALSE, smtp |-> FALSE]
NoQuadlet == [networks |-> {}, present |-> FALSE]
Joining(networks) == [networks |-> networks, present |-> TRUE]
NoFile == << >>

ASSUME WiringConstants ==
    /\ Providers \subseteq Services /\ IsInjective(<<Proxy, Idp, Relay, Store, Dash>>)
    /\ IsFiniteSet(Services)
    /\ Metrics \subseteq Services /\ HostNet \subseteq Metrics
    /\ Native \subseteq Services \ Providers
    /\ Scenes \subseteq SUBSET Services /\ Scenes # {}
    /\ Requests \in [Services -> SUBSET Record]
    /\ Commands \subseteq {"add", "remove", "configure", "upgrade", "reset"}
    /\ MaxCommands \in Nat /\ MaxFaults \in Nat

VARIABLES
    offered,    \* the scene
    home,       \* services whose home directory exists
    record,     \* per service: metadata.toml
    recorded,   \* services that have a metadata.toml
    quadlet,    \* per service: its unit file and the networks it names
    running,    \* per service: the networks its container runs on
    caddyfile,  \* per service: the host routed to it, or NoFile
    clients,    \* per service: URLs registered as redirects, or NoFile
    snippet,    \* tls.caddy is as it was seeded, or as its owner left it
    targets,    \* services with a scrape target in the store
    sources,    \* dashboards with a datasource for the store
    listed,     \* per service: what its manifest lists beyond its own render
    prefs,      \* preferences.toml: [auth] is set, [smtp] names the relay
    job,        \* the running command
    plan,       \* its steps that are left
    cut,        \* history: services a command was cut short on
    stranded,   \* history: services that named a network as it was taken down
    robbed,     \* history: services that lost a file to another's re-render
    doubled,    \* history: services whose plan wrote the Caddyfile twice
    before,     \* history: the wiring of the others when the add was planned
    commands, faults

files == <<home, record, recorded, quadlet, caddyfile, clients, snippet, targets,
           sources, listed>>
history == <<cut, stranded, robbed, before>>   \* all but doubled
vars == <<offered, files, running, prefs, job, plan, history, doubled, commands, faults>>

NoJob == [kind |-> "none", service |-> Proxy, request |-> Nothing]
Off == NoQuadlet

Init ==
    /\ offered \in Scenes
    /\ home = {} /\ recorded = {}
    /\ record = [s \in Services |-> Nothing]
    /\ quadlet = [s \in Services |-> NoQuadlet]
    /\ running = [s \in Services |-> Off]
    /\ caddyfile = NoFile /\ clients = NoFile /\ snippet = FALSE
    /\ targets = {} /\ sources = {}
    /\ listed = [s \in Services |-> {}]
    /\ prefs = [auth |-> FALSE, smtp |-> FALSE]
    /\ job = NoJob /\ plan = << >>
    /\ cut = {} /\ stranded = {} /\ robbed = {} /\ doubled = {} /\ before = << >>
    /\ commands = 0 /\ faults = 0

(***************************************************************************)
(* What the planner reads.                                                 *)
(***************************************************************************)

\* A managed unit file and an install record: one without the other is not
\* an installed service.
Installed(s) == quadlet[s].present /\ s \in recorded

Routed(r) == r.url \in Hosts

\* enumerate_service: something of s is on disk.
Leftover(s) == s \in home \/ quadlet[s].present

\* systemd starts a unit if every network it names has its own unit.
Startable(s) ==
    quadlet[s].present /\ \A n \in quadlet[s].networks : quadlet[n].present

Step(op, s, v) == [op |-> op, of |-> s, val |-> v]
When(c, steps) == IF c THEN steps ELSE << >>

\* One step per member, in some order (a read_dir, or a sorted listing).
ForEach(S, Steps(_)) == FlattenSeq([i \in 1..Cardinality(S) |-> Steps(SetToSeq(S)[i])])

\* wants_metrics: a container on the host's network cannot join a bridge.
Bridged(s) == s \in Metrics \ HostNet \/ s = Dash

\* resolve_extra_networks, for what is installed now.
ExtraNetworks(s, r) ==
    {n \in {Idp, Relay, Proxy, Store} \ {s} :
        /\ Installed(n)
        /\ \/ n = Idp /\ r.auth
           \/ n = Relay /\ r.smtp
           \/ n = Proxy /\ (r.url # "none" \/ r.auth \/ s = Relay)
           \/ n = Store /\ Bridged(s)}

\* A variant that cuts to the end of the file.
WithoutTail(s) == [t \in Services |-> IF t = Idp THEN caddyfile[t] ELSE "none"]

\* add_route and remove_route on the file as it is on disk.
WithRoute(s, host) == [caddyfile EXCEPT ![s] = host]
WithoutRoute(s) == [caddyfile EXCEPT ![s] = "none"]

RouteSteps(s, r) ==
    When(Routed(r) /\ s # Proxy /\ Installed(Proxy),
         << Step("caddyfile", Proxy, WithRoute(s, r.url)) >>)

\* ensure_auth_provider_routed: Caddy joins the provider's network under its
\* hostname, and serves it.
IssuerSteps ==
    When(Installed(Proxy) /\ record[Idp].url # "none",
         LET joined == Idp \in quadlet[Proxy].networks
             served == caddyfile[Idp] # "none" IN
         When(~joined, << Step("quadlet", Proxy, quadlet[Proxy].networks \cup {Idp}) >>)
         \o When(~served, << Step("caddyfile", Proxy, WithRoute(Idp, record[Idp].url)) >>)
         \o When(~joined \/ ~served, << Step("restart", Proxy, {}) >>))

\* register_oidc_client with a new client_id, or with the one already there.
RegisterSteps(s, url) ==
    << Step("clients", Idp, [clients EXCEPT ![s] = @ \cup {url}]),
       Step("restart", Idp, {}) >> \o IssuerSteps
ReregisterSteps(s, url) ==
    << Step("clients", Idp, [clients EXCEPT ![s] = IF @ = {} THEN {url} ELSE @]),
       Step("restart", Idp, {}) >> \o IssuerSteps

\* A remove that forgets the client.
UnregisterNothing(s) == << >>

UnregisterSteps(s) ==
    When(clients # NoFile /\ clients[s] # {},
         << Step("clients", Idp, [clients EXCEPT ![s] = {}]),
            Step("restart", Idp, {}) >>)

\* network_join_steps: nothing at all if the quadlet names the network already,
\* or if s is native and has no quadlet.
JoinSteps(s, n) ==
    When(s \notin Native /\ n \notin quadlet[s].networks,
         << Step("quadlet", s, quadlet[s].networks \cup {n}), Step("restart", s, {}) >>)

\* A variant that joins services with any URL but a routed one.
RetroJoinsTailnet(s) ==
    ForEach({t \in Services \ Providers :
                /\ Installed(t)
                /\ \/ s = Relay /\ record[t].smtp
                   \/ s = Proxy /\ record[t].url = "tailnet"},
            LAMBDA t : JoinSteps(t, s))

\* retroactive_network_joins, of the services installed before a provider.
RetroJoins(s) ==
    LET wants(t) == \/ s = Proxy /\ Routed(record[t])
                    \/ s = Relay /\ record[t].smtp
    IN ForEach({t \in Services \ Providers : Installed(t) /\ wants(t)},
               LAMBDA t : JoinSteps(t, s))

\* The consumer's side: its target or datasource in the installed store.
ConsumerSteps(s) ==
    When(Installed(Store) /\ s \in Metrics, << Step("target", s, TRUE) >>)
    \o When(Installed(Store) /\ s = Dash, << Step("source", s, TRUE) >>)

\* An install of the store that looks at nobody.
RetroNothing(s) == << >>

\* retroactive_metrics_wiring: one on the host's network gets its target and
\* does not join; a dashboard is restarted even if it has joined already.
RetroMetrics(s) ==
    When(s = Store,
         ForEach({t \in Metrics \ {s} : Installed(t)},
                 LAMBDA t : << Step("target", t, TRUE) >>
                            \o When(t \notin HostNet, JoinSteps(t, Store)))
         \o When(Installed(Dash),
                 << Step("source", Dash, TRUE) >> \o JoinSteps(Dash, Store)
                 \o When(Store \in quadlet[Dash].networks, << Step("restart", Dash, {}) >>)))

\* The files a plan writes that are not of the service's own render; the
\* manifest lists them all the same.
FileOf(step) == << step.op, step.of >>
Written(steps, s) ==
    {FileOf(step) : step \in
        {x \in ToSet(steps) : /\ x.op \in {"quadlet", "caddyfile", "clients", "snippet",
                                           "target", "source"}
                              /\ ~(x.op = "quadlet" /\ x.of = s)}}

OwnFiles(s, r) == << Step("quadlet", s, ExtraNetworks(s, r)), Step("record", s, r) >>

WiringSteps(s, r) ==
    When(r.auth, RegisterSteps(s, r.url)) \o RouteSteps(s, r)
    \o RetroJoins(s) \o ConsumerSteps(s) \o RetroMetrics(s)
    \o When(s = Proxy, << Step("snippet", Proxy, TRUE) >>)

Settled(s, steps) == << Step("manifest", s, Written(steps, s)), Step("start", s, {}) >>

PodmanAdd(s, r) ==
    OwnFiles(s, r) \o WiringSteps(s, r) \o Settled(s, WiringSteps(s, r))

\* build_native_add: a record and a unit, no network, no client and no scrape
\* target, and the route after the start.
NativeAdd(s, r) ==
    << Step("record", s, r), Step("quadlet", s, {}), Step("start", s, {}) >>
    \o RouteSteps(s, r)

AddPlan(s, r) == IF s \in Native THEN NativeAdd(s, r) ELSE PodmanAdd(s, r)

\* What add_service and its helpers refuse: auth without a provider in the
\* preferences, or without a proxy before a provider that has a URL; a route in
\* a Caddyfile that cannot be read; a client without the provider's
\* configuration or a URL.
AuthReady(r) ==
    r.auth => /\ prefs.auth
              /\ Installed(Idp) /\ record[Idp].url # "none" => Installed(Proxy)
Routable(s, r) ==
    Installed(Proxy) /\ (r.auth \/ (Routed(r) /\ s # Proxy)) => caddyfile # NoFile
Plannable(s, r) == AuthReady(r) /\ Routable(s, r) /\ (r.smtp => prefs.smtp)
Registrable(r) == r.auth => clients # NoFile /\ r.url # "none"

(***************************************************************************)
(* remove_service, remove_native_service and orphan_purge_steps.           *)
(***************************************************************************)
PodmanRemove(s, last) ==
    << Step("takedown", s, {}) >>
    \o When(s # Proxy /\ Routed(record[s]) /\ caddyfile # NoFile
              /\ caddyfile[s] # "none",
            << Step("caddyfile", Proxy, WithoutRoute(s)) >>)
    \o When(s # Idp /\ record[s].auth, UnregisterSteps(s))
    \o When(Installed(Store) /\ s # Store /\ s \in targets,
            << Step("target", s, FALSE) >>)
    \o When(s = Store /\ Installed(Dash) /\ Dash \in sources,
            << Step("source", Dash, FALSE), Step("restart", Dash, {}) >>)
    \o << Step(last, s, {}) >>

NativeRemove(s, last) == << Step("takedown", s, {}), Step(last, s, {}) >>

RemovePlan(s, last) ==
    IF s \in Native THEN NativeRemove(s, last) ELSE PodmanRemove(s, last)

OrphanPurge(s) ==
    When(quadlet[s].present /\ s \notin Native, << Step("takedown", s, {}) >>)
    \o << Step("purge", s, {}) >>

(***************************************************************************)
(* `ryra config` and `ryra upgrade`: the service is planned again, without *)
(* the steps an add takes in other services' files; what the manifest      *)
(* lists and the new plan does not write is deleted.                       *)
(***************************************************************************)
Rerendered(s, r) ==
    When(quadlet[s].networks # ExtraNetworks(s, r),
         << Step("quadlet", s, ExtraNetworks(s, r)) >>)
    \o When(record[s] # r, << Step("record", s, r) >>)
    \o RouteSteps(s, r)

Dropped(s, r) == listed[s] \ Written(Rerendered(s, r), s)

DropSteps(s, r) == ForEach(Dropped(s, r), LAMBDA f : << Step("drop", s, f) >>)

LeavesProxy(s, r) ==
    When(Routed(record[s]) /\ ~Routed(r) /\ Installed(Proxy) /\ s # Proxy
           /\ caddyfile # NoFile /\ caddyfile[s] # "none",
         << Step("caddyfile", Proxy, WithoutRoute(s)) >>)

Manifest(s, r) == Step("manifest", s, Written(Rerendered(s, r), s))

ConfigurePlan(s, r) ==
    LET was == record[s] IN
    Rerendered(s, r) \o << Manifest(s, r) >> \o DropSteps(s, r) \o LeavesProxy(s, r)
    \o When(was.auth /\ (~r.auth \/ was.url # r.url), UnregisterSteps(s))
    \o When(r.auth /\ ~was.auth, RegisterSteps(s, r.url))
    \o When(r.auth /\ was.auth /\ was.url # r.url, ReregisterSteps(s, r.url))
    \o << Step("restart", s, {}) >>

UpgradePlan(s) ==
    Rerendered(s, record[s]) \o << Manifest(s, record[s]) >>
    \o DropSteps(s, record[s]) \o << Step("restart", s, {}) >>

\* `ryra reset`: units found by their marker, or by the record of a native
\* install, then the whole data root; a container whose unit file is gone is
\* not found.
Managed == {s \in Services : IF s \in Native THEN s \in recorded ELSE quadlet[s].present}

ResetPlan == ForEach(Managed, LAMBDA s : << Step("takedown", s, {}) >>)
             \o << Step("wipe", Proxy, {}) >>

(***************************************************************************)
(* Commands.                                                               *)
(***************************************************************************)
Idle == job.kind = "none"

Begin(kind, s, r, steps) ==
    /\ job' = [kind |-> kind, service |-> s, request |-> r]
    /\ plan' = steps
    /\ doubled' = IF Cardinality({i \in DOMAIN steps : steps[i].op = "caddyfile"}) > 1
                  THEN doubled \cup {s} ELSE doubled

\* The wiring of every service but s; the issuer's vhost a registration may add.
RouteOf(t) == IF caddyfile = NoFile THEN "none" ELSE caddyfile[t]
ClientOf(t) == IF clients = NoFile THEN {} ELSE clients[t]

OthersWiring(s) ==
    [routes |-> [t \in Services \ {s, Idp} |-> RouteOf(t)],
     clients |-> [t \in Services \ {s} |-> ClientOf(t)],
     targets |-> targets \ {s},
     sources |-> sources \ {s},
     records |-> [t \in Services \ {s} |-> record[t]]]

\* Planning succeeds: preferences are saved, then the steps run.
PlanAdd(s, r) ==
    /\ Begin("add", s, r, AddPlan(s, r))
    /\ prefs' = [prefs EXCEPT !.auth = @ \/ s = Idp]
    /\ before' = OthersWiring(s)

CanAdd(s, r) == Plannable(s, r) /\ (s \in Native \/ Registrable(r))

BeginAdd(s, r) ==
    /\ Idle /\ commands < MaxCommands /\ commands' = commands + 1
    /\ ~Installed(s) /\ ~Leftover(s)
    /\ CanAdd(s, r) /\ PlanAdd(s, r)
    /\ UNCHANGED <<offered, files, running, cut, stranded, robbed, faults>>

\* ServiceIncomplete: what is left of s is purged before the add is planned.
RecoverAdd(s, r) ==
    /\ Idle /\ commands < MaxCommands /\ commands' = commands + 1
    /\ ~Installed(s) /\ Leftover(s)
    /\ Begin("recover", s, r, OrphanPurge(s))
    /\ UNCHANGED <<offered, files, running, prefs, history, faults>>

RetryAdd ==
    LET s == job.service r == job.request IN
    /\ job.kind = "recover" /\ plan = << >>
    /\ \/ CanAdd(s, r) /\ PlanAdd(s, r)
       \/ /\ ~CanAdd(s, r)
          /\ job' = NoJob /\ UNCHANGED <<plan, prefs, before, doubled>>
    /\ UNCHANGED <<offered, files, running, cut, stranded, robbed, commands, faults>>

BeginRemove(s, last) ==
    /\ Idle /\ commands < MaxCommands /\ commands' = commands + 1
    /\ Installed(s)
    /\ Begin("remove", s, Nothing, RemovePlan(s, last))
    /\ UNCHANGED <<offered, files, running, prefs, history, faults>>

\* `ryra remove --purge` of what is not installed.
BeginPurge(s) ==
    /\ Idle /\ commands < MaxCommands /\ commands' = commands + 1
    /\ ~Installed(s) /\ Leftover(s)
    /\ Begin("remove", s, Nothing, OrphanPurge(s))
    /\ UNCHANGED <<offered, files, running, prefs, history, faults>>

\* `ryra config` applies what the user asks for, and nothing else.
Changes(s, r) == r # record[s]

BeginConfigure(s, r) ==
    /\ Idle /\ commands < MaxCommands /\ commands' = commands + 1
    /\ Installed(s) /\ s \notin Native \cup {Idp} /\ Changes(s, r)
    /\ Plannable(s, r)
    /\ r.auth /\ (~record[s].auth \/ record[s].url # r.url) => Registrable(r)
    /\ Begin("configure", s, r, ConfigurePlan(s, r))
    /\ UNCHANGED <<offered, files, running, prefs, history, faults>>

BeginUpgrade(s) ==
    /\ Idle /\ commands < MaxCommands /\ commands' = commands + 1
    /\ Installed(s) /\ s \notin Native \cup {Idp} /\ Plannable(s, record[s])
    /\ Begin("upgrade", s, record[s], UpgradePlan(s))
    /\ UNCHANGED <<offered, files, running, prefs, history, faults>>

\* `ryra reset`, confirmed; the service of the job is of no account.
BeginReset ==
    /\ Idle /\ commands < MaxCommands /\ commands' = commands + 1
    /\ Begin("reset", Proxy, Nothing, ResetPlan)
    /\ UNCHANGED <<offered, files, running, prefs, history, faults>>

(***************************************************************************)
(* execute_all: one step after the other.                                  *)
(***************************************************************************)
At(op) == plan # << >> /\ Head(plan).op = op
Of == Head(plan).of
Val == Head(plan).val
Next1 == /\ plan' = Tail(plan)
         /\ UNCHANGED <<offered, prefs, job, before, doubled, commands, faults>>

NoRoutes == [s \in Services |-> "none"]

WriteQuadlet ==
    /\ At("quadlet") /\ Next1
    /\ quadlet' = [quadlet EXCEPT ![Of] = Joining(Val)]
    /\ home' = home \cup {Of}
    /\ UNCHANGED <<record, recorded, caddyfile, clients, snippet, targets, sources, listed,
                   running, cut, stranded, robbed>>

\* metadata.toml; the provider's own configuration comes with its files.
WriteRecord ==
    /\ At("record") /\ Next1
    /\ record' = [record EXCEPT ![Of] = Val] /\ recorded' = recorded \cup {Of}
    /\ home' = home \cup {Of}
    /\ clients' = IF Of = Idp THEN [s \in Services |-> {}] ELSE clients
    /\ UNCHANGED <<quadlet, caddyfile, snippet, targets, sources, listed,
                   running, cut, stranded, robbed>>

\* A file in another service's home, written as a whole.
WriteShared ==
    /\ plan # << >> /\ Head(plan).op \in {"caddyfile", "clients", "snippet", "target", "source"}
    /\ Next1
    /\ caddyfile' = IF At("caddyfile") THEN Val ELSE caddyfile
    /\ clients' = IF At("clients") THEN Val ELSE clients
    /\ snippet' = IF At("snippet") THEN Val ELSE snippet
    /\ targets' = IF At("target") THEN {t \in targets : t # Of} \cup {t \in {Of} : Val}
                  ELSE targets
    /\ sources' = IF At("source") THEN {d \in {Of} : Val} ELSE sources
    /\ UNCHANGED <<home, record, recorded, quadlet, listed, running, cut, stranded, robbed>>

WriteManifest ==
    /\ At("manifest") /\ Next1
    /\ listed' = [listed EXCEPT ![Of] = Val]
    /\ UNCHANGED <<home, record, recorded, quadlet, caddyfile, clients, snippet, targets,
                   sources, running, cut, stranded, robbed>>

\* StartService and RestartService; Caddy seeds a Caddyfile it does not find.
Start ==
    /\ (At("start") \/ At("restart")) /\ Startable(Of) /\ Next1
    /\ running' = [running EXCEPT ![Of] = quadlet[Of]]
    /\ caddyfile' = IF Of = Proxy /\ caddyfile = NoFile THEN NoRoutes ELSE caddyfile
    /\ stranded' = stranded \ {Of}
    /\ UNCHANGED <<home, record, recorded, quadlet, clients, snippet, targets, sources,
                   listed, cut, robbed>>

\* Stop the units, unlink the quadlets, reload, remove the network.
TakeDown ==
    /\ At("takedown") /\ Next1
    /\ running' = [running EXCEPT ![Of] = Off]
    /\ quadlet' = [quadlet EXCEPT ![Of] = NoQuadlet]
    /\ stranded' = (stranded \cup {t \in Services : Of \in quadlet[t].networks}) \ {Of}
    /\ UNCHANGED <<home, record, recorded, caddyfile, clients, snippet, targets, sources,
                   listed, cut, robbed>>

\* RemoveFile of what the manifest listed and the plan does not write.
DropFile ==
    /\ At("drop") /\ Next1
    /\ LET file == Val[1] t == Val[2] IN
       /\ quadlet' = IF file = "quadlet" THEN [quadlet EXCEPT ![t] = NoQuadlet] ELSE quadlet
       /\ caddyfile' = IF file = "caddyfile" THEN NoFile ELSE caddyfile
       /\ clients' = IF file = "clients" THEN NoFile ELSE clients
       /\ snippet' = (snippet /\ file # "snippet")
       /\ targets' = IF file = "target" THEN targets \ {t} ELSE targets
       /\ sources' = IF file = "source" THEN {} ELSE sources
       /\ robbed' = robbed \cup {t}
            \cup (IF file = "clients" THEN {s \in Services : clients # NoFile /\ clients[s] # {}}
                  ELSE {})
       /\ stranded' = IF file = "quadlet"
                      THEN stranded \cup {s \in Services : t \in quadlet[s].networks}
                      ELSE stranded
    /\ UNCHANGED <<home, record, recorded, listed, running, cut>>

\* The home directory goes, or only what is not data in it.
ClearHome ==
    /\ (At("purge") \/ At("preserve")) /\ Next1
    /\ LET keep == At("preserve")
           kept(file) == keep /\ ~\E f \in listed[Of] : f[1] = file IN
       /\ home' = IF keep THEN home ELSE home \ {Of}
       /\ recorded' = IF keep /\ Of \in Native THEN recorded ELSE recorded \ {Of}
       /\ record' = IF keep /\ Of \in Native THEN record
                    ELSE [record EXCEPT ![Of] = Nothing]
       /\ caddyfile' = IF Of = Proxy THEN NoFile ELSE caddyfile
       /\ snippet' = (snippet /\ Of # Proxy)
       /\ clients' = IF Of = Idp THEN NoFile ELSE clients
       /\ targets' = IF Of = Store /\ ~kept("target") THEN {} ELSE targets
       /\ sources' = IF Of = Dash /\ ~kept("source") THEN {} ELSE sources
       /\ listed' = [listed EXCEPT ![Of] = {}]
    /\ UNCHANGED <<quadlet, running, cut, stranded, robbed>>

\* RemoveDir of the data root: every home, and all that is kept in one.
Wipe ==
    /\ At("wipe") /\ Next1
    /\ home' = {} /\ recorded' = {} /\ record' = [s \in Services |-> Nothing]
    /\ caddyfile' = NoFile /\ clients' = NoFile /\ snippet' = FALSE
    /\ targets' = {} /\ sources' = {} /\ listed' = [s \in Services |-> {}]
    /\ UNCHANGED <<quadlet, running, cut, stranded, robbed>>

\* Nothing of s is left in the files of others.
Clean(s) ==
    /\ clients = NoFile \/ clients[s] = {}
    /\ s = Idp \/ caddyfile = NoFile \/ caddyfile[s] = "none"
    /\ s \notin targets /\ (s = Store => sources = {})

\* finalize_remove drops [auth]; an add of the relay by `--smtp` sets [smtp].
Finish ==
    /\ job.kind \notin {"none", "recover", "reset"} /\ plan = << >>
    /\ job' = NoJob
    /\ LET s == job.service removed == job.kind \in {"remove", "cleanup"} IN
       /\ prefs' = [auth |-> prefs.auth /\ ~(removed /\ s = Idp),
                    smtp |-> prefs.smtp \/ (job.kind = "add" /\ s = Relay)]
       /\ cut' = IF removed /\ Clean(s) THEN cut \ {s} ELSE cut
       /\ robbed' = IF removed /\ Clean(s) THEN robbed \ {s} ELSE robbed
       /\ doubled' = IF removed /\ Clean(s) THEN doubled \ {s} ELSE doubled
    /\ before' = << >>
    /\ UNCHANGED <<offered, files, running, plan, stranded, commands, faults>>

\* finalize_reset removes the preferences; what went wrong before is over.
FinalizeReset ==
    /\ job.kind = "reset" /\ plan = << >>
    /\ job' = NoJob /\ prefs' = [auth |-> FALSE, smtp |-> FALSE]
    /\ cut' = {} /\ robbed' = {} /\ doubled' = {}
    /\ UNCHANGED <<offered, files, running, plan, stranded, before, commands, faults>>

\* A unit cannot start, whatever the weather.
Stuck == (At("start") \/ At("restart")) /\ ~Startable(Of)

Fault == /\ faults' = IF Stuck THEN faults ELSE faults + 1
         /\ Stuck \/ faults < MaxFaults

\* A step of an add fails: the CLI purges what was installed.
AddFails ==
    /\ job.kind = "add" /\ plan # << >> /\ Fault
    /\ job.service \in recorded
    /\ job' = [job EXCEPT !.kind = "cleanup"]
    /\ plan' = RemovePlan(job.service, "purge")
    /\ UNCHANGED <<offered, files, running, prefs, history, doubled, commands>>

\* The command is killed, or a step fails and nothing cleans up, as when the
\* rpc runs it; a reset, even when only the preferences are left to remove.
CutShort ==
    /\ ~Idle /\ (plan # << >> \/ job.kind = "reset") /\ Fault
    /\ job' = NoJob /\ plan' = << >>
    /\ cut' = cut \cup (IF job.kind = "reset" THEN Services ELSE {job.service})
    /\ before' = << >>
    /\ UNCHANGED <<offered, files, running, prefs, stranded, robbed, doubled, commands>>

\* systemd --user starts what it can.
Reboot ==
    /\ Idle /\ faults < MaxFaults /\ faults' = faults + 1
    /\ running' = [s \in Services |-> IF Startable(s) THEN quadlet[s] ELSE Off]
    /\ caddyfile' = IF Startable(Proxy) /\ caddyfile = NoFile THEN NoRoutes ELSE caddyfile
    /\ UNCHANGED <<offered, home, record, recorded, quadlet, clients, snippet, targets,
                   sources, listed, prefs, job, plan, history, doubled, commands>>

Command ==
    \/ "reset" \in Commands /\ BeginReset
    \/ \E s \in offered :
        \/ "add" \in Commands /\ \E r \in Requests[s] : BeginAdd(s, r) \/ RecoverAdd(s, r)
        \/ "remove" \in Commands /\ BeginPurge(s)
        \/ "remove" \in Commands /\ \E last \in {"purge", "preserve"} : BeginRemove(s, last)
        \/ "configure" \in Commands /\ \E r \in Requests[s] : BeginConfigure(s, r)
        \/ "upgrade" \in Commands /\ BeginUpgrade(s)

Execute ==
    \/ WriteQuadlet \/ WriteRecord \/ WriteShared \/ WriteManifest
    \/ Start \/ TakeDown \/ DropFile \/ ClearHome \/ Wipe

Next == Command \/ RetryAdd \/ Execute \/ Finish \/ FinalizeReset \/ AddFails \/ CutShort \/ Reboot

Spec == Init /\ [][Next]_vars

(***************************************************************************)
(* Properties.                                                             *)
(***************************************************************************)
Files == {"quadlet", "caddyfile", "clients", "snippet", "target", "source"}
Networks == [networks : SUBSET Services, present : BOOLEAN]

\* The files have the shape the commands expect, in every reachable state.
TypeOK ==
    /\ offered \in Scenes
    /\ home \subseteq Services /\ recorded \subseteq home
    /\ record \in [Services -> Record]
    /\ quadlet \in [Services -> Networks] /\ running \in [Services -> Networks]
    /\ caddyfile = NoFile \/ caddyfile \in [Services -> Urls]
    /\ clients = NoFile \/ clients \in [Services -> SUBSET Urls]
    /\ snippet \in BOOLEAN
    /\ targets \subseteq Metrics /\ sources \subseteq {Dash}
    /\ listed \in [Services -> SUBSET (Files \X Services)]
    /\ cut \cup stranded \cup robbed \cup doubled \subseteq Services

Sound(s) == s \notin cut \cup robbed

\* Between commands nothing points at a service that is not there: a route, a
\* client, a target or a datasource belongs to an installed service with that
\* URL, that auth, that store, and [auth] names a provider that is installed.
\* Excused are services whose command was cut short or whose files another's
\* re-render took, the provider's own vhost, and native services, whose remove
\* knows of no route and of no target.
NoStaleWiring ==
    Idle =>
      /\ \A s \in Services : Sound(s) =>
          /\ caddyfile # NoFile /\ s \notin Native \cup {Idp} \cup doubled /\ caddyfile[s] # "none"
                => Installed(s) /\ record[s].url = caddyfile[s]
          /\ clients # NoFile => (clients[s] # {} => Installed(s) /\ record[s].auth)
          /\ s \in targets \ Native /\ Installed(Store) => Installed(s)
      /\ Dash \in sources /\ Sound(Store) /\ Sound(Dash) => Installed(Store) \/ ~Installed(Dash)
      /\ Sound(Idp) => (prefs.auth <=> Installed(Idp))

\* Whatever the order of installs, a container that is routed, sends mail or is
\* scraped through a bridge is on the network of the proxy, relay or store that
\* is installed, it runs with the networks its quadlet names, and it names none
\* whose provider is gone.  Those scraped on the host's network are not meant
\* to join, and native services have no container.  Excused are services that
\* named a provider's network when it was taken down, until they are started
\* again.
ConsumersJoined ==
    Idle => \A s \in Services \ Providers : Installed(s) /\ Sound(s) /\ s \notin Native => (
        /\ \A p \in {Proxy, Relay, Store} : Installed(p) /\ Sound(p)
              /\ ((p = Proxy /\ Routed(record[s])) \/ (p = Relay /\ record[s].smtp)
                \/ (p = Store /\ Bridged(s))) => p \in quadlet[s].networks
        /\ s \notin stranded =>
              Startable(s) /\ (running[s] = quadlet[s]
                               \/ \E p \in Providers : ~Sound(p)))

\* The store scrapes every installed container with metrics, on a bridge or on
\* the host's network, and the dashboard reads the store, whichever of them came
\* last.  Excused are native services: see NativesScraped.
MetricsWired ==
    Idle /\ Installed(Store) /\ Sound(Store) =>
        /\ \A s \in Metrics \ (Native \cup {Store}) :
              Installed(s) /\ Sound(s) => s \in targets
        /\ Installed(Dash) /\ Sound(Dash) =>
              Dash \in sources /\ Store \in quadlet[Dash].networks

\* An add that fails and is cleaned up leaves the routes, clients, targets,
\* datasources and records of every other service as it found them.
FailedAddUndone ==
    job.kind = "cleanup" /\ plan = << >> /\ Sound(job.service)
        => OthersWiring(job.service) = before /\ ~Leftover(job.service)

\* "a service that declares [metrics] gets a file_sd scrape target dropped into
\* the installed store" (lib.rs:1241), the native ones too.
NativesScraped ==
    Idle /\ Installed(Store) /\ Sound(Store) =>
        \A s \in Metrics \cap Native : Installed(s) /\ Sound(s) => s \in targets

\* "After first write ryra never touches it" (lib.rs:1277, of tls.caddy).
SnippetKept == Idle /\ Installed(Proxy) /\ Proxy \notin cut => snippet

\* A client's registered redirect follows the service's URL (configure.rs:736).
RedirectFollowsUrl ==
    Idle => \A s \in Services :
        Installed(s) /\ Sound(s) /\ s \notin Native /\ Sound(Idp) /\ clients # NoFile
          /\ record[s].auth /\ clients[s] # {} => record[s].url \in clients[s]

===============================================================================
