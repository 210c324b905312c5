-------------------------------- MODULE Ports --------------------------------
(***************************************************************************)
(* Host ports of the services of one host.  `ryra add` resolves a port for *)
(* every [[ports]] entry, probing what is bound at that moment, and writes *)
(* them to the service's `.env`; a re-render (`ryra upgrade`, `ryra        *)
(* config`, with or without a service) pins what the `.env` holds and      *)
(* probes nothing.  A container publishes the ports its unit names when it *)
(* starts, if no other service and no process of the host is bound to      *)
(* them.  Commands run one at a time (MutationLock); the plan of an add    *)
(* and its start are two steps, and services and processes come and go     *)
(* between any two.                                                        *)
(*                                                                         *)
(* Left out: everything of a command that is not about ports (Wiring,      *)
(* UpgradeFiles), the swap of the slots in detail (BlueGreen).             *)
(***************************************************************************)
EXTENDS Naturals, SequencesExt

CONSTANTS
    Services,
    Proxy,        \* the service whose option is to bind low ports
    BlueGreen,    \* services with two slots
    PortNames,    \* what ports are called, the two slots' among them
    Declared,     \* per service and registry version: its [[ports]]
    Gated,        \* per service: the [[ports]] of an option that may be chosen
    Range10000,   \* what allocate_port_excluding draws from
    HostPorts,    \* ports that other processes of the host may bind
    MaxCommands   \* bound: commands that are begun

Entry == [name : PortNames, container : Nat, host : Nat]    \* host 0: not fixed

\* Of all versions, and of the option.
AllEntries(s) == (UNION {ToSet(Declared[s][v]) : v \in DOMAIN Declared[s]}) \cup ToSet(Gated[s])

Slots == {"http_blue", "http_green"}

\* A service with slots names its first port http, and none like a slot's.
ASSUME PortsConstants ==
    /\ Proxy \in Services /\ BlueGreen \subseteq Services \ {Proxy}
    /\ DOMAIN Declared = Services /\ DOMAIN Gated = Services
    /\ \A s \in Services : /\ Declared[s] \in Seq(Seq(Entry)) /\ Declared[s] # << >>
                          /\ Gated[s] \in Seq(Entry)
    /\ \A s \in BlueGreen :
          /\ \A v \in DOMAIN Declared[s] : \E e \in ToSet(Declared[s][v]) : e.name = "http"
          /\ \A e \in AllEntries(s) : e.name \notin Slots
    /\ Slots \cup {"http"} \subseteq PortNames
    /\ Range10000 \subseteq {p \in Nat : p >= 1024} /\ HostPorts \subseteq Nat
    /\ MaxCommands \in Nat

VARIABLES
    registry,   \* per service: the version the registry has
    lowPorts,   \* the sysctl lets rootless containers bind below 1024
    installed,  \* services that are installed
    env,        \* per service: SERVICE_PORT_<NAME> of its `.env`
    unit,       \* per service: the names its quadlet publishes
    chosen,     \* per service: its option is selected
    slot,       \* per service: the live slot
    bound,      \* per service: the ports its container holds
    host,       \* the ports that other processes hold
    adding,     \* the add that is planned and not done, or Nobody
    quiet,      \* history, per service: ports that were another's and not bound
                \* when this one's were resolved, or that nothing looked at
    blind,      \* history, per service: names a re-render resolved
    commands

files == <<env, unit, chosen>>
history == <<quiet, blind>>
vars == <<registry, lowPorts, installed, files, slot, bound, host, adding, history, commands>>

NoPorts == [n \in {} |-> 0]
Nobody == << >>
NoPort == 0                  \* the range is exhausted

Init ==
    /\ registry = [s \in Services |-> 1]
    /\ lowPorts = FALSE
    /\ installed = {}
    /\ env = [s \in Services |-> NoPorts]
    /\ unit = [s \in Services |-> {}]
    /\ chosen = [s \in Services |-> FALSE]
    /\ slot = [s \in Services |-> "http_blue"]
    /\ bound = [s \in Services |-> {}]
    /\ host = {} /\ adding = Nobody
    /\ quiet = [s \in Services |-> {}] /\ blind = [s \in Services |-> {}]
    /\ commands = 0

(***************************************************************************)
(* Planning.                                                               *)
(***************************************************************************)
PortsOf(ports) == {ports[n] : n \in DOMAIN ports}

\* list_installed: what the `.env` files hold.
Recorded == UNION {PortsOf(env[t]) : t \in installed}

\* is_port_in_use: whether a bind fails now.
InUse == host \cup UNION {bound[t] : t \in Services}

Entries(s, choice) == Declared[s][registry[s]] \o IF choice THEN Gated[s] ELSE << >>

\* A variant that trusts the probe alone.
FreeUnrecorded(claimed, busy) == Range10000 \ (claimed \cup busy)

Free(claimed, busy) == Range10000 \ (Recorded \cup claimed \cup busy)

\* allocate_port_excluding: the first that is free.
Allocate(claimed, busy) ==
    LET free == Free(claimed, busy) IN
    IF free = {} THEN NoPort ELSE CHOOSE p \in free : \A q \in free : p <= q

Claimable(port, claimed, busy) == port >= 1024 /\ port \notin claimed \cup busy

\* The pin, the fixed port, the container's own number, or one from the range.
PortFor(e, pins, claimed, busy) ==
    IF e.name \in DOMAIN pins THEN pins[e.name]
    ELSE IF e.host # 0 THEN e.host
    ELSE IF Claimable(e.container, claimed, busy) THEN e.container
    ELSE Allocate(claimed, busy)

With(ports, name, p) ==
    [n \in DOMAIN ports \cup {name} |-> IF n = name THEN p ELSE ports[n]]

\* One entry after the other; what one takes is claimed for the next.
Resolve(entries, pins, busy) ==
    LET upto[i \in 0 .. Len(entries)] ==
          IF i = 0 THEN [claimed |-> {e.host : e \in ToSet(entries)} \ {0}, ports |-> NoPorts]
          ELSE LET p == PortFor(entries[i], pins, upto[i - 1].claimed, busy) IN
               [claimed |-> upto[i - 1].claimed \cup {p},
                ports |-> With(upto[i - 1].ports, entries[i].name, p)]
    IN upto[Len(entries)]

\* The `direct` binding of the proxy, if the kernel allows it.
Lowered(s, choice, ports) ==
    IF s = Proxy /\ choice /\ lowPorts
    THEN [n \in DOMAIN ports |-> IF n = "http" /\ ports[n] = 8080 THEN 80 ELSE ports[n]]
    ELSE ports

\* The primary port is the blue slot's; green has one from the range.
Slotted(s, r, pins, busy) ==
    LET green == IF "http_green" \in DOMAIN pins THEN pins["http_green"]
                 ELSE Allocate(r.claimed, busy) IN
    IF s \in BlueGreen
    THEN With(With(r.ports, "http_blue", r.ports["http"]), "http_green", green)
    ELSE r.ports

\* What add_service resolves, of an add (no pins) or a re-render (no probe).
Resolved(s, choice, pins, busy) ==
    LET r == Resolve(Entries(s, choice), pins, busy) IN
    Slotted(s, [r EXCEPT !.ports = Lowered(s, choice, @)], pins, busy)

\* PortConflict and PortsExhausted.
Refused(ports, busy) == PortsOf(ports) \cap (busy \cup {NoPort}) # {}

Names(s, choice) == {e.name : e \in ToSet(Entries(s, choice))}

(***************************************************************************)
(* Units.                                                                  *)
(***************************************************************************)
\* What a restart publishes: the live slot's port, or the ports the quadlet
\* names; a name the `.env` lacks expands to nothing.
Publishes(s, names, ports) ==
    {ports[n] : n \in (IF s \in BlueGreen THEN {slot[s]} ELSE names) \cap DOMAIN ports}

Taken(s) == host \cup UNION {bound[t] : t \in Services \ {s}}
CanBind(s, ports) == ports \cap Taken(s) = {}

\* A unit that cannot bind is down.
Started(s, ports) == [bound EXCEPT ![s] = IF CanBind(s, ports) THEN ports ELSE {}]

Idle == adding = Nobody

Command == /\ Idle /\ commands < MaxCommands /\ commands' = commands + 1

(***************************************************************************)
(* History: what the properties excuse.                                    *)
(***************************************************************************)
\* The numbers a service may have by declaration, and not from the range.
Own(s) == {e.container : e \in AllEntries(s)} \cup {e.host : e \in AllEntries(s)} \cup {80}

\* The blue slot's port is the service's first.
Base(s, n) == IF s \in BlueGreen /\ n = "http_blue" THEN "http" ELSE n

\* What the definition, or `direct`, gives a name.
Fixed(s, n, p) ==
    \/ \E e \in AllEntries(s) : e.name = Base(s, n) /\ e.host = p
    \/ s = Proxy /\ n = "http" /\ p = 80

\* Two names have one port only for a reason.
Distinct(s, ports, excused) ==
    \A m, n \in DOMAIN ports :
       Base(s, m) # Base(s, n) /\ ports[m] = ports[n] =>
          \/ {Base(s, m), Base(s, n)} \cap excused # {}
          \/ Fixed(s, m, ports[m]) /\ Fixed(s, n, ports[m])

Quietly(s, ports) == quiet' = [quiet EXCEPT ![s] = @ \cup (ports \cap Own(s))]

Blindly(s, choice, ports) ==
    /\ Quietly(s, IF PortsOf(ports) \subseteq PortsOf(env[s]) THEN {} ELSE Recorded)
    /\ blind' = [blind EXCEPT ![s] = @ \cup (Names(s, choice) \ DOMAIN env[s])]

Forget(s) == quiet' = [quiet EXCEPT ![s] = {}] /\ blind' = [blind EXCEPT ![s] = {}]

(***************************************************************************)
(* Commands.                                                               *)
(***************************************************************************)
PlanAdd(s, choice) ==
    LET ports == Resolved(s, choice, NoPorts, InUse) IN
    /\ Command /\ s \notin installed
    /\ ~Refused(ports, InUse)
    /\ adding' = [service |-> s, ports |-> ports, choice |-> choice]
    /\ Quietly(s, Recorded \ InUse)
    /\ UNCHANGED <<registry, lowPorts, installed, files, slot, bound, host, blind>>

\* The quadlets and the record are written, then the `.env`.
WriteAdd(s, ports) ==
    /\ ~Idle /\ s = adding.service
    /\ installed' = installed \cup {s}
    /\ env' = [env EXCEPT ![s] = ports]
    /\ unit' = [unit EXCEPT ![s] = Names(s, adding.choice)]
    /\ chosen' = [chosen EXCEPT ![s] = adding.choice]
    /\ slot' = [slot EXCEPT ![s] = "http_blue"]
    /\ adding' = Nobody
    /\ UNCHANGED <<registry, lowPorts, host, history, commands>>

\* Of an add only the blue slot starts.
FinishAdd(s) ==
    LET ports == IF s \in BlueGreen THEN {adding.ports["http_blue"]} ELSE PortsOf(adding.ports) IN
    /\ WriteAdd(s, adding.ports)
    /\ CanBind(s, ports) /\ bound' = Started(s, ports)

\* The command is killed, or fails over the rpc, before the `.env` or the start.
CutAdd(s) ==
    /\ WriteAdd(s, adding.ports) \/ WriteAdd(s, NoPorts)
    /\ UNCHANGED bound

\* The unit cannot start, or another step fails: the install is purged.
FailAdd ==
    /\ ~Idle /\ adding' = Nobody /\ Forget(adding.service)
    /\ UNCHANGED <<registry, lowPorts, installed, files, slot, bound, host, commands>>

RemoveService(s) ==
    /\ Command /\ s \in installed
    /\ installed' = installed \ {s}
    /\ env' = [env EXCEPT ![s] = NoPorts] /\ unit' = [unit EXCEPT ![s] = {}]
    /\ chosen' = [chosen EXCEPT ![s] = FALSE] /\ slot' = [slot EXCEPT ![s] = "http_blue"]
    /\ bound' = [bound EXCEPT ![s] = {}]
    /\ Forget(s)
    /\ UNCHANGED <<registry, lowPorts, host, adding>>

\* read_existing_ports: every port the `.env` holds is pinned.
Pins(s) == env[s]

\* What a re-render resolves, without looking.
Rerendered(s, choice) == Resolved(s, choice, Pins(s), {})

\* `ryra upgrade`, restart strategy: the quadlets are written, the `.env` gains
\* static variables only, and no port.
Upgrade(s) ==
    /\ Command /\ s \in installed \ BlueGreen
    /\ unit[s] # Names(s, chosen[s])
    /\ ~Refused(Rerendered(s, chosen[s]), {})
    /\ unit' = [unit EXCEPT ![s] = Names(s, chosen[s])]
    /\ bound' = Started(s, Publishes(s, unit'[s], env[s]))
    /\ UNCHANGED <<registry, lowPorts, installed, env, chosen, slot, host, adding, history>>

\* `ryra upgrade`, blue/green: the idle slot starts on its recorded port, then
\* the live one stops; if it cannot start, nothing changes.
Deploy(s) ==
    \E target \in Slots \ {slot[s]} :
    /\ Command /\ s \in installed \cap BlueGreen
    /\ target \in DOMAIN env[s] /\ env[s][target] \notin Taken(s)
    /\ slot' = [slot EXCEPT ![s] = target]
    /\ bound' = [bound EXCEPT ![s] = {env[s][target]}]
    /\ UNCHANGED <<registry, lowPorts, installed, files, host, adding, history>>

\* `ryra config <service>`: the `.env` is written whole.
Configure(s, choice) ==
    LET ports == Rerendered(s, choice) IN
    /\ Command /\ s \in installed /\ choice # chosen[s]
    /\ ~Refused(ports, {})
    /\ env' = [env EXCEPT ![s] = ports]
    /\ unit' = [unit EXCEPT ![s] = Names(s, choice)]
    /\ chosen' = [chosen EXCEPT ![s] = choice]
    /\ Blindly(s, choice, ports)
    /\ bound' = Started(s, Publishes(s, unit'[s], ports))
    /\ UNCHANGED <<registry, lowPorts, installed, slot, host, adding>>

\* merge_env_changes: what the render has, and what only the `.env` has.
Merged(rendered, old) ==
    [n \in DOMAIN rendered \cup DOMAIN old |-> IF n \in DOMAIN rendered THEN rendered[n] ELSE old[n]]

\* `ryra config`: each `.env` is merged with its render, and the service
\* restarted, if a value differs.
Reconcile(s) ==
    LET ports == Merged(Rerendered(s, chosen[s]), env[s]) IN
    /\ Command /\ s \in installed /\ ports # env[s]
    /\ ~Refused(ports, {})
    /\ env' = [env EXCEPT ![s] = ports]
    /\ Blindly(s, chosen[s], ports)
    /\ bound' = Started(s, Publishes(s, unit[s], ports))
    /\ UNCHANGED <<registry, lowPorts, installed, unit, chosen, slot, host, adding>>

\* `ryra start`: every container of the service, of both slots.
Start(s) ==
    LET ports == Publishes(s, unit[s], env[s])
                 \cup {env[s][n] : n \in Slots \cap DOMAIN env[s]} IN
    /\ Idle /\ s \in installed /\ ~ports \subseteq bound[s]
    /\ IF s \in BlueGreen THEN bound' = [bound EXCEPT ![s] = ports \ Taken(s)]
       ELSE CanBind(s, ports) /\ bound' = Started(s, ports)
    /\ UNCHANGED <<registry, lowPorts, installed, files, slot, host, adding, history, commands>>

(***************************************************************************)
(* What happens by itself, also while an add is between its plan and its   *)
(* start: the registry moves on, containers die, the machine reboots, and  *)
(* processes come and go.                                                  *)
(***************************************************************************)
Publish(s) ==
    /\ Idle /\ registry[s] < Len(Declared[s])
    /\ registry' = [registry EXCEPT ![s] = @ + 1]
    /\ UNCHANGED <<lowPorts, installed, files, slot, bound, host, adding, history, commands>>

Die(s) ==
    /\ bound[s] # {} /\ bound' = [bound EXCEPT ![s] = {}]
    /\ UNCHANGED <<registry, lowPorts, installed, files, slot, host, adding, history, commands>>

Process(p) ==
    /\ p \notin UNION {bound[t] : t \in Services}
    /\ host' = IF p \in host THEN host \ {p} ELSE host \cup {p}
    /\ UNCHANGED <<registry, lowPorts, installed, files, slot, bound, adding, history, commands>>

\* The sysctl is set, by an add that offers it or by hand.
Sysctl ==
    /\ Idle /\ ~lowPorts /\ Proxy \in installed
    /\ lowPorts' = TRUE
    /\ UNCHANGED <<registry, installed, files, slot, bound, host, adding, history, commands>>

Next ==
    \/ \E s \in Services :
        \/ \E choice \in BOOLEAN : PlanAdd(s, choice) \/ Configure(s, choice)
        \/ FinishAdd(s) \/ CutAdd(s) \/ RemoveService(s) \/ Upgrade(s) \/ Deploy(s)
        \/ Reconcile(s) \/ Start(s) \/ Publish(s) \/ Die(s)
    \/ FailAdd \/ Sysctl \/ \E p \in HostPorts : Process(p)

Spec == Init /\ [][Next]_vars

(***************************************************************************)
(* Properties.                                                             *)
(***************************************************************************)
\* Every variable has the type its declaration says.
TypeOK ==
    LET PortMap(m) == DOMAIN m \subseteq PortNames /\ \A n \in DOMAIN m : m[n] \in Nat \ {NoPort} IN
    /\ registry \in [Services -> Nat \ {0}]
    /\ lowPorts \in BOOLEAN
    /\ installed \subseteq Services
    /\ DOMAIN env = Services /\ \A s \in Services : PortMap(env[s])
    /\ unit \in [Services -> SUBSET PortNames]
    /\ chosen \in [Services -> BOOLEAN]
    /\ slot \in [Services -> Slots]
    /\ bound \in [Services -> SUBSET (Nat \ {NoPort})]
    /\ host \subseteq HostPorts
    /\ adding # Nobody =>
          adding.service \in Services /\ PortMap(adding.ports) /\ adding.choice \in BOOLEAN
    /\ quiet \in [Services -> SUBSET Nat]
    /\ blind \in [Services -> SUBSET PortNames]
    /\ commands \in 0 .. MaxCommands

\* Two installed services have a port in common only if one of them took a
\* number of its own that the other had recorded, and was not listening on or a
\* re-render did not ask; and two names of a service have one port only if the
\* definition fixes it for both, or where a re-render resolved one of them: a port
\* from the range is nobody else's.
PortsApart ==
    /\ \A s, t \in installed : s # t =>
          \A p \in PortsOf(env[s]) \cap PortsOf(env[t]) :
             p \in Own(s) \cap quiet[s] \/ p \in Own(t) \cap quiet[t]
    /\ \A s \in installed : Distinct(s, env[s], blind[s])

\* A service that runs has every port its units publish in its `.env`: "systemd
\* expands an undefined var to an empty string at runtime, which produces a
\* confusingly broken unit" (bundle.rs:72).
PublishedRecorded ==
    \A s \in installed : bound[s] # {} => unit[s] \subseteq DOMAIN env[s]

\* "the closure is never consulted" (upgrade.rs:281, of what is bound): a
\* re-render of a service with an `.env` resolves no new port.
NothingResolvedBlindly ==
    [][\A s \in installed \cap installed' :
          env[s] # NoPorts => DOMAIN env'[s] \subseteq DOMAIN env[s]]_vars

\* "`proxied` (default) keeps the always-works high ports" (lib.rs:739).
ProxiedIsHigh ==
    Proxy \in installed /\ ~chosen[Proxy] => 80 \notin PortsOf(env[Proxy])

===============================================================================
