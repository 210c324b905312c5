------------------------------- MODULE Mutations -------------------------------
(***************************************************************************)
(* Commands of several ryra processes on the files that services share or  *)
(* that several commands rewrite: the one Caddyfile, written as a whole,   *)
(* and each service's metadata.toml, written as a whole.  A command plans  *)
(* first, and its plan already holds the full contents it will write;      *)
(* execute_all then carries the plan out step by step.  The mutation lock  *)
(* (Mutex, which MutationLock implements) is held from before the planning *)
(* to the end, except by the rpc that enrolls a service in backups.        *)
(*                                                                         *)
(* Every service is a podman blue/green install behind a Caddy that is up: *)
(* `add`, `upgrade`, `remove`, the purge of a leftover, and the two ways   *)
(* of setting backup_enabled.  BlueGreen has the deploy in more detail.    *)
(***************************************************************************)
EXTENDS Mutex, Naturals, Sequences, FiniteSets

CONSTANTS
    Services,
    MaxBatch,      \* services one `ryra upgrade` names: a bound of the model
    EnrollPaths    \* how backup_enabled is set: "cli" (locked), "rpc" (not)

ASSUME MutationsConstants ==
    /\ IsFiniteSet(Services)
    /\ MaxBatch \in Nat \ {0}
    /\ EnrollPaths \subseteq {"cli", "rpc"}

Colors == {"blue", "green"}
Unrouted == "none"

Other(c) == IF c = "blue" THEN "green" ELSE "blue"

VARIABLES
    state,      \* per service: "absent", "installed", or "leftover" (no quadlet)
    active,     \* per service: active_color in metadata.toml
    enrolled,   \* per service: backup_enabled in metadata.toml
    running,    \* per service: the slots whose unit is up
    caddyfile,  \* per service: the slot it is routed to, or Unrouted
    kind,       \* the command of the lock's holder, or "none"
    toPlan,     \* services an upgrade has yet to plan
    plans,      \* planned, not yet finished: the command works on the first
    step,       \* the next step of the first plan
    inFlight,   \* set_backup_enabled between its read and its write, or <<>>
    wanted,     \* history, per service: the last enrollment that was set
    broken      \* history: services a command left half done

metadata == <<active, enrolled>>
command == <<kind, toPlan, plans, step>>
history == <<wanted, broken>>
vars == <<holder, state, metadata, running, caddyfile, command, inFlight, history>>

Init ==
    /\ MutexInit
    /\ state = [s \in Services |-> "absent"]
    /\ active = [s \in Services |-> "blue"]
    /\ enrolled = [s \in Services |-> FALSE]
    /\ running = [s \in Services |-> {}]
    /\ caddyfile = [s \in Services |-> Unrouted]
    /\ kind = "none" /\ toPlan = {} /\ plans = <<>> /\ step = "none"
    /\ inFlight = <<>>
    /\ wanted = [s \in Services |-> FALSE]
    /\ broken = {}

\* A route that starts the file over.
RoutedAlone(s, slot) ==
    [t \in Services |-> IF t = s THEN slot ELSE Unrouted]

\* caddy::add_route on the whole file, or remove_route for Unrouted.
Routed(s, slot) == [caddyfile EXCEPT ![s] = slot]

\* A plan: what the command will write, computed from the files as they are.
Plan(s, first, second, slot) ==
    [service |-> s, render |-> first, swap |-> second, target |-> slot,
     enrolled |-> enrolled[s]]

This == Head(plans)

Finish ==
    /\ kind' = "none" /\ toPlan' = {} /\ plans' = <<>> /\ step' = "none"
    /\ Release(holder)

At(k, l) == kind = k /\ step = l /\ plans # <<>>

(***************************************************************************)
(* `ryra add`: quadlets and metadata, then the route, then the start.      *)
(***************************************************************************)
BeginAdd(p, s) ==
    /\ Acquire(p) /\ state[s] = "absent"
    /\ kind' = "add" /\ step' = "files"
    /\ plans' = << Plan(s, Routed(s, "blue"), caddyfile, "blue") >>
    /\ UNCHANGED <<state, metadata, running, caddyfile, toPlan, inFlight, history>>

AddFiles ==
    /\ At("add", "files") /\ step' = "route"
    /\ state' = [state EXCEPT ![This.service] = "installed"]
    /\ active' = [active EXCEPT ![This.service] = "blue"]
    /\ enrolled' = [enrolled EXCEPT ![This.service] = FALSE]
    /\ wanted' = [wanted EXCEPT ![This.service] = FALSE]
    /\ UNCHANGED <<holder, running, caddyfile, kind, toPlan, plans, inFlight, broken>>

AddRoute ==
    /\ At("add", "route") /\ step' = "start"
    /\ caddyfile' = This.render
    /\ UNCHANGED <<holder, state, metadata, running, kind, toPlan, plans, inFlight, history>>

AddStart ==
    /\ At("add", "start") /\ Finish
    /\ running' = [running EXCEPT ![This.service] = @ \cup {"blue"}]
    /\ broken' = broken \ {This.service}
    /\ UNCHANGED <<state, metadata, caddyfile, inFlight, wanted>>

\* A step of the add fails: the CLI plans a purge now and runs it.
AddFails ==
    /\ kind = "add" /\ plans # <<>> /\ state[This.service] = "installed"
    /\ kind' = "remove" /\ step' = "stop"
    /\ plans' = << Plan(This.service, Routed(This.service, Unrouted), caddyfile, "blue") >>
    /\ UNCHANGED <<holder, state, metadata, running, caddyfile, toPlan, inFlight, history>>

(***************************************************************************)
(* `ryra remove --purge`: stop the units and unlink the quadlets, drop the *)
(* route, delete the home directory.                                       *)
(***************************************************************************)
BeginRemove(p, s) ==
    /\ Acquire(p) /\ state[s] = "installed"
    /\ kind' = "remove" /\ step' = "stop"
    /\ plans' = << Plan(s, Routed(s, Unrouted), caddyfile, "blue") >>
    /\ UNCHANGED <<state, metadata, running, caddyfile, toPlan, inFlight, history>>

RemoveUnits ==
    /\ At("remove", "stop") /\ step' = "unroute"
    /\ running' = [running EXCEPT ![This.service] = {}]
    /\ state' = [state EXCEPT ![This.service] = "leftover"]
    /\ UNCHANGED <<holder, metadata, caddyfile, kind, toPlan, plans, inFlight, history>>

RemoveRoute ==
    /\ At("remove", "unroute") /\ step' = "home"
    /\ caddyfile' = This.render
    /\ UNCHANGED <<holder, state, metadata, running, kind, toPlan, plans, inFlight, history>>

RemoveHome ==
    /\ At("remove", "home") /\ Finish
    /\ state' = [state EXCEPT ![This.service] = "absent"]
    /\ broken' = broken \ {This.service}
    /\ UNCHANGED <<metadata, running, caddyfile, inFlight, wanted>>

\* A leftover is purged by orphan_purge_steps, which knows of no route.
PurgeLeftover(p, s) ==
    /\ holder = Nobody /\ p \in Procs /\ state[s] = "leftover"
    /\ state' = [state EXCEPT ![s] = "absent"]
    /\ running' = [running EXCEPT ![s] = {}]
    /\ UNCHANGED <<holder, metadata, caddyfile, command, inFlight, history>>

(***************************************************************************)
(* `ryra upgrade s1 s2 ...`: every service is planned before the first     *)
(* plan runs, so that a refusal leaves nothing half upgraded.              *)
(***************************************************************************)
BeginUpgrade(p, batch) ==
    /\ Acquire(p) /\ \A s \in batch : state[s] = "installed"
    /\ kind' = "upgrade" /\ toPlan' = batch /\ step' = "plan"
    /\ UNCHANGED <<state, metadata, running, caddyfile, plans, inFlight, history>>

\* A swap whose Caddy rewrite names the live slot.
SwapPlanKeepsLive(s) ==
    Plan(s, Routed(s, "blue"), Routed(s, active[s]), Other(active[s]))

\* A swap whose metadata comes from the re-render, not from what is on disk.
SwapPlanResetsRecord(s) ==
    [Plan(s, Routed(s, "blue"), Routed(s, Other(active[s])), Other(active[s]))
        EXCEPT !.enrolled = FALSE]

\* blue_green_swap: the re-render's route to blue, the swap's route to the idle
\* slot and the metadata to write, all from one reading of the files.
SwapPlan(s) ==
    Plan(s, Routed(s, "blue"), Routed(s, Other(active[s])), Other(active[s]))

PlanUpgrade(s) ==
    /\ kind = "upgrade" /\ step = "plan" /\ s \in toPlan
    /\ plans' = Append(plans, SwapPlan(s))
    /\ toPlan' = toPlan \ {s}
    /\ step' = IF toPlan = {s} THEN "render" ELSE "plan"
    /\ UNCHANGED <<holder, state, metadata, running, caddyfile, kind, inFlight, history>>

UpgradeRender ==
    /\ At("upgrade", "render") /\ step' = "start"
    /\ caddyfile' = This.render
    /\ UNCHANGED <<holder, state, metadata, running, kind, toPlan, plans, inFlight, history>>

\* The target slot is started and passes its gate.
UpgradeStart ==
    /\ At("upgrade", "start") /\ step' = "swap"
    /\ running' = [running EXCEPT ![This.service] = @ \cup {This.target}]
    /\ UNCHANGED <<holder, state, metadata, caddyfile, kind, toPlan, plans, inFlight, history>>

UpgradeSwap ==
    /\ At("upgrade", "swap") /\ step' = "stop"
    /\ caddyfile' = This.swap
    /\ UNCHANGED <<holder, state, metadata, running, kind, toPlan, plans, inFlight, history>>

UpgradeStop ==
    /\ At("upgrade", "stop") /\ step' = "flip"
    /\ running' = [running EXCEPT ![This.service] = @ \ {Other(This.target)}]
    /\ UNCHANGED <<holder, state, metadata, caddyfile, kind, toPlan, plans, inFlight, history>>

\* The metadata as it was when the swap was planned, with the color flipped.
UpgradeFlip ==
    /\ At("upgrade", "flip")
    /\ active' = [active EXCEPT ![This.service] = This.target]
    /\ enrolled' = [enrolled EXCEPT ![This.service] = This.enrolled]
    /\ broken' = broken \ {This.service}
    /\ IF Tail(plans) = <<>> THEN Finish
       ELSE /\ plans' = Tail(plans) /\ step' = "render"
            /\ UNCHANGED <<holder, kind, toPlan>>
    /\ UNCHANGED <<state, running, caddyfile, inFlight, wanted>>

(***************************************************************************)
(* set_backup_enabled: read metadata.toml, change one field, write it all. *)
(***************************************************************************)
BeginEnroll(p, s, flag, via) ==
    /\ inFlight = <<>>
    /\ state[s] = "installed" /\ enrolled[s] # flag
    /\ \/ via = "cli" /\ Acquire(p) /\ kind' = "enroll"
       \/ via = "rpc" /\ UNCHANGED <<holder, kind>>
    /\ inFlight' = << [service |-> s, active |-> active[s], flag |-> flag,
                       via |-> via] >>
    /\ UNCHANGED <<state, metadata, running, caddyfile, toPlan, plans, step, history>>

\* The write fails when the home directory is gone.
FinishEnroll ==
    /\ inFlight # <<>>
    /\ LET e == Head(inFlight) IN
        /\ IF state[e.service] = "absent" THEN UNCHANGED <<metadata, wanted>>
           ELSE /\ active' = [active EXCEPT ![e.service] = e.active]
                /\ enrolled' = [enrolled EXCEPT ![e.service] = e.flag]
                /\ wanted' = [wanted EXCEPT ![e.service] = e.flag]
        /\ IF e.via = "cli" THEN Release(holder) /\ kind' = "none"
           ELSE UNCHANGED <<holder, kind>>
    /\ inFlight' = <<>>
    /\ UNCHANGED <<state, running, caddyfile, toPlan, plans, step, broken>>

\* A step fails, the operator declines, or the process is killed.
Abort ==
    /\ kind \in {"add", "remove", "upgrade"}
    /\ broken' = IF plans = <<>> \/ step = "plan" THEN broken
                 ELSE broken \cup {This.service}
    /\ Finish
    /\ UNCHANGED <<state, metadata, running, caddyfile, inFlight, wanted>>

Batches ==
    {batch \in SUBSET Services : batch # {} /\ Cardinality(batch) <= MaxBatch}

Next ==
    \/ \E p \in Procs, s \in Services :
          BeginAdd(p, s) \/ BeginRemove(p, s) \/ PurgeLeftover(p, s)
    \/ \E p \in Procs, batch \in Batches : BeginUpgrade(p, batch)
    \/ \E p \in Procs, s \in Services, flag \in BOOLEAN, via \in EnrollPaths :
          BeginEnroll(p, s, flag, via)
    \/ AddFiles \/ AddRoute \/ AddStart \/ AddFails
    \/ RemoveUnits \/ RemoveRoute \/ RemoveHome
    \/ \E s \in Services : PlanUpgrade(s)
    \/ UpgradeRender \/ UpgradeStart \/ UpgradeSwap \/ UpgradeStop \/ UpgradeFlip
    \/ FinishEnroll
    \/ Abort

Spec == Init /\ [][Next]_vars

-----------------------------------------------------------------------------
(***************************************************************************)
(* Properties.                                                             *)
(***************************************************************************)
Files == [Services -> Colors \cup {Unrouted}]
Plans ==
    [service : Services, render : Files, swap : Files, target : Colors,
     enrolled : BOOLEAN]

\* Every variable stays in its range.
TypeOK ==
    /\ holder \in Procs \cup {Nobody}
    /\ state \in [Services -> {"absent", "installed", "leftover"}]
    /\ active \in [Services -> Colors] /\ enrolled \in [Services -> BOOLEAN]
    /\ running \in [Services -> SUBSET Colors]
    /\ caddyfile \in Files
    /\ kind \in {"none", "add", "remove", "upgrade", "enroll"}
    /\ toPlan \subseteq Services /\ plans \in Seq(Plans)
    /\ step \in {"none", "files", "route", "start", "stop", "unroute", "home",
                 "plan", "render", "swap", "flip"}
    /\ wanted \in [Services -> BOOLEAN] /\ broken \subseteq Services

\* The service the running command is in the middle of changing.
BusyWith(s) == plans # <<>> /\ step # "plan" /\ This.service = s

\* Between commands, and while a command works on other services, the three
\* records of where a service lives agree: it is routed to the slot recorded
\* as active, and that slot runs.  A service that is gone has no route.
\* Services that a command left half done are left out.
Settled ==
    \A s \in Services \ broken :
        ~BusyWith(s) =>
            /\ state[s] = "installed" =>
                  caddyfile[s] = active[s] /\ active[s] \in running[s]
            /\ state[s] = "absent" => caddyfile[s] = Unrouted

\* The enrollment of a service in backups is the one that was last set, also
\* across upgrades, which rewrite the file it is kept in.
EnrollmentSticks ==
    \A s \in Services : state[s] = "installed" => enrolled[s] = wanted[s]

\* A command never changes the route of a service it is not about, although
\* each of its writes replaces the whole Caddyfile by a planned one.
OnlyOwnRoute ==
    [][ \A s \in Services : caddyfile'[s] # caddyfile[s] => BusyWith(s) ]_vars
==============================================================================
