------------------------------ MODULE BlueGreen ------------------------------
(***************************************************************************)
(* The blue/green deploy of one installed service: the plan that           *)
(* `ryra upgrade` builds for a `deploy = "blue-green"` install             *)
(* (upgrade.rs, blue_green_swap), executed step by step by execute_all,    *)
(* next to the state it works on: the two slots' units under systemd, the  *)
(* Caddyfile and the configuration the running Caddy has loaded, and       *)
(* `active_color` in metadata.toml.  Between two steps the process may be  *)
(* killed or a step may fail (execute_all stops there and undoes nothing), *)
(* the machine may reboot, Caddy may go down and come back, and the        *)
(* registry may publish a newer version.                                   *)
(*                                                                         *)
(* `runtime` and `routed` never change: they are fixed when the service is *)
(* installed and are variables only so that one run covers every install.  *)
(***************************************************************************)
EXTENDS Naturals

CONSTANTS
    MaxVersion,   \* versions the registry publishes: a bound of the model
    Runtimes,     \* the runtimes of the installs explored
    Routings      \* whether the installs explored have a URL behind Caddy

ASSUME ConstantsOK ==
    /\ MaxVersion \in Nat \ {0}
    /\ Runtimes \subseteq {"podman", "native"} /\ Runtimes # {}
    /\ Routings \subseteq BOOLEAN /\ Routings # {}

Colors == {"blue", "green"}
Versions == 0 .. MaxVersion          \* 0: a slot directory that was never built

VARIABLES
    runtime,    \* Metadata.runtime
    routed,     \* the install has a URL and the Caddyfile exists
    newest,     \* newest version in the registry (or in the source tree)
    artifact,   \* per slot, on disk: the quadlet's image, or colors/<slot>
    generated,  \* per slot: the version of the unit systemd has loaded
    up,         \* slots whose unit is active
    image,      \* per slot: the version its unit was last started with
    ready,      \* slots that answer 200 on the health path
    enabled,    \* slots systemd starts at boot
    caddyfile,  \* the slot the Caddyfile on disk routes to
    conf,       \* the slot the running Caddy routes to, or "down"
    active,     \* Metadata.active_color
    pc,         \* the next step of the running command, or "idle"
    target,     \* the slot the running plan rolls onto
    planned,    \* the version the running plan deploys
    todo,       \* slots a running `ryra start` / `ryra stop` has left
    aligned,    \* history: the deploy began with Caddy on the recorded slot
    fresh       \* history: the deploy began with its target slot down

install == <<runtime, routed>>
slots == <<up, image, ready>>
routing == <<caddyfile, conf>>
slotsHistory == <<aligned, fresh>>
slotsVars == <<install, newest, artifact, generated, slots, enabled, routing,
          active, pc, target, planned, todo, slotsHistory>>

DeployLabels ==
    {"writeBlue", "writeGreen", "sync", "build", "daemonReload", "enable",
     "routeBlue", "reloadBlue", "start", "gate", "route", "reload", "stop",
     "flip"}

Other(c) == IF c = "blue" THEN "green" ELSE "blue"

(***************************************************************************)
(* The plan, as the label that follows each label.                         *)
(***************************************************************************)

\* The re-rendered add plan with the service's own StartService, `.env`,
\* metadata and live-slot SyncDir / Build steps filtered out.  What the filter
\* keeps includes the add plan's own Caddy route, always at blue, and its
\* ReloadCaddy: before the daemon-reload for podman, last for native.
RenderFirst == IF runtime = "podman" THEN "writeBlue" ELSE "sync"
RenderAfter(l) ==
    CASE l = "writeBlue"    -> "writeGreen"
      [] l = "writeGreen"   -> IF routed THEN "routeBlue" ELSE "daemonReload"
      [] l = "sync"         -> "build"
      [] l = "build"        -> "daemonReload"
      [] l = "daemonReload" -> IF runtime = "podman" THEN "start" ELSE "enable"
      [] l = "enable"       -> IF routed THEN "routeBlue" ELSE "start"
      [] l = "routeBlue"    -> "reloadBlue"
      [] l = "reloadBlue"   ->
            IF runtime = "podman" THEN "daemonReload" ELSE "start"
      [] OTHER              -> "idle"

\* A color swap that repoints Caddy before the health gate.
SwapAfterRouteFirst(l) ==
    CASE l = "start"  -> IF routed THEN "route" ELSE "gate"
      [] l = "route"  -> "reload"
      [] l = "reload" -> "gate"
      [] l = "gate"   -> "stop"
      [] l = "stop"   -> "flip"
      [] OTHER        -> "idle"

\* color_swap_steps, then the metadata write that flips active_color.
SwapAfter(l) ==
    CASE l = "start"  -> "gate"
      [] l = "gate"   -> IF routed THEN "route" ELSE "stop"
      [] l = "route"  -> "reload"
      [] l = "reload" -> "stop"
      [] l = "stop"   -> "flip"
      [] OTHER        -> "idle"

After(l) ==
    IF l \in {"start", "gate", "route", "reload", "stop", "flip"}
    THEN SwapAfter(l) ELSE RenderAfter(l)


(***************************************************************************)
(* Right after `ryra add`: blue is started, routed and recorded as active, *)
(* green is installed but idle.  A quadlet's [Install] section makes the   *)
(* generator pull both slots in at boot; a native install enables blue.    *)
(***************************************************************************)
SlotsInit ==
    /\ runtime \in Runtimes /\ routed \in Routings
    /\ newest = 1
    /\ artifact = [c \in Colors |-> 1]
    /\ generated = [c \in Colors |-> 1]
    /\ image = [c \in Colors |-> IF c = "blue" THEN 1 ELSE 0]
    /\ up = {"blue"} /\ ready = {}
    /\ enabled = IF runtime = "podman" THEN Colors ELSE {"blue"}
    /\ caddyfile = "blue"
    /\ conf = IF routed THEN "blue" ELSE "down"
    /\ active = "blue"
    /\ pc = "idle" /\ target = "green" /\ planned = 1 /\ todo = {}
    /\ aligned = FALSE /\ fresh = FALSE

(***************************************************************************)
(* The deploy.                                                             *)
(***************************************************************************)

\* Planning: the versions, the live slot and the Caddyfile are read here.
BeginDeploy ==
    /\ pc = "idle"
    /\ pc' = RenderFirst
    /\ target' = Other(active)
    /\ planned' = newest
    /\ aligned' = (caddyfile = active /\ conf \in {active, "down"})
    /\ fresh' = (Other(active) \notin up)
    /\ UNCHANGED <<install, newest, artifact, generated, slots, enabled,
                   routing, active, todo>>

Step(l) == pc = l /\ pc' = After(l)

\* Podman: the re-render writes the quadlets of both slots, the live one too.
WriteQuadlet(l, c) ==
    /\ Step(l)
    /\ artifact' = [artifact EXCEPT ![c] = planned]
    /\ UNCHANGED <<install, newest, generated, slots, enabled, routing,
                   active, target, planned, todo, slotsHistory>>

\* A re-render whose SyncDir also clears the live slot's directory.
SyncBothSlots ==
    /\ Step("sync")
    /\ planned' = newest
    /\ artifact' = [c \in Colors |-> 0]
    /\ UNCHANGED <<install, newest, generated, slots, enabled, routing,
                   active, target, todo, slotsHistory>>

\* Native: clear colors/<target> and copy the source tree as it is now.
SyncSource ==
    /\ Step("sync")
    /\ planned' = newest
    /\ artifact' = [artifact EXCEPT ![target] = 0]
    /\ UNCHANGED <<install, newest, generated, slots, enabled, routing,
                   active, target, todo, slotsHistory>>

BuildSlot ==
    /\ Step("build")
    /\ artifact' = [artifact EXCEPT ![target] = planned]
    /\ UNCHANGED <<install, newest, generated, slots, enabled, routing,
                   active, target, planned, todo, slotsHistory>>

\* A re-render that leaves systemd with the units it generated before.
NoDaemonReload ==
    /\ Step("daemonReload")
    /\ UNCHANGED <<install, newest, artifact, generated, slots, enabled,
                   routing, active, target, planned, todo, slotsHistory>>

\* The quadlet generator turns what is on disk into units; a native unit
\* names a directory and does not change with the version.
DaemonReload ==
    /\ Step("daemonReload")
    /\ generated' = IF runtime = "podman" THEN artifact ELSE generated
    /\ UNCHANGED <<install, newest, artifact, slots, enabled, routing,
                   active, target, planned, todo, slotsHistory>>

\* Native: EnableService survives the filter, and the add plan names blue.
EnableBlue ==
    /\ Step("enable")
    /\ enabled' = enabled \cup {"blue"}
    /\ UNCHANGED <<install, newest, artifact, generated, slots, routing,
                   active, target, planned, todo, slotsHistory>>

WriteRoute(l, c) ==
    /\ Step(l)
    /\ caddyfile' = c
    /\ UNCHANGED <<install, newest, artifact, generated, slots, enabled,
                   conf, active, target, planned, todo, slotsHistory>>

\* Graceful reload, or the restart fallback; a Caddy that is down is skipped.
ReloadCaddy(l) ==
    /\ Step(l)
    /\ conf' = IF conf = "down" THEN "down" ELSE caddyfile
    /\ UNCHANGED <<install, newest, artifact, generated, slots, enabled,
                   caddyfile, active, target, planned, todo, slotsHistory>>

\* `systemctl start`: nothing happens to a unit that is already active.
StartUnit(c) ==
    /\ up' = up \cup {c}
    /\ image' = IF c \in up THEN image
                ELSE [image EXCEPT ![c] =
                        IF runtime = "podman" THEN generated[c] ELSE artifact[c]]
    /\ UNCHANGED ready

\* `systemctl stop`; StopService ignores a failure and goes on.
StopUnit(c) ==
    /\ \/ up' = up \ {c} /\ ready' = ready \ {c}
       \/ UNCHANGED <<up, ready>>
    /\ UNCHANGED image

StartTarget ==
    /\ Step("start")
    /\ StartUnit(target)
    /\ UNCHANGED <<install, newest, artifact, generated, enabled, routing,
                   active, target, planned, todo, slotsHistory>>

\* A gate that lets the swap go on without an answer from the target.
GateSkipped ==
    /\ Step("gate")
    /\ UNCHANGED <<install, newest, artifact, generated, slots, enabled,
                   routing, active, target, planned, todo, slotsHistory>>

\* WaitForHttpHealthy on the target slot's own port.
GatePasses ==
    /\ target \in ready
    /\ Step("gate")
    /\ UNCHANGED <<install, newest, artifact, generated, slots, enabled,
                   routing, active, target, planned, todo, slotsHistory>>

\* A gate that polls with no deadline.
GateWaits ==
    /\ pc = "gate" /\ target \notin ready
    /\ UNCHANGED slotsVars

GateTimesOut ==
    /\ pc = "gate" /\ target \notin ready
    /\ pc' = "idle"
    /\ UNCHANGED <<install, newest, artifact, generated, slots, enabled,
                   routing, active, target, planned, todo, slotsHistory>>

StopLive ==
    /\ Step("stop")
    /\ StopUnit(Other(target))
    /\ UNCHANGED <<install, newest, artifact, generated, enabled, routing,
                   active, target, planned, todo, slotsHistory>>

FlipActive ==
    /\ Step("flip")
    /\ active' = target
    /\ UNCHANGED <<install, newest, artifact, generated, slots, enabled,
                   routing, target, planned, todo, slotsHistory>>

DeployStep ==
    \/ WriteQuadlet("writeBlue", "blue")
    \/ WriteQuadlet("writeGreen", "green")
    \/ SyncSource
    \/ BuildSlot
    \/ DaemonReload
    \/ EnableBlue
    \/ WriteRoute("routeBlue", "blue")
    \/ ReloadCaddy("reloadBlue")
    \/ StartTarget
    \/ GatePasses
    \/ GateTimesOut
    \/ WriteRoute("route", target)
    \/ ReloadCaddy("reload")
    \/ StopLive
    \/ FlipActive

\* A failed step, or a killed process: what was done stays done.
Abort ==
    /\ pc # "idle"
    /\ pc' = "idle" /\ todo' = {}
    /\ UNCHANGED <<install, newest, artifact, generated, slots, enabled,
                   routing, active, target, planned, slotsHistory>>

(***************************************************************************)
(* `ryra start` and `ryra stop`, which hold the mutation lock too.  Podman *)
(* names the units of both slots, in directory order; native names a unit  *)
(* <service>.service that a blue/green install does not have, so nothing   *)
(* changes and it is left out.                                             *)
(***************************************************************************)
BeginLifecycle(command) ==
    /\ pc = "idle" /\ runtime = "podman"
    /\ pc' = command /\ todo' = Colors
    /\ UNCHANGED <<install, newest, artifact, generated, slots, enabled,
                   routing, active, target, planned, slotsHistory>>

LifecycleUnit(c) ==
    /\ c \in todo
    /\ \/ pc = "lifecycleStart" /\ StartUnit(c)
       \/ pc = "lifecycleStop" /\ StopUnit(c)
    /\ todo' = todo \ {c}
    /\ pc' = IF todo = {c} THEN "idle" ELSE pc
    /\ UNCHANGED <<install, newest, artifact, generated, enabled, routing,
                   active, target, planned, slotsHistory>>

(***************************************************************************)
(* The environment.                                                        *)
(***************************************************************************)
BumpRegistry ==
    /\ newest < MaxVersion
    /\ newest' = newest + 1
    /\ UNCHANGED <<install, artifact, generated, slots, enabled, routing,
                   active, pc, target, planned, todo, slotsHistory>>

\* A slot with an artifact comes to answer on its health path, or never does.
SlotBecomesReady(c) ==
    /\ c \in up \ ready /\ image[c] > 0
    /\ ready' = ready \cup {c}
    /\ UNCHANGED <<install, newest, artifact, generated, up, image, enabled,
                   routing, active, pc, target, planned, todo, slotsHistory>>

Reboot ==
    /\ pc' = "idle" /\ todo' = {}
    /\ generated' = IF runtime = "podman" THEN artifact ELSE generated
    /\ up' = enabled /\ ready' = {}
    /\ image' = [c \in Colors |-> IF c \in enabled THEN artifact[c] ELSE image[c]]
    /\ conf' = IF routed THEN caddyfile ELSE "down"
    /\ UNCHANGED <<install, newest, artifact, enabled, caddyfile, active,
                   target, planned, slotsHistory>>

CaddyDown ==
    /\ conf # "down"
    /\ conf' = "down"
    /\ UNCHANGED <<install, newest, artifact, generated, slots, enabled,
                   caddyfile, active, pc, target, planned, todo, slotsHistory>>

\* Caddy loads the Caddyfile that is on disk when it starts.
CaddyUp ==
    /\ routed /\ conf = "down"
    /\ conf' = caddyfile
    /\ UNCHANGED <<install, newest, artifact, generated, slots, enabled,
                   caddyfile, active, pc, target, planned, todo, slotsHistory>>

SlotsNext ==
    \/ BeginDeploy
    \/ DeployStep
    \/ Abort
    \/ \E command \in {"lifecycleStart", "lifecycleStop"} :
          BeginLifecycle(command)
    \/ \E c \in Colors : LifecycleUnit(c)
    \/ BumpRegistry
    \/ \E c \in Colors : SlotBecomesReady(c)
    \/ Reboot
    \/ CaddyDown
    \/ CaddyUp

\* A running deploy goes on: every step returns, and the gate has a deadline.
SlotsSpec == SlotsInit /\ [][SlotsNext]_slotsVars /\ WF_slotsVars(DeployStep)

-----------------------------------------------------------------------------
(***************************************************************************)
(* Properties.                                                             *)
(***************************************************************************)

\* Every variable stays in its range.
SlotsTypeOK ==
    /\ runtime \in {"podman", "native"} /\ routed \in BOOLEAN
    /\ newest \in Versions /\ planned \in Versions
    /\ artifact \in [Colors -> Versions]
    /\ generated \in [Colors -> Versions]
    /\ image \in [Colors -> Versions]
    /\ up \subseteq Colors /\ ready \subseteq up
    /\ enabled \subseteq Colors /\ todo \subseteq Colors
    /\ caddyfile \in Colors /\ conf \in Colors \cup {"down"}
    /\ active \in Colors /\ target \in Colors
    /\ pc \in DeployLabels \cup {"idle", "lifecycleStart", "lifecycleStop"}
    /\ aligned \in BOOLEAN /\ fresh \in BOOLEAN

\* Requests reach a healthy slot: through Caddy, or for a loopback install on
\* either slot's port.
Serving == IF routed THEN conf \in ready ELSE ready # {}

Committing == pc \in {"stop", "flip"}

\* The order color_swap_steps calls load-bearing: when a deploy reaches the
\* step that stops the old slot, and until it records the new color, the new
\* slot answers, the Caddyfile routes to it and no running Caddy routes to the
\* old one.
OldSlotStopsLast ==
    Committing =>
        /\ target \in ready
        /\ routed => caddyfile = target /\ conf \in {target, "down"}

\* A deploy onto a slot that was down when the deploy began really runs the
\* version it set out to deploy by the time it retires the old slot: the
\* quadlet, or the slot's directory, is re-rendered before systemd starts it.
FreshSlotRunsPlan == Committing /\ fresh => image[target] = planned

\* No step of a deploy takes the service down when it rolls blue onto green
\* and began with Caddy routing to blue, or when the install is loopback only.
\* The restriction to that direction is real: see ZeroDowntime.
ZeroDowntimeFromBlue ==
    [][ DeployStep /\ ((aligned /\ target = "green") \/ ~routed)
            => (Serving => Serving') ]_slotsVars

\* A native deploy never touches the working directory of the slot recorded as
\* live: an interpreter may be serving from it (the SyncDir / Build filter).
LiveSlotUntouched ==
    [][ DeployStep /\ runtime = "native"
            => artifact'[active] = artifact[active] ]_slotsVars

\* A deploy does not hang, whatever the new version does: every step returns
\* and the health gate gives up at its deadline.
DeployEnds == pc \in DeployLabels ~> pc = "idle"

\* What the docs promise of every deploy that begins with Caddy on the slot
\* recorded as live: no step takes a service that answers off the air.  False
\* when that slot is green: the re-render puts blue's route back, and reloads
\* Caddy, before blue is started.
ZeroDowntime == [][ DeployStep /\ aligned => (Serving => Serving') ]_slotsVars

\* A deploy that has retired the old slot runs the version it deployed.  False
\* when the idle slot was already up (after a reboot or `ryra start`):
\* starting an active unit does nothing, and the gate passes on the old image.
SwapServesPlanned == pc = "flip" => image[target] = planned
==============================================================================
