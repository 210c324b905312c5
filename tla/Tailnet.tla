------------------------------- MODULE Tailnet --------------------------------
(***************************************************************************)
(* Tailscale Services: several ryra machines of one tailnet define and     *)
(* advertise services through the admin API, and each reads the tailnet's  *)
(* ACL, changes it and posts it back as a whole.  Commands run one at a    *)
(* time on a machine (MutationLock) and side by side on different ones;    *)
(* an API call may be refused, a command killed, a machine renamed.        *)
(*                                                                         *)
(* Left out: ports and addresses of a definition, the sudo prompts, the    *)
(* rest of the plan a tailnet step is part of (Wiring).                    *)
(***************************************************************************)
EXTENDS Naturals, FiniteSets, FiniteSetsExt, Functions

CONSTANTS
    Machines,
    Services,
    Labels,       \* MagicDNS host labels
    MaxCommands,  \* bound: commands begun on one machine
    MaxFaults,    \* bound: refused calls and kills
    MaxRenames    \* bound: machines renamed

ASSUME TailnetConstants ==
    /\ \E f \in [Machines -> Labels] : IsInjective(f)
    /\ MaxCommands \in Nat /\ MaxFaults \in Nat /\ MaxRenames \in Nat

\* derive_service_url: the service name is scoped by the host's label.
Names == Services \X Labels
None == << >>
Acls == [owned : BOOLEAN, approvers : SUBSET Names]

VARIABLES
    acl,         \* tailnet: tagOwners has ryra's tags; autoApprovers.services
    defined,     \* tailnet: service definitions
    tagged,      \* tailnet: machines that carry the host tag
    approved,    \* per machine: services the control plane routes to it
    label,       \* per machine: its host label
    advertised,  \* per machine: services in its local serve configuration
    record,      \* per machine and service: the name in metadata.toml, or None
    pc, name,    \* per machine: the command's next step, and its service name
    adding,      \* per machine: the command installs (a failure cleans up)
    seen,        \* per machine: the ACL as it was last read
    spoilt,      \* history: names left to a kill, a refused call or a rename
    lost,        \* history: names whose approver another machine's post undid
    commands, faults, renames

tailnet == <<acl, defined, tagged, approved>>
machine == <<label, advertised, record>>
command == <<pc, name, adding, seen>>
bounds == <<commands, faults, renames>>
vars == <<tailnet, machine, command, spoilt, lost, bounds>>

NoAcl == [owned |-> FALSE, approvers |-> {}]

Init ==
    /\ acl = NoAcl /\ defined = {} /\ tagged = {}
    /\ approved = [m \in Machines |-> {}]
    /\ label = CHOOSE f \in [Machines -> Labels] : IsInjective(f)
    /\ advertised = [m \in Machines |-> {}]
    /\ record = [m \in Machines |-> [s \in Services |-> None]]
    /\ pc = [m \in Machines |-> "idle"]
    /\ name = [m \in Machines |-> None]
    /\ adding = [m \in Machines |-> FALSE]
    /\ seen = [m \in Machines |-> NoAcl]
    /\ spoilt = {} /\ lost = {}
    /\ commands = [m \in Machines |-> 0] /\ faults = 0 /\ renames = 0

At(m, step) == pc[m] = step
Goto(m, step) == pc' = [pc EXCEPT ![m] = step]

(***************************************************************************)
(* The commands.  An add, or a configure that enters the tailnet, records  *)
(* the URL before its first call; a configure that leaves it records the   *)
(* new one before, a remove forgets the install at the end.                *)
(***************************************************************************)
Start(m) == /\ At(m, "idle") /\ commands[m] < MaxCommands
            /\ commands' = [commands EXCEPT ![m] = @ + 1]

Enter(m, s) ==
    LET n == <<s, label[m]>> IN
    /\ Start(m) /\ record[m][s] = None
    /\ record' = [record EXCEPT ![m][s] = n]
    /\ name' = [name EXCEPT ![m] = n]
    /\ Goto(m, "read owners")
    /\ \E kind \in BOOLEAN : adding' = [adding EXCEPT ![m] = kind]
    /\ spoilt' = IF \E o \in Machines \ {m} : record[o][s] = n \/ name[o] = n
                 THEN spoilt \cup {n} ELSE spoilt
    /\ UNCHANGED <<tailnet, label, advertised, seen, lost, faults, renames>>

Leave(m, s, removing) ==
    /\ Start(m) /\ record[m][s] # None
    /\ name' = [name EXCEPT ![m] = record[m][s]]
    /\ adding' = [adding EXCEPT ![m] = FALSE]
    /\ record' = IF removing THEN record ELSE [record EXCEPT ![m][s] = None]
    /\ Goto(m, "serve off")
    /\ UNCHANGED <<tailnet, label, advertised, seen, spoilt, lost, faults, renames>>

(***************************************************************************)
(* curl to the admin API: every call may be refused.                       *)
(***************************************************************************)
ReadAcl(m, step, next) ==
    /\ At(m, step) /\ Goto(m, next)
    /\ seen' = [seen EXCEPT ![m] = acl]
    /\ UNCHANGED <<tailnet, machine, name, adding, spoilt, lost, bounds>>

\* The ACL is posted back as it was read, but for this machine's change; the
\* approvers another machine changed in between are undone.
PostAcl(m, step, next, new) ==
    /\ At(m, step) /\ Goto(m, next)
    /\ acl' = IF new = seen[m] THEN acl ELSE new
    /\ lost' = lost \cup IF new = seen[m] THEN {}
                         ELSE SymDiff(acl.approvers, seen[m].approvers)
    /\ UNCHANGED <<defined, tagged, approved, machine, name, adding, seen, spoilt, bounds>>

ReadOwners(m) == ReadAcl(m, "read owners", "post owners")
PostOwners(m) == PostAcl(m, "post owners", "tag", [seen[m] EXCEPT !.owned = TRUE])

\* The host's own tags, then the suffix of the tailnet in preferences.toml.
TagHost(m) ==
    /\ At(m, "tag") /\ acl.owned /\ Goto(m, "define")
    /\ tagged' = tagged \cup {m}
    /\ UNCHANGED <<acl, defined, approved, machine, name, adding, seen, spoilt, lost, bounds>>

\* GET, then PUT that keeps the addresses.
Define(m) ==
    /\ At(m, "define") /\ Goto(m, "read approvers")
    /\ defined' = defined \cup {name[m]}
    /\ UNCHANGED <<acl, tagged, approved, machine, name, adding, seen, spoilt, lost, bounds>>

ReadApprovers(m) == ReadAcl(m, "read approvers", "post approvers")

\* A variant that trusts the tag's own approver.
PostNoApprover(m) == PostAcl(m, "post approvers", "serve", seen[m])

PostApprovers(m) ==
    PostAcl(m, "post approvers", "serve",
            [seen[m] EXCEPT !.approvers = @ \cup {name[m]}])

\* `tailscale serve` for each port, and a look at the local configuration.
Serve(m) ==
    /\ At(m, "serve") /\ Goto(m, "verify")
    /\ advertised' = [advertised EXCEPT ![m] = @ \cup {name[m]}]
    /\ UNCHANGED <<tailnet, label, record, name, adding, seen, spoilt, lost, bounds>>

Done(m) == /\ Goto(m, "idle")
           /\ name' = [name EXCEPT ![m] = None]
           /\ adding' = [adding EXCEPT ![m] = FALSE]

\* The approval is polled for; at the deadline the command warns and goes on.
Verify(m) ==
    /\ At(m, "verify") /\ Done(m)
    /\ UNCHANGED <<tailnet, machine, seen, spoilt, lost, bounds>>

(***************************************************************************)
(* disable: every step is best effort.                                     *)
(***************************************************************************)
\* What the control plane routes: defined, advertised, and approved before.
Withdrawn(here, defs) == [m \in Machines |-> approved[m] \cap here[m] \cap defs]

ServeOff(m) ==
    /\ At(m, "serve off") /\ Goto(m, "delete")
    /\ advertised' = [advertised EXCEPT ![m] = @ \ {name[m]}]
    /\ approved' = Withdrawn(advertised', defined)
    /\ UNCHANGED <<acl, defined, tagged, label, record, name, adding, seen, spoilt, lost, bounds>>

Delete(m) ==
    /\ At(m, "delete") /\ Goto(m, "read stale")
    /\ defined' = defined \ {name[m]}
    /\ approved' = Withdrawn(advertised, defined')
    /\ UNCHANGED <<acl, tagged, machine, name, adding, seen, spoilt, lost, bounds>>

ReadStale(m) == ReadAcl(m, "read stale", "post stale")

\* A variant that leaves the row in the ACL.
PostKeepsStale(m) == PostAcl(m, "post stale", "forget", seen[m])

PostStale(m) ==
    PostAcl(m, "post stale", "forget",
            [seen[m] EXCEPT !.approvers = @ \ {name[m]}])

\* The rest of the removal takes the record.
Forget(m) ==
    /\ At(m, "forget") /\ Done(m)
    /\ record' = [record EXCEPT ![m] =
                     [s \in Services |-> IF @[s] = name[m] THEN None ELSE @[s]]]
    /\ UNCHANGED <<tailnet, label, advertised, seen, spoilt, lost, bounds>>

Enabling == {"read owners", "post owners", "tag", "define", "read approvers",
             "post approvers", "serve", "verify"}
Disabling == {"serve off", "delete", "read stale", "post stale"}

\* A step of an enable fails: an add removes what it has installed, through the
\* URL it recorded; a configure stops where it is.
EnableFails(m) ==
    /\ pc[m] \in Enabling \ {"verify"}
    /\ \/ faults < MaxFaults /\ faults' = faults + 1
       \/ At(m, "tag") /\ ~acl.owned /\ faults' = faults
    /\ \/ /\ adding[m] /\ Goto(m, "serve off")
          /\ adding' = [adding EXCEPT ![m] = FALSE]
          /\ UNCHANGED <<name, spoilt>>
       \/ /\ ~adding[m] /\ Done(m) /\ spoilt' = spoilt \cup {name[m]}
    /\ UNCHANGED <<tailnet, machine, seen, lost, commands, renames>>

\* A call of a disable fails: it is passed over.
DisableFails(m) ==
    /\ pc[m] \in Disabling
    /\ faults < MaxFaults /\ faults' = faults + 1
    /\ Goto(m, CASE At(m, "serve off") -> "delete"
                 [] At(m, "delete") -> "read stale"
                 [] OTHER -> "forget")
    /\ spoilt' = spoilt \cup {name[m]}
    /\ UNCHANGED <<tailnet, machine, name, adding, seen, lost, commands, renames>>

Kill(m) ==
    /\ pc[m] # "idle" /\ faults < MaxFaults /\ faults' = faults + 1
    /\ Done(m) /\ spoilt' = spoilt \cup {name[m]}
    /\ UNCHANGED <<tailnet, machine, seen, lost, commands, renames>>

(***************************************************************************)
(* The control plane and the machines' owner.                              *)
(***************************************************************************)
Approve(m, n) ==
    /\ n \in advertised[m] \ approved[m]
    /\ n \in defined /\ n \in acl.approvers /\ m \in tagged
    /\ approved' = [approved EXCEPT ![m] = @ \cup {n}]
    /\ UNCHANGED <<acl, defined, tagged, machine, command, spoilt, lost, bounds>>

Rename(m, l) ==
    /\ renames < MaxRenames /\ renames' = renames + 1
    /\ At(m, "idle") /\ \A o \in Machines : label[o] # l
    /\ label' = [label EXCEPT ![m] = l]
    /\ UNCHANGED <<tailnet, advertised, record, command, spoilt, lost, commands, faults>>

Step(m) ==
    \/ ReadOwners(m) \/ PostOwners(m) \/ TagHost(m) \/ Define(m)
    \/ ReadApprovers(m) \/ PostApprovers(m) \/ Serve(m) \/ Verify(m)
    \/ ServeOff(m) \/ Delete(m) \/ ReadStale(m) \/ PostStale(m) \/ Forget(m)

Next ==
    \/ \E m \in Machines :
          \/ \E s \in Services : Enter(m, s) \/ \E removing \in BOOLEAN : Leave(m, s, removing)
          \/ Step(m) \/ EnableFails(m) \/ DisableFails(m) \/ Kill(m)
          \/ \E l \in Labels : Rename(m, l)
    \/ \E m \in Machines, n \in Names : Approve(m, n)

\* The control plane grants what it can, in its own time.
Spec == Init /\ [][Next]_vars /\ \A m \in Machines, n \in Names : WF_vars(Approve(m, n))

(***************************************************************************)
(* Properties.                                                             *)
(***************************************************************************)
\* The tailnet and the machines hold what the admin API and metadata.toml can.
TypeOK ==
    /\ acl \in Acls /\ defined \subseteq Names /\ tagged \subseteq Machines
    /\ approved \in [Machines -> SUBSET Names]
    /\ advertised \in [Machines -> SUBSET Names]
    /\ \A m \in Machines : approved[m] \subseteq advertised[m] \cap defined
    /\ label \in [Machines -> Labels]
    /\ record \in [Machines -> [Services -> Names \cup {None}]]
    /\ pc \in [Machines -> Enabling \cup Disabling \cup {"forget", "idle"}]
    /\ name \in [Machines -> Names \cup {None}]
    /\ \A m \in Machines : At(m, "idle") <=> name[m] = None
    /\ adding \in [Machines -> BOOLEAN] /\ seen \in [Machines -> Acls]
    /\ spoilt \cup lost \subseteq Names

Idle(m) == At(m, "idle")
Recorded(m, n) == \E s \in Services : record[m][s] = n

\* What a machine recorded is in the tailnet, and what is in the tailnet some
\* machine has recorded or is working on: a name is defined, approved for and
\* advertised if it is installed, and none of them once it is removed.  Excused
\* are the names a fault or a rename spoilt, and the approvers that a post of
\* another machine undid.
TailnetAgrees ==
    \A n \in Names \ spoilt :
        /\ \A m \in Machines : Idle(m) /\ Recorded(m, n) =>
              /\ n \in defined /\ n \in advertised[m] /\ m \in tagged
              /\ n \in acl.approvers \cup lost
        /\ (\A m \in Machines : ~Recorded(m, n) /\ name[m] # n) =>
              /\ n \notin defined /\ \A m \in Machines : n \notin advertised[m]
              /\ n \in acl.approvers => n \in lost

\* "the autoApprover is in place, so the control plane WILL grant the
\* service-host cap" (apply.rs:743): an install that completed, and on a machine
\* that lets it be, comes to be routed, unless a fault spoilt its name or
\* another machine's post undid its approver.
EventuallyRouted ==
    \A m \in Machines, n \in Names :
        Idle(m) /\ Recorded(m, n) ~>
            (n \in approved[m] \/ ~Idle(m) \/ ~Recorded(m, n) \/ n \in spoilt \cup lost)

\* The same without that excuse: an installed service has its approver.
ApproverInPlace ==
    \A m \in Machines, n \in Names \ spoilt :
        Idle(m) /\ Recorded(m, n) => n \in acl.approvers

===============================================================================
