------------------------------- MODULE Backup -------------------------------
(***************************************************************************)
(* Backup and restore of one service with restic (backup.rs,               *)
(* execute_backup_run and execute_backup_restore; cli/backup.rs; rpc.rs):  *)
(* every run is a process of its own.  A backup takes no lock, whether a   *)
(* timer, a command or the rpc started it; a restore from the CLI holds    *)
(* the mutation lock, one from the rpc does not.                           *)
(*                                                                         *)
(* The service's data is a tree of files that one transaction of the       *)
(* application writes one by one, with the transaction's number; 0 stands  *)
(* for a file that is not there.  The tree is consistent between           *)
(* transactions.  Three things are so for good: whether the service is cold *)
(* (stopped for its snapshots, the default) or online (`[backup] online`), *)
(* whether it runs from container units (a native one has none that a cold *)
(* run would stop), and whether its data paths are declared.               *)
(***************************************************************************)
EXTENDS Naturals, Sequences, FiniteSets, SequencesExt

CONSTANTS
    Jobs,          \* processes that back up or restore
    Modes,         \* the schedules, and "manual"
    Files,         \* the files under the service's data paths
    Nobody,        \* the mutation lock's holder when it is free
    MaxWrites,     \* bound: transactions of the application
    Keep,          \* snapshots a schedule keeps
    MaxSnapshots   \* bound: snapshots in the repository

ASSUME ConstantsOK ==
    /\ Nobody \notin Jobs /\ Files # {} /\ "manual" \in Modes
    /\ {"restore", "none"} \cap Modes = {}
    /\ MaxWrites \in Nat /\ MaxSnapshots \in Nat /\ Keep \in Nat \ {0}

Schedules == Modes \ {"manual"}
Trees == [Files -> 0 .. MaxWrites]
Empty == [f \in Files |-> 0]
Consistent(tree) == \A f, g \in Files : tree[f] = tree[g]

VARIABLES
    online,      \* the service is backed up without being stopped
    native,      \* its unit is not one of service_units: nothing stops it
    paths,       \* `[backup] paths` is declared: a cold restore has dirs to wipe
    up,          \* the service's units are active
    data,        \* the tree on disk
    pending,     \* files the current transaction has yet to write
    writes,      \* transactions begun
    repo,        \* the service's snapshots, oldest first
    holder,      \* who holds the mutation lock
    kind,        \* per job: a backup's mode, "restore" or "none"
    pc,          \* per job: its next step, or "idle"
    tree,        \* per job: what it has copied, or what it puts back
    left,        \* per job: files restic has yet to copy
    unwiped,     \* history: restores whose wipe left a file it could not remove
    disturbed,   \* history: jobs under which another process changed the service
    damaged,     \* history: the data on disk is not the application's own work
    excused      \* history: the service may be down for good, see DownHasACause

service == <<online, native, paths>>
app == <<up, data, pending, writes>>
jobs == <<kind, pc, tree, left>>
history == <<unwiped, disturbed, damaged, excused>>
vars == <<service, app, repo, holder, jobs, history>>

\* A cold run really stops the service.
Cold == ~online /\ ~native

Backing(j) == kind[j] \in Modes

Init ==
    /\ online \in BOOLEAN /\ native \in BOOLEAN /\ paths \in BOOLEAN
    \* An online run asks for neither.
    /\ online => ~native /\ paths
    /\ up = TRUE /\ data = Empty /\ pending = {} /\ writes = 0
    /\ repo = << >> /\ holder = Nobody
    /\ kind = [j \in Jobs |-> "none"] /\ pc = [j \in Jobs |-> "idle"]
    /\ tree = [j \in Jobs |-> Empty] /\ left = [j \in Jobs |-> {}]
    /\ unwiped = {} /\ disturbed = {} /\ damaged = FALSE /\ excused = FALSE

Goto(j, l) == pc' = [pc EXCEPT ![j] = l]
At(j, l) == pc[j] = l /\ UNCHANGED service

Done == {j \in Jobs : pc[j] \in {"idle", "prune", "exit"}}

\* Every other process at work sees the service change under it.  (What history
\* keeps is about services that are stopped for their snapshots.)
Disturb(js) ==
    disturbed' = IF Cold THEN {i \in Jobs \ Done : i \in disturbed \cup js} ELSE {}

\* What restic held in memory is gone.
Forget(j) ==
    /\ tree' = [tree EXCEPT ![j] = Empty] /\ left' = [left EXCEPT ![j] = {}]
    /\ unwiped' = unwiped \ {j}

\* The job's process ends, and its lock is released with it.
Ends(j) ==
    /\ kind' = [kind EXCEPT ![j] = "none"] /\ Goto(j, "idle") /\ Forget(j)
    /\ holder' = IF holder = j THEN Nobody ELSE holder
    /\ disturbed' = disturbed \ {j}

(***************************************************************************)
(* The application and its units.                                          *)
(***************************************************************************)
BeginTransaction ==
    /\ up /\ pending = {} /\ writes < MaxWrites
    /\ writes' = writes + 1 /\ pending' = Files
    /\ UNCHANGED <<service, up, data, repo, holder, jobs, history>>

WriteData(f) ==
    /\ up /\ f \in pending
    /\ data' = [data EXCEPT ![f] = writes]
    /\ pending' = pending \ {f}
    /\ UNCHANGED <<service, up, writes, repo, holder, jobs, history>>

\* A stopping application finishes its transaction: the settle time of a cold
\* snapshot is for that.
Stopped ==
    /\ up' = FALSE
    /\ data' = [f \in Files |-> IF f \in pending THEN writes ELSE data[f]]
    /\ pending' = {}
    /\ UNCHANGED writes

Started == up' = TRUE /\ UNCHANGED <<data, pending, writes>>

\* `ryra start`, `ryra stop`: one process, which holds the mutation lock.
Start ==
    /\ holder = Nobody /\ ~up
    /\ Started /\ Disturb(Jobs) /\ excused' = FALSE
    /\ UNCHANGED <<service, repo, holder, jobs, unwiped, damaged>>

Stop ==
    /\ holder = Nobody /\ up
    /\ Stopped /\ Disturb(Jobs) /\ excused' = TRUE
    /\ UNCHANGED <<service, repo, holder, jobs, unwiped, damaged>>

(***************************************************************************)
(* The steps a backup and a restore share.                                 *)
(***************************************************************************)

\* A stop that is requested and not waited for.
RequestStop(j) ==
    /\ At(j, "stop")
    /\ Disturb(Jobs \ {j})
    /\ Goto(j, IF Backing(j) THEN "chown" ELSE "wipe")
    /\ UNCHANGED <<app, repo, holder, kind, tree, left, unwiped, damaged, excused>>

\* stop_units, and the settle time.  A native service has no unit on the list.
StopUnits(j) ==
    /\ At(j, "stop")
    /\ IF native THEN UNCHANGED <<app, disturbed>>
       ELSE Stopped /\ Disturb(Jobs \ {j})
    /\ Goto(j, IF Backing(j) THEN "chown" ELSE "wipe")
    /\ UNCHANGED <<repo, holder, kind, tree, left, unwiped, damaged, excused>>

\* chown_for_read, which has the declared paths to change, the end of the wipe or
\* the hook ahead of restic fails: the run returns from there.
PrepareFails(j) ==
    /\ pc[j] = "hook" \/ (pc[j] = "chown" /\ paths)
    /\ UNCHANGED service
    /\ Ends(j)
    /\ excused' = TRUE
    /\ UNCHANGED <<app, repo, damaged>>

\* A backup that returns restic's error at once.
ResticFailsAtOnce(j) ==
    /\ At(j, "restic")
    /\ Ends(j)
    /\ UNCHANGED <<app, repo, damaged, excused>>

\* restic ends with an error.  A backup still brings the service up.
ResticFails(j) ==
    /\ At(j, "restic")
    /\ IF Backing(j)
       THEN /\ Goto(j, "recover") /\ Forget(j)
            /\ UNCHANGED <<holder, kind, disturbed, excused>>
       ELSE /\ Ends(j)
            /\ excused' = TRUE
    /\ UNCHANGED <<app, repo, damaged>>

\* The post hook, or start_service.  A scheduled backup that has its snapshot
\* then prunes.
BringUp(j) ==
    /\ At(j, "bringUp") \/ At(j, "recover")
    /\ IF online THEN UNCHANGED <<app, disturbed, excused>>
       ELSE Started /\ Disturb(Jobs \ {j}) /\ excused' = FALSE
    /\ Goto(j, IF pc[j] = "bringUp" /\ kind[j] \in Schedules THEN "prune" ELSE "exit")
    /\ Forget(j)
    /\ UNCHANGED <<repo, holder, kind, damaged>>

Exit(j) ==
    /\ At(j, "exit")
    /\ Ends(j)
    /\ UNCHANGED <<app, repo, damaged, excused>>

BringUpFails(j) ==
    /\ At(j, "bringUp") \/ At(j, "recover")
    /\ Ends(j)
    /\ excused' = TRUE
    /\ UNCHANGED <<app, repo, damaged>>

\* The process is killed: whatever it stopped stays stopped.
Kill(j) ==
    /\ pc[j] # "idle" /\ UNCHANGED service
    /\ Ends(j)
    /\ excused' = TRUE
    /\ UNCHANGED <<app, repo, damaged>>

(***************************************************************************)
(* A backup: run_one, execute_backup_run, prune_one.                       *)
(***************************************************************************)
BeginBackup(j, mode) ==
    /\ pc[j] = "idle" /\ Len(repo) < MaxSnapshots /\ UNCHANGED service
    /\ kind' = [kind EXCEPT ![j] = mode]
    /\ Goto(j, IF online THEN "hook" ELSE "stop")
    /\ disturbed' = disturbed \ {j}
    /\ UNCHANGED <<app, repo, holder, tree, left, unwiped, damaged, excused>>

ChownForRead(j) ==
    /\ At(j, "chown") /\ Goto(j, "hook")
    /\ UNCHANGED <<app, repo, holder, kind, tree, left, history>>

\* The hook ahead of restic, if the service has one; restic starts.
PreBackup(j) ==
    /\ At(j, "hook") /\ Backing(j) /\ Goto(j, "restic")
    /\ left' = [left EXCEPT ![j] = Files]
    /\ UNCHANGED <<app, repo, holder, kind, tree, history>>

\* restic reads the tree file by file, as it is when it gets there.
ReadFile(j, f) ==
    /\ At(j, "restic") /\ Backing(j) /\ f \in left[j]
    /\ tree' = [tree EXCEPT ![j][f] = data[f]]
    /\ left' = [left EXCEPT ![j] = @ \ {f}]
    /\ UNCHANGED <<app, repo, holder, kind, pc, history>>

SaveSnapshot(j) ==
    /\ At(j, "restic") /\ Backing(j) /\ left[j] = {}
    /\ Len(repo) < MaxSnapshots
    /\ repo' = Append(repo, [tree |-> tree[j], mode |-> kind[j],
                             sound |-> Cold /\ j \notin disturbed /\ ~damaged])
    /\ Goto(j, "bringUp") /\ Forget(j)
    /\ UNCHANGED <<app, holder, kind, disturbed, damaged, excused>>

Younger(i) == {k \in i + 1 .. Len(repo) : repo[k].mode = repo[i].mode}

\* A forget without the mode's tag: it counts all the service's snapshots.
SpentAnyMode(mode) ==
    {i \in DOMAIN repo : Cardinality(i + 1 .. Len(repo)) >= Keep}

\* plan_mode_prune: `restic forget --tag service:<s>,mode:<mode> --keep-last`.
Spent(mode) ==
    {i \in DOMAIN repo : repo[i].mode = mode /\ Cardinality(Younger(i)) >= Keep}

\* The n-th smallest of a set of numbers.
Nth(S, n) == CHOOSE i \in S : Cardinality({k \in S : k <= i}) = n

Without(spent) ==
    LET kept == DOMAIN repo \ spent
    IN  [n \in 1 .. Cardinality(kept) |-> repo[Nth(kept, n)]]

\* Best effort: restic may find the repository locked.
Prune(j) ==
    /\ At(j, "prune")
    /\ Ends(j)
    /\ repo' \in {repo, Without(Spent(kind[j]))}
    /\ UNCHANGED <<app, damaged, excused>>

(***************************************************************************)
(* A restore: execute_backup_restore.                                      *)
(***************************************************************************)

\* A restore from the CLI looks the snapshot's tags up first, unless --force:
\* a service without any snapshot is refused.
BeginRestore(j, via) ==
    /\ pc[j] = "idle" /\ UNCHANGED service
    /\ \/ via = "rpc" /\ UNCHANGED holder
       \/ via = "force" /\ holder = Nobody /\ holder' = j
       \/ via = "cli" /\ holder = Nobody /\ holder' = j /\ repo # << >>
    /\ kind' = [kind EXCEPT ![j] = "restore"]
    /\ Goto(j, IF online THEN "hook" ELSE "stop")
    /\ disturbed' = disturbed \ {j}
    /\ UNCHANGED <<app, repo, tree, left, unwiped, damaged, excused>>

\* A restore over the tree as it is.
KeepTree(j) ==
    /\ At(j, "wipe") /\ Goto(j, "hook")
    /\ UNCHANGED <<app, repo, holder, kind, tree, left, history>>

\* The tree without what rm -rf took away.
Wiped(kept) == data' = [f \in Files |-> IF f \in kept THEN data[f] ELSE 0]

\* wipe_for_restore, before restic is asked for anything: it empties the declared
\* paths.  An rm that fails leaves what it could not remove, and is ignored; a
\* path that cannot be made again ends the run, as the hook's failure does.
WipeForRestore(j) ==
    /\ At(j, "wipe") /\ Goto(j, "hook")
    /\ \/ /\ ~paths
          /\ UNCHANGED <<data, unwiped, disturbed, damaged>>
       \/ \E kept \in SUBSET {f \in Files : data[f] # 0} :
             /\ paths /\ Wiped(kept)
             /\ unwiped' = IF Cold /\ kept # {} THEN unwiped \cup {j} ELSE unwiped
             /\ damaged' = Cold /\ Disturb(Jobs \ {j})
    /\ UNCHANGED <<up, pending, writes, repo, holder, kind, tree, left, excused>>

\* The hook; restic resolves `latest` or the id it was given.
PreRestore(j, i) ==
    /\ At(j, "hook") /\ kind[j] = "restore" /\ i \in DOMAIN repo
    /\ Goto(j, "restic")
    /\ tree' = [tree EXCEPT ![j] = repo[i].tree]
    /\ left' = [left EXCEPT ![j] = {f \in Files : repo[i].tree[f] # 0}]
    /\ UNCHANGED <<app, repo, holder, kind, history>>

\* restic fails where there is no snapshot.
NoSnapshot(j) ==
    /\ At(j, "hook") /\ kind[j] = "restore" /\ repo = << >>
    /\ Ends(j)
    /\ excused' = TRUE
    /\ UNCHANGED <<app, repo, damaged>>

\* restic writes the files of the snapshot and deletes none.
RestoreFile(j, f) ==
    /\ At(j, "restic") /\ kind[j] = "restore" /\ f \in left[j]
    /\ data' = [data EXCEPT ![f] = tree[j][f]]
    /\ left' = [left EXCEPT ![j] = @ \ {f}]
    /\ damaged' = Cold /\ Disturb(Jobs \ {j})
    /\ UNCHANGED <<up, pending, writes, repo, holder, kind, pc, tree, unwiped, excused>>

Restored(j) ==
    /\ At(j, "restic") /\ kind[j] = "restore" /\ left[j] = {}
    /\ Goto(j, "bringUp")
    /\ damaged' = (Cold /\ (j \in disturbed \/ data # tree[j] \/ ~Consistent(tree[j])))
    /\ UNCHANGED <<app, repo, holder, kind, tree, left, unwiped, disturbed, excused>>

Next ==
    \/ BeginTransaction
    \/ \E f \in Files : WriteData(f)
    \/ Start
    \/ Stop
    \/ \E j \in Jobs :
          \/ StopUnits(j)
          \/ PrepareFails(j)
          \/ ResticFails(j)
          \/ BringUp(j)
          \/ BringUpFails(j)
          \/ Exit(j)
          \/ Kill(j)
          \/ \E mode \in Modes : BeginBackup(j, mode)
          \/ ChownForRead(j)
          \/ PreBackup(j)
          \/ \E f \in Files : ReadFile(j, f)
          \/ SaveSnapshot(j)
          \/ Prune(j)
          \/ \E via \in {"cli", "force", "rpc"} : BeginRestore(j, via)
          \/ WipeForRestore(j)
          \/ \E i \in 1 .. MaxSnapshots : PreRestore(j, i)
          \/ NoSnapshot(j)
          \/ \E f \in Files : RestoreFile(j, f)
          \/ Restored(j)

Spec == Init /\ [][Next]_vars

-----------------------------------------------------------------------------
(***************************************************************************)
(* Properties.                                                             *)
(***************************************************************************)
Labels ==
    {"idle", "stop", "chown", "wipe", "hook", "restic", "bringUp", "recover", "prune",
     "exit"}
Snapshots == [tree : Trees, mode : Modes, sound : BOOLEAN]

\* Every variable stays in its range, and a job is idle when it has no kind.
TypeOK ==
    /\ online \in BOOLEAN /\ native \in BOOLEAN /\ paths \in BOOLEAN /\ up \in BOOLEAN
    /\ data \in Trees /\ pending \subseteq Files /\ writes \in 0 .. MaxWrites
    /\ repo \in Seq(Snapshots)
    /\ holder \in Jobs \cup {Nobody}
    /\ kind \in [Jobs -> Modes \cup {"none", "restore"}] /\ pc \in [Jobs -> Labels]
    /\ \A j \in Jobs : (kind[j] = "none") = (pc[j] = "idle")
    /\ tree \in [Jobs -> Trees] /\ left \in [Jobs -> SUBSET Files]
    /\ unwiped \subseteq Jobs /\ disturbed \subseteq Jobs /\ damaged \in BOOLEAN
    /\ excused \in BOOLEAN

\* A snapshot of a service that is stopped for it is consistent.  (Violated: two backups at
\* once, say the daily and the weekly timer, and the one that ends first starts
\* the service that the other one is still reading.)
ColdSnapshotsConsistent ==
    Cold => \A i \in DOMAIN repo : Consistent(repo[i].tree)

\* It is when no other process started, stopped or restored the service under
\* the backup, and what was on disk was not left by a restore that failed, was
\* disturbed, left younger files behind or put an inconsistent snapshot back.
\* (Of a cold service with container units: a native one is never stopped.)
SoundSnapshotsConsistent ==
    Cold => \A i \in DOMAIN repo : repo[i].sound => Consistent(repo[i].tree)

\* When a cold restore that nothing disturbed is about to start the service
\* again, every file of the snapshot is back as it was; and where the data paths
\* are declared and rm could remove what they held, the tree is the snapshot's:
\* nothing younger lingers in it.  (Of a service whose paths are not declared
\* nothing is wiped, so younger files stay.)
RestoreIsExact ==
    \A j \in Jobs \ disturbed :
        Cold /\ kind[j] = "restore" /\ pc[j] = "bringUp" =>
            /\ \A f \in Files : tree[j][f] # 0 => data[f] = tree[j][f]
            /\ paths /\ j \notin unwiped => data = tree[j]

\* A cold restore that nothing disturbed leaves no file younger than the
\* snapshot.  (Violated: without declared paths nothing is wiped, and an rm that
\* fails is ignored.)
NothingLingers ==
    \A j \in Jobs \ disturbed :
        Cold /\ kind[j] = "restore" /\ pc[j] = "bringUp" => data = tree[j]

\* With no run at work the service is down only if an operator stopped it, a
\* preparation, a restore or a start failed, or a process was killed: never
\* because restic failed in a backup, however many of them overlap.
DownHasACause ==
    ~up /\ (\A j \in Jobs : pc[j] = "idle") => excused

\* A snapshot only ever leaves the repository when its own schedule has taken
\* as many younger ones as it keeps: overlapping schedules do not spend each
\* other's snapshots, and manual ones stay.
PrunedInItsTurn ==
    [][ \A i \in DOMAIN repo :
          repo[i] \notin ToSet(repo') =>
             repo[i].mode \in Schedules /\ Cardinality(Younger(i)) >= Keep ]_vars
==============================================================================
