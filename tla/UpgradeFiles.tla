---------------------------- MODULE UpgradeFiles ----------------------------
(***************************************************************************)
(* `ryra upgrade` and `ryra revert` of one installed service with the      *)
(* restart strategy: the files on disk against the manifest that records   *)
(* what ryra last wrote, the snapshot an upgrade takes of what it          *)
(* displaces, and the revert that puts a snapshot back (upgrade.rs,        *)
(* cli/upgrade.rs, cli/revert.rs).  A plan is computed from one reading of *)
(* the files and then run step by step; it may be cut short after any      *)
(* step, and the user may edit files between any two of them.              *)
(*                                                                         *)
(* The content of a file is the sequence of its lines.  `Shared` is the    *)
(* Caddyfile: every routed service has a block in it, and this service's   *)
(* manifest hashes all of it.                                              *)
(***************************************************************************)
EXTENDS Naturals, Sequences, SequencesExt

CONSTANTS
    Files,        \* what the service has ever been rendered to, but `.env`
    Shared,       \* the Caddyfile
    Lines,        \* lines of content
    Keys,         \* keys of `.env`
    Render,       \* per registry version and file: its content
    RenderKeys,   \* per registry version: the static keys of `.env`
    Keep,         \* DEFAULT_BACKUP_KEEP
    MaxCommands,  \* bound: upgrades and reverts that are begun
    MaxEdits      \* bound: changes the user makes

Versions == DOMAIN Render
Content == Seq(Lines)
Absent == << >>
State == [Files -> Content]

\* A backup directory: copies of files, and of the manifest once it is there.
Snapshots == [saved : State, lock : Seq(State)]

\* A line that only a user writes.
Edited(content) == "edit" \in ToSet(content)

ASSUME ConstantsOK ==
    /\ Shared \in Files
    /\ {"self", "other", "edit"} \subseteq Lines
    /\ 1 \in Versions /\ Versions \subseteq Nat
    /\ Render \in [Versions -> [Files \ {Shared} -> Content]]
    /\ \A v \in Versions, f \in Files \ {Shared} : ~Edited(Render[v][f])
    /\ RenderKeys \in [Versions -> SUBSET Keys]
    /\ Keep \in Nat \ {0} /\ MaxCommands \in Nat /\ MaxEdits \in Nat

VARIABLES
    registry,   \* the registry's version
    disk,       \* per file: its content, or Absent
    manifest,   \* per file: the content whose hash service.manifest records
    env,        \* the keys of `.env`
    snapshots,  \* the service's backup directories, newest first
    kind,       \* the running command: "upgrade", "revert" or "none"
    pc,         \* its next step, or "idle"
    plan,       \* what was computed before its first step
    todo,       \* files it has yet to write or put back
    needs,      \* files it has yet to copy into its snapshot
    gone,       \* files it has yet to delete
    before,     \* history: disk and manifest when the last snapshot was opened
    last,       \* history: the last command, when it ran to its end
    exact,      \* history: nothing else has changed a file since `before`
    mixed,      \* history: a command was cut short, or went back to a mixture
    raced,      \* history: files and keys the user changed under an upgrade
    commands, edits

service == <<disk, manifest, env>>
command == <<kind, pc, plan, todo, needs, gone>>
history == <<before, last, exact, mixed, raced>>
bounds == <<commands, edits>>
vars == <<registry, service, snapshots, command, history, bounds>>

(***************************************************************************)
(* diff_service.                                                           *)
(***************************************************************************)

\* caddy::remove_route: the lines but for every block of the service.
Unrouted(content, block) ==
    LET rest[n \in 0 .. Len(content)] ==
          IF n = 0 THEN << >>
          ELSE IF content[n] = block THEN rest[n - 1]
          ELSE Append(rest[n - 1], content[n])
    IN  rest[Len(content)]

\* caddy::add_route: drop the service's block, append it at the end.
Rerouted(content) == Append(Unrouted(content, "self"), "self")

Planned(f) == IF f = Shared THEN Rerouted(disk[f]) ELSE Render[registry][f]

\* A comparison that takes every change of the render for a hand edit.
KindByRender(f) ==
    CASE Planned(f) = Absent /\ manifest[f] = Absent -> "None"
      [] Planned(f) = Absent /\ manifest[f] # Absent -> "Removed"
      [] Planned(f) # Absent /\ disk[f] = Absent ->
            IF manifest[f] # Absent THEN "Modified" ELSE "Added"
      [] Planned(f) # Absent /\ disk[f] = Planned(f) -> "Unchanged"
      [] OTHER -> IF Planned(f) = manifest[f] THEN "Modified" ELSE "Drift"

Kind(f) ==
    CASE Planned(f) = Absent /\ manifest[f] = Absent -> "None"
      [] Planned(f) = Absent /\ manifest[f] # Absent -> "Removed"
      [] Planned(f) # Absent /\ disk[f] = Absent ->
            IF manifest[f] # Absent THEN "Modified" ELSE "Added"
      [] Planned(f) # Absent /\ disk[f] = Planned(f) -> "Unchanged"
      [] OTHER -> IF disk[f] = manifest[f] THEN "Modified" ELSE "Drift"

OfKind(kinds) == {f \in Files : Kind(f) \in kinds}
EnvAdditions == RenderKeys[registry] \ env
Clean == OfKind({"Added", "Modified", "Drift", "Removed"}) = {} /\ EnvAdditions = {}

NoPlan ==
    [forced |-> FALSE, target |-> [f \in Files |-> Absent], env |-> {}, lock |-> << >>]

Init ==
    /\ registry = 1
    /\ disk = [f \in Files |-> IF f = Shared THEN <<"self">> ELSE Render[1][f]]
    /\ manifest = disk
    /\ env = RenderKeys[1]
    /\ snapshots = << >>
    /\ kind = "none" /\ pc = "idle" /\ plan = NoPlan
    /\ todo = {} /\ needs = {} /\ gone = {}
    /\ before = [disk |-> disk, manifest |-> manifest, mixed |-> FALSE]
    /\ last = "none" /\ exact = FALSE /\ mixed = FALSE /\ raced = {}
    /\ commands = 0 /\ edits = 0

(***************************************************************************)
(* `ryra upgrade`.                                                         *)
(***************************************************************************)

\* An upgrade that does not look for hand edits.
RefusedNever(forced) == FALSE

Refused(forced) == ~forced /\ OfKind({"Drift"}) # {}

\* A backup of nothing but what ryra wrote.
DisplacedOwn == {f \in OfKind({"Modified", "Removed"}) : disk[f] # Absent}

\* The files to back up.
Displaced == {f \in OfKind({"Modified", "Drift", "Removed"}) : disk[f] # Absent}

\* upgrade_service: refuse a hand edit, or read everything into a plan.  An
\* empty `env` stands for no write of `.env`.  Without a Caddyfile the render
\* itself fails.
BeginUpgrade(forced) ==
    /\ pc = "idle" /\ commands < MaxCommands
    /\ disk[Shared] # Absent /\ ~Clean
    /\ ~Refused(forced)
    /\ kind' = "upgrade" /\ pc' = "open" /\ commands' = commands + 1
    /\ plan' = [forced |-> forced, target |-> [f \in Files |-> Planned(f)],
                env |-> IF EnvAdditions = {} THEN {} ELSE env \cup EnvAdditions,
                lock |-> << >>]
    /\ todo' = OfKind({"Added", "Modified", "Drift"})
    /\ gone' = OfKind({"Removed"})
    /\ needs' = Displaced
    /\ exact' = TRUE /\ last' = "none"
    /\ UNCHANGED <<registry, service, snapshots, before, mixed, raced, edits>>

\* CreateDir of the backup directory.
OpenSnapshot ==
    /\ pc = "open" /\ pc' = "write"
    /\ snapshots' = << [saved |-> NoPlan.target, lock |-> << >>] >> \o snapshots
    /\ before' = [disk |-> disk, manifest |-> manifest, mixed |-> mixed]
    /\ UNCHANGED <<registry, service, kind, plan, todo, needs, gone, last, exact,
                   mixed, raced, bounds>>

\* CopyFile into the snapshot, ahead of the write or the delete of the file;
\* it fails when the file has gone.
CopyToSnapshot(f) ==
    /\ f \in needs /\ disk[f] # Absent
    /\ \/ pc = "write" /\ f \in todo
       \/ pc = "delete" /\ f \in gone
    /\ needs' = needs \ {f}
    /\ snapshots' = [snapshots EXCEPT ![1].saved[f] = disk[f]]
    /\ UNCHANGED <<registry, service, kind, pc, plan, todo, gone, history, bounds>>

WriteFile(f) ==
    /\ pc = "write" /\ f \in todo \ needs
    /\ disk' = [disk EXCEPT ![f] = plan.target[f]]
    /\ todo' = todo \ {f}
    /\ UNCHANGED <<registry, manifest, env, snapshots, kind, pc, plan, needs, gone,
                   history, bounds>>

\* The manifest is kept in every snapshot: a revert needs it.
CopyManifest ==
    /\ pc = "write" /\ todo = {} /\ pc' = "manifest"
    /\ snapshots' = [snapshots EXCEPT ![1].lock = <<manifest>>]
    /\ UNCHANGED <<registry, service, kind, plan, todo, needs, gone, history, bounds>>

\* An upgrade that takes the manifest for one more unchanged file.
SkipManifest ==
    /\ pc = "manifest" /\ pc' = "delete"
    /\ UNCHANGED <<registry, service, snapshots, kind, plan, todo, needs, gone,
                   history, bounds>>

\* Written although its own content is never part of the diff, and before the
\* files it no longer lists are deleted.
WriteManifest ==
    /\ pc = "manifest" /\ pc' = "delete"
    /\ manifest' = plan.target
    /\ UNCHANGED <<registry, disk, env, snapshots, kind, plan, todo, needs, gone,
                   history, bounds>>

\* RemoveFile; a file that is gone already is no error.
DeleteFile(f) ==
    /\ pc = "delete" /\ f \in gone \ needs
    /\ disk' = [disk EXCEPT ![f] = Absent]
    /\ gone' = gone \ {f}
    /\ UNCHANGED <<registry, manifest, env, snapshots, kind, pc, plan, todo, needs,
                   history, bounds>>

\* A write of `.env` with the keys of the registry alone.
RewriteEnv ==
    /\ kind = "upgrade" /\ pc = "delete" /\ gone = {} /\ pc' = "restart"
    /\ env' = IF plan.env = {} THEN env ELSE RenderKeys[registry]
    /\ UNCHANGED <<registry, disk, manifest, snapshots, kind, plan, todo, needs, gone,
                   history, bounds>>

\* The keys as they were read for the plan, and the missing ones.
AppendEnv ==
    /\ kind = "upgrade" /\ pc = "delete" /\ gone = {} /\ pc' = "restart"
    /\ env' = IF plan.env = {} THEN env ELSE plan.env
    /\ UNCHANGED <<registry, disk, manifest, snapshots, kind, plan, todo, needs, gone,
                   history, bounds>>

\* RestartService, then prune_backups.
FinishUpgrade ==
    /\ kind = "upgrade" /\ pc = "restart"
    /\ kind' = "none" /\ pc' = "idle"
    /\ snapshots' = IF Len(snapshots) <= Keep THEN snapshots
                    ELSE SubSeq(snapshots, 1, Keep)
    /\ last' = "upgrade" /\ mixed' = FALSE /\ raced' = {}
    /\ UNCHANGED <<registry, service, plan, todo, needs, gone, before, exact, bounds>>

(***************************************************************************)
(* `ryra revert [--at <timestamp>]`.                                       *)
(***************************************************************************)

\* The files a backup directory holds a copy of.
Saved(snapshot) == {f \in Files : snapshot.saved[f] # Absent}

\* A revert that leaves what the upgrade added.
AddedNone(snapshot) == {}

\* Files the manifest lists and the snapshot's manifest does not.  A snapshot
\* without a manifest cannot tell.
AddedSince(snapshot) ==
    IF snapshot.lock = << >> THEN {}
    ELSE {f \in Files : manifest[f] # Absent /\ snapshot.lock[1][f] = Absent}

\* The user had deleted the file before the last upgrade: the upgrade wrote
\* it again, and no snapshot can say that it was not there.
DeletedByHand(f) == before.disk[f] = Absent /\ before.manifest[f] # Absent

BeginRevert(i) ==
    /\ pc = "idle" /\ commands < MaxCommands /\ i \in DOMAIN snapshots
    /\ kind' = "revert" /\ pc' = "write" /\ commands' = commands + 1
    /\ todo' = Saved(snapshots[i])
    /\ gone' = AddedSince(snapshots[i]) /\ needs' = {}
    /\ plan' = [forced |-> TRUE,
                target |-> [f \in Files |-> IF f \in Saved(snapshots[i])
                                            THEN snapshots[i].saved[f] ELSE disk[f]],
                env |-> {}, lock |-> snapshots[i].lock]
    /\ exact' = (exact /\ i = 1 /\ last = "upgrade")
    /\ mixed' = (mixed \/ before.mixed \/ i # 1 \/ \E f \in Files : DeletedByHand(f))
    /\ last' = "none"
    /\ UNCHANGED <<registry, service, snapshots, before, raced, edits>>

\* CopyFile out of the snapshot, in the order of the directory's entries.
RestoreFile(f) ==
    /\ kind = "revert" /\ WriteFile(f)

RestoreManifest ==
    /\ kind = "revert" /\ pc = "write" /\ plan.lock # << >>
    /\ manifest' = plan.lock[1]
    /\ plan' = [plan EXCEPT !.lock = << >>]
    /\ UNCHANGED <<registry, disk, env, snapshots, kind, pc, todo, needs, gone,
                   history, bounds>>

EraseAdded(f) ==
    /\ kind = "revert" /\ pc = "write" /\ todo = {} /\ plan.lock = << >>
    /\ f \in gone
    /\ disk' = [disk EXCEPT ![f] = Absent]
    /\ gone' = gone \ {f}
    /\ UNCHANGED <<registry, manifest, env, snapshots, kind, pc, plan, todo, needs,
                   history, bounds>>

\* DaemonReload and RestartService.
FinishRevert ==
    /\ kind = "revert" /\ todo = {} /\ plan.lock = << >> /\ gone = {}
    /\ kind' = "none" /\ pc' = "idle"
    /\ last' = "revert" /\ raced' = {} /\ plan' = NoPlan
    /\ UNCHANGED <<registry, service, snapshots, todo, needs, gone, before, exact,
                   mixed, bounds>>

\* A record of `before` that nothing refers to: once a command was cut short
\* between two files, only the next upgrade's snapshot counts.
Forgotten ==
    [disk |-> NoPlan.target, manifest |-> NoPlan.target, mixed |-> FALSE]

\* The operator declines, a step fails, or the process is killed.
Abort ==
    /\ pc # "idle"
    /\ kind' = "none" /\ pc' = "idle"
    /\ plan' = NoPlan /\ todo' = {} /\ needs' = {} /\ gone' = {}
    /\ last' = "aborted" /\ mixed' = (mixed \/ pc # "open") /\ exact' = FALSE
    /\ raced' = {}
    /\ before' = IF pc = "open" THEN before ELSE Forgotten
    /\ UNCHANGED <<registry, service, snapshots, bounds>>

(***************************************************************************)
(* The user, the registry and the other services.                          *)
(***************************************************************************)
UserChanges(f, content) ==
    /\ disk[f] # Absent /\ edits < MaxEdits /\ edits' = edits + 1
    /\ disk' = [disk EXCEPT ![f] = content]
    /\ exact' = FALSE
    /\ raced' = IF pc = "idle" THEN raced ELSE raced \cup {f}
    /\ UNCHANGED <<registry, manifest, env, snapshots, command, before, last, mixed,
                   commands>>

UserAddsKey(k) ==
    /\ k \notin env /\ edits < MaxEdits /\ edits' = edits + 1
    /\ env' = env \cup {k}
    /\ raced' = IF pc = "idle" THEN raced ELSE raced \cup {k}
    /\ UNCHANGED <<registry, disk, manifest, snapshots, command, before, last, exact,
                   mixed, commands>>

BumpRegistry ==
    /\ registry + 1 \in Versions
    /\ registry' = registry + 1
    /\ UNCHANGED <<service, snapshots, command, history, bounds>>

\* `ryra add` or `ryra remove` of another routed service, which holds the
\* mutation lock.
OtherRoute ==
    /\ pc = "idle" /\ disk[Shared] # Absent
    /\ disk' = [disk EXCEPT ![Shared] =
                    IF "other" \in ToSet(@) THEN Unrouted(@, "other")
                    ELSE Append(@, "other")]
    /\ exact' = FALSE
    /\ UNCHANGED <<registry, manifest, env, snapshots, command, before, last, mixed,
                   raced, bounds>>

Next ==
    \/ \E forced \in BOOLEAN : BeginUpgrade(forced)
    \/ OpenSnapshot
    \/ \E f \in Files : CopyToSnapshot(f)
    \/ \E f \in Files : kind = "upgrade" /\ WriteFile(f)
    \/ kind = "upgrade" /\ CopyManifest
    \/ WriteManifest
    \/ \E f \in Files : DeleteFile(f)
    \/ AppendEnv
    \/ FinishUpgrade
    \/ \E i \in 1 .. MaxCommands : BeginRevert(i)
    \/ \E f \in Files : RestoreFile(f)
    \/ RestoreManifest
    \/ \E f \in Files : EraseAdded(f)
    \/ FinishRevert
    \/ Abort
    \/ \E f \in Files :
          UserChanges(f, Append(disk[f], "edit")) \/ UserChanges(f, Absent)
    \/ \E k \in Keys : UserAddsKey(k)
    \/ BumpRegistry
    \/ OtherRoute

Spec == Init /\ [][Next]_vars

-----------------------------------------------------------------------------
(***************************************************************************)
(* Properties.                                                             *)
(***************************************************************************)
\* Every variable stays in its range; a running upgrade has its snapshot.
TypeOK ==
    /\ registry \in Versions
    /\ disk \in State /\ manifest \in State /\ env \subseteq Keys
    /\ snapshots \in Seq(Snapshots)
    /\ kind \in {"none", "upgrade", "revert"}
    /\ pc \in {"idle", "open", "write", "manifest", "delete", "restart"}
    /\ (kind = "none") = (pc = "idle")
    /\ kind = "upgrade" /\ pc # "open" => snapshots # << >>
    /\ plan \in [forced : BOOLEAN, target : State, env : SUBSET Keys, lock : Seq(State)]
    /\ todo \subseteq Files /\ needs \subseteq Files /\ gone \subseteq Files
    /\ before \in [disk : State, manifest : State, mixed : BOOLEAN]
    /\ last \in {"none", "upgrade", "revert", "aborted"}
    /\ exact \in BOOLEAN /\ mixed \in BOOLEAN
    /\ commands \in 0 .. MaxCommands /\ edits \in 0 .. MaxEdits

\* Without --force an upgrade never takes a hand edit off the disk.  Files that
\* change between the plan and the step are left out.  (Violated: a file the
\* registry has stopped shipping is deleted without a look at its content.)
HandEditsSurvive ==
    [][ kind = "upgrade" /\ ~plan.forced =>
          \A f \in Files \ raced' :
             Edited(disk[f]) => Edited(disk'[f]) ]_vars

\* The same for the files the registry still ships.
ShippedEditsSurvive ==
    [][ kind = "upgrade" /\ ~plan.forced =>
          \A f \in Files \ raced' :
             plan.target[f] # Absent /\ Edited(disk[f]) => Edited(disk'[f]) ]_vars

\* Whatever an upgrade overwrites or deletes is in the snapshot it is taking,
\* as it was: forced over an edit, deleted, or cut short, it can be put back.
NothingLost ==
    [][ kind = "upgrade" =>
          \A f \in Files \ raced' :
             disk'[f] # disk[f] /\ disk[f] # Absent =>
                /\ f \in Saved(snapshots[1])
                /\ snapshots[1].saved[f] = disk[f] ]_vars

\* An upgrade that ran to its end, and then a revert that did, put every file
\* the manifest tells the truth about back to what it was, edits included: a
\* file that was deleted by hand, or was never recorded, is left out.
RevertUndoes ==
    last = "revert" /\ exact =>
        /\ manifest = before.manifest
        /\ \A f \in Files :
              (before.disk[f] = Absent) = (before.manifest[f] = Absent) =>
                  disk[f] = before.disk[f]

\* After an upgrade that ran to its end, also one that follows an interrupted
\* one, every file the registry ships or the manifest listed is as rendered,
\* and the manifest records just that.
UpgradeConverges ==
    last = "upgrade" /\ exact =>
        /\ manifest = plan.target
        /\ \A f \in Files :
              plan.target[f] # Absent \/ before.manifest[f] # Absent =>
                  disk[f] = plan.target[f]

\* A recorded file other than the Caddyfile is only ever reported as edited
\* when the user did edit it; or after a command was cut short, an older
\* snapshot was put back, or a file deleted by hand was left behind by a
\* revert, and no upgrade has run to its end since.
DriftIsAnEdit ==
    pc = "idle" /\ ~mixed =>
        \A f \in Files \ {Shared} :
            Kind(f) = "Drift" /\ manifest[f] # Absent => Edited(disk[f])

\* `.env` only ever gains keys: a key is lost only if it was added after the
\* upgrade that writes the file had read it.
EnvOnlyGrows == [][ env \ raced \subseteq env' ]_vars
==============================================================================
