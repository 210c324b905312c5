# A TLA+ model of ryra

ryra installs self-hosted services on one machine as systemd user units (podman
quadlets or native processes), puts them behind Caddy, upgrades, reverts,
removes and backs them up. Almost every command follows one pattern: *plan*,
by reading the files on disk and rendering what they should be into a list of
`Step`s, then *execute* the steps one by one (`execute_all` in
`system/apply.rs`), which stops at the first failure and undoes nothing. What
can go wrong is therefore what happens between the plan and a step, or between
two steps: another process, the user, a crash, a reboot, a slot that never
becomes healthy. That is what these modules are about.

Contents: [the system](#1-the-system), [the modules](#2-the-modules),
[the runs](#3-the-runs), [the proofs](#4-the-proofs),
[disagreements](#5-where-the-code-and-its-documentation-disagree),
[what is left out](#6-what-is-not-modelled), [the plan](#7-plan).

`PROJECT.json` holds the same in machine-readable form: components, runs,
mutants (for every property a plausible bug that breaks it), the map from each
definition to the lines it models, hazards and theorems.

## 1. The system

| Component | State | Operations | Interacts with |
|---|---|---|---|
| Blue/green deploy (`deploy.rs`, `upgrade.rs`) | two slots' files and units, `active_color`, the route | upgrade, start, stop, boot | Caddy, systemd, registry |
| Mutation lock (`cli/lock.rs`) | `.ryra.lock`, its flock, a per-process depth | acquire, nested acquire, drop, reset | every mutating command |
| Commands on shared files (`ops.rs`, `lib.rs`, `cli/*`) | Caddyfile, `metadata.toml`, `preferences.toml`, quadlets, homes | add, remove, upgrade, configure, purge, enroll | lock, rpc |
| Upgrade and revert (`upgrade.rs`, `manifest.rs`) | rendered files, `service.manifest`, `.env`, snapshots | diff, upgrade, revert, prune | user's edits, registry, other routes |
| Backup and restore (`backup.rs`, `cli/backup.rs`, `rpc.rs`) | the service's data, the restic repository | run, prune, restore | timers, the application, lifecycle commands |
| Add and remove (`lib.rs`, `cli/add.rs`, `cli/remove.rs`) | quadlets, units, home, route, pending reservations | add, clean up, remove, purge | all of the above |
| Wiring (`authelia.rs`, `auth_bridge.rs`, `metrics_bridge.rs`, `configure.rs`) | the provider's clients, networks in quadlets, scrape targets, datasources | register, unregister, join, reconfigure | add, remove, upgrade |
| Backup setup (`cli/backup.rs`, `cli/rpc.rs`) | `[backup]` in `preferences.toml`, repositories, timers | connect, config, disconnect, restore of the configuration | restic, systemd, the account |
| Account (`system/account.rs`, `cli/account.rs`) | `credentials.toml`, API keys | login, logout | the control plane |
| Host ports (`lib.rs`, `system/port.rs`) | `SERVICE_PORT_*` in each `.env`, what is bound | resolve, pin, re-render, publish | add, upgrade, config, other processes |
| Tailscale services (`system/apply.rs`) | the tailnet's ACL, service definitions, local serve configuration | enable, disable | other hosts of the tailnet |
| Test runner on the host (`ryra-test`) | sandboxes, the ledger of what tests installed | run, reclaim, purge, reset | the user's own services |
| Test machines (`ryra-vm`, `ryra-test`) | the image cache, QEMU processes, ports | prepare, plan, start, keep, destroy, interrupt | earlier runs |
| Rendering, registry, probes, front end, protocol | files that are parsed and written | pure functions and I/O | - |

What is hard, and what makes each component correct:

* **Deploy.** A swap has fourteen steps over five stores (slot directory,
  generated unit, running process, Caddyfile, running Caddy). Correct means:
  the old slot goes last, what goes live is what was planned, the live slot's
  directory is untouched, no step takes an answering service off the air, and
  the deploy ends.
* **Lock.** A flock is on an inode and not on a path, and commands nest.
  Correct means mutual exclusion, at every depth, and no false refusal.
* **Shared files.** Plans hold whole files. Correct means that route, recorded
  color and running slot agree between commands, that no command changes
  another service's route and that no setting is lost.
* **Upgrade and revert.** ryra tells its own work from the user's by three
  hashes. Correct means: no edit is overwritten without `--force`, whatever is
  displaced can be put back, an upgrade converges also after one that was
  interrupted, and a revert undoes an upgrade.
* **Backup.** Several processes stop, start, read and write one service without
  a lock. Correct means: snapshots of a stopped service are consistent,
  restores are exact, a failed backup leaves the service up and a schedule
  prunes only its own snapshots.
* **Wiring.** A service's installation lives in the files of others, and
  providers come before or after their consumers. Correct means: nothing points
  at a service that is gone, whoever should be joined, scraped or served is, in
  every order of installation, and an add that failed leaves no trace in the
  files of others.
* **Ports.** A port is probed while planning, recorded in a file and bound by a
  unit that starts later, or again after a reboot. Correct means: what ryra
  picks belongs to nobody else, whoever is up or down at that moment, and stays
  through re-renders, which probe nothing.
* **Backup setup and account.** Four stores follow one another (preferences,
  repository, timers, credentials), each written by several paths. Correct
  means: what is recorded is initialised and opens, no password with snapshots
  behind it is lost, the timers are those of the schedule, and no API key
  outlives its logout.
* **Tailscale.** Several machines read, change and post one ACL, and an approval
  comes when the control plane likes. Correct means: what a machine recorded is
  defined, approved for and advertised, what it removed is not, and an install
  comes to be routed.
* **Test harness.** It works on the developer's own host, and reuses images by
  name across runs that die. Correct means: the user's services stay as they
  are, leftovers are known to the next run, machines start from sound images,
  fit the memory, and nothing is left running unmeant.

## 2. The modules

| Module | About | Built on |
|---|---|---|
| `BlueGreen` | one install's deploys, with the environment | - |
| `Mutex` | the abstract lock: one holder | - |
| `MutationLock` | flock, inodes, depth, reset; refines `Mutex` until a reset | `Mutex` |
| `Mutations` | the commands of several processes on Caddyfile and metadata | `Mutex` |
| `MutationsProofs` | the theorems of both: the lock refines `Mutex`, the commands ask no more of it | `MutationLock`, `Mutations`, TLAPS |
| `UpgradeFiles` | one service's files under upgrade and revert | - |
| `UpgradeFilesProofs` | its theorems | `UpgradeFiles`, TLAPS |
| `Backup` | one service's data under backups and restores | - |
| `BackupSetup` | where backups go, under which key and when; the account | - |
| `BackupProofs` | the theorems of both, side by side | `Backup`, `BackupSetup`, TLAPS |
| `Wiring` | what services hold of one another, under add, remove, config, upgrade, reset | - |
| `WiringProofs` | its theorems | `Wiring`, TLAPS |
| `Ports` | the host ports of the services of one host | - |
| `PortsProofs` | the theorems of `Ports` and of `BlueGreen`, side by side | `Ports`, `BlueGreen`, TLAPS |
| `Tailnet` | several machines on one tailnet's ACL and services | - |
| `TailnetProofs` | its theorems | `Tailnet`, TLAPS |
| `HostTests` | test runs on the host, beside the user's services | - |
| `HostTestsProofs` | its theorems | `HostTests`, TLAPS |
| `ImageCache` | preparation of a run in virtual machines, over the cache on disk | - |
| `TestVms` | the run itself: memory, permits, ports, machines | `ImageCache` |
| `TestVmsProofs` | the theorems of both | `TestVms`, TLAPS |
| `MC...` | constants and symmetry for TLC | the module of that name |

### BlueGreen

State: `artifact` is what is on disk for a slot (the quadlet's image, or the
directory `colors/<slot>`), `generated` what systemd has loaded, `image` what
the unit was last started with; `up` and `ready` are systemd's and the health
endpoint's view; `caddyfile` and `conf` the route on disk and in the running
Caddy; `active` is `active_color`. `runtime` and `routed` are fixed at
installation and are variables so that one run covers the four kinds of install.

A deploy is a program counter over the steps of the plan. `RenderAfter` is the
order of the re-rendered add plan after `blue_green_swap`'s filter,
`SwapAfter` that of `color_swap_steps` and of the metadata write behind it.
`BeginDeploy` is the planning, where the versions, the live slot and the
Caddyfile are read. `Abort` is a failed step or a killed process, and may come
between any two steps. The environment publishes versions, makes slots ready,
reboots, and takes Caddy down and up. `ryra start` and `ryra stop` share the
lock with deploys, so they only begin when no deploy is running. The
specification is `SlotsSpec`, so that `PortsProofs` can extend both modules.

### Mutex, MutationLock

`Open` and `Lock` are the two halves of `MutationLock::acquire`, between which
anything may happen; `AcquireNested` only moves `depth` (LOCK_DEPTH), and
`DropInner`, `DropOuter` are the drops of the two kinds of guard. A file is an
inode: `FinalizeReset` takes the path's file away while the reset still has it
open and locked. `Die` closes the file, as the kernel does.

### Mutations

The lock is `Mutex`'s: `MutationLock` shows what that takes. A plan is a record
of what will be written (`render` and `swap` are whole Caddyfiles, `enrolled`
the flag in the cloned metadata), computed by `Plan` from the files as they
are, and a command works through its plans with one action per step.
`BeginEnroll` and `FinishEnroll` are the read and the write of
`set_backup_enabled`, locked for the CLI and not for the rpc. `broken` holds
the services that a command left half done; only they are excused from
`Settled`.

### UpgradeFiles

A file's content is a sequence of lines, so that an edit appends one and the
Caddyfile is a sequence of blocks; `Unrouted` and `Rerouted` are `remove_route`
and `add_route` on it. A file that is not there, on disk or in a backup
directory, is `Absent`. `Kind` is `diff_service`'s match over the
rendered content, the content on disk and the content whose hash the manifest
holds (hashes are taken to be injective, and the manifest's content is kept
itself). `BeginUpgrade` plans, `OpenSnapshot`, `CopyToSnapshot`, `WriteFile`,
`CopyManifest`, `WriteManifest`, `DeleteFile`, `AppendEnv`, `FinishUpgrade`
are the steps in their phases; within a phase files come in any order, which
allows every order the render may emit. `BeginRevert` to `FinishRevert` are
`ryra revert`. Between any two steps the user may edit or delete a file or add
a key to `.env`, the registry may move on, and the command may be cut short.
The content of `.env` is the set of its keys.

### Backup

The data is a tree of files that one transaction of the application writes one
by one; it is consistent when every file has the same transaction's number.
Three facts are fixed per behaviour: the service is cold or `online`; it is
`native`, so that `service_units` finds nothing to stop; its `[backup].paths` are
declared or not. `WipeForRestore` removes what is under declared paths, all of
it or, if `rm` fails on one (which nobody looks at), the rest; without declared paths, the default,
it removes nothing.
`StopUnits`, `ChownForRead`, `PreBackup`, `ReadFile`, `SaveSnapshot`,
`BringUp`, `Prune` and `Exit` are `execute_backup_run` and `prune_one`;
`WipeForRestore`, `PreRestore`, `RestoreFile`, `Restored` are
`execute_backup_restore`. Failures return where the code returns:
`PrepareFails` at a `?` ahead of restic (the service stays down), `ResticFails`
(a backup still brings the service up, a restore does not), `BringUpFails`,
and `Kill` anywhere. A restore from the CLI holds the mutation lock, one from
the rpc does not, and a backup never does.

### BackupSetup

A *place* is where restic can be pointed: the bucket under this machine's id or
another's, a local path, the account's managed storage. `repos` is the password
each place was initialised with, `config` is `[backup]`, `bundles` the
preferences inside the last snapshot of a place. A command of either front end
is `Begins` (it has read `preferences.toml` and knows what it will save), then
`InitRepo`, `Save`, `Apply` (`apply_schedule`) or `Snapshot`, as many of them as
the code has; `Connect`, `Rotates`, `Retry`, `Configure`, `Disconnect` and
`RestoreConfig` are the CLI's, `ConnectBackup`, `SetBackupMachine` and
`SetSchedule` the rpc's, which takes no lock: two processes may read, then both
save. `KillCommand` comes between two steps. The account: `DeviceStart`, `Approve`,
`Polled`, `GiveUp` are `account login` in the browser, `LoginWithToken` the one
with a key, `Revoke` and `DeleteCredentials` the two halves of `logout`; a
managed place resolves only with a live key and a plan. The specification is
`SetupSpec`, so that `BackupProofs` can extend both modules.

### Wiring

What a service holds of others is one variable per store: networks named in its
quadlet, its route, its client, its scrape target, its datasource. Each plan is
a sequence of steps computed from the files as they are (`AddPlan`,
`RemovePlan`, `OrphanPurge`, `ConfigurePlan`, `UpgradePlan` follow the order of
`add_service`, `remove_service`, `orphan_purge_steps`, `reconfigure` and
`upgrade_service`), with the helpers under the names they have in the code where
there is one (`RetroJoins` is `retroactive_network_joins`, `IssuerSteps` is
`ensure_auth_provider_routed`, and so on); `Execute` runs it one step at a time.
`listed` is what a manifest holds beyond the service's own files, which is what
a later upgrade or config drops. `RecoverAdd` is `ServiceIncomplete`: the purge,
then the add again. `AddFails` is the CLI's cleanup, `CutShort` a kill or the
rpc's add, which cleans nothing up. `BeginReset`, `ResetPlan`, `Wipe` and
`FinalizeReset` are `ryra reset`: what the scan of the unit files finds is taken
down, then the data root and the preferences go. Commands run one at a time, as
`MutationLock` shows. Two kinds of scraped services are special: those of
`HostNet` get a scrape target and join no network (`Bridged` is
`wants_metrics`), and native ones get a target only from a store that is added
after them, and have no container that could join anything.

### Ports

`env` is the `SERVICE_PORT_<NAME>` lines of each `.env`, `unit` the names the
service's quadlets publish, `bound` the ports its containers hold and `host`
those of other processes. `Resolve` is the loop of `add_service` over the
entries of `[[ports]]` and of the chosen option, as a recursive function of how
many it has seen: the pin, the fixed port, the
container's own number if it is free, or the first of the range that is neither
recorded, claimed nor bound; `Lowered` and `Slotted` are the proxy's `direct`
binding and the second slot. `PlanAdd` probes; `FinishAdd`, `CutAdd` and
`FailAdd` come later, after any number of containers (`Die`) and processes
(`Process`) came or went. `Upgrade`, `Configure` and `Reconcile` re-render with
the pins of `read_existing_ports` and with a probe that always says free;
`Upgrade` writes no port into `.env`, the other two do: `Configure` the render's,
`Reconcile` those `Merged` over what is there. `Deploy` is
`BlueGreen`'s swap in one step. One container publishes all ports of a service
without slots, and a unit that cannot bind one of them is down.

`quiet` and `blind` are what `PortsApart` excuses: a number of a service's own
(its containers', a fixed one, or 80) that another had recorded, and was not
listening on when it was taken or a re-render did not ask; and names that a
re-render resolved. Two names of a service may also have one number if that is
what the definition, or `direct`, fixes for both, and the blue slot's is the
first port's. A port
from the range is excused never, so the property says of it: whatever is down,
stopped or in the other slot, `allocate_port_excluding` does not give it out
again.

### Tailnet

The tailnet (ACL, definitions, tags, approvals) is shared; each machine has its
label, its serve configuration, its records and a program counter over the calls
of `TailscaleEnsureSetup`, `TailscaleEnable` and `TailscaleDisable`. `ReadAcl`
and `PostAcl` are two actions, between which other machines may read and post:
the ACL read is kept in `seen` and posted back with this machine's change.
`EnableFails` and `DisableFails` are refused calls (an enable stops, a disable
goes on), `Rename` changes the label that names are made of, `Approve` is the
control plane.

### HostTests

Per service, `host` holds which data root its unit links into, which roots have
a home of it, and whose volume there is: unit and volume go by the service's
name alone, whatever the root. `run_bare` is the program `StartRun`, `Reclaim`,
then per test `SkipTest` or `BeginTest`, `PurgeBefore`, the steps,
`PurgeAfter`, `FindSideEffects`, `EndTest`. A retest passes over the steps that
set up (`SkipStep`). A purge is refused when the root it works in knows nothing
of the service: a test's sandbox or, for a leftover being reclaimed, the user's
data root, where only its volume can tell of it. The queue moves on and a reclaim strikes it from the ledger
all the same (`Reclaim`, `forgotten`). Each scan can fail: the one at the start
of a run (`StartBlind`, `StartRpcBlind`) and the one after a test (`FindNothing`)
then see an empty host.

`AddTimesOut` leaves a straggler, an add that runs on, service by service
(`StragglerAdds`), until it ends or fails. The command lock is a file of the
config directory, and every test has its own: a straggler refuses the later
commands of its own test (`LockHeld`) and nobody else's, so that the user adds
and removes as they like meanwhile, and what the straggler has still to add it
then adds over the user's (`exposed`). A test that begins anew removes its old
sandbox, the lock file with it (`WithoutLock`).

`Unguarded` names the services a test touches though nothing asks whose they
are: pulled in by an add, removed without an add, or native, which the scan does
not see. `Aborted` loses everything but the ledger on disk. `StartRpc` is the
rpc's `RunTest`, `Reset` is `ryra test reset`.

### ImageCache and TestVms

`ImageCache` is the preparation: `Download`, `BootToPrepare`, `Convert`, `Save`,
`MoveNext` (the three renames of a snapshot), `SaveTar`, `LoadTar`, each of
which may fail, and the process may die between any two; what was written stays
and is found by name by the next run. A download of another version drops the
base image and leaves the browser's, and the browser's builder is restored from
the base's snapshot, sound or not: both are in `doubtful`, which is what
`ImagesSound` excuses.

`TestVms` starts a run, plans (`PlanFor` is `plan_parallelism` over
`vm_memory_for_test`), spawns tasks as permits come free, boots, keeps or
destroys. A machine is known by its port and by whether it opens to the shared
key; where an older machine has the port, QEMU cannot start and the old one
answers for it. A start is two actions, as in `machine.rs`: the process is there
(`SpawnVm`), then it is in `ACTIVE_VMS` (`RegisterVm`). Ctrl-C is two as well:
`Interrupt` takes the list as it is, the tests go on, and `KillAndExit` kills
what was on it and ends the process. A machine's `fate` says where it stands in
that: "unlisted" and "listed" belong to a test at work, the handler "dooms" the
listed and lets the others "slip".

## 3. The runs

Passing runs:

| Run | States | Bounds | Shows |
|---|---|---|---|
| `blue_green` | 42,672 | 2 versions beyond the installed one's directory; podman and native; routed and loopback | order of the swap, freshness, no downtime from blue, isolation of the live slot, termination |
| `mutation_lock` | 905 | 3 commands and a reset, nesting 3 deep, 4 inodes | exclusion until a reset, ownership at every depth, genuine refusals, refinement of `Mutex` |
| `mutations` | 14,252 | 2 processes, 2 services, upgrades of one service, locked enrollment | routes, records and running slots agree; enrollments survive upgrades; no foreign route is touched |
| `upgrade_files` | 1,804,342 | 3 versions, 3 files, 2 keys, 3 commands, 1 change by the user, 1 snapshot kept | edits survive, nothing is lost, upgrades converge, reverts undo, false drift has a cause |
| `backup` | 1,710,694 | 2 processes, 2 files, 1 transaction, 2 snapshots, manual backups and a schedule keeping 1; online, cold, native, paths declared or not; schedules where the paths are declared and stops and wipes work (`SchedulesBounded`) | undisturbed snapshots are consistent, restores as exact as the wipe lets them be, downtime has a cause, schedules prune their own |
| `backup_setup` | 1,279,119 | 2 processes, 3 commands, 1 fault, 1 cadence, 3 passwords, 2 API keys | keys are kept, what is recorded is initialised, timers follow the schedule, no ghost key |
| `wiring` | 420,948 | 4 scenes of 3 or 4 services (one native and scraped, one scraped on the host's network), 5 commands, a reset among them, 1 fault | nothing stale, consumers joined and scraped in any order of installs, failed adds undone |
| `tailnet` | 569,756 | 2 machines, 1 service, 3 labels, 2 commands each, 1 fault, 2 renames | tailnet and metadata agree, installed services come to be routed |
| `host_tests` | 982,827 | 3 services (with volume, pulled in, native), 3 tests, 2 runs, 1 service the user adds and may remove, 2 faults | the user's services stay, leftovers are in the ledger, nothing piles up |
| `test_vms` | 3,027,744 | 2 tests (one in a browser), 3 runs, 2 versions upstream, 2 memory sizes, 2 faults, failed tests' machines kept | images sound, memory plan kept, strangers are old, no orphans |
| `ports` | 406,283 | 3 services (the proxy, one with slots, one whose next version and whose option add ports, one of them fixed to 80), a range of 3, 1 port another process takes, 4 commands | ports from the range are apart, the others but for what is excused |

One run that TLC must find violated, for the first disagreement of section 5:
`blue_green_zero_downtime`. Further configurations, listed there, show the other
disagreements on the same modules: `tlc -config <file>.cfg <module>` reproduces
them. Where a configuration lists several properties, each of them is violated
on its own; TLC stops at the first, and striking it out shows the next.

**Why the bounds are enough.** `blue_green`: the state does not depend on how
many versions lie between two deploys, and two deploys reach both directions;
the safety properties are proved for every bound. `mutation_lock`: the lock is
symmetric in the processes and a violation needs two, the third is a bystander
that may take over; proved for every bound as well. `mutations`: every property
speaks of at most two services, and the lock admits one command at a time. This
run keeps to upgrades that name one service and to the locked enrollment: with a
larger batch, or with the rpc, `Settled` and `EnrollmentSticks` fail
(`MutationsBatch.cfg`, `MutationsEnrollRpc.cfg`). `upgrade_files`: three
commands are upgrade, then interrupted upgrade or second upgrade, then revert or
retry; the three versions change, add and drop a file, and add and drop a key;
keeping one snapshot makes every second upgrade prune. `backup`: two files tear, and
two processes overlap; two snapshots make one spent. `SchedulesBounded` leaves
schedules out where a unit is not stopped or a file stays after the wipe: which
snapshots a schedule prunes depends on neither, and such a service's downtime is
explored with manual backups. A second transaction or a
third process adds no new pair of conflicting steps; what is proved is proved for every bound. `backup_setup`: the initial
states already hold a connection of some age and another machine's repository,
so that three commands are, for instance, disconnect, connect and restore, or a
rotation under another's connect; the two processes are all that a stale save
takes. `wiring`: a scene holds one provider per store and one consumer; five
commands install all, remove or reconfigure one and install it again; the
capabilities of different scenes meet in no plan but through the store and the
proxy, which are in the scenes together with those they meet; the native and
the host-network service share their scene with the store and the dashboard, before or after it. `tailnet`: two
machines suffice for a lost update, two commands for install and remove, three
labels for a rename and back. `host_tests`: a test that pulls in a service, one
that declares it and a native one, one that removes a service it never adds; two
runs make a leftover of the first the concern of the second; one service of the
user's is what an add that runs on, a purge or a blind scan can meet, and it may come
and go any number of times; proved for every bound. `test_vms`: three runs are one that dies, one that leaves
a machine or a spoilt file, one that meets both; two tests in parallel meet on
memory and ports, and the amounts of free memory lie on either side of every
sum. `ports`: two services want 3000 and a new version of one wants the proxy's
8080; four commands are two adds and a change of each, or an add, a remove and
two more; the option fixes a number that `direct` takes too; proved for every
bound. A range of three is exhausted and is not.

**Fairness.** `BlueGreen` has `WF_slotsVars(DeployStep)`, for `DeployEnds`. It is
the command's own process that goes on: each step is a call that returns, and
`WaitForHttpHealthy` gives up at its deadline (`apply.rs` 322-335), so
`DeployStep` is enabled at every label, whatever the slot does. Nothing is
assumed of the slots, of Caddy, the registry or the operator. `Tailnet` has
weak fairness of the control plane's `Approve` alone, for `EventuallyRouted`:
`apply.rs` 741-744 counts on exactly that when it ends an install without
waiting any longer. Nothing is assumed there of the machines, which may stop for
good in the middle of a command. The other modules have safety properties only:
no code promises that an operator repeats a command or that a lock is tried
again.

**Deadlock** is checked in `blue_green`, `mutation_lock`, `mutations` and
`backup`. The other modules bound commands, edits and faults, and when the
bounds are used up nothing more has to happen.

**Symmetry** is used in `MCMutationLock` (ordinary processes, inodes),
`MCMutations` (processes, services), `MCBackup` (processes, files) and
`MCBackupSetup` (processes): no definition names an element of these sets, no
`CHOOSE` picks one in a way that shows, and none of these runs checks liveness.

**Types.** Every module states its `TypeOK`. It is proved where there are proofs
(section 4); for the others it holds under the same configurations when it is
added to them.

**Histories.** Variables called history in the modules (`aligned`, `fresh`,
`wiped`, `wanted`, `broken`, `before`, `exact`, `mixed`, `raced`, `disturbed`,
`damaged`, `excused`, `cut`, `stranded`, `robbed`, `doubled`, `spoilt`, `lost`,
`exposed`, `overlooked`, `stuck`, `forgotten`, `unseen`, `unwritten`, `unwiped`, `made` and `doubtful` of the image cache,
`dropped`, `accepted`, `astray`, `strays`, `quiet`, `blind`) record facts the properties need and
no guard reads them (`made` also numbers the images).
What each of them excuses is part of the meaning of its property and is said
in the comment there.

## 4. The proofs

`tlapm` proves these for every value of the constants that satisfies the named
assumptions of the modules.

| Theorem | States |
|---|---|
| `PortsProofs!SlotsTypeCorrect` | `SlotsSpec => []SlotsTypeOK` |
| `PortsProofs!SwapOrder` | `SlotsSpec => []OldSlotStopsLast` |
| `PortsProofs!FreshDeploy` | `SlotsSpec => []FreshSlotRunsPlan` |
| `PortsProofs!LiveSlotIsolated` | `SlotsSpec => LiveSlotUntouched` |
| `PortsProofs!NoDowntime` | `SlotsSpec => ZeroDowntimeFromBlue` |
| `MutationsProofs!LockTypeCorrect` | `LockSpec => []LockTypeOK` |
| `MutationsProofs!OwnsFile` | `LockSpec => []MutatingOwnsItsFile` |
| `MutationsProofs!Exclusion` | `LockSpec => []ExclusionUntilReset` |
| `MutationsProofs!GenuineRefusal` | `LockSpec => RefusedByAnother` |
| `MutationsProofs!RefinesMutex` | `LockSpec => ImplementsMutex` |
| `MutationsProofs!TypeCorrect` | `Spec => []TypeOK` |
| `MutationsProofs!LockedAsMutex` | `Spec => MutexSpec` |
| `MutationsProofs!LockServesCommands` | what the lock lets mutate until a reset steps as `Spec`'s commands need it to |
| `MutationsProofs!EnrollmentKept` | `Spec => []EnrollmentSticks`, if only the CLI enrolls |
| `MutationsProofs!RoutesApart` | `Spec => OnlyOwnRoute`, if an upgrade names one service |
| `MutationsProofs!ServicesSettled` | `Spec => []Settled`, under both conditions |
| `UpgradeFilesProofs!TypeCorrect` | `Spec => []TypeOK` |
| `UpgradeFilesProofs!EditsOfShippedFilesSurvive` | `Spec => ShippedEditsSurvive` |
| `UpgradeFilesProofs!DisplacedIsSaved` | `Spec => NothingLost` |
| `UpgradeFilesProofs!RevertedExactly` | `Spec => []RevertUndoes` |
| `UpgradeFilesProofs!UpgradeReaches` | `Spec => []UpgradeConverges` |
| `UpgradeFilesProofs!DriftIsReal` | `Spec => []DriftIsAnEdit` |
| `UpgradeFilesProofs!EnvKeepsKeys` | `Spec => EnvOnlyGrows` |
| `BackupProofs!TypeCorrect` | `Spec => []TypeOK` |
| `BackupProofs!SnapshotsSound` | `Spec => []SoundSnapshotsConsistent` |
| `BackupProofs!RestoredExactly` | `Spec => []RestoreIsExact` |
| `BackupProofs!DownForACause` | `Spec => []DownHasACause` |
| `BackupProofs!PruningInItsTurn` | `Spec => PrunedInItsTurn` |
| `BackupProofs!SetupTypeCorrect` | `SetupSpec => []SetupTypeOK` |
| `BackupProofs!KeysStayHeld` | `SetupSpec => []KeysHeld` |
| `BackupProofs!RecordedIsReady` | `SetupSpec => []RepositoryReady` |
| `BackupProofs!TimersFollowSchedule` | `SetupSpec => []TimersFollow` |
| `BackupProofs!KeysAccountedFor` | `SetupSpec => []NoGhostKey` |
| `TailnetProofs!TypeCorrect` | `Spec => []TypeOK` |
| `TailnetProofs!TailnetSound` | `Spec => []TailnetAgrees` |
| `HostTestsProofs!TypeCorrect` | `Spec => []TypeOK` |
| `HostTestsProofs!UserKeepsServices` | `Spec => []UserServicesKept` |
| `HostTestsProofs!LedgerKnowsLeftovers` | `Spec => []LeftoversRecorded` |
| `HostTestsProofs!TestsLeaveNothing` | `Spec => []NothingPilesUp` |
| `TestVmsProofs!TypeCorrect` | `Spec => []TypeOK` |
| `TestVmsProofs!ImagesSoundAlways` | `Spec => []ImagesSound` |
| `TestVmsProofs!PlanKeptAlways` | `Spec => []PlanKept` |
| `TestVmsProofs!StrangersAreOldAlways` | `Spec => []StrangersAreOld` |
| `TestVmsProofs!NoOrphansAlways` | `Spec => []NoOrphans` |
| `PortsProofs!TypeCorrect` | `Spec => []TypeOK` |
| `PortsProofs!PortsApartAlways` | `Spec => []PortsApart` |
| `WiringProofs!TypeCorrect` | `Spec => []TypeOK` |
| `WiringProofs!AddsUndone` | `Spec => []FailedAddUndone` |
| `WiringProofs!MetricsAlwaysWired` | `Spec => []MetricsWired` |
| `WiringProofs!ConsumersAlwaysJoined` | `Spec => []ConsumersJoined` |
| `WiringProofs!WiringNeverStale` | `Spec => []NoStaleWiring` |

Each module has one inductive invariant, `Inv` (`SetupInv` of `BackupSetup`,
`SlotsInv` of `BlueGreen`), a conjunction of named parts
with a lemma that every step keeps each of them (`Mutations` has three, for
three properties of different strength). TLC checked every one of them on the
instance of its run before it was proved.

**BlueGreen.** `OldSlotStopsLast` is not inductive: that the target is ready at
`stop` follows from the gate, but only if nothing between the gate and `stop`
takes it down, and that the running Caddy is on the target only from what it
was after the two writes of the route. `SlotsInv` therefore follows
the deploy label by label: which slot the target is, what its files hold from
the step that writes them, what systemd has generated from the daemon-reload
on, what the unit runs from the start on, that the target is ready from the
gate on, where the Caddyfile points after each of its writes, and, for a deploy
that began aligned and rolls onto green, that both Caddyfile and running Caddy
stay on blue until the swap. Readiness only goes with a stop or a reboot: a stop of the
target is no step of the deploy, and a reboot ends the deploy. The action
properties follow from `SlotsInv` step by step.

**MutationLock.** Exclusion needs, besides that each mutating process owns the
flock of the file it opened (`LockOK`), that before a reset all open files are
the one the path names: then two mutating processes own one flock, so they are
one process. The refinement maps `Holder` to the mutating process, if there is
one; `Lock` is `Acquire`, `DropOuter` and `Die` are `Release`, and everything
else stutters. `StepShape` says that a step changes who mutates for at most one
process.

**Mutations.** `LockedAsMutex` joins the two levels: `MutationLock` implements
`Mutex` until a reset, and the commands here use no more of a lock than `Mutex`
promises; `LockServesCommands` puts them together: until a reset, with the
processes of both the same, the holder that `MutationLock` lets mutate steps as
`Mutations` assumes of its own. Both are in one module, which extends both.
What a plan holds is the files as they were when it was made, so each
invariant says how much of that is still true: for `EnrollmentSticks`
(`EnrollInv`) that a plan's copy of the metadata has the enrollment on disk, for
`OnlyOwnRoute` (`RouteInv`) that the two whole Caddyfiles a plan will write
agree with the one on disk about every other service, and for `Settled`
(`SettledInv`) what each step of a command finds of its service's route, record
and slots (`StepOK`); `LeftoversBroken` covers what was cut short. The two hypotheses are needed:
with a larger batch the plan of the second service was made before the first
one's ran, and with the rpc's path metadata changes under a plan;
`MutationsBatch.cfg` and `MutationsEnrollRpc.cfg` are the counterexamples.

**UpgradeFiles.** That an upgrade can be undone is known only from what was true
when its snapshot was opened, `before`. `StageOK` says what is empty and what is
recorded at each step; `OwnInv` that nothing ryra recorded holds a user's line
outside the Caddyfile, so a file equal to its record is no edit; `PlanInv` what
a plan still knows of the disk, a file to displace being absent, or yet to be
copied, or copied as it is, but for a file the user changed under the upgrade;
`ExactInv`, for commands nobody disturbs, that what is done is as planned, what
is to do is as it was, and each file that changed is in the snapshot, and for a
revert that its targets lead back to `before`; `GenuineInv` that a recorded file
is as recorded, edited or deleted while no command was cut short, and that the
newest snapshot would restore such a state. `NothingLost` follows from `PlanInv`
although a user may change a file between its copy and its write: that file is
`raced` and the others are not touched by it. The assumption that no render holds
the line `"edit"` is what that line is for: one that only a user writes.
`UnroutedProperties` is about a recursive function over the lines; that it
exists, and what it returns, is shown by a least counterexample among the
lengths.

**Backup.** `DataInv` says in which states the data is one transaction's;
`BackupInv` of an undisturbed cold backup that what it has copied is what is on
disk; `RestoreInv` of such a restore that what it has written back is there, and,
if the paths are declared and the wipe left nothing, that the tree is empty after
the wipe and then the snapshot's but for the files that are left; `StoppedInv` that a service
that is down has no transaction open and stays down under a run nobody disturbed;
`ExcuseInv` that a service that is down is excused or held down by a run.
`PrunedInItsTurn` needs arithmetic of ranks: `Nth` picks the element of a set of
numbers with a given number of larger ones, and that it exists, is the only one
and that the spent ones all have `keep` younger ones is proved from facts on
finite sets (`LargestExists`, `NthExists`, `NthCovers`, `WithoutProperties`).

**BackupSetup.** `ReadyInv` says that whatever is recorded, or about to be saved
by any process, or in a snapshot that `restore --config` may bring back, has been
initialised: a repository never loses its password, so stale saves do no harm.
`KeyInv` says that a password a command once read is still recorded, or was
dropped on the record, and that a command which is not to replace the password
carries the one it read; `AccountInv` that only issued keys are stored or under
way and that a logout in progress has done with its key. `TimersFollow` needs no
more than the types.

**Tailnet.** The heart is what one machine may rely on of an ACL others write:
`SeenFresh`, that the ACL a machine has read and is about to post agrees with
the tailnet's on the machine's own name, unless another's post has undone it
(`lost`). `InstalledInv` says what is true of the tailnet for a recorded service
nobody is working on, `OneHolder` that a name not spoilt by a rename is one
machine's, `HeldInv` that nothing of it is left where nobody holds it, and
`Progress` what a command has established at each of its steps. There are labels
enough for all machines (an injection exists), as the control plane gives every
machine one of its own.

**HostTests.** Units and volumes go by a service's name alone, so the proof is
about who may touch which name. `KeptOK` says of a service of the user's that is
neither exposed nor overlooked (`Spared`) that nothing a run holds names it: not the
ledger on disk, not the run's copy of it, not the test under way, not one of the adds
that run on after a timeout, and that the run has taken it for the user's. Then no purge and no step reaches it, since
`QueueOK` and `ScriptOK` say that a queue holds leftovers, then what the test
adds, then what belongs to nobody, and what is left of a script is the test's.
`RecordedOK` says that a trace of a test on the host (a unit of a sandbox that
is there, and no purge known to have missed it) is in the ledger on disk and in
the run's memory of it, unless the ledger could not be written (`unwritten`) or a
reclaim dropped it without having purged it (`forgotten`); `CleanedOK` that between
a test's last step and its end a trace is yet to be purged, or was brought by a test
whose scan has failed (`unseen`). The last two need that the queue of a
test holds exactly what it adds:
`LastFirst` lists first occurrences from the last on, by rank, and that every
rank is taken (`RankExists`: an injection into as many numbers is onto) and only
once (`RankUnique`) is shown from facts on finite sets; that whatever is added is
added a first time, from a least element (`SmallestExists`). The attempt to prove
`UserServicesKept` with fewer exceptions showed what the run had not: a test may
remove a service it never adds, and if the user has it, nothing skips that test.
The model names it in `Unguarded`, and the third test of `MCHostTests` does it.

**TestVms.** The module extends `ImageCache`, and so does its invariant. Of the
cache: `Progress` says what each stage of the preparation has established,
`Named` that a snapshot is found exactly if one of its files was moved, and
`CacheOK` that an image of a kind that is not `doubtful` is whole, of the cloud image
on disk, and under its snapshots, but for the step the run is at (`Unspoilt`):
`ImagesSound` is what is left of it when the tests begin. A doubt about the base
image passes to the browser's when that is built from it, and a download of another
version leaves the browser's doubtful. Of the machines: `TasksOK` says that a test
waits once and none is at work outside a run, `MachinesOK` that the ports handed
out are below the counter and apart, and `VmOK` where a machine may be in what
becomes of it: started and not on the list only while its test is starting or
stopping it, doomed or slipped only while the handler of a Ctrl-C works, so that
what is left when the process has ended was kept or is an orphan with a cause.
`StrangersAreOld` and `NoOrphans` follow. `PlanKept` is arithmetic over the tests at
work whose machines have the memory the plan counted:
`PlanOK` says that the permits are those planned for what the run selected, and
that no more tests than that run, all of them selected. The plan sums the
largest memories first, and any set of as many tests has no greater sum (`SumOfLargest`). That an
order largest first exists (`OrderExists`), that `SumFunctionOnSet`, a choice
of a function on subsets, is a sum, and that it grows with its set (`SumExists`,
`SumWithout`, `SumWithin`) are shown by smallest counterexamples over
cardinalities, since an induction principle cannot be instantiated.

**Ports.** `PortsApart` is nearly inductive: `WellFormed` adds that the slots'
ports are there and the blue one's is the first's, `AddingOK` that what an
add has planned and not yet written is as far apart from the installed ones as
they are. The work is in what `Resolve` returns. That its function exists is
shown by a least number of entries for which it would not (`UptoExists`), and
`ResolveIs` follows it entry by entry, again by a least counterexample: a port
is a pin, one the definition fixes, the container's own number where nothing
held it, or from the range and recorded by nobody, and two names that are not
pinned never draw one number (`Coming`). `Lowered` and `Slotted` keep that
(`Resolving`), and `RerenderedApart` says it of a render over the pins in the
`.env`. The attempt showed an excuse that was missing, and the run a state with
it, once the option of a service fixes port 80: a re-render that sets the proxy
to `direct` takes 80 without asking who has recorded it. Until then the model
counted only re-renders with new names as ones that do not look; `Blindly` now
asks for new numbers.

**Wiring.** `FailedAddUndone` compares the files when a cleanup is done with what
they were when the add was planned, over two plans and a failure anywhere in
the first. The invariant goes by the kind of command that runs. `AddInv` says
where an add of a podman service is, before its quadlet, before its record, or
with both, and that what is left of its plan only touches files of its own and
entries under its own name, or adds to what others join (`WireSteps`);
`RemoveInv` that a removal only drops its service's own entries, takes the
service down first and its home last; `UpdateInv` and `ResetInv` the same for
the other commands; `SourceInv` that a
dashboard which reads the store has one. `KeptInv` then carries `before`: routes,
clients and records of the others are as they were, and so are targets and
sources unless the store itself is added, which found none (`TargetsKept`,
`SourcesKept`). `Housed` is what makes that true for a provider that fails: its
file goes with its home. What steps a plan can hold, and in what order, is
proved for each of the plans (`PodmanAddIs`, `RemoveIs`, `OrphanIs`,
`ConfigureIs`, `UpgradeIs`, `ResetIs`), which concatenate sequences over sets of
services: `FlattenIs` shows by a least length that flattening a sequence of
plans yields the steps of each, whatever order the set was listed in. The
attempt made three statements exact. `OthersWiring` compares routes and
clients service by service, since a missing file and one without entries route
alike, and an add that starts the proxy turns the one into the other; the
property now says too that nothing of the failed service is left; and
`MetricsWired` leaves out the store itself, which `retroactive_metrics_wiring`
skips. Providers are distinct services, which counting them said only of finite
sets.

`MetricsWired` speaks of pairs of services, added in either order, and for it
`Inv` says too little: which steps a plan may hold, not which it must. `Scraping`
adds that: for each service with metrics that is installed or is being added,
not being removed and not excused, the target is in the store or a step that is
left writes it, and likewise the dashboard's datasource and, for those on a bridge
network (`Bridged`), the store's network in its unit file (`Wanted`, `Scraped`,
`ReadsStore`, `JoinsStore`). A native service is not among them: its own add writes
no target (`NativeAdds`), which is why `MetricsWired` speaks of the others and
`NativesScraped` fails (section 5). `PodmanAdds`
shows that every add plans those steps, for itself if the store is there, for
all who are there if it is the store; `StepsInv` that no step left takes back
what another wrote, and none makes a service that is not there appear installed:
an upgrade rewrites the proxy's unit file, which is to be there unless the proxy
is excused. A plan that fails or is killed leaves steps undone only for its own
service (`AheadIs`), which the cleanup removes or `cut` excuses. That a
configuration deletes files its manifest lists is harmless for a reason that had
to be found: the owner of the file is in `robbed`, and a manifest lists no
datasource but the dashboard's, so that the dashboard is who is excused
(`Listable`). After a reset nothing is recorded (`WipedInv`).

`ConsumersJoined` relates more: a record, a unit file, the container, and the
unit files of providers. `JoinInv` adds to the two invariants above that who uses
a provider is on its network or a step that is left writes the unit file that
joins it (`Joined`), for the record the service is to have when the command is
done (`Due`, `Recording`); that a unit file names networks of services that are
there, unless one was taken down under it (`Named`); and that a container runs
on its unit file, unless a start of it is left (`Fresh`). `Units` says what the
unit files still to be written name. Only an add writes that of another service,
the old one with the new provider, so an add that stops halfway has taken nobody
off a network; a command of the service itself writes what is installed now
(`ExtraIs`), and its unit file before all else (`First`), so that once the plan
has moved on none is left to be written. `Restarted` is an order: every unit file a plan writes for a
consumer is followed by a start of that service, for which the plans had to be
shown closed under concatenation and flattening (`Kept`, `EachKept`,
`AddStarts`, `UpdateStarts`). The one gap is real: an add that fails after it
rewrote the unit file of a consumer and before the restart leaves a container on
its old networks until the cleanup takes the provider down (the last disjunct of
`Fresh`), and a kill there leaves it for good, which is why the property lets
`running` lag behind while some provider is excused.

`NoStaleWiring` has the longest memory: a route is there because some command
wrote it, and goes only if a later plan thinks of it. `StaleInv` says when a route
and the redirects of a client are in order (`RightRoute`, `RightClient`), for
what is in the files and for the versions of them that a plan still carries,
since a step writes the Caddyfile and the client list whole. Of the services a
command does not name it says that throughout (`OthersRight`): a plan holds their
entries as they are (`Keeps`). For the service of the command itself
(`OwnRight`), what is there or will be written is what the record is to say, or a
step that is left takes it away; a remove's entries go before its home does, and
the provider's own clients with its home. What had to be found is that a route in
order is one whose service lists the Caddyfile in its manifest (`Lists`).
When the proxy is gone but not its Caddyfile, as after a remove of it that was cut
short, the plan of an upgrade or a configuration has no step for the route; the
route goes all the same because that render writes no Caddyfile, and what the
manifest lists and the render does not write is deleted (`RouteListed`,
`Reroutes`). A plan that writes the Caddyfile twice can leave its first version
undone by the second, which is `doubled`; for all others there is one version
(`OneCaddyfile`). The proxy has no route to itself (`NoOwnRoute`), which no plan
would remove. `AuthInv` follows `[auth]`: it is set before the first step of the
provider's add and dropped after the last of its remove, and in between excused.
What each of the nine kinds of step does to routes, clients, targets and manifests
is said once (`Steps`), and one argument covers them (`StepOthers`, `StepOwn`).

**What is assumed of the constants.** Besides the types: `BlueGreen`, at least
one version and some runtime and routing; `MutationLock`, that `Nobody` and
`Absent` are not elements of the sets they complete, that resetters are
processes, and a positive depth; `Mutations`, that there are finitely many
services (a command upgrades all of them); `UpgradeFiles`, a positive number of
snapshots kept, as `DEFAULT_BACKUP_KEEP` is, and renders without a user's line;
`Backup`, a positive number kept per schedule; `BackupSetup`, at least two
passwords, of which one is another machine's; `Tailnet`, enough labels; `HostTests`,
finitely many services, native ones without volumes, and no test named like one
of the two roots that are not a test's; `TestVms`, finitely many tests, each
adding finitely many services with natural numbers for memory, a positive number
of machines asked for, and selections that name no test twice, as a run matches each of the tests discovered once; `Ports`,
that a service with slots calls the port it routes `http` in each version, and
none like a slot (the code takes the first port where none is called `http`:
that one is then meant), and a range of ports from 1024 up; `Wiring`, five
providers that are distinct, none of them native (the code knows them by name, and
the registry ships each as a container), and finitely many services, since
plans list those installed; whether a native service exposes metrics is left open,
and those on the host's network are any of the ones that do. Each module's `ASSUME` has the exact
form, and TLC evaluates it in the module's run.

**Only model-checked.** `DeployEnds` and `EventuallyRouted`, which are liveness
under fairness and so out of the prover's reach. Every other property of the
passing runs is stated by a theorem. Where a proof above
needed what a recursive function or a fold computes (`Unrouted`, `Nth`, the
sums of `TestVms`, `Resolve`, the plans of `Wiring`), it was shown for that
definition by a least counterexample.

## 5. Where the code and its documentation disagree

The first is a run that TLC finds violated, and `PROJECT.json` quotes the text
it contradicts; the others are shown by a configuration of the module, named at
the end. Where a configuration lists several properties, the one meant is named
with it, and TLC finds it violated when it is checked alone.

1. `blue_green_zero_downtime`: the filter of the re-rendered plan keeps the add
   plan's route to blue and its reload. With green live, a routed deploy sends
   Caddy to a stopped slot before it has started it, and if the gate then
   fails, leaves it there. From blue to green this cannot be seen, and that no
   step of such a deploy takes the service down is proved.
2. Connecting to a repository that already exists is taken
   for success whatever its password. A connect by the rpc after a disconnect, a
   `--rotate-key` on the same destination, or a switch to another machine's
   sub-folder records a password that opens nothing, though the code says it
   initialises first "so we only record a [backup] that actually works"
   (`cli/rpc.rs` 985). `BackupSetupKey.cfg`.
3. Starting a slot that is up does nothing, so after a boot or `ryra start` a
   deploy may go through without running the new version, which `deploy.rs` 6
   says it "readies". `BlueGreenStaleSlot.cfg`.
4. A reset removes the lock file it holds and goes on, beside "one ryra mutation
   at a time" (`cli/lock.rs` 1). `MutationLockReset.cfg`.
5. An upgrade of several services plans all of them first; the plan of the
   second puts the route of the first back on the slot just stopped.
   `MutationsBatch.cfg`.
6. The rpc enrolls a service in backups without the lock; an upgrade in flight
   undoes it. `MutationsEnrollRpc.cfg`.
7. A hand-edited file that the registry has stopped shipping is deleted without
   `--force` (it is in the snapshot); `upgrade.rs` 241 says upgrades must
   refuse. `UpgradeFilesDropped.cfg`.
8. A backup holds no lock, so the service can be started under it and the
   snapshot of a cold service is torn; `backup.rs` 383 calls it consistent.
   `BackupDisagreements.cfg`, `ColdSnapshotsConsistent`.
9. `tls.caddy`, which ryra "never touches" after its first write (`lib.rs`
   1277, `caddy.rs` 22), is in the proxy's manifest but not in the re-render of
   an upgrade, which deletes it. `WiringDisagreements.cfg`, `SnippetKept`.
10. A service whose URL changes is registered again because its old redirect
    "would now point at the wrong hostname" (`configure.rs` 736); its client is
    first planned away and then, its id being still in the file the plan reads,
    kept as it was, with the old redirect. `WiringDisagreements.cfg`,
    `RedirectFollowsUrl`.
11. The install that gives up waiting does so because "the autoApprover is in
    place" (`apply.rs` 741); another machine that read the ACL before posts it
    back without. `TailnetApprover.cfg`.
12. A test on the host that has a service pulled in by `--auth` or `--smtp`
    installs it over the user's own, against the promise in
    `ryra-test/src/lib.rs` 1168-1169 to leave what it detected untouched.
    So does one that removes a service it never adds (`test_toml.rs` 154 allows
    it), which is purged. `HostTestsDisagreements.cfg`, `ServicesLeftUntouched`.
13. "Each VM gets its own port" (`ports.rs` 4) holds within a process. A machine
    kept by an earlier run holds port 10022, and the next run's first test
    works in it instead of "in a fresh VM" (`README.md` 8). `TestVmsDisagreements.cfg`,
    `FreshVm`.
14. A service whose new version has one more `[[ports]]` entry is upgraded to a
    unit that publishes it, while `.env` gains static variables only: the
    `${SERVICE_PORT_*}` is empty, "which produces a confusingly broken unit", as
    the check meant to rule this out says (`generate/bundle.rs` 72).
    `PortsDisagreements.cfg`, `PublishedRecorded`.
15. `ryra config` resolves the ports of a newly chosen option with a closure that
    calls every port free, though "the closure is never consulted" since every
    port is pinned (`upgrade.rs` 281, of the same closure). `PortsDisagreements.cfg`,
    `NothingResolvedBlindly`.
16. `proxied` "keeps the always-works high ports" (`lib.rs` 739); set back from
    `direct`, the proxy keeps port 80, which is pinned by then.
    `PortsDisagreements.cfg`, `ProxiedIsHigh`.
17. The wipe before a restore is made "so files created after the snapshot don't
    linger" (`backup.rs` 826-827), but only what `[backup].paths` declares
    is wiped, by default nothing (460-465), and an `rm` that fails is passed over
    (834-837): a younger file then stays beside the restored ones.
    `BackupDisagreements.cfg`, `NothingLingers`.
18. A service with metrics gets a target "dropped into the installed store", and a
    store "wires up everything already on the machine" (`lib.rs` 1241-1246). The add
    of a native service returns before that (949-1008): one that comes after
    the store is never scraped, while one that came before it is.
    `WiringDisagreements.cfg`, `NativesScraped`.
19. The ledger is there so that "a later run can tell *its own* leftovers" apart
    (`ryra-test/src/lib.rs` 915, and 1170-1172). The reclaim purges without the
    sandbox's data directory, so the purge of a leftover without volumes is
    refused, as one may fail otherwise: it stays, and the ledger drops its name
    all the same, after which the next run takes it for "user-owned"
    (`cli/test.rs` 385-386). `HostTestsDisagreements.cfg`, `LedgerTellsLeftovers`.
20. A scan of what is installed that fails counts as "none", "so the caller never
    deletes blindly" (`ryra-test/src/lib.rs` 987). One caller takes what the scan
    finds for the user's, and with nothing found a service of the user's is
    tested over and purged. `HostTestsDisagreements.cfg`, `NeverDeletesBlindly`.
21. The handler of a Ctrl-C is there "to ensure no orphaned processes" (`machine.rs`
    18-19). It reads the list of machines, lets go of it and then kills: a machine
    that QEMU has started and nobody has listed yet, or that is started
    meanwhile, outlives the exit. `TestVmsDisagreements.cfg`,
    `CtrlCOrphansNothing`.
22. The plan is of "how many VMs can safely run in parallel given current host memory"
    (`ryra-test/src/lib.rs` 356-361). A machine that was kept runs on after its
    permit is released, and a restored one has the memory of the snapshot, which
    is that of the largest test. `TestVmsDisagreements.cfg`, `MemoryKept`.
23. "Force re-prepare if raw image changed" (`image.rs` 172) removes the base image
    only; the browser's stays, of the cloud image that was replaced, and is used.
    `TestVmsDisagreements.cfg`, `Reprepared`.

Some behaviours the models include are no contradiction of any text, or of a
text about another case, but worth knowing.

*Deploys, files, backups.* A failed chown or pre-hook leaves a cold service
down; a restore without a snapshot (`--force`, or over the rpc) wipes the data
and then fails; a scheduled backup starts a service the operator had stopped; a
revert puts back the whole Caddyfile and with it drops the routes added since; a
file deleted by the user is written again by an upgrade, and a revert cannot
know that it was not there; a key added to `.env` while an upgrade waits at its
prompt is lost; a file that an interrupted upgrade had yet to delete is never
deleted.

*Wiring.* Files of others that a plan writes land in the service's own manifest,
and a later upgrade or config, which does not write them, deletes them (`robbed`):
the provider's configuration goes that way after an upgrade of one of its
clients. An add with auth and a URL may hold two whole-file versions of the
Caddyfile, of which the second drops the provider's vhost (`doubled`). A native
service registers no client, and its remove leaves its route and its scrape target. A killed remove,
purged later, leaves routes, clients and targets. A service that names the
network of a provider that has been removed does not start again. A reset finds
a container by its unit file: where an upgrade of another service dropped that
file, the container runs on after the reset.

*Ports.* A number a service declares itself is only probed, not looked up: it
goes to a second service while the first is down, and the first then cannot
start. A killed add leaves a record without a `.env`, and `ryra config` then
resolves all of its ports without a probe. Set to `direct`, the proxy takes port
80 at its next `ryra config` although another service has recorded it.

*Backup setup.* A fresh `connect` on the CLI drops the schedule and leaves the
timers enabled, whose runs go on and prune nothing; `restore --config` brings a
schedule back without writing timers; without a user session the unit files
are written and never enabled. The rpc's connect, disconnect and schedule take
no lock, and overwrite what a CLI command saved in between. The rpc's connect
makes up a key that nobody is shown. A device login that is approved after the
deadline, or a logout under way with a login, leaves a key that works.

*Tailnet.* A rename may give two machines one name, and a service installed
before keeps the old one.

*Test harness.* A service the user installs during a run is purged as a side
effect of the test, or overwritten by an add that runs on after its test's
timeout, whose lock is in the test's own sandbox; one installed while the ledger
still names it is taken for a leftover; a scan that fails takes nothing for the
user's, and nothing for the test's either, so that what a test pulled in stays;
native services are seen by no scan; the rpc's test run knows no ledger. A
snapshot of which only the first file was renamed, and an image whose
conversion was cut short, are used from then on, and a browser's image is built from
a base image in that state; a container image's tar that
was cut short fails every later run; `--redownload` leaves snapshots on top of
the image it replaces.

## 6. What is not modelled

* Deploy: image pulls, a slot that crashes or is restarted by systemd, Caddy
  reloads that fail; ports are in `Ports`.
* Lock: dry runs; errors of `open` (they leave LOCK_DEPTH raised in a process
  that then exits).
* Mutations: restart-strategy services, services without a URL, `revert`; units
  are removed in one step. `configure`, and the add and the remove of native
  services, are in `Wiring`, which in turn has no slots.
* UpgradeFiles: two upgrades in one second, which share a directory; symlinks;
  values of `.env`; hash collisions; hook-rewritten files, which the code skips.
  A native service with the restart strategy is outside this module: its render
  writes no copy of the manifest for an upgrade to replay (`lib.rs` 1461-1678,
  `upgrade.rs` 1091).
* Backup: `ryra backup delete` (`cli/backup.rs` 1021-1065), which takes a service's
  snapshots away at the operator's word; hooks' contents, restic's own locking (`Prune` may fail), restarts by
  systemd; a `systemctl stop` is taken to be effective; a backup may begin at any
  time, whatever the timers say. Blue/green services, whose unit
  `<service>.service` does not exist, are outside this module.
* BackupSetup: the keep counts and hours of a schedule, an S3 bucket without a
  sub-folder, the save of a machine id, the status file, the `RYRA_TOKEN` of a
  managed machine; of a place's snapshots only the last.
* Wiring: secrets and `.env` values, environment groups, choices and hooks;
  dependencies installed ahead; the `record_pending` reservation; volumes and the
  matching of their names; the lock of the OIDC file; Tailscale's steps inside a
  plan, which are in `Tailnet`; `ryra config` and upgrades of native services and of
  the identity provider; the units of containers beside a native service; a
  service on the host's network whose `.env` lacks its port. What a remove
  that keeps the data leaves of a home is simplified: the Caddyfile always goes.
* Ports: protocols, IPv6, ports of sidecars apart from the main container's, the
  `https` twin of the proxy's port, a port added by hand to `.env`.
* Tailnet: a local check that fails after `serve` has taken effect; ports and
  addresses of a definition, the sudo rules, installing and
  logging in to Tailscale.
* HostTests: what the commands of a test do beyond the services' presence, sudo,
  reports; two runs on the host at the same time, one by the CLI and one by the rpc;
  each add and remove is one step, since `Wiring` opens them up, and so is atomic
  beside the user's own commands, though their locks are two.
* TestVms: `--project`, the interactive machine, two runs at the same time, what
  a test does in its machine, firmware and architectures; an old image that `rm`
  fails to remove. The Ctrl-C of `Interrupt` is a signal to the process alone;
  one typed at a terminal goes to QEMU as well.
* Parsing, formatting, prompts, rendering, registry access, validation of
  definitions and the protocol's conversions: pure functions or plain I/O, with
  no state between two calls that another process could see.

## 7. Plan

In order of importance; all modules are written and have theorems.

1. `BlueGreen` - the deploy, its order proved (in `PortsProofs`).
2. `Mutex`, `MutationLock` - the lock, a refinement.
3. `Mutations` - commands on shared files, above the abstract lock;
   `MutationsProofs` - the theorems of both levels.
4. `UpgradeFiles`, `UpgradeFilesProofs` - drift, snapshots, manifest, revert.
5. `Backup`, `BackupSetup`, `BackupProofs` - backups and restores, and what they
   rest on.
6. `Wiring`, `WiringProofs` - add, remove, configure and upgrade across services.
7. `Ports`, `PortsProofs` - what add, re-renders and units make of host ports;
   it also holds `BlueGreen`'s theorems.
8. `Tailnet`, `TailnetProofs` - several machines on one ACL.
9. `HostTests`, `HostTestsProofs`, `ImageCache`, `TestVms`, `TestVmsProofs` - the
   test harness.

What would add most next:

* Abstract specifications: an atomic upgrade that `UpgradeFiles` implements
  when it is not interrupted, and a store of labelled snapshots for `Backup`.
* `Wiring` with the reservation of an add that waits at a prompt.
* In `Ports`, a service whose deploy strategy changes between versions.
