---------------------------- MODULE BackupSetup ----------------------------
(***************************************************************************)
(* Where a machine's backups go, under which key and when                  *)
(* (cli/backup.rs, cli/rpc.rs), and the account that a managed destination *)
(* needs (system/account.rs, cli/account.rs): `ryra backup connect`,       *)
(* `config`, `disconnect`, `manual`, `delete` and `restore --config`,      *)
(* their counterparts of the rpc, the timers' runs, `ryra account login`   *)
(* and `logout`.                                                           *)
(*                                                                         *)
(* A command reads preferences.toml as a whole, talks to restic, saves the *)
(* whole file and then makes systemd's timers follow it.  The commands of  *)
(* the CLI that change `[backup]` hold the mutation lock from their first  *)
(* read; the rpc's take no lock.  A repository opens with the one password *)
(* it was initialised with.                                                *)
(***************************************************************************)
EXTENDS Naturals, FiniteSets, FiniteSetsExt

CONSTANTS
    Procs,         \* ryra processes that work on backups
    Cadences,      \* the schedules there can be: daily and weekly
    MaxCommands,   \* bound: commands on backups and on the account
    MaxFaults,     \* bound: kills, unreachable backends, missing sessions
    MaxPasswords,  \* bound: repository passwords
    MaxTokens      \* bound: the control plane's API keys

ASSUME SetupConstants ==
    /\ Procs # {} /\ Cadences # {}
    /\ {MaxFaults, MaxTokens} \subseteq Nat /\ MaxCommands \in Nat \ {0}
    /\ MaxPasswords \in Nat \ {0, 1}

\* Where restic can be pointed: an S3 bucket under this machine's id or under
\* another machine's, a local path, the account's managed storage.
Places == {"own", "other", "local", "managed"}
Bucket == {"own", "other"}
Passwords == 1 .. MaxPasswords
Tokens == 1 .. MaxTokens
Foreign == 1     \* the password of the other machine's repository
None == 0

\* `[backup]` of preferences.toml: the backend, the password, the cadences set.
Unset == [at |-> "nowhere", key |-> None, sched |-> {}]
Settings == [at : Places, key : Passwords, sched : SUBSET Cadences] \cup {Unset}

Operations == {"none", "connect", "retry", "schedule", "restore", "backup"}

Idle == [by |-> "nobody", op |-> "none", pc |-> "idle", base |-> Unset,
         new |-> Unset, willed |-> FALSE]

VARIABLES
    config,      \* `[backup]` on disk
    repos,       \* per place: its repository's password, None before `restic init`
    bundles,     \* per place: the `[backup]` in the last snapshot's preferences.toml
    timers,      \* cadences whose timer is enabled
    session,     \* systemd --user can be reached
    job,         \* per process: the command at work, see Idle
    made,        \* passwords made up so far
    known,       \* passwords the user has seen or chosen
    commands,    \* commands given
    faults,      \* faults met
    token,       \* the API key in credentials.toml
    live,        \* API keys the control plane accepts
    issued,      \* API keys issued so far
    plan,        \* the account has an active backup plan
    login,       \* `account login` in the browser: its step and its key
    logout,      \* `account logout`: its step and the key it revoked
    dropped,     \* history: passwords replaced on purpose or by a stale save
    accepted,    \* history: places taken under a password that does not open them
    astray,      \* history: the timers were left to differ from the schedule
    strays       \* history: live API keys the box is known to have let go

account == <<token, live, issued, plan, login, logout, strays>>
disk == <<config, repos, bundles, timers>>
setupHistory == <<dropped, accepted, astray>>
setupVars == <<disk, session, job, made, known, commands, faults, account, setupHistory>>

\* What preferences.toml, credentials.toml and the repositories can hold; a key
\* the user knows has been made.
SetupTypeOK ==
    /\ config \in Settings
    /\ repos \in [Places -> {None} \cup Passwords]
    /\ bundles \in [Places -> Settings]
    /\ timers \subseteq Cadences /\ session \in BOOLEAN
    /\ job \in [Procs -> [by : {"nobody", "cli", "rpc", "timer"}, op : Operations,
                          pc : {"idle", "init", "save", "apply", "snapshot"},
                          base : Settings, new : Settings, willed : BOOLEAN]]
    /\ made \in {None} \cup Passwords /\ known \subseteq 1 .. made
    /\ commands \in 0 .. MaxCommands /\ faults \in 0 .. MaxFaults
    /\ token \in {None} \cup Tokens /\ live \subseteq Tokens /\ issued \in {None} \cup Tokens
    /\ plan \in BOOLEAN /\ strays \subseteq Tokens
    /\ login \in [pc : {"idle", "polling", "approved"}, key : {None} \cup Tokens]
    /\ logout \in [pc : {"idle", "revoked"}, key : {None} \cup Tokens]

\* Another machine may have backed up into the same bucket, under its own
\* password, which the user may have at hand; this one may have been connected
\* to the bucket for a while, all cadences set, under a password nobody noted
\* (that counts as one of the commands).
SetupInit ==
    /\ session = TRUE /\ known \in {{}, {Foreign}}
    /\ \E theirs \in {Unset, [at |-> "other", key |-> Foreign, sched |-> Cadences]},
          ours \in {Unset, [at |-> "own", key |-> Foreign + 1, sched |-> Cadences]} :
         /\ config = ours /\ timers = ours.sched /\ made = Max({Foreign, ours.key})
         /\ bundles = [p \in Places |-> CASE p = "other" -> theirs [] p = "own" -> ours
                                          [] OTHER -> Unset]
         /\ repos = [p \in Places |-> bundles[p].key]
         /\ commands = IF ours = Unset THEN 0 ELSE 1
    /\ job = [p \in Procs |-> Idle] /\ faults = 0
    /\ token = None /\ live = {} /\ issued = None /\ plan = TRUE
    /\ login = [pc |-> "idle", key |-> None] /\ logout = [pc |-> "idle", key |-> None]
    /\ dropped = {} /\ accepted = {} /\ astray = FALSE /\ strays = {}

(***************************************************************************)
(* What the commands are made of.                                          *)
(***************************************************************************)

\* `restic` with these settings gets at the repository: a managed backend asks
\* the control plane for storage credentials each time.
Resolves(s) == s.at = "managed" => (token \in live /\ plan)

Opens(s) == s # Unset /\ Resolves(s) /\ repos[s.at] = s.key

Locked == \E p \in Procs : job[p].by = "cli"

\* A command starts: it has read preferences.toml and knows what to save.
Begins(p, by, op, pc, new, willed) ==
    /\ job[p] = Idle /\ commands < MaxCommands
    /\ by = "cli" => ~Locked
    /\ job' = [job EXCEPT ![p] = [by |-> by, op |-> op, pc |-> pc, base |-> config,
                                  new |-> new, willed |-> willed]]
    /\ commands' = commands + 1
    /\ UNCHANGED <<disk, session, faults, account, setupHistory>>

Goes(p, pc) == job' = [job EXCEPT ![p].pc = pc]
CommandEnds(p) == job' = [job EXCEPT ![p] = Idle]

Faulty == faults < MaxFaults /\ faults' = faults + 1

\* A password that is new; `shown` when the user chose it or confirmed that
\* it is saved.
Fresh(shown) ==
    /\ made < MaxPasswords /\ made' = made + 1
    /\ known' = IF shown THEN known \cup {made + 1} ELSE known

Given == UNCHANGED <<made, known>>

(***************************************************************************)
(* The commands.                                                           *)
(***************************************************************************)

\* Mutant of Reused: a connection without a password makes up a new one.
ReusedNever == None

\* The password of a new connection: one the user passes, else the one in
\* preferences.toml, else a generated one.  `willed` when that replaces the
\* recorded password at the user's word.
Reused == config.key

Connects(p, by, at, sched, shown) ==
    LET connect(key, willed) ==
          Begins(p, by, "connect", "init", [at |-> at, key |-> key, sched |-> sched], willed)
    IN  \/ \E key \in known : connect(key, TRUE) /\ Given
        \/ connect(made + 1, TRUE) /\ Fresh(TRUE)
        \/ Reused # None /\ connect(Reused, FALSE) /\ Given
        \/ Reused = None /\ connect(made + 1, FALSE) /\ Fresh(shown)

\* `--rotate-key`: a generated password although one is recorded.
Rotates(p, at, shown) ==
    /\ config # Unset
    /\ Begins(p, "cli", "connect", "init",
              [at |-> at, key |-> made + 1, sched |-> {}], TRUE)
    /\ Fresh(shown)

\* The bucket's sub-folder of a new connection is always this machine's own.
Destinations == Places \ {"other"}

HasPlan == token \in live /\ plan

\* `ryra backup connect`, anew: the schedule is left for `ryra backup config`.
Connect(p) ==
    \E at \in Destinations, shown \in BOOLEAN :
      /\ at = "managed" => HasPlan
      /\ (Connects(p, "cli", at, {}, shown) \/ Rotates(p, at, shown))

\* `ryra backup connect` with what is saved: only init is run again.
Retry(p) ==
    /\ config # Unset
    /\ Begins(p, "cli", "retry", "init", config, FALSE) /\ Given

\* The rpc's connect keeps the schedule; a password it makes up is not shown.
ConnectBackup(p) ==
    \E at \in Places :
      /\ at = "managed" => token \in live /\ plan
      /\ Connects(p, "rpc", at, config.sched, FALSE)

\* Daily or not, weekly or not (the keep counts and the hours make no difference
\* here).
Cadenced == SUBSET Cadences

\* `ryra backup config`: which machine of the bucket, then the cadences.
Configure(p) ==
    /\ config # Unset
    /\ \E at \in IF config.at \in Bucket THEN Bucket ELSE {config.at}, sched \in Cadenced :
         Begins(p, "cli", "schedule", IF at = config.at THEN "save" ELSE "init",
                [config EXCEPT !.at = at, !.sched = sched], FALSE)
    /\ Given

SetBackupMachine(p) ==
    /\ config.at \in Bucket
    /\ \E at \in Bucket :
         Begins(p, "rpc", "connect", "init", [config EXCEPT !.at = at], FALSE)
    /\ Given

SetSchedule(p) ==
    /\ config # Unset
    /\ \E sched \in Cadenced :
         Begins(p, "rpc", "schedule", "save", [config EXCEPT !.sched = sched], FALSE)
    /\ Given

Disconnect(p) ==
    /\ \/ config # Unset /\ Begins(p, "cli", "schedule", "save", Unset, TRUE)
       \/ Begins(p, "rpc", "schedule", "save", Unset, TRUE)
    /\ Given

\* `ryra backup restore --config`: the snapshot's preferences.toml replaces the
\* machine's.
RestoreConfig(p) ==
    /\ Opens(config) /\ bundles[config.at] # Unset
    /\ Begins(p, "cli", "restore", "save", bundles[config.at], TRUE)
    /\ Given

\* A snapshot, at the user's word or a timer's: `[backup]` is read once.
BeginRun(p) ==
    /\ config # Unset /\ Resolves(config)
    /\ \E by \in {"rpc", "timer"} :
         /\ by = "timer" => timers # {} /\ session
         /\ Begins(p, by, "backup", "snapshot", config, FALSE)
    /\ Given

(***************************************************************************)
(* Their steps.                                                            *)
(***************************************************************************)
\* Mutant of Inited: a new repository is left to the first run.
InitedLater(s) == repos' = repos

Inited(s) == repos' = [repos EXCEPT ![s.at] = IF @ = None THEN s.key ELSE @]

\* `restic init`: a repository that is there already is as good as a new one,
\* whatever its password.
InitRepo(p) ==
    LET s == job[p].new IN
    /\ job[p].pc = "init"
    /\ IF Resolves(s)
       THEN /\ Inited(s)
            /\ accepted' = IF repos[s.at] \in {None, s.key} THEN accepted
                           ELSE accepted \cup {<<s.at, s.key>>}
            /\ IF job[p].op = "retry" THEN CommandEnds(p) ELSE Goes(p, "save")
       ELSE CommandEnds(p) /\ UNCHANGED <<repos, accepted>>
    /\ UNCHANGED <<config, bundles, timers, session, made, known, commands, faults, account,
                   dropped, astray>>

InitFails(p) ==
    /\ job[p].pc = "init" /\ Faulty /\ CommandEnds(p)
    /\ UNCHANGED <<disk, session, made, known, commands, account, setupHistory>>

\* Mutant of Applies: no operation reconciles the timers of a disconnected box.
AppliesNever(op) == FALSE

\* The operations that reconcile the timers once preferences.toml is saved.
Applies(op) == op = "schedule"

\* The whole file is written, over whatever it has become since it was read.
Save(p) ==
    LET j == job[p]
        stale == config # j.base
    IN
    /\ j.pc = "save"
    /\ config' = j.new
    /\ dropped' = IF (j.willed \/ stale) /\ config.key # j.new.key
                  THEN dropped \cup ({config.key} \ {None}) ELSE dropped
    /\ astray' = (astray \/ ((stale \/ j.op \in {"connect", "restore"}) /\ j.new.sched # config.sched))
    /\ IF Applies(j.op) THEN Goes(p, "apply") ELSE CommandEnds(p)
    /\ UNCHANGED <<repos, bundles, timers, session, made, known, commands, faults, account,
                   accepted>>

\* The unit files of each cadence are written or removed, and a removed timer
\* disabled; a timer is enabled only if systemd answers.
Enabled(wanted) == IF session THEN wanted ELSE timers \cap wanted

\* apply_schedule.
Apply(p) ==
    LET wanted == job[p].new.sched IN
    /\ job[p].pc = "apply"
    /\ timers' = Enabled(wanted)
    /\ astray' = (timers' # config.sched)
    /\ CommandEnds(p)
    /\ UNCHANGED <<config, repos, bundles, session, made, known, commands, faults, account,
                   dropped, accepted>>

\* restic saves the service's files, and with them preferences.toml as it is now.
Snapshot(p) ==
    /\ job[p].pc = "snapshot" /\ CommandEnds(p)
    /\ bundles' = IF Opens(job[p].base) THEN [bundles EXCEPT ![job[p].base.at] = config]
                  ELSE bundles
    /\ UNCHANGED <<config, repos, timers, session, made, known, commands, faults, account,
                   setupHistory>>

\* The last snapshot is deleted by its id.
Delete ==
    /\ Opens(config) /\ bundles[config.at] # Unset
    /\ bundles' = [bundles EXCEPT ![config.at] = Unset]
    /\ UNCHANGED <<config, repos, timers, session, job, made, known, commands, faults,
                   account, setupHistory>>

\* The process dies between two steps.
KillCommand(p) ==
    /\ job[p] # Idle /\ Faulty /\ CommandEnds(p)
    /\ astray' = (astray \/ job[p].pc = "apply")
    /\ UNCHANGED <<disk, session, made, known, commands, account, dropped, accepted>>

\* A container, or a shell before the first login, has no user manager; at a
\* login the enabled timers start.
LoseSession ==
    /\ session /\ Faulty /\ session' = FALSE
    /\ UNCHANGED <<disk, job, made, known, commands, account, setupHistory>>

LogIn ==
    /\ ~session /\ session' = TRUE
    /\ UNCHANGED <<disk, job, made, known, commands, faults, account, setupHistory>>

(***************************************************************************)
(* The account.                                                            *)
(***************************************************************************)
backups == <<disk, session, job, made, known, setupHistory>>

Command == commands < MaxCommands /\ commands' = commands + 1

\* credentials.toml is replaced; a key it held that still works is let go.
Stores(k) ==
    /\ token' = k
    /\ strays' = strays \cup (({token} \ {k}) \cap live)

DeviceStart ==
    /\ login.pc = "idle" /\ issued < MaxTokens /\ Command
    /\ login' = [login EXCEPT !.pc = "polling"]
    /\ UNCHANGED <<backups, faults, token, live, issued, plan, logout, strays>>

\* A person approves the request in the browser: the control plane mints a key.
Approve ==
    /\ login.pc = "polling" /\ issued < MaxTokens
    /\ issued' = issued + 1 /\ live' = live \cup {issued + 1}
    /\ login' = [pc |-> "approved", key |-> issued + 1]
    /\ UNCHANGED <<backups, commands, faults, token, plan, logout, strays>>

Polled ==
    /\ login.pc = "approved"
    /\ Stores(login.key) /\ login' = [pc |-> "idle", key |-> None]
    /\ UNCHANGED <<backups, commands, faults, live, issued, plan, logout>>

\* Denied, expired, or past the deadline; an approval it has not polled is lost.
GiveUp ==
    /\ login.pc # "idle"
    /\ login' = [pc |-> "idle", key |-> None]
    /\ strays' = strays \cup ({login.key} \cap live)
    /\ UNCHANGED <<backups, commands, faults, token, live, issued, plan, logout>>

Verified(k) == k \in live

\* A key on stdin or in RYRA_TOKEN is verified first; one from the rpc is not.
LoginWithToken ==
    /\ Command
    /\ \E k \in 1 .. issued, by \in {"cli", "rpc"} : (by = "cli" => Verified(k)) /\ Stores(k)
    /\ UNCHANGED <<backups, faults, live, issued, plan, login, logout>>

\* Mutant of Revoke: a logout is local.
RevokeNothing ==
    /\ logout.pc = "idle" /\ token # None /\ Command
    /\ logout' = [pc |-> "revoked", key |-> token]
    /\ UNCHANGED <<backups, faults, token, live, issued, plan, login, strays>>

\* `ryra account logout`: the key is revoked, as far as that works, and then
\* the file is deleted.
Revoke ==
    /\ logout.pc = "idle" /\ token # None /\ Command
    /\ \/ live' = live \ {token} /\ UNCHANGED <<faults, strays>>
       \/ Faulty /\ strays' = strays \cup ({token} \cap live) /\ UNCHANGED live
    /\ logout' = [pc |-> "revoked", key |-> token]
    /\ UNCHANGED <<backups, token, issued, plan, login>>

DeleteCredentials ==
    /\ logout.pc = "revoked"
    /\ token' = None
    /\ strays' = IF token # logout.key THEN strays \cup ({token} \cap live) ELSE strays
    /\ logout' = [pc |-> "idle", key |-> None]
    /\ UNCHANGED <<backups, commands, faults, live, issued, plan, login>>

\* On the control plane: a key is revoked in the settings, a plan lapses or is
\* bought.
RevokeElsewhere ==
    /\ Faulty
    /\ \E k \in live : live' = live \ {k}
    /\ UNCHANGED <<backups, commands, token, issued, plan, login, logout, strays>>

ChangePlan ==
    /\ Faulty /\ plan' = ~plan
    /\ UNCHANGED <<backups, commands, token, live, issued, login, logout, strays>>

SetupNext ==
    \/ \E p \in Procs :
         \/ Connect(p) \/ Retry(p) \/ ConnectBackup(p) \/ Configure(p)
         \/ SetBackupMachine(p) \/ SetSchedule(p) \/ Disconnect(p) \/ RestoreConfig(p)
         \/ BeginRun(p)
         \/ InitRepo(p) \/ InitFails(p) \/ Save(p) \/ Apply(p) \/ Snapshot(p) \/ KillCommand(p)
    \/ Delete \/ LoseSession \/ LogIn
    \/ DeviceStart \/ Approve \/ Polled \/ GiveUp \/ LoginWithToken
    \/ Revoke \/ DeleteCredentials \/ RevokeElsewhere \/ ChangePlan

SetupSpec == SetupInit /\ [][SetupNext]_setupVars

(***************************************************************************)
(* Properties.                                                             *)
(***************************************************************************)

\* No snapshot loses its key behind the user's back: the password of every
\* repository with snapshots is recorded, known to the user, or was replaced at
\* the user's word or by a stale save of preferences.toml.
\* (collect_new_settings and connect_backup reuse the recorded password: a new
\* one "orphans every existing snapshot".)
KeysHeld ==
    \A p \in Places :
      bundles[p] # Unset => repos[p] \in {config.key} \cup known \cup dropped \cup {Foreign}

\* What is recorded has been initialised, and opens unless it was connected to
\* a repository that already had another password.  (Init first, then save.)
RepositoryReady ==
    config # Unset =>
      \/ repos[config.at] = config.key
      \/ repos[config.at] # None /\ <<config.at, config.key>> \in accepted

\* Between commands the enabled timers are those of the schedule, unless a
\* command that does not reconcile them changed it (a new `connect`, a restore
\* of preferences.toml), a save was stale, the process died before
\* apply_schedule, or systemd did not answer it.
TimersFollow ==
    (~astray /\ \A p \in Procs : job[p].pc # "apply") => timers = config.sched

\* A key the control plane accepts is in credentials.toml, on its way there, or
\* was let go knowingly: replaced by another login, not polled in time, or not
\* revoked at a logout for want of an answer.  (logout revokes before it
\* deletes.)
NoGhostKey ==
    live \subseteq {token} \cup strays \cup {login.key}

\* What is recorded works: "Init before persisting, so we only record a [backup]
\* that actually works" (connect_backup, cli/rpc.rs:985), and --rotate-key is to
\* "replace the encryption key with a fresh one" (cli/backup.rs:71).
RecordedWorks ==
    (config # Unset /\ \A p \in Procs : job[p] = Idle) => repos[config.at] = config.key
=============================================================================
