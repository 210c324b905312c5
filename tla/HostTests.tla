------------------------------- MODULE HostTests -------------------------------
(***************************************************************************)
(* `ryra test` on the host itself, without a virtual machine: run_bare,    *)
(* the rpc's RunTest and `ryra test reset`, on a host where the user       *)
(* installs services of their own.  Each test has a sandbox (a data root   *)
(* of its own), but the unit of a service and its podman volumes are the   *)
(* host's: they go by the service's name alone.  A ledger on disk says     *)
(* which services the tests installed.                                     *)
(*                                                                         *)
(* Every `ryra add` and `ryra remove` of a test is a process of its own,   *)
(* atomic here (Wiring opens it up) but for an add that has timed out and  *)
(* runs on; what a failing one leaves is modelled.  The lock of the        *)
(* commands is in the config directory, and each test has its own: it      *)
(* excludes the commands of one test, and never the user's.  Left out:     *)
(* two runs at once, sudo, output, reports, waiting and polling.           *)
(***************************************************************************)
EXTENDS Naturals, Sequences, FiniteSets, SequencesExt

CONSTANTS
    Services,
    Native,       \* services with the native runtime: units, no quadlets
    Volumes,      \* services with a named volume
    Tests,        \* strings: the name of a test is also that of its data root
    Lifecycle,    \* tests that are a sequence of typed steps (the newer forms)
    Script,       \* per test: its steps, [op, of, pulls]
    Selections,   \* the sequences of tests a run is asked for
    Rpc,          \* whether the rpc is in use
    MaxUser,      \* bound: services the user adds
    MaxRuns,      \* bound: runs and resets that are begun
    MaxFaults     \* bound: failures, time-outs, aborts, lost writes

Roots == Tests \cup {"real", "top"}   \* the user's, and the sandbox's own
Step == [op : {"add", "remove", "wait", "check"}, of : Services, pulls : SUBSET Services]

\* The steps of a test in the older form, services to set up and commands to run.
Do(op, s, pulls) == [op |-> op, of |-> s, pulls |-> pulls]
SimpleScript(services) ==
    FlattenSeq([i \in DOMAIN services |-> << Do("add", services[i], {}),
                                             Do("wait", services[i], {}) >>])
    \o << Do("check", services[1], {}) >>

ASSUME HostTestsConstants ==
    /\ IsFiniteSet(Services)
    /\ Native \subseteq Services /\ Volumes \subseteq Services \ Native
    /\ {"real", "top", "none"} \cap Tests = {} /\ Lifecycle \subseteq Tests
    /\ Script \in [Tests -> Seq(Step)]
    /\ Selections \subseteq Seq(Tests)
    /\ Rpc \in BOOLEAN
    /\ MaxUser \in Nat /\ MaxRuns \in Nat /\ MaxFaults \in Nat

VARIABLES
    host,       \* per service: the root its unit links into, homes, volume
    mine,       \* services the user installed
    ledger,     \* on disk: services the tests installed
    who,        \* the run under way: "none", "cli" or "rpc"
    pc,         \* its phase
    retest,     \* it was asked to skip the setup steps
    owned,      \* what it takes to be the user's
    led,        \* the ledger in its memory
    todo,       \* tests left
    queue,      \* services it is about to purge
    leaked,     \* what else it found installed after the test
    script,     \* steps left of the current test
    failed,     \* a step has failed
    stragglers, \* the adds that timed out and still run
    exposed,    \* history: user's services a run has no way to spare
    overlooked, \* history: user's services a failed scan has hidden from a run
    stuck,      \* history: services whose purge was refused, or came too early
    forgotten,  \* history: services the reclaim of which was refused
    unseen,     \* history: services a failed scan has hidden after a test
    unwritten,  \* history: services a test adds that the ledger does not get
    actions, runs, faults

run == <<who, pc, retest, owned, led, todo, queue, leaked, script, failed>>
history == <<exposed, overlooked, stuck, forgotten, unseen, unwritten>>
counters == <<actions, runs, faults>>
vars == <<host, mine, ledger, run, stragglers, history, counters>>

Absent == [unit |-> "none", homes |-> {}, volume |-> "none"]

Init ==
    /\ host = [s \in Services |-> Absent]
    /\ mine = {} /\ ledger = {}
    /\ who = "none" /\ pc = "idle" /\ retest = FALSE
    /\ owned = {} /\ led = {} /\ todo = << >> /\ queue = << >> /\ leaked = {}
    /\ script = << >> /\ failed = FALSE
    /\ stragglers = {}
    /\ exposed = {} /\ overlooked = {} /\ stuck = {} /\ forgotten = {} /\ unseen = {} /\ unwritten = {}
    /\ actions = 0 /\ runs = 0 /\ faults = 0

(***************************************************************************)
(* What ryra sees and does, given a data root.                             *)
(***************************************************************************)

\* A unit is a link into a home; one that dangles is not read.
Present(h) == h.unit \in h.homes

\* scan_managed_services: quadlets with the marker, whatever root they are of.
\* It does not look at native units.
Scan == {s \in Services \ Native : Present(host[s])}

\* is_service_installed: an install record in this root, and a unit.
Installed(s, r) == r \in host[s].homes /\ Present(host[s])

\* enumerate_service: a home in this root, or a volume of that name.
Leftover(s, r) == r \in host[s].homes \/ host[s].volume # "none"

\* `ryra remove --purge`: refused when this root knows nothing of s.  The purge
\* of what is not installed leaves native units alone.
Purged(s, r) ==
    [unit |-> IF s \in Native /\ ~Installed(s, r) THEN host[s].unit ELSE "none",
     homes |-> host[s].homes \ {r},
     volume |-> "none"]
AfterPurge(s, r) == IF Leftover(s, r) THEN Purged(s, r) ELSE host[s]

\* `ryra add` without a terminal: what is left over is purged first, and the
\* unit is linked over whatever unit there was.
Added(s, r) ==
    [unit |-> r, homes |-> host[s].homes \cup {r},
     volume |-> IF s \notin Volumes THEN "none"
                ELSE IF r = "real" THEN "user" ELSE "test"]

\* What an add that fails leaves: nothing done, the purge done, the home there
\* with the install record in it, the unit linked, or all of it removed again.
Partial(s, r) ==
    {host[s], AfterPurge(s, r), [AfterPurge(s, r) EXCEPT !.homes = @ \cup {r}],
     Added(s, r), [unit |-> "none", homes |-> host[s].homes \ {r}, volume |-> "none"]}

\* MutationLock: only an add that has timed out holds it where another command
\* may want it, until its config directory is deleted.
LockHeld(r) == \E a \in stragglers : a.root = r /\ a.locked
Unlocked(a) == [a EXCEPT !.locked = FALSE]
WithoutLock(r) == {IF a.root = r THEN Unlocked(a) ELSE a : a \in stragglers}
Adding(a) == {a.of} \cup a.pulls

Intact(s) ==
    /\ host[s].unit = "real" /\ "real" \in host[s].homes
    /\ s \in Volumes => host[s].volume = "user"

Root == IF todo = << >> THEN "real" ELSE Head(todo)

\* DiscoveredTest::services: what the steps add, once each.
Steps(t, op) == {i \in DOMAIN Script[t] : Script[t][i].op = op}
Declared(t) == {Script[t][i].of : i \in Steps(t, "add")}
Pulled(t) == UNION {Script[t][i].pulls : i \in Steps(t, "add")}
Removed(t) == {Script[t][i].of : i \in Steps(t, "remove")}

\* purge_services takes them from the last to the first: the k-th is the one
\* that k - 1 are first added after.
FirstAdds(t) ==
    {i \in Steps(t, "add") :
        \A j \in Steps(t, "add") : Script[t][j].of = Script[t][i].of => i <= j}
AddedAfter(t, i) == {j \in FirstAdds(t) : j > i}
LastFirst(t) ==
    [k \in 1..Cardinality(FirstAdds(t)) |->
        Script[t][CHOOSE i \in FirstAdds(t) : Cardinality(AddedAfter(t, i)) = k - 1].of]

(***************************************************************************)
(* The user.                                                               *)
(***************************************************************************)
UserAdds(s) ==
    /\ ~Installed(s, "real")
    /\ actions < MaxUser /\ actions' = actions + 1
    /\ host' = [host EXCEPT ![s] = Added(s, "real")]
    /\ mine' = mine \cup {s}
    /\ exposed' = IF who # "none" \/ s \in ledger \/ \E a \in stragglers : s \in Adding(a)
                  THEN exposed \cup {s} ELSE exposed
    /\ overlooked' = overlooked \ {s}
    /\ stuck' = stuck \ {s} /\ forgotten' = forgotten \ {s} /\ unseen' = unseen \ {s}
    /\ UNCHANGED <<ledger, run, stragglers, unwritten, runs, faults>>

UserRemoves(s) ==
    /\ s \in mine /\ Leftover(s, "real")
    /\ host' = [host EXCEPT ![s] = Purged(s, "real")]
    /\ mine' = mine \ {s} /\ exposed' = exposed \ {s} /\ overlooked' = overlooked \ {s}
    /\ UNCHANGED <<ledger, run, stragglers, stuck, forgotten, unseen, unwritten, counters>>

(***************************************************************************)
(* A run's beginning: run_bare takes what is installed and not in the      *)
(* ledger for the user's, and purges what is installed and in the ledger,  *)
(* in the user's data root.                                                *)
(***************************************************************************)
Fault == faults < MaxFaults /\ faults' = faults + 1

Begin(tests, seen) ==
    /\ who = "none"
    /\ runs < MaxRuns /\ runs' = runs + 1
    /\ who' = "cli" /\ pc' = "reclaim"
    /\ \E again \in BOOLEAN : retest' = again
    /\ todo' = tests /\ led' = ledger
    /\ owned' = seen \ ledger
    /\ queue' = SetToSeq(seen \cap ledger)
    /\ UNCHANGED <<host, mine, ledger, leaked, script, failed, stragglers, exposed, stuck,
                   forgotten, unseen, unwritten, actions>>

StartRun(tests) == Begin(tests, Scan) /\ UNCHANGED <<overlooked, faults>>

\* scan_installed: a scan that fails says that nothing is installed.
StartBlind(tests) == Begin(tests, {}) /\ overlooked' = overlooked \cup mine /\ Fault

\* A purge that is refused, by the lock or for want of anything in that root, is
\* ignored.
PurgeWorks(r) == ~LockHeld(r) /\ Leftover(Head(queue), r)
PurgeHead(r) ==
    LET s == Head(queue)
    IN /\ host' = [host EXCEPT ![s] = IF PurgeWorks(r) THEN Purged(s, r) ELSE @]
       /\ queue' = Tail(queue)
       /\ unseen' = IF PurgeWorks(r) THEN unseen \ {s} ELSE unseen

\* `refused`: the services whose purge was refused although they are installed.
Missed(r, refused) ==
    LET s == Head(queue)
    IN IF PurgeWorks(r) THEN refused \ {s}
       ELSE IF Present(host[s]) THEN refused \cup {s} ELSE refused

\* In the user's root: what has a volume is found there, the rest is not.
Reclaim ==
    /\ pc = "reclaim" /\ queue # << >>
    /\ PurgeHead("real")
    /\ forgotten' = Missed("real", forgotten)
    /\ led' = led \ {Head(queue)}
    /\ UNCHANGED <<mine, ledger, who, pc, retest, owned, todo, leaked, script, failed,
                   stragglers, exposed, overlooked, stuck, unwritten, counters>>

\* ledger_save: best effort.
Save(set) == ledger' = set /\ UNCHANGED faults
LoseSave == ledger' = ledger /\ Fault

EndReclaim ==
    /\ pc = "reclaim" /\ queue = << >>
    /\ pc' = "next" /\ (Save(led) \/ LoseSave)
    /\ UNCHANGED <<host, mine, who, retest, owned, led, todo, queue, leaked, script,
                   failed, stragglers, history, actions, runs>>

(***************************************************************************)
(* One test: skipped if it adds a service of the user's; else the intent   *)
(* is written down, the services are purged, the steps run, the services   *)
(* are purged again, and whatever else has appeared on the host.           *)
(***************************************************************************)

\* Variants: nothing is skipped; intent is kept in memory until the test ends.
NeverSkips(t) == FALSE
LedgerOnlyInMemory(t) ==
    /\ led' = led \cup Declared(t)
    /\ unwritten' = (unwritten \ Declared(t)) \cup Pulled(t)
    /\ UNCHANGED <<ledger, faults>>

Skips(t) == Declared(t) \cap owned # {}

RecordIntent(t) ==
    /\ led' = led \cup Declared(t)
    /\ \/ /\ Save(led')
          /\ unwritten' = (unwritten \ Declared(t)) \cup Pulled(t)
       \/ /\ LoseSave
          /\ unwritten' = unwritten \cup Declared(t) \cup Pulled(t)

SkipTest ==
    /\ pc = "next" /\ todo # << >> /\ Skips(Head(todo))
    /\ todo' = Tail(todo)
    /\ UNCHANGED <<host, mine, ledger, who, pc, retest, owned, led, queue, leaked, script,
                   failed, stragglers, history, counters>>

\* What a test pulls in, or removes without adding it, is not looked at, nor is a
\* native service seen.
Unguarded(t) == Pulled(t) \cup (Removed(t) \ Declared(t)) \cup (Declared(t) \cap Native)

BeginTest ==
    /\ pc = "next" /\ todo # << >> /\ ~Skips(Head(todo))
    /\ LET t == Head(todo) IN
       /\ RecordIntent(t)
       /\ exposed' = exposed \cup (mine \cap Unguarded(t))
       /\ queue' = LastFirst(t)
       /\ stragglers' = WithoutLock(t)
    /\ pc' = "before" /\ failed' = FALSE /\ leaked' = {}
    /\ UNCHANGED <<host, mine, who, retest, owned, todo, script, overlooked, stuck,
                   forgotten, unseen, actions, runs>>

\* cli/rpc.rs run_test: no ledger; what is installed is spared by the sweep only.
BeginRpc(t, seen) ==
    /\ Rpc /\ who = "none"
    /\ runs < MaxRuns /\ runs' = runs + 1
    /\ who' = "rpc" /\ pc' = "before" /\ retest' = FALSE
    /\ todo' = <<t>> /\ led' = {} /\ owned' = seen
    /\ queue' = LastFirst(t) /\ failed' = FALSE /\ leaked' = {}
    /\ stragglers' = WithoutLock(t)
    /\ unwritten' = unwritten \cup Declared(t) \cup Pulled(t)
    /\ UNCHANGED <<host, mine, ledger, script, stuck, forgotten, unseen, actions>>

StartRpc(t) ==
    /\ BeginRpc(t, Scan)
    /\ exposed' = exposed \cup (mine \cap (Unguarded(t) \cup Declared(t)))
    /\ UNCHANGED <<overlooked, faults>>

\* unwrap_or_default: here too a scan that fails says that nothing is installed.
StartRpcBlind(t) ==
    /\ BeginRpc(t, {}) /\ Fault
    /\ overlooked' = overlooked \cup mine
    /\ exposed' = exposed \cup (mine \cap (Unguarded(t) \cup Declared(t)))

PurgeBefore ==
    /\ pc = "before" /\ queue # << >>
    /\ PurgeHead(Root)
    /\ stuck' = Missed(Root, stuck)
    /\ UNCHANGED <<mine, ledger, who, pc, retest, owned, led, todo, leaked, script, failed,
                   stragglers, exposed, overlooked, forgotten, unwritten, counters>>

BeginSteps ==
    /\ pc = "before" /\ queue = << >>
    /\ pc' = "steps"
    /\ script' = Script[Root]
    /\ UNCHANGED <<host, mine, ledger, who, retest, owned, led, todo, queue, leaked, failed,
                   stragglers, history, counters>>

\* A retest of typed steps skips all that set up.
SetsUp(step) == retest /\ Root \in Lifecycle /\ step.op # "check"

SkipStep ==
    /\ pc = "steps" /\ ~failed /\ script # << >> /\ SetsUp(Head(script))
    /\ script' = Tail(script)
    /\ UNCHANGED <<host, mine, ledger, who, pc, retest, owned, led, todo, queue, leaked, failed,
                   stragglers, history, counters>>

Stepping(op) ==
    /\ pc = "steps" /\ ~failed /\ script # << >>
    /\ Head(script).op = op /\ ~SetsUp(Head(script))
    /\ script' = Tail(script)
    /\ UNCHANGED <<mine, ledger, who, pc, retest, owned, led, todo, queue, leaked, history,
                   actions, runs>>

\* The services the step adds: --auth and --smtp pull in their provider, before
\* anything else, unless this root has it.
PulledIn(step) == {s \in step.pulls \ {step.of} : ~Installed(s, Root)}
ToAdd(step) == {step.of} \cup PulledIn(step)

\* An add refuses what is installed in this root, and fails under the lock.
Refused(step) == LockHeld(Root) \/ Installed(step.of, Root)

AddStep ==
    /\ Stepping("add") /\ ~Refused(Head(script))
    /\ host' = [s \in Services |-> IF s \in ToAdd(Head(script)) THEN Added(s, Root)
                                   ELSE host[s]]
    /\ UNCHANGED <<failed, stragglers, faults>>

AddRefused ==
    /\ Stepping("add") /\ Refused(Head(script))
    /\ failed' = TRUE
    /\ host' = [s \in Services |->
                  IF s \in PulledIn(Head(script)) /\ ~LockHeld(Root) THEN Added(s, Root)
                  ELSE host[s]]
    /\ UNCHANGED <<stragglers, faults>>

\* It fails at one of the services it pulls in, or at its own after all of them.
AddFails ==
    /\ Stepping("add") /\ ~Refused(Head(script)) /\ Fault
    /\ failed' = TRUE
    /\ LET first == PulledIn(Head(script)) IN
          \E done \in SUBSET first :
          \E s \in IF done = first THEN {Head(script).of} ELSE first \ done :
          \E left \in Partial(s, Root) :
             host' = [x \in Services |-> IF x = s THEN left
                                         ELSE IF x \in done THEN Added(x, Root) ELSE host[x]]
    /\ UNCHANGED stragglers

\* run_event drops the future of the command; the command itself runs on.  The
\* number tells two of them apart.
AddTimesOut ==
    /\ Stepping("add") /\ ~Refused(Head(script)) /\ Fault
    /\ failed' = TRUE
    /\ stragglers' = stragglers \cup
           {[of |-> Head(script).of, pulls |-> PulledIn(Head(script)), root |-> Root,
             locked |-> TRUE, no |-> faults]}
    /\ UNCHANGED host

RemoveStep ==
    LET s == Head(script).of
        works == ~LockHeld(Root) /\ Leftover(s, Root) IN
    /\ Stepping("remove")
    /\ host' = [host EXCEPT ![s] = IF works THEN Purged(s, Root) ELSE @]
    /\ failed' = ~works
    /\ UNCHANGED <<stragglers, faults>>

WaitStep ==
    /\ Stepping("wait")
    /\ failed' = ~Present(host[Head(script).of])
    /\ UNCHANGED <<host, stragglers, faults>>

\* Commands, requests, browser and mail: they may fail for reasons of their own.
CheckStep ==
    /\ Stepping("check")
    /\ \E bad \in BOOLEAN : failed' = (bad \/ ~Present(host[Head(script).of]))
    /\ UNCHANGED <<host, stragglers, faults>>

\* Its services, one after the other, each of them after the run gave it up.
NextOf(a) == IF a.pulls = {} THEN {a.of} ELSE a.pulls

StragglerAdds ==
    \E a \in stragglers : \E s \in NextOf(a) :
       /\ host' = [host EXCEPT ![s] = Added(s, a.root)]
       /\ stragglers' = (stragglers \ {a}) \cup
            (IF a.pulls = {} THEN {} ELSE {[a EXCEPT !.pulls = @ \ {s}]})
       /\ stuck' = stuck \cup {s}
       /\ UNCHANGED <<mine, ledger, run, exposed, overlooked, forgotten, unseen, unwritten, counters>>

StragglerFails ==
    \E a \in stragglers : \E s \in NextOf(a) : \E left \in Partial(s, a.root) :
       /\ Fault
       /\ host' = [host EXCEPT ![s] = left]
       /\ stragglers' = stragglers \ {a}
       /\ stuck' = stuck \cup {s}
       /\ UNCHANGED <<mine, ledger, run, exposed, overlooked, forgotten, unseen, unwritten, actions, runs>>

EndSteps ==
    /\ pc = "steps" /\ (failed \/ script = << >>)
    /\ pc' = "after" /\ script' = << >> /\ queue' = LastFirst(Root)
    /\ UNCHANGED <<host, mine, ledger, who, retest, owned, led, todo, leaked, failed,
                   stragglers, history, counters>>

PurgeAfter ==
    /\ pc \in {"after", "sweep"} /\ queue # << >>
    /\ PurgeHead(Root)
    /\ stuck' = Missed(Root, stuck)
    /\ UNCHANGED <<mine, ledger, who, pc, retest, owned, led, todo, leaked, script, failed,
                   stragglers, exposed, overlooked, forgotten, unwritten, counters>>

\* A variant that leaves what the test has pulled in.
SideEffectsNone == {}

\* Whatever is installed, and neither declared nor the user's.
SideEffects == Scan \ (owned \cup Declared(Root))

FindSideEffects ==
    /\ pc = "after" /\ queue = << >>
    /\ pc' = "sweep" /\ leaked' = SideEffects /\ queue' = Reverse(SetToSeq(SideEffects))
    /\ UNCHANGED <<host, mine, ledger, who, retest, owned, led, todo, script, failed,
                   stragglers, history, counters>>

\* The scan fails once more: nothing else has appeared, it seems.
FindNothing ==
    /\ pc = "after" /\ queue = << >> /\ Fault
    /\ pc' = "sweep" /\ leaked' = {} /\ unseen' = unseen \cup SideEffects
    /\ UNCHANGED <<host, mine, ledger, who, retest, owned, led, todo, queue, script, failed,
                   stragglers, exposed, overlooked, stuck, forgotten, unwritten, actions,
                   runs>>

EndTest ==
    /\ pc = "sweep" /\ queue = << >>
    /\ led' = led \ (Declared(Root) \cup leaked)
    /\ pc' = "next" /\ todo' = Tail(todo)
    /\ IF who = "cli" THEN Save(led') \/ LoseSave ELSE UNCHANGED <<ledger, faults>>
    /\ UNCHANGED <<host, mine, who, retest, owned, queue, leaked, script, failed, stragglers,
                   history, actions, runs>>

Quit ==
    /\ who' = "none" /\ pc' = "idle" /\ retest' = FALSE
    /\ owned' = {} /\ led' = {} /\ todo' = << >> /\ queue' = << >> /\ leaked' = {}
    /\ script' = << >> /\ failed' = FALSE
    /\ UNCHANGED <<host, mine, ledger, stragglers, history, actions, runs>>

EndRun == pc = "next" /\ todo = << >> /\ Quit /\ UNCHANGED faults

\* Interrupted: everything the run knew is lost, except the ledger on disk.
Aborted == who # "none" /\ Fault /\ Quit

(***************************************************************************)
(* `ryra test reset`: purge the leftovers in the sandbox's own root; unless *)
(* some are left, delete the sandbox, with the ledger and all config       *)
(* directories in it.  Either scan of what is left may fail.               *)
(***************************************************************************)
Reset(blind, unchecked) ==
    LET left == IF blind THEN {} ELSE ledger \cap Scan
        purged == [s \in Services |-> IF s \in left THEN AfterPurge(s, "top") ELSE host[s]]
        remain == IF unchecked THEN {} ELSE {s \in left : Present(purged[s])}
    IN /\ who = "none"
       /\ runs < MaxRuns /\ runs' = runs + 1
       /\ IF blind \/ unchecked THEN Fault ELSE UNCHANGED faults
       /\ IF remain = {}
          THEN /\ host' = [s \in Services |->
                             [purged[s] EXCEPT !.homes = @ \cap {"real"}]]
               /\ ledger' = {} /\ stragglers' = {Unlocked(a) : a \in stragglers}
          ELSE host' = purged /\ UNCHANGED <<ledger, stragglers>>
       /\ UNCHANGED <<mine, run, history, actions>>

Next ==
    \/ \E s \in Services : UserAdds(s) \/ UserRemoves(s)
    \/ \E tests \in Selections : StartRun(tests) \/ StartBlind(tests)
    \/ \E t \in Tests : StartRpc(t) \/ StartRpcBlind(t)
    \/ Reclaim \/ EndReclaim \/ SkipTest \/ BeginTest \/ PurgeBefore \/ BeginSteps
    \/ SkipStep \/ AddStep \/ AddRefused \/ AddFails \/ AddTimesOut
    \/ RemoveStep \/ WaitStep \/ CheckStep \/ StragglerAdds \/ StragglerFails
    \/ EndSteps \/ PurgeAfter \/ FindSideEffects \/ FindNothing \/ EndTest
    \/ EndRun \/ Aborted \/ \E blind, unchecked \in BOOLEAN : Reset(blind, unchecked)

Spec == Init /\ [][Next]_vars

(***************************************************************************)
(* Properties.                                                             *)
(***************************************************************************)

Host == [unit : Roots \cup {"none"}, homes : SUBSET Roots, volume : {"none", "user", "test"}]

Straggler ==
    [of : Services, pulls : SUBSET Services, root : Tests, locked : BOOLEAN, no : Nat]

\* The shape of the state, and that a run with nothing under way holds nothing.
TypeOK ==
    /\ host \in [Services -> Host]
    /\ mine \subseteq Services /\ ledger \subseteq Services
    /\ who \in {"none", "cli", "rpc"}
    /\ pc \in {"idle", "reclaim", "next", "before", "steps", "after", "sweep"}
    /\ owned \subseteq Services /\ led \subseteq Services /\ leaked \subseteq Services
    /\ todo \in Seq(Tests) /\ queue \in Seq(Services) /\ script \in Seq(Step)
    /\ retest \in BOOLEAN /\ failed \in BOOLEAN
    /\ stragglers \subseteq Straggler
    /\ exposed \subseteq Services /\ overlooked \subseteq Services
    /\ stuck \subseteq Services /\ forgotten \subseteq Services
    /\ unseen \subseteq Services /\ unwritten \subseteq Services
    /\ actions \in Nat /\ runs \in Nat /\ faults \in Nat
    /\ pc = "idle" <=> who = "none"
    /\ pc \in {"before", "steps", "after", "sweep"} => todo # << >>
    /\ led \cap owned = {} \/ who = "rpc"

\* run_bare's second promise, as far as it goes: the unit, the home and the
\* volume of a service the user installed stay as they are, unless a test pulls
\* it in or removes it undeclared, it is native, it was installed during a run,
\* while the ledger still named it or while an add of it that had timed out was
\* still to come, the scan that should have found it failed (`overlooked`), or the
\* test came over the rpc.
UserServicesKept == \A s \in mine \ (exposed \cup overlooked) : Intact(s)

\* host_ledger_path: what tests have left on the host between two runs is in the
\* ledger, where the next run finds it, unless its purge after the test was
\* refused or came before the end of an add that had timed out, its reclaim was
\* refused (`forgotten`), it was pulled in undeclared, the ledger could not be
\* written, or the test came over the rpc.
LeftoversRecorded ==
    who = "none" =>
        \A s \in Scan \ (stuck \cup forgotten \cup unwritten) :
            host[s].unit # "real" => s \in ledger

\* run_bare's third promise: when a test has been cleaned up after, what is
\* installed was there before the run or is the user's, unless a purge of it was
\* refused, an add of it had timed out and ended after the purge, or the scan for
\* it failed.
NothingPilesUp ==
    pc = "sweep" /\ queue = << >> =>
        \A s \in Scan \ (stuck \cup unseen \cup owned) : host[s].unit = "real"

\* The promise as run_bare's comment makes it, of what the run detected up
\* front.
ServicesLeftUntouched == \A s \in mine \cap owned : Intact(s)

\* The ledger as host_ledger_path's comment and the reset's describe it: it tells
\* the leftovers of a run that was cut short, until they are purged.
LedgerTellsLeftovers ==
    who = "none" =>
        \A s \in Scan \ (stuck \cup unwritten) : host[s].unit # "real" => s \in ledger

\* scan_installed's comment: if the scan fails, nothing is deleted blindly.
NeverDeletesBlindly == \A s \in mine \ exposed : Intact(s)
================================================================================
