-------------------------------- MODULE TestVms --------------------------------
(***************************************************************************)
(* A run of `ryra test --vm`: it prepares what ImageCache describes, plans *)
(* how many machines fit the host's memory, and starts one per test, in    *)
(* order and as permits come free.  A machine is known by the port its ssh *)
(* is forwarded from and by the key that opens it; ports are counted by    *)
(* the process from the same first one, and restored machines all open to  *)
(* the same key.  The Ctrl-C handler kills the machines it finds listed in *)
(* ACTIVE_VMS, while the tests go on.                                      *)
(*                                                                         *)
(* What becomes of a machine is its fate: "unlisted" and "listed" are of a *)
(* test at work, "doomed" ones the handler has taken from the list,        *)
(* "slipped" ones it has missed, "kept" ones stay on purpose, and "old"    *)
(* ones an earlier run has left.                                           *)
(*                                                                         *)
(* Left out: --project, the interactive machine, what a test does in its   *)
(* machine, reports.                                                       *)
(***************************************************************************)
EXTENDS ImageCache

CONSTANTS
    Tests,      \* strings
    Adds,       \* per test: the services its steps add
    Implied,    \* per test: those its flags pull in
    Browser,    \* tests that drive a browser
    Memory,     \* per service: the RAM it recommends, 0 if it does not say
    Images,     \* per service: its container images
    Selections, \* the sequences of tests a run is asked for
    Parallel,   \* machines a run is asked to have at once
    Available,  \* what the host may have free, Unknown if it cannot be read
    Unknown,
    Keep,       \* subset of {"never", "failed", "always"}
    MaxRuns     \* bound: runs that are begun

Reserve == 1024

ASSUME TestVmsConstants ==
    /\ IsFiniteSet(Tests) /\ Browser \subseteq Tests
    /\ \A s \in DOMAIN Memory : Memory[s] \in Nat /\ Images[s] \subseteq Containers
    /\ \A t \in Tests : /\ IsFiniteSet(Adds[t]) /\ Adds[t] \subseteq DOMAIN Memory
                       /\ Implied[t] \subseteq DOMAIN Memory
    /\ Parallel \in Nat \ {0} /\ Unknown \notin Nat /\ Available \subseteq Nat \cup {Unknown}
    /\ Keep \subseteq {"never", "failed", "always"} /\ MaxRuns \in Nat

VARIABLES
    todo,     \* tests no machine was started for yet
    keep,     \* which machines are kept
    budget,   \* memory the plan has to keep to, Unknown if there is none
    permits,  \* machines at once
    task,     \* per test, where its task is
    in,       \* per test, the machine its commands go to
    runs      \* runs so far

testVars == <<todo, keep, budget, permits, task, in, runs>>
vars == <<cacheVars, testVars>>

NoVm == [port |-> 0, of |-> "none", shared |-> FALSE, fate |-> "old"]

Init ==
    /\ CacheInit
    /\ todo = << >> /\ keep = "never" /\ budget = Unknown /\ permits = 1
    /\ task = [t \in Tests |-> "none"] /\ in = [t \in Tests |-> NoVm]
    /\ runs = 0

(***************************************************************************)
(* What a test needs, and how many fit.                                    *)
(***************************************************************************)
\* vm_memory_for_test: in steps of 512, at least 1024.  What the flags pull in is
\* not counted.
RamOf == [s \in DOMAIN Memory |-> IF Memory[s] = 0 THEN 128 ELSE Memory[s]]
RoundedUp(mb) == ((mb + 511) \div 512) * 512
MemoryFor == [t \in Tests |->
    LET rounded == RoundedUp(SumFunctionOnSet(RamOf, Adds[t]) + 512
                               + IF t \in Browser THEN 512 ELSE 0)
    IN IF rounded < 1024 THEN 1024 ELSE rounded]

\* images_for_test
ImagesFor(t) == UNION {Images[s] : s \in Adds[t] \cup Implied[t]}

TestsIn(sel) == {sel[i] : i \in DOMAIN sel}
Largest(sel) == FoldSet(LAMBDA t, n : IF MemoryFor[t] > n THEN MemoryFor[t] ELSE n,
                        0, TestsIn(sel))

\* A run picks, from the tests discovered, those that match; and a snapshot is of
\* the size of the largest.
ASSUME SelectionsMatch ==
    /\ Selections \subseteq Seq(Tests)
    /\ \A sel \in Selections : /\ \A i, j \in DOMAIN sel : i # j => sel[i] # sel[j]
                               /\ Largest(sel) \in Sizes

\* plan_parallelism, over the largest first: as many as fit, at least one.
Fits(sum, budgeted) == sum <= budgeted
LargestFirst(S) ==
    CHOOSE q \in SetToSeqs(S) :
        \A i, j \in 1..Cardinality(S) : i < j => MemoryFor[q[i]] >= MemoryFor[q[j]]
Requested(S) == 0..(IF Parallel < Cardinality(S) THEN Parallel ELSE Cardinality(S))
Sums(S) == LET mems == [i \in 1..Cardinality(S) |-> MemoryFor[LargestFirst(S)[i]]]
           IN [n \in Requested(S) |-> SumFunctionOnSet(mems, 1..n)]
FittingLate(S, budgeted) ==   \* mutant: compares the sum so far, not the next
    CHOOSE n \in Requested(S) :
        /\ \A i \in 1..n : Fits(Sums(S)[i - 1], budgeted)
        /\ n + 1 \notin Requested(S) \/ ~Fits(Sums(S)[n], budgeted)
Fitting(S, budgeted) ==
    CHOOSE n \in Requested(S) :
        /\ \A i \in 1..n : Fits(Sums(S)[i], budgeted)
        /\ n + 1 \notin Requested(S) \/ ~Fits(Sums(S)[n + 1], budgeted)
Clamp(n) == IF n < 1 THEN 1 ELSE n
BudgetOf(free) == IF free = Unknown THEN Unknown ELSE IF free < Reserve THEN 0 ELSE free - Reserve
PlanFor(S, budgeted) ==
    IF budgeted = Unknown THEN Parallel ELSE Clamp(Fitting(S, budgeted))

StartRun(sel) ==
    /\ pc = "idle" /\ runs < MaxRuns /\ runs' = runs + 1
    /\ \E again \in BOOLEAN :
         wanted' = [redownload |-> again, browser |-> TestsIn(sel) \cap Browser # {},
                    size |-> Largest(sel), containers |-> UNION {ImagesFor(t) : t \in TestsIn(sel)}]
    /\ pc' = "raw" /\ kind' = "base" /\ usable' = {} /\ port' = FirstPort
    /\ todo' = sel /\ keep' \in Keep /\ budget' = Unknown /\ permits' = 1
    /\ vms' = {[v EXCEPT !.fate = "old"] : v \in vms}
    /\ task' = [t \in Tests |-> "none"] /\ in' = [t \in Tests |-> NoVm]
    /\ UNCHANGED <<files, made, doubtful, faults>>

\* Everything is prepared; the memory is read now.
Plan ==
    /\ Cached
    /\ \E free \in Available : budget' = BudgetOf(free)
    /\ permits' = PlanFor(TestsIn(todo), budget')
    /\ pc' = "testing"
    /\ UNCHANGED <<files, kind, wanted, usable, port, vms, made, doubtful, faults,
                   todo, keep, task, in, runs>>

(***************************************************************************)
(* The tests.                                                              *)
(***************************************************************************)
KindOf(t) == IF t \in Browser THEN "browser" ELSE "base"
Running == {t \in Tests : task[t] \in {"starting", "spawned", "waiting", "booted",
                                       "testing", "stopping"}}
NextPortSame == port   \* mutant: the counter is read and not moved
NextPort == port + 1

\* A task goes on until the process exits, a Ctrl-C or not.
Going == pc \in {"testing", "interrupted"}

\* A permit is taken, in order, before the task is spawned.
SpawnTask ==
    /\ Going /\ todo # << >> /\ Cardinality(Running) < permits
    /\ task' = [task EXCEPT ![Head(todo)] = "starting"]
    /\ todo' = Tail(todo)
    /\ UNCHANGED <<files, run, vms, made, doubtful, faults, keep, budget, permits, in, runs>>

\* Machine::spawn: the task takes a port and starts QEMU, which nobody has listed
\* yet.  With its port taken QEMU exits, which nobody looks at.
OwnVm(t) == [port |-> port, of |-> t, shared |-> KindOf(t) \in usable,
             fate |-> IF pc = "interrupted" THEN "slipped" ELSE "unlisted"]
SpawnVm(t) ==
    /\ task[t] = "starting" /\ Startable(KindOf(t))
    /\ port' = NextPort
    /\ IF Held(port) THEN /\ in' = [in EXCEPT ![t] = [NoVm EXCEPT !.port = port]]
                          /\ UNCHANGED vms
       ELSE in' = [in EXCEPT ![t] = OwnVm(t)] /\ vms' = vms \cup {OwnVm(t)}
    /\ task' = [task EXCEPT ![t] = "spawned"]
    /\ UNCHANGED <<files, pc, kind, wanted, usable, made, doubtful, faults,
                   todo, keep, budget, permits, runs>>

\* The machine t has started, while it lives: what is listed or killed is this.
Ours(v) == v.fate \notin {"kept", "old"}
Own(t) == {v \in vms : v.port = in[t].port /\ v.of = t /\ Ours(v)}

\* register_vm and deregister_vm; the handler may have taken the list before.
RegisterNothing(v) == v   \* mutant: ACTIVE_VMS is not filled
Register(v) == [v EXCEPT !.fate = IF @ = "unlisted" THEN "listed" ELSE @]
Unregister(v) == [v EXCEPT !.fate = IF @ = "listed" THEN "unlisted" ELSE @]
RegisterVm(t) ==
    /\ task[t] = "spawned"
    /\ vms' = (vms \ Own(t)) \cup {Register(v) : v \in Own(t)}
    /\ task' = [task EXCEPT ![t] = "waiting"]
    /\ UNCHANGED <<files, run, made, doubtful, faults, todo, keep, budget, permits, in, runs>>

\* wait_for_ssh: the port is answered by the machine that has it, and this lets in
\* whoever has its key.
Boot(t) ==
    /\ task[t] = "waiting"
    /\ \E v \in vms : /\ v \in Own(t) \/ (v.port = in[t].port /\ v.shared /\ KindOf(t) \in usable)
                      /\ in' = [in EXCEPT ![t] = v]
    /\ task' = [task EXCEPT ![t] = "booted"]
    /\ UNCHANGED <<files, run, vms, made, doubtful, faults, todo, keep, budget, permits, runs>>

\* No machine to start, or none that answers in time: Drop kills what was started.
FailToBoot(t) ==
    /\ \/ task[t] = "starting" /\ port' = NextPort
          /\ IF Startable(KindOf(t)) THEN Fault ELSE UNCHANGED faults
       \/ task[t] = "waiting" /\ UNCHANGED port
          /\ IF Own(t) = {} /\ ~(KindOf(t) \in usable /\ Answers(in[t].port))
             THEN UNCHANGED faults ELSE Fault
    /\ vms' = vms \ Own(t)
    /\ task' = [task EXCEPT ![t] = "done"] /\ in' = [in EXCEPT ![t] = NoVm]
    /\ UNCHANGED <<files, pc, kind, wanted, usable, made, doubtful, todo, keep, budget,
                   permits, runs>>

\* ryra, the registry and the project are copied, the store of container images
\* is mounted.
SetUp(t) ==
    /\ task[t] = "booted"
    /\ task' = [task EXCEPT ![t] = "testing"]
    /\ UNCHANGED <<files, run, vms, made, doubtful, faults, todo, keep, budget, permits, in, runs>>

\* destroy takes the machine out of ACTIVE_VMS, powers off whatever answers, and
\* kills its own QEMU a little later.
Destroy(t) ==
    /\ \E off \in {{}, {v \in vms : v.port = in[t].port /\ Own(t) = {}}} :
          vms' = ((vms \ Own(t)) \cup {Unregister(v) : v \in Own(t)}) \ off
    /\ task' = [task EXCEPT ![t] = "stopping"]
    /\ UNCHANGED <<files, run, made, doubtful, todo, keep, budget, permits, in, runs>>

FailToSetUp(t) == task[t] = "booted" /\ Fault /\ Destroy(t)

\* The test has passed or failed; some machines are kept, and give their permit
\* back all the same.
Kept(v) == [v EXCEPT !.fate = IF @ = "doomed" THEN @ ELSE "kept"]
KeepVm(t) ==
    /\ task[t] = "testing" /\ keep \in {"failed", "always"}
    /\ IF keep = "always" THEN UNCHANGED faults ELSE Fault
    /\ vms' = (vms \ Own(t)) \cup {Kept(v) : v \in Own(t)}
    /\ task' = [task EXCEPT ![t] = "done"] /\ in' = [in EXCEPT ![t] = NoVm]
    /\ UNCHANGED <<files, run, made, doubtful, todo, keep, budget, permits, runs>>

EndTest(t) ==
    /\ task[t] = "testing" /\ keep # "always"
    /\ Destroy(t) /\ UNCHANGED faults

Destroyed(t) ==
    /\ task[t] = "stopping"
    /\ vms' = vms \ Own(t)
    /\ task' = [task EXCEPT ![t] = "done"] /\ in' = [in EXCEPT ![t] = NoVm]
    /\ UNCHANGED <<files, run, made, doubtful, faults, todo, keep, budget, permits, runs>>

EndRun ==
    /\ pc = "testing" /\ todo = << >> /\ Running = {}
    /\ Abandon
    /\ UNCHANGED <<files, vms, made, doubtful, faults, testVars>>

(***************************************************************************)
(* The end of the process.  The handler of a Ctrl-C takes the list, kills  *)
(* what was on it and exits; until then the tests go on beside it.  A kill *)
(* reaches nothing else.                                                   *)
(***************************************************************************)
Taken(v) ==
    IF v.fate = "listed" THEN [v EXCEPT !.fate = "doomed"]
    ELSE IF v.fate = "unlisted" /\ task[v.of] \in {"spawned", "stopping"}
         THEN [v EXCEPT !.fate = "slipped"] ELSE v
Interrupt ==
    /\ pc = "testing" /\ Fault
    /\ vms' = {Taken(v) : v \in vms}
    /\ pc' = "interrupted"
    /\ UNCHANGED <<files, kind, wanted, usable, port, made, doubtful, testVars>>

Stopped == todo' = << >> /\ task' = [t \in Tests |-> "none"] /\ in' = [t \in Tests |-> NoVm]
Missed(v) == [v EXCEPT !.fate = IF @ = "slipped" THEN "old" ELSE @]
KillAndExit ==
    /\ pc = "interrupted"
    /\ vms' = {Missed(v) : v \in {w \in vms : w.fate # "doomed"}}
    /\ Abandon /\ Stopped
    /\ UNCHANGED <<files, made, doubtful, faults, keep, budget, permits, runs>>

Killed ==
    /\ Going /\ Fault
    /\ vms' = {[v EXCEPT !.fate = "old"] : v \in vms}
    /\ Abandon /\ Stopped
    /\ UNCHANGED <<files, made, doubtful, keep, budget, permits, runs>>

\* The user stops a machine that was left.
StopLeft ==
    /\ pc = "idle"
    /\ \E v \in vms : vms' = vms \ {v}
    /\ UNCHANGED <<files, run, made, doubtful, faults, testVars>>

Next ==
    \/ (Publish \/ Prepare) /\ UNCHANGED testVars
    \/ \E sel \in Selections : StartRun(sel)
    \/ Plan \/ SpawnTask \/ EndRun \/ Interrupt \/ KillAndExit \/ Killed \/ StopLeft
    \/ \E t \in Tests : \/ SpawnVm(t) \/ RegisterVm(t) \/ Boot(t) \/ FailToBoot(t)
                        \/ SetUp(t) \/ FailToSetUp(t) \/ KeepVm(t)
                        \/ EndTest(t) \/ Destroyed(t)

Spec == Init /\ [][Next]_vars

(***************************************************************************)
(* Properties.                                                             *)
(***************************************************************************)
Vm == [port : Nat, of : Tests \cup Kinds \cup {"none"}, shared : BOOLEAN,
       fate : {"unlisted", "listed", "doomed", "slipped", "kept", "old"}]

\* The variables have their types, there is always a permit to take, and no two
\* processes listen on one port.
TypeOK ==
    /\ raw \in 0..upstream /\ store \subseteq Containers
    /\ tar \in [Containers -> {"none", "partial", "whole"}]
    /\ image \in [Kinds -> [id : 0..made, of : 0..raw, whole : BOOLEAN]]
    /\ snap \in [Kinds -> [Sizes -> [on : 0..made, moved : 0..3, ready : BOOLEAN]]]
    /\ usable \subseteq Kinds /\ doubtful \subseteq Kinds
    /\ task \in [Tests -> {"none", "starting", "spawned", "waiting", "booted", "testing",
                           "stopping", "done"}]
    /\ permits \in 1..Parallel /\ vms \subseteq Vm /\ in \in [Tests -> Vm]
    /\ \A v, w \in vms : v.port = w.port => v = w

\* Machines are only started from what is sound: an image of their kind that is
\* whole and was prepared, itself or the base image under it, from the cloud image
\* on disk, and a snapshot that holds a state, has its three files and is an overlay
\* of that image; unless one of the following has spoilt the kind: a failure between
\* two of the files' steps, a download of another version that leaves the browser's
\* image where it is, a redownload over snapshots that exist, a base image in that
\* state under the browser's, another machine on the port (image.rs writes the one
\* in place, renames the others, and looks for files by name).
ImagesSound ==
    Going =>
        /\ wanted.containers \subseteq store
        /\ \A k \in (IF wanted.browser THEN Kinds ELSE {"base"}) \ doubtful :
             /\ image[k].whole /\ image[k].of = raw
             /\ k \in usable =>
                  LET s == snap[k][wanted.size]
                  IN s.ready /\ s.moved = 3 /\ s.on = image[k].id

\* The memory a test's machine has: a restored one that of the snapshot.
Ram == [t \in Tests |-> IF KindOf(t) \in usable THEN wanted.size ELSE MemoryFor[t]]
Manned == {t \in Running : Own(t) # {}}
Together(ts) == Cardinality(ts) <= 1 \/ SumFunctionOnSet(Ram, ts) <= budget

\* The memory of the machines that the tests at work have at once, those that boot
\* or are being stopped among them, keeps to the budget, or there is only one of them;
\* unless one is restored from a snapshot that is larger than what the plan counted
\* for its test (plan_parallelism packs the largest first, and any others of the
\* same number are smaller; permits are held until the machine is gone).  What
\* --keep-alive and --keep-failed keep is not of a test at work.
PlanKept ==
    Going /\ budget # Unknown /\ (\A t \in Manned : Ram[t] = MemoryFor[t])
        => Together(Manned)

\* A test whose commands go to a machine that is not its own is in one that an
\* earlier run has left behind, never in that of a test beside it, and it is
\* alone there (ports.rs counts, machine.rs does not look whether QEMU lives).
StrangersAreOld ==
    \A t \in Tests : task[t] \in {"booted", "testing"} =>
        /\ in[t].of # t => in[t].fate = "old"
        /\ \A u \in Tests \ {t} : task[u] \in {"booted", "testing"} => in[u].port # in[t].port

\* When no run is under way, a machine that is alive was kept on purpose, or the
\* process could not stop it: it was killed, it failed to prepare an image, or the
\* handler of a Ctrl-C read the list while the machine was not on it, started and not
\* yet registered or being destroyed, or was started after that.  The machine of any
\* test that boots, is set up or runs when the handler reads the list dies with it.
NoOrphans == pc = "idle" => \A v \in vms : v.fate \in {"kept", "old"}

(***************************************************************************)
(* What the repository says, and the code does not keep.                   *)
(***************************************************************************)

\* README.md: the services are proven "in a fresh VM"; ports.rs: "Each VM gets its
\* own port".  A test's commands go to the machine that was started for it.
FreshVm == \A t \in Tests : task[t] = "testing" => in[t].of = t /\ in[t].fate # "old"

\* lib.rs: "how many VMs can safely run in parallel given current host memory".  The
\* machines of a run that are alive at once, those it has kept and those it restores
\* among them, keep to the budget.
MemoryKept ==
    Going /\ budget # Unknown =>
        Together(Manned \cup {t \in Tests : \E v \in vms : v.of = t /\ v.fate = "kept"})

\* image.rs, where a download removes the base image: "Force re-prepare if raw image
\* changed".  If nothing has failed, a test that drives a browser is in a machine of
\* the cloud image on disk.
Reprepared == Going /\ wanted.browser /\ faults = 0 => image["browser"].of = raw

\* machine.rs, of cleanup_all_vms: "Called from the Ctrl-C handler to ensure no
\* orphaned processes".  Its exit leaves no machine that was not kept.
CtrlCOrphansNothing ==
    [][pc = "interrupted" /\ pc' = "idle" =>
          \A v \in vms' : v.fate = "old" => v \in vms]_vars
================================================================================
