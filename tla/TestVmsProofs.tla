---------------------------- MODULE TestVmsProofs -----------------------------
(***************************************************************************)
(* Proofs about TestVms, for any tests, sizes, memories and bounds: what   *)
(* machines are started from is sound, the machines that run at once keep  *)
(* to the memory planned, a test has the machine to itself, and no machine *)
(* outlives the run unless it was meant to or could not be helped.         *)
(***************************************************************************)
EXTENDS TestVms, FiniteSetTheorems, WellFoundedInduction, TLAPS

Phases == {"idle", "raw", "drop", "image", "convert", "snapshot", "move",
           "containers", "saving", "testing", "interrupted"}
Booted(t) == task[t] \in {"booted", "testing"}
\* A test that has taken a port, and started a QEMU on it.
Started(t) == task[t] \in {"spawned", "waiting", "booted", "testing", "stopping"}

\* TypeOK, and what it leaves out.
FilesTyped ==
    /\ upstream \in Nat /\ raw \in 0..upstream /\ made \in Nat
    /\ store \subseteq Containers /\ tar \in [Containers -> {"none", "partial", "whole"}]
    /\ image \in [Kinds -> [id : 0..made, of : 0..raw, whole : BOOLEAN]]
    /\ snap \in [Kinds -> [Sizes -> [on : 0..made, moved : 0..3, ready : BOOLEAN]]]
RunTyped ==
    /\ usable \subseteq Kinds /\ doubtful \subseteq Kinds
    /\ pc \in Phases /\ kind \in Kinds /\ port \in Nat /\ faults \in Nat
    /\ wanted.browser \in BOOLEAN /\ wanted.containers \subseteq Containers
    /\ pc # "idle" => wanted.size \in Sizes
VmsTyped ==
    /\ vms \subseteq Vm
    /\ \A v, w \in vms : v.port = w.port => v = w
TestsTyped ==
    /\ task \in [Tests -> {"none", "starting", "spawned", "waiting", "booted", "testing",
                           "stopping", "done"}]
    /\ permits \in 1..Parallel /\ in \in [Tests -> Vm]
    /\ budget \in Nat \cup {Unknown} /\ todo \in Seq(Tests)

\* A run goes through the kinds in order: what it is at, and what it has done.
Progress ==
    /\ pc \in {"raw", "drop"} => kind = "base"
    /\ pc \notin {"idle", "raw", "drop", "image"} => image[kind].id # 0
    /\ kind = "browser" => wanted.browser /\ (pc # "idle" => image["base"].id # 0)
    /\ pc \in {"containers", "saving", "testing", "interrupted"} /\ wanted.browser
          => kind = "browser"
    /\ pc = "move" => Current.moved \in 1..2
    /\ Going => wanted.containers \subseteq store
    /\ pc # "idle" => \A k \in usable : snap[k][wanted.size].on # 0

\* A snapshot has an image under it exactly when it is found.
Named == \A k \in Kinds, m \in Sizes : snap[k][m].on = 0 <=> snap[k][m].moved = 0

\* What is not doubtful is sound but for the step the run is at.
Unspoilt(k) ==
    /\ image[k].id # 0 /\ ~(pc = "convert" /\ kind = k) => image[k].whole
    /\ image[k].id # 0 => image[k].of = raw
    /\ \A m \in Sizes : snap[k][m].on # 0 =>
          /\ snap[k][m].on = image[k].id /\ snap[k][m].ready
          /\ snap[k][m].moved = 3 \/ (pc = "move" /\ kind = k /\ m = wanted.size)
CacheOK == \A k \in Kinds \ doubtful : Unspoilt(k)

\* A test waits once, and no test is at work outside a run.
TasksOK ==
    /\ \A i, j \in DOMAIN todo : i # j => todo[i] # todo[j]
    /\ \A i \in DOMAIN todo : task[todo[i]] = "none"
    /\ ~Going => Running = {}

\* A machine that is on the list, or is to be or was, is the one its test has
\* started, and off the list before it waits and once it is being destroyed; what
\* the handler has found or missed is only there until it exits.  No other test has
\* a port of this run's machines, and the counter has passed them.
VmOK(v) ==
    /\ v.fate \in {"unlisted", "listed"} =>
          pc = "testing" /\ v.of \in Tests /\ Started(v.of) /\ in[v.of].port = v.port
    /\ v.fate = "unlisted" => task[v.of] \in {"spawned", "stopping"}
    /\ v.fate \in {"doomed", "slipped"} => pc = "interrupted"
    /\ v.fate # "old" =>
          /\ v.port < port
          /\ \A t \in Tests : Started(t) /\ in[t].port = v.port => v.of = t
MachinesOK ==
    /\ \A v \in vms : VmOK(v)
    /\ \A t \in Tests : Started(t) => in[t].port < port
    /\ \A t, u \in Tests : Started(t) /\ Started(u) /\ t # u => in[t].port # in[u].port
    /\ \A t \in Tests : Booted(t) => in[t].of = t \/ in[t].fate = "old"

PlanOK ==
    /\ pc # "idle" /\ ~Going => todo \in Selections
    /\ Going =>
          \E sel \in Selections :
             /\ permits = PlanFor(TestsIn(sel), budget)
             /\ TestsIn(todo) \cup Running \subseteq TestsIn(sel)
             /\ Cardinality(Running) <= permits

Inv ==
    /\ FilesTyped /\ RunTyped /\ VmsTyped /\ TestsTyped
    /\ Progress /\ Named /\ CacheOK /\ TasksOK /\ MachinesOK /\ PlanOK

CacheInv == FilesTyped /\ RunTyped /\ Progress /\ Named /\ CacheOK
-----------------------------------------------------------------------------
(***************************************************************************)
(* The cache.                                                              *)
(***************************************************************************)

\* What Continue does: it goes on with the browser's image, or with the containers.
LEMMA ContinueGoes ==
    ASSUME FilesTyped, kind \in Kinds, doubtful \subseteq Kinds,
           NEW spoilt \in SUBSET Kinds, Continue(spoilt)
    PROVE  /\ image' \in [Kinds -> [id : 0..made, of : 0..raw, whole : BOOLEAN]]
           /\ doubtful' \subseteq Kinds /\ spoilt \subseteq doubtful'
           /\ image'["base"] = image["base"]
           /\ \A k \in Kinds \ doubtful' :
                 \/ k \notin doubtful /\ image'[k] = image[k]
                 \/ image'[k] = NoImage /\ ~HasSnapshots(k)
           /\ \/ /\ kind = "base" /\ wanted.browser /\ kind' = "browser" /\ pc' = "image"
              \/ /\ kind = "browser" \/ ~wanted.browser
                 /\ kind' = kind /\ pc' = "containers" /\ image' = image
  <1>1. CASE kind = "base" /\ wanted.browser /\ wanted.redownload
    <2>1. image' = [image EXCEPT !["browser"] = NoImage]
      BY <1>1 DEF Continue, Dropped
    <2>2. NoImage \in [id : 0..made, of : 0..raw, whole : BOOLEAN]
      BY DEF NoImage, FilesTyped
    <2> QED
      BY <1>1, <2>1, <2>2 DEF Continue, AfterDrop, FilesTyped, Kinds
  <1>2. CASE kind = "base" /\ wanted.browser /\ ~wanted.redownload
    BY <1>2 DEF Continue, FilesTyped, Kinds
  <1>3. CASE ~(kind = "base" /\ wanted.browser)
    BY <1>3 DEF Continue, FilesTyped, Kinds
  <1> QED
    BY <1>1, <1>2, <1>3

LEMMA ContinueStep ==
    ASSUME CacheInv, pc \in {"snapshot", "move"},
           NEW spoilt \in SUBSET Kinds, Continue(spoilt),
           UNCHANGED <<upstream, raw, store, tar, wanted, made>>,
           snap' \in [Kinds -> [Sizes -> [on : 0..made, moved : 0..3, ready : BOOLEAN]]],
           \A k \in Kinds, m \in Sizes :
              \/ snap'[k][m] = snap[k][m]
              \/ /\ k = kind /\ m = wanted.size /\ snap'[k][m].on = snap[k][m].on
                 /\ snap'[k][m].moved = 3 /\ snap'[k][m].ready = snap[k][m].ready
                 /\ snap[k][m].on # 0,
           pc = "move" => kind \in spoilt \/ snap'[kind][wanted.size].moved = 3,
           \/ usable' = usable
           \/ usable' = usable \cup {kind} /\ snap[kind][wanted.size].on # 0,
           port' \in Nat, faults' \in Nat
    PROVE  CacheInv'
  <1> USE DEF CacheInv
  <1>1. wanted.size \in Sizes /\ kind \in Kinds /\ doubtful \subseteq Kinds
    BY DEF RunTyped
  <1>2. /\ image' \in [Kinds -> [id : 0..made, of : 0..raw, whole : BOOLEAN]]
        /\ doubtful' \subseteq Kinds /\ spoilt \subseteq doubtful'
        /\ image'["base"] = image["base"]
        /\ \A k \in Kinds \ doubtful' :
              \/ k \notin doubtful /\ image'[k] = image[k]
              \/ image'[k] = NoImage /\ ~HasSnapshots(k)
        /\ \/ /\ kind = "base" /\ wanted.browser /\ kind' = "browser" /\ pc' = "image"
           \/ /\ kind = "browser" \/ ~wanted.browser
              /\ kind' = kind /\ pc' = "containers" /\ image' = image
    BY <1>1, ContinueGoes
  <1>3. FilesTyped'
    BY <1>2 DEF FilesTyped
  <1>4. RunTyped'
    BY <1>1, <1>2 DEF RunTyped, Phases, Kinds
  <1>5. \A k \in Kinds, m \in Sizes : snap'[k][m].on = snap[k][m].on
    OBVIOUS
  <1>6. image[kind].id # 0
    BY DEF Progress
  <1>7. Progress'
    <2>1. \A k \in usable' : snap'[k][wanted.size].on # 0
      <3>1. \A k \in usable' : k \in Kinds /\ snap[k][wanted.size].on # 0
        BY <1>1 DEF Progress, RunTyped
      <3> QED
        BY <1>1, <1>5, <3>1
    <2>2. ~Going' /\ pc' \in {"image", "containers"} /\ wanted' = wanted
      BY <1>2 DEF Going
    <2>3. CASE kind = "base" /\ wanted.browser /\ kind' = "browser" /\ pc' = "image"
      BY <1>2, <1>6, <2>1, <2>2, <2>3 DEF Progress
    <2>4. CASE /\ kind = "browser" \/ ~wanted.browser
               /\ kind' = kind /\ pc' = "containers" /\ image' = image
      BY <1>1, <1>6, <2>1, <2>2, <2>4 DEF Progress, Kinds
    <2> QED
      BY <1>2, <2>3, <2>4
  <1>8. Named'
    <2> SUFFICES ASSUME NEW k \in Kinds, NEW m \in Sizes
                 PROVE  snap'[k][m].on = 0 <=> snap'[k][m].moved = 0
      BY DEF Named
    <2> QED
      BY DEF Named
  <1>9. CacheOK'
    <2> SUFFICES ASSUME NEW k \in Kinds, k \notin doubtful'
                 PROVE  Unspoilt(k)'
      BY DEF CacheOK
    <2>1. CASE image'[k] = NoImage /\ ~HasSnapshots(k)
      <3>1. \A m \in Sizes : snap'[k][m].on = 0
        BY <1>5, <2>1 DEF HasSnapshots
      <3> QED
        BY <2>1, <3>1 DEF Unspoilt, NoImage
    <2>2. CASE k \notin doubtful /\ image'[k] = image[k]
      <3>1. Unspoilt(k) /\ k \notin spoilt
        BY <1>2, <2>2 DEF CacheOK
      <3>2. ASSUME NEW m \in Sizes, snap'[k][m].on # 0
            PROVE  /\ snap'[k][m].on = image'[k].id /\ snap'[k][m].ready
                   /\ snap'[k][m].moved = 3
        <4>1. snap[k][m].on # 0 /\ snap[k][m].on = image[k].id /\ snap[k][m].ready
          BY <1>5, <3>1, <3>2 DEF Unspoilt
        <4>2. snap[k][m].moved = 3 \/ (pc = "move" /\ kind = k /\ m = wanted.size)
          BY <3>1, <4>1 DEF Unspoilt
        <4> QED
          BY <1>1, <2>2, <3>1, <4>1, <4>2
      <3> QED
        BY <1>2, <2>2, <3>1, <3>2 DEF Unspoilt
    <2> QED
      BY <1>2, <2>1, <2>2
  <1> QED
    BY <1>3, <1>4, <1>7, <1>8, <1>9

LEMMA FaultCounts ==
    ASSUME faults \in Nat, UNCHANGED faults \/ Fault
    PROVE  faults' \in Nat
  BY DEF Fault

LEMMA CacheNext ==
    ASSUME CacheInv, Publish \/ Prepare
    PROVE  CacheInv'
  <1> USE ImageCacheConstants DEF CacheInv, Kinds, files, run, Abandon, Going
  <1>1. CASE Publish
    <2> USE <1>1 DEF Publish
    <2>1. FilesTyped'
      BY DEF FilesTyped, Progress, RunTyped
    <2>2. RunTyped'
      BY FaultCounts DEF RunTyped, Phases
    <2>3. Progress'
      BY DEF Progress, FilesTyped, RunTyped, Phases
    <2>4. Named'
      BY DEF Named, FilesTyped
    <2>5. CacheOK'
      BY DEF CacheOK, Unspoilt, FilesTyped, RunTyped, Progress, Named
    <2> QED
      BY <2>1, <2>2, <2>3, <2>4, <2>5
  <1>2. CASE Download
    <2> USE <1>2 DEF Download
    <2>1. FilesTyped'
      BY DEF FilesTyped, Progress, RunTyped
    <2>2. RunTyped'
      <3>1. faults' \in Nat
        BY FaultCounts DEF RunTyped
      <3>2. /\ pc # "idle" /\ pc' \in Phases /\ wanted' = wanted /\ kind' = kind
            /\ usable' = usable /\ port' = port /\ doubtful' \subseteq Kinds
        BY DEF Phases, Outdated, RunTyped
      <3> QED
        BY <3>1, <3>2 DEF RunTyped
    <2>3. Progress'
      BY DEF Progress, FilesTyped, RunTyped, Phases
    <2>4. Named'
      BY DEF Named, FilesTyped
    <2>5. CacheOK'
      BY DEF CacheOK, Unspoilt, FilesTyped, RunTyped, Progress, Named, Outdated
    <2> QED
      BY <2>1, <2>2, <2>3, <2>4, <2>5
  <1>3. CASE KeepDownload
    <2> USE <1>3 DEF KeepDownload
    <2>1. FilesTyped'
      BY DEF FilesTyped, Progress, RunTyped
    <2>2. RunTyped'
      BY FaultCounts DEF RunTyped, Phases
    <2>3. Progress'
      BY DEF Progress, FilesTyped, RunTyped, Phases
    <2>4. Named'
      BY DEF Named, FilesTyped
    <2>5. CacheOK'
      BY DEF CacheOK, Unspoilt, FilesTyped, RunTyped, Progress, Named
    <2> QED
      BY <2>1, <2>2, <2>3, <2>4, <2>5
  <1>4. CASE DropPrepared
    <2> USE <1>4 DEF DropPrepared, Dropped, AfterDrop, HasSnapshots, NoImage
    <2>1. FilesTyped'
      BY DEF FilesTyped, Progress, RunTyped
    <2>2. RunTyped'
      BY FaultCounts DEF RunTyped, Phases
    <2>3. Progress'
      BY DEF Progress, FilesTyped, RunTyped, Phases
    <2>4. Named'
      BY DEF Named, FilesTyped
    <2>5. CacheOK'
      BY DEF CacheOK, Unspoilt, FilesTyped, RunTyped, Progress, Named
    <2> QED
      BY <2>1, <2>2, <2>3, <2>4, <2>5
  <1>5. CASE KeepImage
    <2> USE <1>5 DEF KeepImage
    <2>1. FilesTyped'
      BY DEF FilesTyped, Progress, RunTyped
    <2>2. RunTyped'
      BY FaultCounts DEF RunTyped, Phases
    <2>3. Progress'
      BY DEF Progress, FilesTyped, RunTyped, Phases
    <2>4. Named'
      BY DEF Named, FilesTyped
    <2>5. CacheOK'
      BY DEF CacheOK, Unspoilt, FilesTyped, RunTyped, Progress, Named
    <2> QED
      BY <2>1, <2>2, <2>3, <2>4, <2>5
  <1>6. CASE BootToPrepare
    <2> USE <1>6 DEF BootToPrepare, Inherited
    <2>1. FilesTyped'
      BY DEF FilesTyped, Progress, RunTyped
    <2>2. RunTyped'
      BY FaultCounts DEF RunTyped, Phases
    <2>3. Progress'
      BY DEF Progress, FilesTyped, RunTyped, Phases
    <2>4. Named'
      BY DEF Named, FilesTyped
    <2>5. CacheOK'
      BY DEF CacheOK, Unspoilt, FilesTyped, RunTyped, Progress, Named
    <2> QED
      BY <2>1, <2>2, <2>3, <2>4, <2>5
  <1>7. CASE InstallElsewhere
    <2> USE <1>7 DEF InstallElsewhere
    <2>1. FilesTyped'
      BY DEF FilesTyped, Progress, RunTyped
    <2>2. RunTyped'
      BY FaultCounts DEF RunTyped, Phases
    <2>3. Progress'
      BY DEF Progress, FilesTyped, RunTyped, Phases
    <2>4. Named'
      BY DEF Named, FilesTyped
    <2>5. CacheOK'
      BY DEF CacheOK, Unspoilt, FilesTyped, RunTyped, Progress, Named
    <2> QED
      BY <2>1, <2>2, <2>3, <2>4, <2>5
  <1>8. CASE FailToPrepare
    <2> USE <1>8 DEF FailToPrepare
    <2>1. FilesTyped'
      BY DEF FilesTyped, Progress, RunTyped
    <2>2. RunTyped'
      <3>1. faults' \in Nat
        BY FaultCounts DEF RunTyped
      <3>2. /\ pc # "idle" /\ pc' \in Phases /\ wanted' = wanted /\ kind' = kind
            /\ usable' = usable /\ port' = port /\ doubtful' = doubtful
        BY DEF Phases
      <3> QED
        BY <3>1, <3>2 DEF RunTyped
    <2>3. Progress'
      BY DEF Progress, FilesTyped, RunTyped, Phases
    <2>4. Named'
      BY DEF Named, FilesTyped
    <2>5. CacheOK'
      BY DEF CacheOK, Unspoilt, FilesTyped, RunTyped, Progress, Named
    <2> QED
      BY <2>1, <2>2, <2>3, <2>4, <2>5
  <1>9. CASE Convert
    <2> USE <1>9 DEF Convert
    <2>1. FilesTyped'
      <3>1. image' = image \/ image' = [image EXCEPT ![kind].whole = TRUE]
        OBVIOUS
      <3>2. image' \in [Kinds -> [id : 0..made, of : 0..raw, whole : BOOLEAN]]
        <4>1. kind \in Kinds /\ image[kind] \in [id : 0..made, of : 0..raw, whole : BOOLEAN]
          BY DEF FilesTyped, RunTyped
        <4>2. [image[kind] EXCEPT !.whole = TRUE]
                 \in [id : 0..made, of : 0..raw, whole : BOOLEAN]
          BY <4>1
        <4>3. CASE image' = image
          BY <4>3 DEF FilesTyped
        <4>4. CASE image' = [image EXCEPT ![kind].whole = TRUE]
          <5> DEFINE new == [image[kind] EXCEPT !.whole = TRUE]
          <5>1. image' = [image EXCEPT ![kind] = new]
            BY <4>4
          <5> HIDE DEF new
          <5> QED
            BY <4>1, <4>2, <5>1 DEF FilesTyped, new
        <4> QED
          BY <3>1, <4>3, <4>4
      <3> QED
        BY <3>2 DEF FilesTyped
    <2>2. RunTyped'
      BY FaultCounts DEF RunTyped, Phases
    <2>3. Progress'
      BY DEF Progress, FilesTyped, RunTyped, Phases
    <2>4. Named'
      BY DEF Named, FilesTyped
    <2>5. CacheOK'
      BY DEF CacheOK, Unspoilt, FilesTyped, RunTyped, Progress, Named
    <2> QED
      BY <2>1, <2>2, <2>3, <2>4, <2>5
  <1>10. CASE ReuseSnapshot
    <2> USE <1>10 DEF ReuseSnapshot
    <2>1. kind \in Kinds /\ wanted.size \in Sizes /\ port \in Nat /\ faults \in Nat
      BY DEF RunTyped
    <2>2. snap[kind][wanted.size].on # 0
      <3>1. snap[kind][wanted.size].on = 0 <=> snap[kind][wanted.size].moved = 0
        BY <2>1 DEF Named
      <3> QED
        BY <3>1 DEF Found, Current
    <2>3. snap' \in [Kinds -> [Sizes -> [on : 0..made, moved : 0..3, ready : BOOLEAN]]]
      BY DEF FilesTyped
    <2> QED
      BY <2>1, <2>2, <2>3, ContinueStep
  <1>11. CASE Save
    <2> USE <1>11
    <2>1. kind \in Kinds /\ wanted.size \in Sizes /\ port' \in Nat /\ faults' \in Nat
      BY FaultCounts DEF Save, RunTyped
    <2>2. CASE Continue({}) /\ UNCHANGED snap
      <3>1. snap' \in [Kinds -> [Sizes -> [on : 0..made, moved : 0..3, ready : BOOLEAN]]]
        BY <2>2 DEF FilesTyped
      <3> QED
        BY <2>1, <2>2, <3>1, ContinueStep DEF Save
    <2>3. CASE /\ pc' = "move" /\ UNCHANGED <<kind, image, doubtful>>
               /\ snap' = [snap EXCEPT ![kind][wanted.size] =
                              [on |-> image[kind].id, moved |-> 1, ready |-> TRUE]]
      <3> USE <2>3 DEF Save
      <3> DEFINE new == [on |-> image[kind].id, moved |-> 1, ready |-> TRUE]
      <3>1. new \in [on : 0..made, moved : 0..3, ready : BOOLEAN] /\ new.on # 0
        BY <2>1 DEF FilesTyped, Progress
      <3>2. /\ snap' \in [Kinds -> [Sizes -> [on : 0..made, moved : 0..3, ready : BOOLEAN]]]
            /\ \A k \in Kinds, m \in Sizes :
                  snap'[k][m] = IF k = kind /\ m = wanted.size THEN new ELSE snap[k][m]
        BY <2>1, <3>1 DEF FilesTyped
      <3>3. snap[kind][wanted.size].on = 0
        <4>1. snap[kind][wanted.size].on = 0 <=> snap[kind][wanted.size].moved = 0
          BY <2>1 DEF Named
        <4>2. snap[kind][wanted.size].moved \in 0..3
          BY <2>1 DEF FilesTyped
        <4> QED
          BY <4>1, <4>2 DEF Found, Current
      <3>4. FilesTyped'
        BY <3>2 DEF FilesTyped
      <3>5. RunTyped'
        BY <2>1 DEF RunTyped, Phases
      <3>6. Progress'
        <4>1. Current'.moved = 1
          BY <2>1, <3>2 DEF Current
        <4>2. \A k \in usable' : snap'[k][wanted'.size].on # 0
          BY <2>1, <3>1, <3>2 DEF Progress, RunTyped
        <4> QED
          BY <4>1, <4>2 DEF Progress
      <3>7. Named'
        <4>1. new.moved # 0
          OBVIOUS
        <4> HIDE DEF new
        <4> QED
          BY <3>1, <3>2, <4>1 DEF Named
      <3>8. CacheOK'
        BY <2>1, <3>2 DEF CacheOK, Unspoilt
      <3> QED
        BY <3>4, <3>5, <3>6, <3>7, <3>8
    <2> QED
      BY <2>2, <2>3 DEF Save, Verified
  <1>12. CASE FailToSave
    <2> USE <1>12 DEF FailToSave
    <2>1. port' \in Nat /\ faults' \in Nat
      <3>1. UNCHANGED faults \/ Fault
        OBVIOUS
      <3> QED
        BY <3>1, FaultCounts DEF RunTyped
    <2>2. snap' \in [Kinds -> [Sizes -> [on : 0..made, moved : 0..3, ready : BOOLEAN]]]
      BY DEF FilesTyped
    <2> QED
      BY <2>1, <2>2, ContinueStep
  <1>13. CASE MoveNext
    <2> USE <1>13
    <2>1. /\ kind \in Kinds /\ wanted.size \in Sizes /\ port' \in Nat /\ faults' \in Nat
          /\ Current.moved \in 1..2
      BY FaultCounts DEF MoveNext, RunTyped, Progress
    <2>2. CASE UNCHANGED snap /\ UNCHANGED usable /\ Continue({kind})
      <3>1. snap' \in [Kinds -> [Sizes -> [on : 0..made, moved : 0..3, ready : BOOLEAN]]]
        BY <2>2 DEF FilesTyped
      <3> QED
        BY <2>1, <2>2, <3>1, ContinueStep DEF MoveNext
    <2>3. CASE /\ snap' = [snap EXCEPT ![kind][wanted.size].moved = @ + 1]
               /\ IF Current.moved = 2
                  THEN usable' = usable \cup {kind} /\ Continue({})
                  ELSE UNCHANGED <<usable, pc, kind, image, doubtful>>
      <3> DEFINE new == [snap[kind][wanted.size] EXCEPT !.moved = @ + 1]
      <3>1. /\ new \in [on : 0..made, moved : 0..3, ready : BOOLEAN]
            /\ new.on = snap[kind][wanted.size].on
            /\ new.ready = snap[kind][wanted.size].ready
            /\ new.moved = Current.moved + 1 /\ new.on # 0
        <4>1. snap[kind][wanted.size].on = 0 <=> snap[kind][wanted.size].moved = 0
          BY <2>1 DEF Named
        <4>2. snap[kind][wanted.size] \in [on : 0..made, moved : 0..3, ready : BOOLEAN]
          BY <2>1 DEF FilesTyped
        <4> QED
          BY <2>1, <4>1, <4>2 DEF Current
      <3>2. /\ snap' \in [Kinds -> [Sizes -> [on : 0..made, moved : 0..3, ready : BOOLEAN]]]
            /\ \A k \in Kinds, m \in Sizes :
                  snap'[k][m] = IF k = kind /\ m = wanted.size THEN new ELSE snap[k][m]
        BY <2>1, <2>3, <3>1 DEF FilesTyped
      <3> HIDE DEF new
      <3>3. CASE Current.moved = 2 /\ usable' = usable \cup {kind} /\ Continue({})
        BY <2>1, <3>1, <3>2, <3>3, ContinueStep DEF MoveNext
      <3>4. CASE Current.moved # 2 /\ UNCHANGED <<usable, pc, kind, image, doubtful>>
        <4> USE <3>4 DEF MoveNext
        <4>1. FilesTyped'
          BY <3>2 DEF FilesTyped
        <4>2. RunTyped'
          BY <2>1 DEF RunTyped, Phases
        <4>3. Progress'
          <5>1. Current'.moved = 2
            BY <2>1, <3>1, <3>2 DEF Current
          <5>2. \A k \in usable' : snap'[k][wanted'.size].on # 0
            BY <2>1, <3>1, <3>2 DEF Progress, RunTyped
          <5> QED
            BY <5>1, <5>2 DEF Progress
        <4>4. Named'
          BY <2>1, <3>1, <3>2 DEF Named
        <4>5. CacheOK'
          BY <2>1, <3>1, <3>2 DEF CacheOK, Unspoilt
        <4> QED
          BY <4>1, <4>2, <4>3, <4>4, <4>5
      <3> QED
        BY <2>3, <3>3, <3>4
    <2> QED
      BY <2>2, <2>3 DEF MoveNext
  <1>14. CASE \E c \in Containers : SaveTar(c) \/ TarSaved(c) \/ LoadTar(c)
    <2> USE <1>14 DEF SaveTar, TarSaved, LoadTar
    <2>1. FilesTyped'
      BY DEF FilesTyped, Progress, RunTyped
    <2>2. RunTyped'
      <3>1. faults' \in Nat
        BY FaultCounts DEF RunTyped
      <3>2. /\ pc # "idle" /\ pc' \in Phases /\ wanted' = wanted /\ kind' = kind
            /\ usable' = usable /\ port' = port /\ doubtful' = doubtful
        BY DEF Phases
      <3> QED
        BY <3>1, <3>2 DEF RunTyped
    <2>3. Progress'
      BY DEF Progress, FilesTyped, RunTyped, Phases
    <2>4. Named'
      BY DEF Named, FilesTyped
    <2>5. CacheOK'
      BY DEF CacheOK, Unspoilt, FilesTyped, RunTyped, Progress, Named
    <2> QED
      BY <2>1, <2>2, <2>3, <2>4, <2>5
  <1>15. CASE DieWhilePreparing
    <2> USE <1>15 DEF DieWhilePreparing, Preparing
    <2>1. FilesTyped'
      BY DEF FilesTyped, Progress, RunTyped
    <2>2. RunTyped'
      <3>1. faults' \in Nat /\ doubtful' \subseteq Kinds
        BY FaultCounts DEF RunTyped
      <3>2. /\ pc' = "idle" /\ wanted' = wanted /\ kind' = kind
            /\ usable' = usable /\ port' = port
        OBVIOUS
      <3> QED
        BY <3>1, <3>2 DEF RunTyped, Phases
    <2>3. Progress'
      BY DEF Progress, FilesTyped, RunTyped, Phases
    <2>4. Named'
      BY DEF Named, FilesTyped
    <2>5. CacheOK'
      BY DEF CacheOK, Unspoilt, FilesTyped, RunTyped, Progress, Named
    <2> QED
      BY <2>1, <2>2, <2>3, <2>4, <2>5
  <1> QED
    BY <1>1, <1>2, <1>3, <1>4, <1>5, <1>6, <1>7, <1>8, <1>9, <1>10, <1>11, <1>12, <1>13,
       <1>14, <1>15 DEF Prepare

\* What the end of a run, or a step of a test, leaves of it.
LEMMA CacheKept ==
    ASSUME CacheInv, UNCHANGED <<files, kind, wanted, usable, made, doubtful>>,
           port' \in Nat, UNCHANGED faults \/ Fault,
           pc' = pc \/ (Going /\ pc' \in {"idle", "interrupted"})
    PROVE  CacheInv'
  <1> USE DEF CacheInv, files, Going
  <1>1. faults' \in Nat
    BY FaultCounts DEF RunTyped
  <1>2. FilesTyped' /\ Named'
    BY DEF FilesTyped, Named
  <1>3. RunTyped'
    BY <1>1 DEF RunTyped, Phases
  <1>4. Progress'
    BY DEF Progress, Current
  <1>5. CacheOK'
    BY DEF CacheOK, Unspoilt
  <1> QED
    BY <1>2, <1>3, <1>4, <1>5

LEMMA StartRunCache ==
    ASSUME CacheInv, NEW sel \in Selections, StartRun(sel)
    PROVE  CacheInv'
  <1> USE DEF CacheInv, StartRun, files, FirstPort, Going
  <1>1. FilesTyped' /\ Named'
    BY DEF FilesTyped, Named
  <1>2. wanted'.browser \in BOOLEAN /\ wanted'.size = Largest(sel) /\ Largest(sel) \in Sizes
    BY SelectionsMatch
  <1>3. wanted'.containers \subseteq Containers
    <2>1. \A t \in TestsIn(sel) : t \in Tests
      BY SelectionsMatch DEF TestsIn
    <2>2. \A t \in Tests : ImagesFor(t) \subseteq Containers
      BY TestVmsConstants DEF ImagesFor
    <2> QED
      BY <2>1, <2>2
  <1>4. RunTyped'
    BY <1>2, <1>3 DEF RunTyped, Phases, Kinds
  <1>5. Progress'
    BY DEF Progress
  <1>6. CacheOK'
    BY DEF CacheOK, Unspoilt
  <1> QED
    BY <1>1, <1>4, <1>5, <1>6

LEMMA PlanCache ==
    ASSUME CacheInv, Plan
    PROVE  CacheInv'
  <1> USE DEF CacheInv, Plan, Cached, files, Going
  <1>1. FilesTyped' /\ Named'
    BY DEF FilesTyped, Named
  <1>2. RunTyped'
    BY DEF RunTyped, Phases
  <1>3. Progress'
    BY DEF Progress
  <1>4. CacheOK'
    BY DEF CacheOK, Unspoilt
  <1> QED
    BY <1>1, <1>2, <1>3, <1>4

\* The cache is as it should be after any step.
LEMMA CacheSteps ==
    ASSUME Inv, Next
    PROVE  CacheInv'
  <1> USE DEF Inv
  <1>0. CacheInv /\ port \in Nat
    BY DEF CacheInv, RunTyped
  <1>1. CASE Publish \/ Prepare
    BY <1>0, <1>1, CacheNext
  <1>2. CASE \E sel \in Selections : StartRun(sel)
    BY <1>0, <1>2, StartRunCache
  <1>3. CASE Plan
    BY <1>0, <1>3, PlanCache
  <1>4. CASE SpawnTask
    BY <1>0, <1>4, CacheKept DEF SpawnTask, run
  <1>5. CASE EndRun \/ Interrupt \/ KillAndExit \/ Killed \/ StopLeft
    BY <1>0, <1>5, CacheKept
       DEF EndRun, Interrupt, KillAndExit, Killed, StopLeft, Abandon, run, Going
  <1>6. ASSUME NEW t \in Tests,
               \/ SpawnVm(t) \/ RegisterVm(t) \/ Boot(t) \/ FailToBoot(t) \/ SetUp(t)
               \/ FailToSetUp(t) \/ KeepVm(t) \/ EndTest(t) \/ Destroyed(t)
        PROVE  CacheInv'
    BY <1>0, <1>6, CacheKept
       DEF SpawnVm, RegisterVm, Boot, FailToBoot, SetUp, FailToSetUp, KeepVm, EndTest,
           Destroyed, Destroy, NextPort, run
  <1> QED
    BY <1>1, <1>2, <1>3, <1>4, <1>5, <1>6 DEF Next
-----------------------------------------------------------------------------
(***************************************************************************)
(* What a sum is.  SumFunctionOnSet is defined by a choice of function, so *)
(* that it is a sum at all is shown here, by smallest counterexamples.     *)
(***************************************************************************)

LEMMA SmallestExists ==
    ASSUME NEW S, S \subseteq Nat, S # {}
    PROVE  \E m \in S : \A k \in S : m <= k
  <1> DEFINE T == {0..i : i \in S}
  <1>1. T \subseteq FiniteSubsetsOf(Nat) /\ T # {}
    <2>1. \A i \in S : 0..i \in SUBSET Nat /\ IsFiniteSet(0..i)
      <3> TAKE i \in S
      <3>1. 0 \in Int /\ i \in Int
        OBVIOUS
      <3> QED
        BY <3>1, FS_Interval
    <2> QED
      BY <2>1 DEF FiniteSubsetsOf
  <1>2. PICK X \in T : \A Y \in T : <<Y, X>> \notin StrictSubsetOrdering(Nat)
    <2> HIDE DEF T
    <2> QED
      BY <1>1, FS_StrictSubsetOrderingWellFounded, WFMin
  <1>3. PICK m \in S : X = 0..m
    OBVIOUS
  <1>4. ASSUME NEW k \in S, ~(m <= k)
        PROVE  FALSE
    <2>1. m \in Nat /\ k \in Nat /\ k < m
      BY <1>4
    <2>2. 0..k \subseteq 0..m /\ m \in 0..m /\ m \notin 0..k
      BY <2>1
    <2>3. 0..k \in T
      OBVIOUS
    <2>4. <<0..k, X>> \in StrictSubsetOrdering(Nat)
      BY <1>3, <2>2 DEF StrictSubsetOrdering
    <2> QED
      BY <1>2, <2>3, <2>4
  <1> QED
    BY <1>4

\* Of finite sets, one is smallest.
LEMMA SmallestSet ==
    ASSUME NEW B, B # {}, \A U \in B : IsFiniteSet(U)
    PROVE  \E U \in B : \A V \in B : Cardinality(U) <= Cardinality(V)
  <1> DEFINE S == {Cardinality(U) : U \in B}
  <1>1. S \subseteq Nat /\ S # {}
    BY FS_CardinalityType
  <1>2. PICK m \in S : \A k \in S : m <= k
    <2> HIDE DEF S
    <2> QED
      BY <1>1, SmallestExists
  <1> QED
    BY <1>2

\* How a sum over S is taken: of each part of S, from what is left of it.
Chosen(U) == CHOOSE x \in U : TRUE
Summing(g, f, S) ==
    g = [U \in SUBSET S |-> IF U = {} THEN 0 ELSE f[Chosen(U)] + g[U \ {Chosen(U)}]]

LEMMA SumIs ==
    ASSUME NEW f, NEW S
    PROVE  SumFunctionOnSet(f, S) = (CHOOSE g : Summing(g, f, S))[S]
  BY DEF SumFunctionOnSet, FoldFunctionOnSet, MapThenFoldSet, Summing, Chosen

\* It can be taken of the parts of S that have n elements or fewer.
Summable(f, S, n) ==
    \E g : /\ DOMAIN g = {U \in SUBSET S : Cardinality(U) <= n}
           /\ \A U \in DOMAIN g :
                 g[U] = IF U = {} THEN 0 ELSE f[Chosen(U)] + g[U \ {Chosen(U)}]

LEMMA ChosenIn ==
    ASSUME NEW U, U # {}, IsFiniteSet(U)
    PROVE  /\ Chosen(U) \in U /\ IsFiniteSet(U \ {Chosen(U)})
           /\ Cardinality(U \ {Chosen(U)}) = Cardinality(U) - 1
           /\ Cardinality(U) \in Nat \ {0}
  <1>1. Chosen(U) \in U
    BY DEF Chosen
  <1> QED
    BY <1>1, FS_RemoveElement, FS_CardinalityType, FS_EmptySet

LEMMA SumStarts ==
    ASSUME NEW f, NEW S, IsFiniteSet(S)
    PROVE  Summable(f, S, 0)
  <1> DEFINE g == [U \in {U \in SUBSET S : Cardinality(U) <= 0} |-> 0]
  <1>1. \A U \in SUBSET S : Cardinality(U) <= 0 => U = {}
    BY FS_Subset, FS_CardinalityType, FS_EmptySet
  <1>2. \A U \in DOMAIN g : g[U] = 0 /\ U = {}
    BY <1>1
  <1>3. DOMAIN g = {U \in SUBSET S : Cardinality(U) <= 0}
    OBVIOUS
  <1> HIDE DEF g
  <1> QED
    BY <1>2, <1>3 DEF Summable

LEMMA SumGoesOn ==
    ASSUME NEW f, NEW S, IsFiniteSet(S), NEW n \in Nat, Summable(f, S, n)
    PROVE  Summable(f, S, n + 1)
  <1>1. PICK g : /\ DOMAIN g = {U \in SUBSET S : Cardinality(U) <= n}
                 /\ \A U \in DOMAIN g :
                       g[U] = IF U = {} THEN 0 ELSE f[Chosen(U)] + g[U \ {Chosen(U)}]
    BY DEF Summable
  <1> DEFINE D == {U \in SUBSET S : Cardinality(U) <= n + 1}
             h == [U \in D |-> IF U = {} THEN 0 ELSE f[Chosen(U)] + g[U \ {Chosen(U)}]]
  <1>2. \A U \in D : IsFiniteSet(U) /\ Cardinality(U) \in Nat /\ U \in SUBSET S
    <2> TAKE U \in D
    <2>1. U \in SUBSET S
      OBVIOUS
    <2> QED
      BY <2>1, FS_Subset, FS_CardinalityType
  <1>3. \A U \in D : h[U] = IF U = {} THEN 0 ELSE f[Chosen(U)] + g[U \ {Chosen(U)}]
    OBVIOUS
  <1>4. DOMAIN g \subseteq D
    <2>1. ASSUME NEW U \in SUBSET S, Cardinality(U) <= n
          PROVE  Cardinality(U) <= n + 1
      <3>1. Cardinality(U) \in Nat
        BY FS_Subset, FS_CardinalityType
      <3> QED
        BY <2>1, <3>1
    <2> QED
      BY <1>1, <2>1
  <1>5. \A U \in DOMAIN g : h[U] = g[U]
    <2> HIDE DEF D, h
    <2> QED
      BY <1>1, <1>3, <1>4
  <1>6. \A U \in D : U # {} => U \ {Chosen(U)} \in DOMAIN g
    <2> TAKE U \in D
    <2> HAVE U # {}
    <2>1. /\ Cardinality(U \ {Chosen(U)}) = Cardinality(U) - 1 /\ Cardinality(U) \in Nat
          /\ U \ {Chosen(U)} \in SUBSET S /\ Cardinality(U) <= n + 1
      BY <1>2, ChosenIn
    <2>2. Cardinality(U \ {Chosen(U)}) <= n
      BY <2>1
    <2> QED
      BY <1>1, <2>1, <2>2
  <1>7. DOMAIN h = D
    OBVIOUS
  <1> HIDE DEF h
  <1>8. \A U \in D : h[U] = IF U = {} THEN 0 ELSE f[Chosen(U)] + h[U \ {Chosen(U)}]
    <2> HIDE DEF D
    <2> QED
      BY <1>3, <1>5, <1>6
  <1> QED
    BY <1>7, <1>8 DEF Summable

\* So it can be taken of S.
LEMMA SumExists ==
    ASSUME NEW f, NEW S, IsFiniteSet(S)
    PROVE  \E g : Summing(g, f, S)
  <1> DEFINE Bad == {n \in Nat : ~Summable(f, S, n)}
  <1>1. Bad = {}
    <2> SUFFICES ASSUME Bad # {}
                 PROVE  FALSE
      OBVIOUS
    <2>1. PICK m \in Bad : \A k \in Bad : m <= k
      <3>1. Bad \subseteq Nat
        OBVIOUS
      <3> HIDE DEF Bad
      <3> QED
        BY <3>1, SmallestExists
    <2>2. m # 0
      BY SumStarts
    <2>3. m - 1 \in Nat /\ Summable(f, S, m - 1)
      BY <2>1, <2>2
    <2>4. Summable(f, S, (m - 1) + 1)
      BY <2>3, SumGoesOn
    <2>5. (m - 1) + 1 = m
      OBVIOUS
    <2> QED
      BY <2>4, <2>5
  <1>2. Cardinality(S) \in Nat
    BY FS_CardinalityType
  <1>3. PICK g : /\ DOMAIN g = {U \in SUBSET S : Cardinality(U) <= Cardinality(S)}
                 /\ \A U \in DOMAIN g :
                       g[U] = IF U = {} THEN 0 ELSE f[Chosen(U)] + g[U \ {Chosen(U)}]
    BY <1>1, <1>2 DEF Summable
  <1>4. DOMAIN g = SUBSET S
    BY <1>3, FS_Subset
  <1> DEFINE h == [U \in SUBSET S |-> g[U]]
  <1>5. DOMAIN h = SUBSET S /\ \A U \in SUBSET S : h[U] = g[U]
    OBVIOUS
  <1>6. \A U \in SUBSET S : h[U] = IF U = {} THEN 0 ELSE f[Chosen(U)] + h[U \ {Chosen(U)}]
    <2> TAKE U \in SUBSET S
    <2>1. U \ {Chosen(U)} \in SUBSET S
      OBVIOUS
    <2> HIDE DEF h
    <2> QED
      BY <1>3, <1>4, <1>5, <2>1
  <1>7. h = [U \in SUBSET S |-> IF U = {} THEN 0 ELSE f[Chosen(U)] + h[U \ {Chosen(U)}]]
    <2>1. h = [U \in SUBSET S |-> h[U]]
      OBVIOUS
    <2> HIDE DEF h
    <2> QED
      BY <1>6, <2>1
  <1> QED
    BY <1>7 DEF Summing

\* The sum of a set does not depend on what larger set it is taken within.
LEMMA SumWithin ==
    ASSUME NEW f, NEW S, IsFiniteSet(S), \A x \in S : f[x] \in Nat,
           NEW g, Summing(g, f, S), NEW T \in SUBSET S, NEW h, Summing(h, f, T)
    PROVE  \A U \in SUBSET T : g[U] = h[U] /\ g[U] \in Nat
  <1> DEFINE Bad == {U \in SUBSET T : ~(g[U] = h[U] /\ g[U] \in Nat)}
  <1>1. \A U \in SUBSET T : IsFiniteSet(U) /\ Cardinality(U) \in Nat
    BY FS_Subset, FS_CardinalityType
  <1>2. ASSUME Bad # {}
        PROVE  FALSE
    <2>1. PICK U \in Bad : \A V \in Bad : Cardinality(U) <= Cardinality(V)
      <3>1. \A V \in Bad : IsFiniteSet(V)
        BY <1>1
      <3> HIDE DEF Bad
      <3> QED
        BY <1>2, <3>1, SmallestSet
    <2> DEFINE V == U \ {Chosen(U)}
    <2>2. U \in SUBSET T /\ U \in SUBSET S /\ V \in SUBSET T
      OBVIOUS
    <2>3. /\ g[U] = IF U = {} THEN 0 ELSE f[Chosen(U)] + g[V]
          /\ h[U] = IF U = {} THEN 0 ELSE f[Chosen(U)] + h[V]
      <3> HIDE DEF Bad
      <3> QED
        BY <2>2 DEF Summing
    <2>4. U # {}
      BY <2>3
    <2>5. /\ Chosen(U) \in S /\ Cardinality(V) = Cardinality(U) - 1
          /\ Cardinality(U) \in Nat /\ Cardinality(V) \in Nat
      BY <1>1, <2>2, <2>4, ChosenIn
    <2>6. V \notin Bad
      <3> HIDE DEF V, Bad
      <3> QED
        BY <2>1, <2>5
    <2>7. g[V] = h[V] /\ g[V] \in Nat
      BY <2>2, <2>6
    <2>8. g[U] = h[U] /\ g[U] \in Nat
      <3> HIDE DEF V, Bad
      <3> QED
        BY <2>3, <2>4, <2>5, <2>7
    <2> QED
      BY <2>1, <2>8
  <1> QED
    BY <1>2

\* A sum is the chosen element's, and the sum of the others.
LEMMA SumChosen ==
    ASSUME NEW f, NEW S, IsFiniteSet(S), \A x \in S : f[x] \in Nat
    PROVE  /\ SumFunctionOnSet(f, S) \in Nat
           /\ S = {} => SumFunctionOnSet(f, S) = 0
           /\ S # {} => SumFunctionOnSet(f, S)
                          = f[Chosen(S)] + SumFunctionOnSet(f, S \ {Chosen(S)})
  <1> DEFINE T == S \ {Chosen(S)}
             g == CHOOSE g : Summing(g, f, S)
             h == CHOOSE h : Summing(h, f, T)
  <1>1. T \in SUBSET S /\ S \in SUBSET S /\ T \in SUBSET T /\ IsFiniteSet(T)
    BY FS_Subset
  <1>2. Summing(g, f, S)
    BY SumExists
  <1>3. Summing(h, f, T)
    <2> HIDE DEF T
    <2> QED
      BY <1>1, SumExists
  <1>4. SumFunctionOnSet(f, S) = g[S] /\ SumFunctionOnSet(f, T) = h[T]
    BY SumIs
  <1> HIDE DEF g, h
  <1>5. g[S] = IF S = {} THEN 0 ELSE f[Chosen(S)] + g[T]
    BY <1>1, <1>2 DEF Summing
  <1>6. g[S] \in Nat
    BY <1>1, <1>2, SumWithin
  <1>7. g[T] = h[T]
    <2> HIDE DEF T
    <2> QED
      BY <1>1, <1>2, <1>3, SumWithin
  <1> QED
    BY <1>4, <1>5, <1>6, <1>7

\* It does not matter which element is taken first.
LEMMA SumWithout ==
    ASSUME NEW f, NEW S, IsFiniteSet(S), \A x \in S : f[x] \in Nat, NEW x \in S
    PROVE  SumFunctionOnSet(f, S) = f[x] + SumFunctionOnSet(f, S \ {x})
  <1> DEFINE Sum(U) == SumFunctionOnSet(f, U)
             Good(U) == \A y \in U : Sum(U) = f[y] + Sum(U \ {y})
             Bad == {U \in SUBSET S : ~Good(U)}
  <1>1. \A U \in SUBSET S : IsFiniteSet(U) /\ Cardinality(U) \in Nat /\ Sum(U) \in Nat
    <2> TAKE U \in SUBSET S
    <2>1. IsFiniteSet(U) /\ \A y \in U : f[y] \in Nat
      BY FS_Subset
    <2> QED
      BY <2>1, FS_CardinalityType, SumChosen
  <1>2. \A U \in SUBSET S : U # {} => Sum(U) = f[Chosen(U)] + Sum(U \ {Chosen(U)})
    <2> TAKE U \in SUBSET S
    <2>1. IsFiniteSet(U) /\ \A y \in U : f[y] \in Nat
      BY FS_Subset
    <2> QED
      BY <2>1, SumChosen
  <1>3. ASSUME Bad # {}
        PROVE  FALSE
    <2>1. PICK U \in Bad : \A V \in Bad : Cardinality(U) <= Cardinality(V)
      <3>1. \A V \in Bad : IsFiniteSet(V)
        BY <1>1
      <3> HIDE DEF Bad
      <3> QED
        BY <1>3, <3>1, SmallestSet
    <2>2. U \in SUBSET S /\ IsFiniteSet(U) /\ Cardinality(U) \in Nat
      BY <1>1
    <2>3. \A y \in U : Good(U \ {y})
      <3> TAKE y \in U
      <3>1. U \ {y} \in SUBSET S /\ Cardinality(U \ {y}) = Cardinality(U) - 1
        BY <2>2, FS_RemoveElement
      <3>2. U \ {y} \notin Bad
        <4> HIDE DEF Bad
        <4> QED
          BY <2>1, <2>2, <3>1
      <3> QED
        BY <3>1, <3>2
    <2>4. PICK y \in U : Sum(U) # f[y] + Sum(U \ {y})
      BY <2>1
    <2> DEFINE c == Chosen(U)
    <2>5. c \in U /\ Sum(U) = f[c] + Sum(U \ {c})
      BY <1>2, <2>2, <2>4, ChosenIn
    <2>6. c # y
      BY <2>4, <2>5
    <2>7. /\ Sum(U \ {c}) = f[y] + Sum((U \ {c}) \ {y})
          /\ Sum(U \ {y}) = f[c] + Sum((U \ {y}) \ {c})
      <3>1. y \in U \ {c} /\ c \in U \ {y}
        BY <2>5, <2>6
      <3> QED
        BY <2>3, <2>5, <3>1
    <2>8. (U \ {c}) \ {y} = (U \ {y}) \ {c}
      OBVIOUS
    <2>9. f[c] \in Nat /\ f[y] \in Nat /\ Sum((U \ {c}) \ {y}) \in Nat
      <3>1. (U \ {c}) \ {y} \in SUBSET S
        BY <2>2
      <3> QED
        BY <1>1, <2>2, <2>5, <3>1
    <2>10. /\ Sum(U \ {y}) = f[c] + Sum((U \ {c}) \ {y})
           /\ Sum(U) = f[c] + (f[y] + Sum((U \ {c}) \ {y}))
      BY <2>5, <2>7, <2>8
    <2> HIDE DEF Sum, c
    <2> QED
      BY <2>4, <2>9, <2>10
  <1> QED
    BY <1>3
-----------------------------------------------------------------------------
(***************************************************************************)
(* The plan: there is an order of the tests, the largest first, and no     *)
(* others of the run's tests need more than the first of them.             *)
(***************************************************************************)

LEMMA MemoryIsNat == \A t \in Tests : MemoryFor[t] \in Nat
  <1> SUFFICES ASSUME NEW t \in Tests
               PROVE  MemoryFor[t] \in Nat
    OBVIOUS
  <1>1. \A s \in Adds[t] : RamOf[s] \in Nat
    BY TestVmsConstants DEF RamOf
  <1>2. SumFunctionOnSet(RamOf, Adds[t]) \in Nat
    BY <1>1, TestVmsConstants, SumChosen
  <1> DEFINE mb == SumFunctionOnSet(RamOf, Adds[t]) + 512 + IF t \in Browser THEN 512 ELSE 0
  <1>3. mb \in Nat
    BY <1>2
  <1>4. MemoryFor[t] = IF RoundedUp(mb) < 1024 THEN 1024 ELSE RoundedUp(mb)
    BY DEF MemoryFor
  <1> HIDE DEF mb
  <1>5. RoundedUp(mb) \in Nat
    BY <1>3 DEF RoundedUp
  <1> QED
    BY <1>4, <1>5

\* An order of S, the largest first.
Ordered(q, S) ==
    /\ q \in [1..Cardinality(S) -> S]
    /\ \A i, j \in 1..Cardinality(S) :
          /\ i # j => q[i] # q[j]
          /\ i < j => MemoryFor[q[i]] >= MemoryFor[q[j]]

LEMMA OrderGoesOn ==
    ASSUME NEW S \in SUBSET Tests, IsFiniteSet(S), NEW t \in S, NEW p, Ordered(p, S \ {t}),
           \A u \in S : MemoryFor[t] <= MemoryFor[u]
    PROVE  \E q : Ordered(q, S)
  <1> DEFINE n == Cardinality(S)
             q == [i \in 1..n |-> IF i = n THEN t ELSE p[i]]
  <1>1. n \in Nat \ {0} /\ Cardinality(S \ {t}) = n - 1
    BY FS_RemoveElement, FS_CardinalityType, FS_EmptySet
  <1>2. \A i \in 1..n : i # n => i \in 1..(n - 1)
    BY <1>1
  <1>3. p \in [1..(n - 1) -> S \ {t}]
    BY <1>1 DEF Ordered
  <1>4. \A i \in 1..n : i # n => p[i] \in S \ {t}
    BY <1>2, <1>3
  <1>5. q \in [1..n -> S]
    BY <1>4
  <1>6. ASSUME NEW i \in 1..n, NEW j \in 1..n
        PROVE  /\ i # j => q[i] # q[j]
               /\ i < j => MemoryFor[q[i]] >= MemoryFor[q[j]]
    <2>1. CASE i = n \/ j = n
      BY <1>1, <1>4, <2>1, MemoryIsNat
    <2>2. CASE i # n /\ j # n
      BY <1>1, <1>2, <2>2 DEF Ordered
    <2> QED
      BY <2>1, <2>2
  <1> HIDE DEF q
  <1> QED
    BY <1>5, <1>6 DEF Ordered

LEMMA OrderExists ==
    ASSUME NEW S \in SUBSET Tests
    PROVE  \E q : Ordered(q, S)
  <1> DEFINE Bad == {U \in SUBSET S : ~\E q : Ordered(q, U)}
  <1>1. \A U \in SUBSET S : IsFiniteSet(U) /\ Cardinality(U) \in Nat
    BY TestVmsConstants, FS_Subset, FS_CardinalityType
  <1>2. ASSUME Bad # {}
        PROVE  FALSE
    <2>1. PICK U \in Bad : \A V \in Bad : Cardinality(U) <= Cardinality(V)
      <3>1. \A V \in Bad : IsFiniteSet(V)
        BY <1>1
      <3> HIDE DEF Bad
      <3> QED
        BY <1>2, <3>1, SmallestSet
    <2>2. U \in SUBSET S /\ IsFiniteSet(U) /\ Cardinality(U) \in Nat /\ U \in SUBSET Tests
      BY <1>1
    <2>3. CASE U = {}
      <3> DEFINE q == [i \in 1..0 |-> i]
      <3>1. Cardinality(U) = 0 /\ 1..0 = {}
        BY <2>3, FS_EmptySet
      <3>2. Ordered(q, U)
        BY <2>3, <3>1 DEF Ordered
      <3> QED
        BY <2>1, <3>2
    <2>4. CASE U # {}
      <3> DEFINE M == {MemoryFor[u] : u \in U}
      <3>1. M \subseteq Nat /\ M # {}
        BY <2>2, <2>4, MemoryIsNat
      <3>2. PICK m \in M : \A k \in M : m <= k
        <4> HIDE DEF M
        <4> QED
          BY <3>1, SmallestExists
      <3>3. PICK t \in U : \A u \in U : MemoryFor[t] <= MemoryFor[u]
        BY <3>2
      <3>4. U \ {t} \in SUBSET S /\ Cardinality(U \ {t}) = Cardinality(U) - 1
        BY <2>2, FS_RemoveElement
      <3>5. U \ {t} \notin Bad
        <4> HIDE DEF Bad
        <4> QED
          BY <2>1, <2>2, <3>4
      <3>6. \E p : Ordered(p, U \ {t})
        BY <3>4, <3>5
      <3> QED
        BY <2>1, <2>2, <3>3, <3>6, OrderGoesOn
    <2> QED
      BY <2>3, <2>4
  <1> QED
    BY <1>2

\* LargestFirst is such an order, and has every test in it.
LEMMA LargestFirstIs ==
    ASSUME NEW S \in SUBSET Tests
    PROVE  /\ Ordered(LargestFirst(S), S)
           /\ \A t \in S : \E i \in 1..Cardinality(S) : LargestFirst(S)[i] = t
  <1> DEFINE n == Cardinality(S)
             q == LargestFirst(S)
  <1>1. PICK p : Ordered(p, S)
    BY OrderExists
  <1>2. p \in SetToSeqs(S) /\ \A i, j \in 1..n : i < j => MemoryFor[p[i]] >= MemoryFor[p[j]]
    BY <1>1 DEF Ordered, SetToSeqs
  <1>3. q \in SetToSeqs(S) /\ \A i, j \in 1..n : i < j => MemoryFor[q[i]] >= MemoryFor[q[j]]
    BY <1>2 DEF LargestFirst
  <1> HIDE DEF q
  <1>4. Ordered(q, S)
    BY <1>3 DEF Ordered, SetToSeqs
  <1>5. IsFiniteSet(S) /\ n \in Nat
    BY TestVmsConstants, FS_Subset, FS_CardinalityType
  <1>6. IsFiniteSet(1..n) /\ Cardinality(1..n) = n
    <2> HIDE DEF n
    <2> QED
      BY <1>5, FS_Interval
  <1>7. q \in Injection(1..n, S)
    BY <1>4 DEF Ordered, Injection, IsInjective
  <1>8. q \in Surjection(1..n, S)
    BY <1>5, <1>6, <1>7, FS_Injection
  <1> QED
    BY <1>4, <1>8 DEF Surjection, q

\* However the tests are picked, they need no more than as many of the largest.
Mems(S) == [i \in 1..Cardinality(S) |-> MemoryFor[LargestFirst(S)[i]]]

LEMMA MemsAre ==
    ASSUME NEW S \in SUBSET Tests
    PROVE  /\ Cardinality(S) \in Nat
           /\ \A i \in 1..Cardinality(S) : Mems(S)[i] \in Nat /\ LargestFirst(S)[i] \in S
           /\ \A i \in 1..Cardinality(S) : Mems(S)[i] = MemoryFor[LargestFirst(S)[i]]
           /\ \A i, j \in 1..Cardinality(S) : i <= j => Mems(S)[j] <= Mems(S)[i]
  <1>1. Cardinality(S) \in Nat
    BY TestVmsConstants, FS_Subset, FS_CardinalityType
  <1>2. \A i \in 1..Cardinality(S) : LargestFirst(S)[i] \in S
    BY LargestFirstIs DEF Ordered
  <1>3. \A i \in 1..Cardinality(S) :
           Mems(S)[i] = MemoryFor[LargestFirst(S)[i]] /\ Mems(S)[i] \in Nat
    BY <1>2, MemoryIsNat DEF Mems
  <1>4. ASSUME NEW i \in 1..Cardinality(S), NEW j \in 1..Cardinality(S), i <= j
        PROVE  Mems(S)[j] <= Mems(S)[i]
    <2>1. CASE i = j
      BY <1>3, <2>1
    <2>2. CASE i < j
      BY <1>3, <2>2, LargestFirstIs DEF Ordered
    <2> QED
      BY <1>1, <1>4, <2>1, <2>2
  <1> QED
    BY <1>1, <1>2, <1>3, <1>4

\* The smallest of R comes no earlier in the order than R has elements.
LEMMA LastOf ==
    ASSUME NEW S \in SUBSET Tests, NEW R \in SUBSET S, R # {}
    PROVE  \E j \in 1..Cardinality(S) : LargestFirst(S)[j] \in R /\ Cardinality(R) <= j
  <1> DEFINE n == Cardinality(S)
             q == LargestFirst(S)
             Ranks == {n - i : i \in {i \in 1..n : q[i] \in R}}
  <1>1. n \in Nat
    BY MemsAre
  <1>2. Ranks \subseteq Nat /\ Ranks # {}
    <2>1. PICK t \in R : TRUE
      OBVIOUS
    <2>2. PICK i \in 1..n : q[i] = t
      BY <2>1, LargestFirstIs
    <2> HIDE DEF n, q
    <2> QED
      BY <1>1, <2>1, <2>2
  <1>3. PICK m \in Ranks : \A k \in Ranks : m <= k
    <2> HIDE DEF Ranks
    <2> QED
      BY <1>2, SmallestExists
  <1>4. PICK j \in 1..n : q[j] \in R /\ m = n - j
    BY <1>3
  <1>5. ASSUME NEW i \in 1..n, q[i] \in R
        PROVE  i <= j
    <2>1. n - i \in Ranks
      BY <1>5
    <2>2. n - j <= n - i
      BY <1>3, <1>4, <2>1
    <2> HIDE DEF n, q
    <2> QED
      BY <1>1, <2>2
  <1>6. \A t \in R : \E i \in 1..j : q[i] = t
    <2> TAKE t \in R
    <2>1. PICK i \in 1..n : q[i] = t
      BY LargestFirstIs
    <2> HIDE DEF n, q
    <2> QED
      BY <1>1, <1>5, <2>1
  <1> DEFINE f == [i \in 1..j |-> IF q[i] \in R THEN q[i] ELSE q[j]]
  <1>7. f \in Surjection(1..j, R)
    <2>1. f \in [1..j -> R]
      BY <1>4
    <2>2. \A t \in R : \E i \in 1..j : f[i] = t
      BY <1>6
    <2> HIDE DEF f
    <2> QED
      BY <2>1, <2>2 DEF Surjection
  <1>8. IsFiniteSet(1..j) /\ Cardinality(1..j) = j
    <2> HIDE DEF n
    <2> QED
      BY <1>1, FS_Interval
  <1>9. Cardinality(R) <= j
    <2> HIDE DEF f
    <2> QED
      BY <1>7, <1>8, FS_Surjection
  <1> QED
    BY <1>4, <1>9

LEMMA SumOfLargest ==
    ASSUME NEW S \in SUBSET Tests, NEW R \in SUBSET S
    PROVE  SumFunctionOnSet(MemoryFor, R) <= SumFunctionOnSet(Mems(S), 1..Cardinality(R))
  <1> DEFINE Sum(U) == SumFunctionOnSet(MemoryFor, U)
             First(n) == SumFunctionOnSet(Mems(S), 1..n)
             Bad == {U \in SUBSET R : ~(Sum(U) <= First(Cardinality(U)))}
  <1>1. \A U \in SUBSET R : /\ IsFiniteSet(U) /\ Cardinality(U) \in Nat
                            /\ Cardinality(U) <= Cardinality(S) /\ Sum(U) \in Nat
    <2> TAKE U \in SUBSET R
    <2>1. IsFiniteSet(S) /\ U \in SUBSET S
      BY TestVmsConstants, FS_Subset
    <2>2. IsFiniteSet(U) /\ \A x \in U : MemoryFor[x] \in Nat
      BY <2>1, FS_Subset, MemoryIsNat
    <2> QED
      BY <2>1, <2>2, FS_Subset, FS_CardinalityType, SumChosen
  <1>2. \A n \in 0..Cardinality(S) :
           /\ First(n) \in Nat
           /\ n = 0 => First(n) = 0
           /\ n # 0 => First(n) = Mems(S)[n] + First(n - 1)
    <2> TAKE n \in 0..Cardinality(S)
    <2>1. Cardinality(S) \in Nat /\ n \in Nat
      BY MemsAre
    <2>2. IsFiniteSet(1..n) /\ \A i \in 1..n : Mems(S)[i] \in Nat
      <3>1. 1 \in Int /\ n \in Int /\ \A i \in 1..n : i \in 1..Cardinality(S)
        BY <2>1
      <3> QED
        BY <3>1, FS_Interval, MemsAre
    <2>3. n # 0 => n \in 1..n /\ (1..n) \ {n} = 1..(n - 1)
      BY <2>1
    <2>4. n = 0 => 1..n = {}
      BY <2>1
    <2>5. First(n) \in Nat /\ (n = 0 => First(n) = 0)
      BY <2>2, <2>4, SumChosen
    <2>6. ASSUME n # 0
          PROVE  First(n) = Mems(S)[n] + First(n - 1)
      BY <2>2, <2>3, <2>6, SumWithout
    <2> QED
      BY <2>5, <2>6
  <1>3. ASSUME Bad # {}
        PROVE  FALSE
    <2>1. PICK U \in Bad : \A V \in Bad : Cardinality(U) <= Cardinality(V)
      <3>1. \A V \in Bad : IsFiniteSet(V)
        BY <1>1
      <3> HIDE DEF Bad
      <3> QED
        BY <1>3, <3>1, SmallestSet
    <2> DEFINE r == Cardinality(U)
    <2>2. /\ U \in SUBSET R /\ U \in SUBSET S /\ IsFiniteSet(U) /\ r \in Nat
          /\ r <= Cardinality(S) /\ Cardinality(S) \in Nat
      BY <1>1, MemsAre
    <2>3. U # {}
      <3> SUFFICES ASSUME U = {}
                   PROVE  FALSE
        OBVIOUS
      <3>1. Sum(U) = 0 /\ r = 0
        BY <2>2, SumChosen, FS_EmptySet
      <3>2. First(r) = 0
        BY <1>2, <2>2, <3>1
      <3> QED
        BY <2>1, <3>1, <3>2
    <2>4. PICK j \in 1..Cardinality(S) : LargestFirst(S)[j] \in U /\ r <= j
      BY <2>2, <2>3, LastOf
    <2> DEFINE t == LargestFirst(S)[j]
               V == U \ {t}
    <2>5. /\ r \in 1..Cardinality(S) /\ r - 1 \in Nat
          /\ Cardinality(V) = r - 1 /\ V \in SUBSET R
      <3>1. r # 0
        BY <2>2, <2>3, FS_EmptySet
      <3>2. V \in SUBSET R
        BY <2>2
      <3>3. Cardinality(V) = r - 1
        <4>1. t \in U
          BY <2>4
        <4> HIDE DEF t
        <4> QED
          BY <2>2, <4>1, FS_RemoveElement
      <3> HIDE DEF r, V
      <3> QED
        BY <2>2, <3>1, <3>2, <3>3
    <2>6. Sum(U) = MemoryFor[t] + Sum(V)
      BY <2>2, <2>4, SumWithout, MemoryIsNat
    <2>7. Sum(V) <= First(r - 1)
      <3>1. V \notin Bad
        <4>1. ASSUME V \in Bad
              PROVE  r <= Cardinality(V)
          <5> HIDE DEF Bad, V
          <5> QED
            BY <2>1, <4>1
        <4> HIDE DEF Bad, V, r
        <4> QED
          BY <2>2, <2>5, <4>1
      <3> QED
        BY <2>5, <3>1
    <2>8. First(r) = Mems(S)[r] + First(r - 1) /\ First(r - 1) \in Nat
      <3> HIDE DEF First, r
      <3> QED
        BY <1>2, <2>2, <2>5
    <2>9. MemoryFor[t] <= Mems(S)[r] /\ MemoryFor[t] \in Nat /\ Mems(S)[r] \in Nat
      BY <2>4, <2>5, MemsAre
    <2>10. Sum(U) <= First(r)
      <3>1. Sum(V) \in Nat
        BY <1>1, <2>5
      <3> HIDE DEF Sum, First, r, t, V
      <3> QED
        BY <2>6, <2>7, <2>8, <2>9, <3>1
    <2> QED
      BY <2>1, <2>10
  <1> QED
    BY <1>3

\* As many as fit: with each of them, the sum so far keeps to the budget.
LEMMA FittingIs ==
    ASSUME NEW S \in SUBSET Tests, NEW b
    PROVE  /\ Fitting(S, b) \in Requested(S)
           /\ \A i \in 1..Fitting(S, b) :
                 i \in Requested(S) /\ SumFunctionOnSet(Mems(S), 1..i) <= b
  <1> DEFINE most == IF Parallel < Cardinality(S) THEN Parallel ELSE Cardinality(S)
             Stops(n) == n + 1 \notin Requested(S) \/ ~Fits(Sums(S)[n + 1], b)
             Ends == {n \in Requested(S) : Stops(n)}
  <1>1. most \in Nat /\ Requested(S) = 0..most
    BY MemsAre, TestVmsConstants DEF Requested
  <1> HIDE DEF most
  <1>2. Ends \subseteq Nat /\ Ends # {}
    <2>1. most \in Requested(S) /\ most + 1 \notin Requested(S)
      BY <1>1
    <2>2. Requested(S) \subseteq Nat
      BY <1>1
    <2> QED
      BY <2>1, <2>2
  <1>3. PICK m \in Ends : \A k \in Ends : m <= k
    <2> HIDE DEF Ends
    <2> QED
      BY <1>2, SmallestExists
  <1>4. m \in Requested(S) /\ Stops(m)
    OBVIOUS
  <1>5. ASSUME NEW i \in 1..m
        PROVE  i \in Requested(S) /\ Fits(Sums(S)[i], b)
    <2>1. i - 1 \in Requested(S) /\ i - 1 < m /\ i \in Requested(S) /\ m \in Nat
      BY <1>1, <1>4
    <2>2. i - 1 \notin Ends
      <3> HIDE DEF Ends
      <3> QED
        BY <1>3, <2>1
    <2>3. ~Stops(i - 1)
      BY <2>1, <2>2
    <2>4. (i - 1) + 1 = i
      OBVIOUS
    <2> QED
      BY <2>1, <2>3, <2>4
  <1> DEFINE n == Fitting(S, b)
  <1>6. n \in Requested(S) /\ \A i \in 1..n : Fits(Sums(S)[i], b)
    BY <1>4, <1>5 DEF Fitting
  <1>7. \A i \in 1..n : i \in Requested(S)
    <2> HIDE DEF n
    <2> QED
      BY <1>1, <1>6
  <1>8. \A i \in Requested(S) : Sums(S)[i] = SumFunctionOnSet(Mems(S), 1..i)
    BY DEF Sums, Mems
  <1> QED
    BY <1>6, <1>7, <1>8 DEF Fits

\* There is always a machine to start, and never more than were asked for.
LEMMA PlanIs ==
    ASSUME NEW S \in SUBSET Tests, NEW b
    PROVE  PlanFor(S, b) \in 1..Parallel
  <1>1. Cardinality(S) \in Nat /\ Parallel \in Nat \ {0}
    BY MemsAre, TestVmsConstants
  <1>2. Fitting(S, b) \in Requested(S)
    BY FittingIs
  <1>3. Fitting(S, b) \in Nat /\ Fitting(S, b) <= Parallel
    BY <1>1, <1>2 DEF Requested
  <1> QED
    BY <1>1, <1>3 DEF PlanFor, Clamp

\* No more tests than the plan allows are together within its budget, whichever of
\* the run's they are.
LEMMA PlanKeeps ==
    ASSUME NEW S \in SUBSET Tests, NEW R \in SUBSET S, NEW b \in Nat,
           Cardinality(R) <= PlanFor(S, b)
    PROVE  Cardinality(R) <= 1 \/ SumFunctionOnSet(MemoryFor, R) <= b
  <1>1. b # Unknown
    BY TestVmsConstants
  <1>2. Fitting(S, b) \in Nat /\ Cardinality(R) \in Nat
    <2>1. Cardinality(S) \in Nat /\ Cardinality(R) \in Nat /\ Parallel \in Nat \ {0}
      BY MemsAre, TestVmsConstants
    <2>2. Fitting(S, b) \in Requested(S)
      BY FittingIs
    <2> QED
      BY <2>1, <2>2 DEF Requested
  <1>3. ASSUME ~(Cardinality(R) <= 1)
        PROVE  SumFunctionOnSet(MemoryFor, R) <= b
    <2>1. Cardinality(R) \in 1..Fitting(S, b)
      BY <1>1, <1>2, <1>3 DEF PlanFor, Clamp
    <2>2. SumFunctionOnSet(Mems(S), 1..Cardinality(R)) <= b
      BY <2>1, FittingIs
    <2>3. SumFunctionOnSet(MemoryFor, R) <= SumFunctionOnSet(Mems(S), 1..Cardinality(R))
      BY SumOfLargest
    <2>4. /\ SumFunctionOnSet(MemoryFor, R) \in Nat
          /\ SumFunctionOnSet(Mems(S), 1..Cardinality(R)) \in Nat
      <3>1. IsFiniteSet(R) /\ \A t \in R : MemoryFor[t] \in Nat
        BY TestVmsConstants, FS_Subset, MemoryIsNat
      <3>2. Cardinality(R) <= Cardinality(S) /\ Cardinality(S) \in Nat
        BY TestVmsConstants, FS_Subset, MemsAre
      <3>3. \A i \in 1..Cardinality(R) : Mems(S)[i] \in Nat
        BY <1>2, <3>2, MemsAre
      <3>4. IsFiniteSet(1..Cardinality(R))
        BY <1>2, FS_Interval
      <3> QED
        BY <3>1, <3>3, <3>4, SumChosen
    <2> QED
      BY <2>2, <2>3, <2>4
  <1> QED
    BY <1>3
-----------------------------------------------------------------------------
(***************************************************************************)
(* The machines.                                                           *)
(***************************************************************************)
WorkInv == VmsTyped /\ TestsTyped /\ TasksOK /\ MachinesOK

\* What preparing does to the machines: no test is at work, and one that is left
\* may appear, or be switched off.
LEMMA StrayAppears ==
    ASSUME VmsTyped, port \in Nat, ~Held(port), NEW who \in Kinds, NEW shared \in BOOLEAN,
           vms' = vms \cup {Stray(port, who, shared)}
    PROVE  VmsTyped' /\ \A v \in vms' : v \in vms \/ v.fate = "old"
  <1> DEFINE new == Stray(port, who, shared)
  <1>1. new \in Vm /\ new.fate = "old" /\ new.port = port
    BY DEF Stray, Vm
  <1> HIDE DEF new
  <1>2. vms' \subseteq Vm
    BY <1>1 DEF VmsTyped, new
  <1>3. \A v, w \in vms' : v.port = w.port => v = w
    BY <1>1 DEF VmsTyped, Held, new
  <1> QED
    BY <1>1, <1>2, <1>3 DEF VmsTyped, new

LEMMA CacheMachines ==
    ASSUME RunTyped, VmsTyped, Publish \/ Prepare
    PROVE  /\ ~Going /\ ~Going' /\ (pc' # "idle" => pc # "idle")
           /\ port' >= port /\ VmsTyped' /\ \A v \in vms' : v \in vms \/ v.fate = "old"
  <1>1. ~Going /\ ~Going' /\ (pc' # "idle" => pc # "idle")
    BY DEF Prepare, Publish, Download, KeepDownload, DropPrepared, KeepImage,
        BootToPrepare, InstallElsewhere, FailToPrepare, Convert, ReuseSnapshot, Save,
        FailToSave, MoveNext, SaveTar, TarSaved, LoadTar, DieWhilePreparing, Abandon,
        Continue, Preparing, run, Going
  <1>2. port' = port \/ port' = port + 1
    BY DEF Prepare, Publish, Download, KeepDownload, DropPrepared, KeepImage,
        BootToPrepare, InstallElsewhere, FailToPrepare, Convert, ReuseSnapshot, Save,
        FailToSave, MoveNext, SaveTar, TarSaved, LoadTar, DieWhilePreparing, Abandon, run
  <1>3. \/ vms' \subseteq vms
        \/ /\ ~Held(port)
           /\ \E who \in Kinds, shared \in BOOLEAN :
                 vms' = vms \cup {Stray(port, who, shared)}
    BY DEF Prepare, Publish, Download, KeepDownload, DropPrepared, KeepImage,
        BootToPrepare, InstallElsewhere, FailToPrepare, Convert, ReuseSnapshot, Save,
        FailToSave, MoveNext, SaveTar, TarSaved, LoadTar, DieWhilePreparing, RunTyped, Kinds
  <1>4. VmsTyped' /\ \A v \in vms' : v \in vms \/ v.fate = "old"
    <2>1. CASE vms' \subseteq vms
      BY <2>1 DEF VmsTyped
    <2>2. CASE ~Held(port) /\ \E who \in Kinds, shared \in BOOLEAN :
                                  vms' = vms \cup {Stray(port, who, shared)}
      BY <2>2, StrayAppears DEF RunTyped
    <2> QED
      BY <1>3, <2>1, <2>2
  <1> QED
    BY <1>1, <1>2, <1>4 DEF RunTyped

\* Outside a run no machine is a test's or was about to be killed.
LEMMA Quiet ==
    ASSUME WorkInv, ~Going
    PROVE  /\ \A v \in vms : v.fate \in {"kept", "old"}
           /\ \A t \in Tests : ~Started(t) /\ ~Booted(t)
  BY DEF WorkInv, VmsTyped, TasksOK, MachinesOK, VmOK, Running, Started, Booted, Going, Vm

\* And what is kept or old stays as it should while no test is at work.
LEMMA QuietMachines ==
    ASSUME \A v \in vms : v.fate \in {"kept", "old"} /\ (v.fate # "old" => v.port < port),
           \A t \in Tests : ~Started(t) /\ ~Booted(t)
    PROVE  MachinesOK
  BY DEF MachinesOK, VmOK

LEMMA CacheWork ==
    ASSUME RunTyped, WorkInv, Publish \/ Prepare, UNCHANGED testVars
    PROVE  WorkInv'
  <1> USE DEF testVars
  <1>1. /\ ~Going /\ ~Going' /\ (pc' # "idle" => pc # "idle")
        /\ port' >= port /\ VmsTyped' /\ \A v \in vms' : v \in vms \/ v.fate = "old"
    BY CacheMachines DEF WorkInv
  <1>2. TestsTyped'
    BY DEF WorkInv, TestsTyped
  <1>3. TasksOK'
    BY <1>1 DEF WorkInv, TasksOK, Running
  <1>4. MachinesOK'
    <2>1. \A v \in vms : v.fate \in {"kept", "old"} /\ (v.fate # "old" => v.port < port)
      BY <1>1, Quiet DEF WorkInv, MachinesOK, VmOK
    <2>2. \A t \in Tests : ~Started(t) /\ ~Booted(t)
      BY <1>1, Quiet
    <2>3. port \in Nat /\ port' \in Nat /\ \A v \in vms : v.port \in Nat
      <3>1. port' = port \/ port' = port + 1
        BY DEF Prepare, Publish, Download, KeepDownload, DropPrepared, KeepImage,
            BootToPrepare, InstallElsewhere, FailToPrepare, Convert, ReuseSnapshot, Save,
            FailToSave, MoveNext, SaveTar, TarSaved, LoadTar, DieWhilePreparing, Abandon, run
      <3> QED
        BY <3>1 DEF RunTyped, WorkInv, VmsTyped, Vm
    <2>4. \A v \in vms' : v.fate \in {"kept", "old"} /\ (v.fate # "old" => v.port < port')
      <3> SUFFICES ASSUME NEW v \in vms'
                   PROVE  v.fate \in {"kept", "old"} /\ (v.fate # "old" => v.port < port')
        OBVIOUS
      <3>1. CASE v.fate = "old"
        BY <3>1
      <3>2. CASE v.fate # "old"
        BY <1>1, <2>1, <2>3, <3>2
      <3> QED
        BY <3>1, <3>2
    <2>5. \A t \in Tests : ~Started(t)' /\ ~Booted(t)'
      BY <2>2 DEF Started, Booted
    <2> QED
      BY <2>4, <2>5 DEF MachinesOK, VmOK
  <1> QED
    BY <1>1, <1>2, <1>3, <1>4 DEF WorkInv

\* Machines that change keep their port.
LEMMA Relabelled ==
    ASSUME VmsTyped, NEW g \in [vms -> Vm], \A v \in vms : g[v].port = v.port,
           vms' \subseteq {g[v] : v \in vms}
    PROVE  VmsTyped'
  <1>1. vms' \subseteq Vm
    OBVIOUS
  <1>2. ASSUME NEW v \in vms', NEW w \in vms', v.port = w.port
        PROVE  v = w
    <2>1. PICK a \in vms : v = g[a]
      OBVIOUS
    <2>2. PICK b \in vms : w = g[b]
      OBVIOUS
    <2>3. a.port = b.port
      BY <1>2, <2>1, <2>2
    <2> QED
      BY <2>1, <2>2, <2>3 DEF VmsTyped
  <1> QED
    BY <1>1, <1>2 DEF VmsTyped

\* A machine on the list, or to be put on it, is its test's own.
LEMMA ListedIsOwn ==
    ASSUME WorkInv, NEW v \in vms, v.fate \in {"unlisted", "listed"}
    PROVE  v.of \in Tests /\ v \in Own(v.of)
  BY DEF WorkInv, MachinesOK, VmOK, Own, Ours

\* A step of a test that has started its machine leaves the others as they are, and
\* of its own machine only changes what it is to become.
Change(t, next, m, g) ==
    /\ Started(t) /\ next \in {"waiting", "booted", "testing", "stopping", "done"}
    /\ task' = [task EXCEPT ![t] = next]
    /\ m \in Vm /\ in' = [in EXCEPT ![t] = m]
    /\ next # "done" => m.port = in[t].port
    /\ next \in {"booted", "testing"} => m.of = t \/ m.fate = "old"
    /\ UNCHANGED <<port, pc, todo, permits, budget>>
    /\ g \in [vms -> Vm] /\ vms' \subseteq {g[v] : v \in vms}
    /\ \A v \in vms \ Own(t) : g[v] = v
    /\ \A v \in Own(t) :
          /\ g[v].port = v.port /\ g[v].of = v.of
          /\ g[v] \in vms' =>
                \/ v.fate \in {"doomed", "slipped"} /\ g[v].fate = v.fate
                \/ g[v].fate = "kept"
                \/ /\ v.fate \in {"unlisted", "listed"} /\ next # "done"
                   /\ g[v].fate = IF next = "stopping" THEN "unlisted" ELSE "listed"

LEMMA WorkAfter ==
    ASSUME WorkInv, NEW t \in Tests, NEW next, NEW m, NEW g, Change(t, next, m, g)
    PROVE  WorkInv'
  <1> USE DEF Change
  <1>1. /\ task[t] # "none" /\ task'[t] = next /\ in'[t] = m
        /\ \A u \in Tests \ {t} : task'[u] = task[u] /\ in'[u] = in[u]
    BY DEF WorkInv, TestsTyped, Started
  <1>2. Running' \subseteq Running
    BY <1>1 DEF Running, Started
  <1>3. TestsTyped'
    BY DEF WorkInv, TestsTyped
  <1>4. VmsTyped'
    <2>1. \A v \in vms : g[v].port = v.port
      OBVIOUS
    <2> QED
      BY <2>1, Relabelled DEF WorkInv
  <1>5. TasksOK'
    <2>1. \A i \in DOMAIN todo : todo[i] \in Tests /\ todo[i] # t
      BY <1>1 DEF WorkInv, TasksOK, TestsTyped
    <2> QED
      BY <1>1, <1>2, <2>1 DEF WorkInv, TasksOK, Going
  <1>6. \A u \in Tests : Started(u)' => Started(u) /\ in'[u].port = in[u].port
    BY <1>1 DEF Started
  <1>7. ASSUME NEW w \in vms'
        PROVE  VmOK(w)'
    <2>1. PICK v \in vms : w = g[v]
      OBVIOUS
    <2>2. VmOK(v)
      BY DEF WorkInv, MachinesOK
    <2>3. CASE v \notin Own(t)
      <3>1. w = v /\ (v.fate \in {"unlisted", "listed"} => v.of # t)
        BY <2>1, <2>3, ListedIsOwn
      <3>2. \A u \in Tests \ {t} : Started(u) => Started(u)'
        BY <1>1 DEF Started
      <3> QED
        BY <1>1, <1>6, <2>2, <3>1, <3>2 DEF VmOK
    <2>4. CASE v \in Own(t)
      <3>1. v.of = t /\ v.port = in[t].port /\ w.port = v.port /\ w.of = v.of /\ v.fate # "old"
        BY <2>1, <2>4 DEF Own, Ours
      <3>2. w.port < port /\ \A u \in Tests : Started(u)' /\ in'[u].port = w.port => w.of = u
        BY <1>6, <2>2, <3>1 DEF VmOK
      <3>3. CASE w.fate = v.fate /\ v.fate \in {"doomed", "slipped"}
        BY <2>2, <3>2, <3>3 DEF VmOK
      <3>4. CASE w.fate = "kept"
        BY <3>2, <3>4 DEF VmOK
      <3>5. CASE /\ v.fate \in {"unlisted", "listed"} /\ next # "done"
                 /\ w.fate = IF next = "stopping" THEN "unlisted" ELSE "listed"
        <4>1. Started(t)' /\ in'[t].port = in[t].port /\ pc = "testing"
          BY <1>1, <2>2, <3>5 DEF Started, VmOK
        <4> QED
          BY <1>1, <3>1, <3>2, <3>5, <4>1 DEF VmOK
      <3> QED
        BY <2>1, <2>4, <3>3, <3>4, <3>5
    <2> QED
      BY <2>3, <2>4
  <1>8. \A u \in Tests : Booted(u)' => in'[u].of = u \/ in'[u].fate = "old"
    BY <1>1 DEF WorkInv, MachinesOK, Booted
  <1>9. MachinesOK'
    BY <1>6, <1>7, <1>8 DEF WorkInv, MachinesOK
  <1> QED
    BY <1>3, <1>4, <1>5, <1>9 DEF WorkInv

\* While a test's own machine has a fate, it is one of these.
LEMMA OwnFates ==
    ASSUME WorkInv, NEW t \in Tests, NEW v \in Own(t)
    PROVE  /\ v \in vms /\ v \in Vm /\ v.of = t
           /\ v.fate \in {"unlisted", "listed", "doomed", "slipped"}
           /\ v.fate = "unlisted" => task[t] \in {"spawned", "stopping"}
  BY DEF Own, Ours, WorkInv, VmsTyped, Vm, MachinesOK, VmOK

LEMMA RegisterVmWork ==
    ASSUME WorkInv, NEW t \in Tests, RegisterVm(t)
    PROVE  WorkInv'
  <1>1. /\ task' = [task EXCEPT ![t] = "waiting"] /\ in' = [in EXCEPT ![t] = in[t]]
        /\ Started(t) /\ in[t] \in Vm /\ UNCHANGED <<port, pc, todo, permits, budget>>
        /\ vms' = (vms \ Own(t)) \cup {Register(v) : v \in Own(t)}
    BY DEF RegisterVm, run, Started, WorkInv, TestsTyped
  <1> DEFINE g == [v \in vms |-> IF v \in Own(t) THEN Register(v) ELSE v]
  <1>2. \A v \in Own(t) :
           /\ Register(v) \in Vm /\ Register(v).port = v.port /\ Register(v).of = v.of
           /\ \/ v.fate \in {"doomed", "slipped"} /\ Register(v).fate = v.fate
              \/ v.fate \in {"unlisted", "listed"} /\ Register(v).fate = "listed"
    BY OwnFates DEF Register, Vm
  <1>3. /\ g \in [vms -> Vm] /\ vms' \subseteq {g[v] : v \in vms}
        /\ \A v \in vms \ Own(t) : g[v] = v
        /\ \A v \in Own(t) : g[v] = Register(v)
    <2>1. Own(t) \subseteq vms /\ vms \subseteq Vm
      BY DEF Own, WorkInv, VmsTyped
    <2>2. \A v \in vms : g[v] = IF v \in Own(t) THEN Register(v) ELSE v
      OBVIOUS
    <2>3. g \in [vms -> Vm]
      BY <1>2, <2>1
    <2> HIDE DEF g
    <2> QED
      BY <1>1, <2>1, <2>2, <2>3
  <1> HIDE DEF g
  <1>c. Change(t, "waiting", in[t], g)
    BY <1>1, <1>2, <1>3 DEF Change
  <1> QED
    BY <1>c, WorkAfter

\* A machine that answers in place of a test's own was left by an earlier run.
LEMMA ElsewhereIsOld ==
    ASSUME WorkInv, NEW t \in Tests, Started(t), NEW v \in vms, v.port = in[t].port
    PROVE  v.of = t \/ v.fate = "old"
  BY DEF WorkInv, MachinesOK, VmOK

LEMMA BootWork ==
    ASSUME WorkInv, NEW t \in Tests, Boot(t)
    PROVE  WorkInv'
  <1>1. PICK m \in vms : m.port = in[t].port /\ in' = [in EXCEPT ![t] = m]
    BY DEF Boot, Own
  <1>2. /\ task' = [task EXCEPT ![t] = "booted"] /\ task[t] = "waiting" /\ vms' = vms
        /\ Started(t) /\ UNCHANGED <<port, pc, todo, permits, budget>>
    BY DEF Boot, run, Started
  <1>3. m \in Vm /\ (m.of = t \/ m.fate = "old")
    BY <1>1, <1>2, ElsewhereIsOld DEF WorkInv, VmsTyped
  <1> DEFINE g == [v \in vms |-> v]
  <1>4. /\ g \in [vms -> Vm] /\ vms' \subseteq {g[v] : v \in vms} /\ \A v \in vms : g[v] = v
    BY <1>2 DEF WorkInv, VmsTyped
  <1>5. \A v \in Own(t) : v \in vms /\ v.fate \in {"listed", "doomed", "slipped"}
    BY <1>2, OwnFates
  <1> HIDE DEF g
  <1>c. Change(t, "booted", m, g)
    BY <1>1, <1>2, <1>3, <1>4, <1>5 DEF Change
  <1> QED
    BY <1>c, WorkAfter

LEMMA NoVmTyped == NoVm \in Vm
  BY DEF NoVm, Vm

LEMMA SetUpWork ==
    ASSUME WorkInv, NEW t \in Tests, SetUp(t)
    PROVE  WorkInv'
  <1>1. /\ task' = [task EXCEPT ![t] = "testing"] /\ task[t] = "booted" /\ vms' = vms
        /\ in' = [in EXCEPT ![t] = in[t]] /\ in[t] \in Vm
        /\ Started(t) /\ UNCHANGED <<port, pc, todo, permits, budget>>
    BY DEF SetUp, run, Started, WorkInv, TestsTyped
  <1>2. in[t].of = t \/ in[t].fate = "old"
    BY <1>1 DEF WorkInv, MachinesOK, Booted
  <1> DEFINE g == [v \in vms |-> v]
  <1>3. /\ g \in [vms -> Vm] /\ vms' \subseteq {g[v] : v \in vms} /\ \A v \in vms : g[v] = v
    BY <1>1 DEF WorkInv, VmsTyped
  <1>4. \A v \in Own(t) : v \in vms /\ v.fate \in {"listed", "doomed", "slipped"}
    BY <1>1, OwnFates
  <1> HIDE DEF g
  <1>c. Change(t, "testing", in[t], g)
    BY <1>1, <1>2, <1>3, <1>4 DEF Change
  <1> QED
    BY <1>c, WorkAfter

LEMMA DestroyWork ==
    ASSUME WorkInv, NEW t \in Tests, Booted(t), Destroy(t)
    PROVE  WorkInv'
  <1>1. /\ task' = [task EXCEPT ![t] = "stopping"] /\ in' = [in EXCEPT ![t] = in[t]]
        /\ Started(t) /\ in[t] \in Vm /\ UNCHANGED <<port, pc, todo, permits, budget>>
        /\ vms' \subseteq (vms \ Own(t)) \cup {Unregister(v) : v \in Own(t)}
    BY DEF Destroy, run, Started, Booted, WorkInv, TestsTyped
  <1> DEFINE g == [v \in vms |-> IF v \in Own(t) THEN Unregister(v) ELSE v]
  <1>2. \A v \in Own(t) :
           /\ Unregister(v) \in Vm /\ Unregister(v).port = v.port /\ Unregister(v).of = v.of
           /\ \/ v.fate \in {"doomed", "slipped"} /\ Unregister(v).fate = v.fate
              \/ v.fate \in {"unlisted", "listed"} /\ Unregister(v).fate = "unlisted"
    BY OwnFates DEF Unregister, Vm
  <1>3. /\ g \in [vms -> Vm] /\ vms' \subseteq {g[v] : v \in vms}
        /\ \A v \in vms \ Own(t) : g[v] = v
        /\ \A v \in Own(t) : g[v] = Unregister(v)
    <2>1. Own(t) \subseteq vms /\ vms \subseteq Vm
      BY DEF Own, WorkInv, VmsTyped
    <2>2. \A v \in vms : g[v] = IF v \in Own(t) THEN Unregister(v) ELSE v
      OBVIOUS
    <2>3. g \in [vms -> Vm]
      BY <1>2, <2>1
    <2> HIDE DEF g
    <2> QED
      BY <1>1, <2>1, <2>2, <2>3
  <1> HIDE DEF g
  <1>c. Change(t, "stopping", in[t], g)
    BY <1>1, <1>2, <1>3 DEF Change
  <1> QED
    BY <1>c, WorkAfter

LEMMA KeepVmWork ==
    ASSUME WorkInv, NEW t \in Tests, KeepVm(t)
    PROVE  WorkInv'
  <1>1. /\ task' = [task EXCEPT ![t] = "done"] /\ in' = [in EXCEPT ![t] = NoVm]
        /\ Started(t) /\ UNCHANGED <<port, pc, todo, permits, budget>>
        /\ vms' = (vms \ Own(t)) \cup {Kept(v) : v \in Own(t)} /\ task[t] = "testing"
    BY DEF KeepVm, run, Started
  <1> DEFINE g == [v \in vms |-> IF v \in Own(t) THEN Kept(v) ELSE v]
  <1>2. \A v \in Own(t) :
           /\ Kept(v) \in Vm /\ Kept(v).port = v.port /\ Kept(v).of = v.of
           /\ \/ v.fate = "doomed" /\ Kept(v).fate = v.fate
              \/ Kept(v).fate = "kept"
    BY OwnFates DEF Kept, Vm
  <1>3. /\ g \in [vms -> Vm] /\ vms' \subseteq {g[v] : v \in vms}
        /\ \A v \in vms \ Own(t) : g[v] = v
        /\ \A v \in Own(t) : g[v] = Kept(v)
    <2>1. Own(t) \subseteq vms /\ vms \subseteq Vm
      BY DEF Own, WorkInv, VmsTyped
    <2>2. \A v \in vms : g[v] = IF v \in Own(t) THEN Kept(v) ELSE v
      OBVIOUS
    <2>3. g \in [vms -> Vm]
      BY <1>2, <2>1
    <2> HIDE DEF g
    <2> QED
      BY <1>1, <2>1, <2>2, <2>3
  <1> HIDE DEF g
  <1>c. Change(t, "done", NoVm, g)
    BY <1>1, <1>2, <1>3, NoVmTyped DEF Change
  <1> QED
    BY <1>c, WorkAfter

\* The machine goes: it is destroyed, or nobody has waited for it any longer.
LEMMA GoneWork ==
    ASSUME WorkInv, NEW t \in Tests, Started(t), vms' = vms \ Own(t),
           task' = [task EXCEPT ![t] = "done"], in' = [in EXCEPT ![t] = NoVm],
           UNCHANGED <<port, pc, todo, permits, budget>>
    PROVE  WorkInv'
  <1> DEFINE g == [v \in vms |-> v]
  <1>1. /\ g \in [vms -> Vm] /\ vms' \subseteq {g[v] : v \in vms} /\ \A v \in vms : g[v] = v
    BY DEF WorkInv, VmsTyped
  <1>2. \A v \in Own(t) : v \in vms /\ g[v] \notin vms'
    BY <1>1 DEF Own
  <1> HIDE DEF g
  <1>c. Change(t, "done", NoVm, g)
    BY <1>1, <1>2, NoVmTyped DEF Change
  <1> QED
    BY <1>c, WorkAfter

\* A test takes a port, and starts a QEMU on it unless the port is held.
LEMMA SpawnVmWork ==
    ASSUME WorkInv, port \in Nat, NEW t \in Tests, SpawnVm(t)
    PROVE  WorkInv'
  <1>1. /\ task[t] = "starting" /\ task' = [task EXCEPT ![t] = "spawned"]
        /\ port' = port + 1 /\ UNCHANGED <<pc, todo, permits, budget>>
    BY DEF SpawnVm, NextPort
  <1>2. PICK m \in Vm : /\ in' = [in EXCEPT ![t] = m] /\ m.port = port
                        /\ \/ Held(port) /\ vms' = vms
                           \/ /\ ~Held(port) /\ vms' = vms \cup {m} /\ m.of = t
                              /\ m.fate = IF pc = "interrupted" THEN "slipped" ELSE "unlisted"
    <2>1. [NoVm EXCEPT !.port = port] \in Vm /\ OwnVm(t) \in Vm
      <3>1. (KindOf(t) \in usable) \in BOOLEAN
        OBVIOUS
      <3>2. [NoVm EXCEPT !.port = port] \in Vm
        BY DEF Vm, NoVm
      <3>3. OwnVm(t) \in Vm
        BY <3>1 DEF Vm, OwnVm
      <3> QED
        BY <3>2, <3>3
    <2>2. /\ [NoVm EXCEPT !.port = port].port = port /\ OwnVm(t).port = port /\ OwnVm(t).of = t
          /\ OwnVm(t).fate = IF pc = "interrupted" THEN "slipped" ELSE "unlisted"
      BY DEF NoVm, OwnVm
    <2>3. CASE Held(port)
      BY <2>1, <2>2, <2>3 DEF SpawnVm
    <2>4. CASE ~Held(port)
      BY <2>1, <2>2, <2>4 DEF SpawnVm
    <2> QED
      BY <2>3, <2>4
  <1>3. /\ task'[t] = "spawned" /\ in'[t] = m
        /\ \A u \in Tests \ {t} : task'[u] = task[u] /\ in'[u] = in[u]
    BY <1>1, <1>2 DEF WorkInv, TestsTyped
  <1>4. TestsTyped'
    BY <1>1, <1>2 DEF WorkInv, TestsTyped
  <1>5. VmsTyped'
    BY <1>2 DEF WorkInv, VmsTyped, Held
  <1>6. Running' = Running /\ Going /\ Going' /\ ~Started(t)
    <2>1. t \in Running
      BY <1>1 DEF Running
    <2> QED
      BY <1>1, <1>3, <2>1 DEF Running, Started, Going, WorkInv, TasksOK
  <1>7. TasksOK'
    <2>1. \A i \in DOMAIN todo : todo[i] \in Tests /\ todo[i] # t
      BY <1>1 DEF WorkInv, TasksOK, TestsTyped
    <2> QED
      BY <1>1, <1>3, <1>6, <2>1 DEF WorkInv, TasksOK
  <1>8. \A v \in vms : v.port \in Nat
    BY DEF WorkInv, VmsTyped, Vm
  <1>9. \A u \in Tests \ {t} : Started(u) => in[u].port < port /\ in[u].port \in Nat
    BY DEF WorkInv, MachinesOK, TestsTyped, Vm
  <1>10. \A u \in Tests \ {t} : /\ Started(u)' <=> Started(u)
                                /\ Booted(u)' <=> Booted(u)
    BY <1>3 DEF Started, Booted
  <1>11. ASSUME NEW v \in vms
         PROVE  VmOK(v)'
    <2>1. VmOK(v) /\ v.port \in Nat
      BY <1>8 DEF WorkInv, MachinesOK
    <2>2. v.fate \in {"unlisted", "listed"} => v.of # t
      BY <1>6, <2>1 DEF VmOK
    <2>3. v.fate # "old" => v.port < port' /\ v.port # in'[t].port
      BY <1>1, <1>2, <1>3, <2>1 DEF VmOK
    <2>4. v.fate # "old" => \A u \in Tests : Started(u)' /\ in'[u].port = v.port => v.of = u
      BY <1>3, <1>10, <2>1, <2>3 DEF VmOK
    <2>5. v.fate \in {"unlisted", "listed"} =>
             pc = "testing" /\ v.of \in Tests /\ Started(v.of)' /\ in'[v.of].port = v.port
      BY <1>3, <1>10, <2>1, <2>2 DEF VmOK
    <2>6. v.fate = "unlisted" => task'[v.of] \in {"spawned", "stopping"}
      BY <1>3, <2>1, <2>2 DEF VmOK
    <2> QED
      BY <1>1, <2>1, <2>3, <2>4, <2>5, <2>6 DEF VmOK
  <1>12. m.of = t /\ m.fate = (IF pc = "interrupted" THEN "slipped" ELSE "unlisted")
            => VmOK(m)'
    <2>1. Started(t)' /\ m.port < port' /\ in'[t].port = m.port
      BY <1>1, <1>2, <1>3 DEF Started
    <2>2. \A u \in Tests : Started(u)' /\ in'[u].port = m.port => t = u
      BY <1>2, <1>3, <1>9, <1>10
    <2> QED
      BY <1>1, <1>3, <1>6, <2>1, <2>2 DEF VmOK, Going
  <1>13. /\ \A u \in Tests : Started(u)' => in'[u].port < port'
         /\ \A u, w \in Tests : Started(u)' /\ Started(w)' /\ u # w
                                   => in'[u].port # in'[w].port
    <2>1. \A u \in Tests \ {t} : Started(u)' => in'[u].port = in[u].port /\ in[u].port < port
                                                  /\ in[u].port \in Nat
      BY <1>3, <1>9, <1>10
    <2>2. in'[t].port = port
      BY <1>2, <1>3
    <2>3. \A u, w \in Tests \ {t} : Started(u)' /\ Started(w)' /\ u # w
                                   => in'[u].port # in'[w].port
      BY <1>10, <2>1 DEF WorkInv, MachinesOK
    <2> QED
      BY <1>1, <2>1, <2>2, <2>3
  <1>14. \A u \in Tests : Booted(u)' => in'[u].of = u \/ in'[u].fate = "old"
    BY <1>3, <1>10 DEF WorkInv, MachinesOK, Booted
  <1>15. MachinesOK'
    <2>1. \A v \in vms' : VmOK(v)'
      BY <1>2, <1>11, <1>12
    <2> QED
      BY <1>13, <1>14, <2>1 DEF MachinesOK
  <1> QED
    BY <1>4, <1>5, <1>7, <1>15 DEF WorkInv

\* What leaves the machines, and those a test has started, as they are, may only move
\* the counter on.
LEMMA MachinesStay ==
    ASSUME WorkInv, port \in Nat, port' \in Nat, port' >= port, vms' \subseteq vms,
           pc' = pc, in' = in \/ \E t \in Tests : ~Started(t) /\ in' = [in EXCEPT ![t] = NoVm],
           \A t \in Tests : \/ task'[t] = task[t]
                            \/ ~Started(t) /\ ~Started(t)' /\ ~Booted(t)'
    PROVE  MachinesOK'
  <1>1. \A t \in Tests : /\ Started(t)' <=> Started(t)
                         /\ Booted(t)' => Booted(t) /\ Started(t)
    BY DEF Started, Booted
  <1>2. \A t \in Tests : Started(t) => in'[t] = in[t]
    BY DEF WorkInv, TestsTyped
  <1>3. \A v \in vms : v.port \in Nat
    BY DEF WorkInv, VmsTyped, Vm
  <1>4. ASSUME NEW v \in vms
        PROVE  VmOK(v)'
    <2>1. VmOK(v) /\ v.port \in Nat
      BY <1>3 DEF WorkInv, MachinesOK
    <2>2. v.fate = "unlisted" => task'[v.of] = task[v.of]
      BY <2>1 DEF VmOK
    <2> QED
      BY <1>1, <1>2, <2>1, <2>2 DEF VmOK
  <1>5. \A t \in Tests : in[t].port \in Nat
    BY DEF WorkInv, TestsTyped, Vm
  <1> QED
    BY <1>1, <1>2, <1>4, <1>5 DEF WorkInv, MachinesOK

LEMMA FailToBootWork ==
    ASSUME WorkInv, port \in Nat, NEW t \in Tests, FailToBoot(t)
    PROVE  WorkInv'
  <1>1. /\ task' = [task EXCEPT ![t] = "done"] /\ in' = [in EXCEPT ![t] = NoVm]
        /\ vms' = vms \ Own(t) /\ UNCHANGED <<pc, todo, permits, budget>>
    BY DEF FailToBoot
  <1>2. CASE task[t] = "waiting" /\ port' = port
    BY <1>1, <1>2, GoneWork DEF Started
  <1>3. CASE task[t] = "starting" /\ port' = port + 1
    <2>1. TestsTyped' /\ VmsTyped'
      BY <1>1, NoVmTyped DEF WorkInv, TestsTyped, VmsTyped
    <2>2. /\ task'[t] = "done" /\ \A u \in Tests \ {t} : task'[u] = task[u]
      BY <1>1 DEF WorkInv, TestsTyped
    <2>3. TasksOK'
      <3>1. \A i \in DOMAIN todo : todo[i] \in Tests /\ todo[i] # t
        BY <1>3 DEF WorkInv, TasksOK, TestsTyped
      <3>2. Running' \subseteq Running
        BY <2>2 DEF Running
      <3> QED
        BY <1>1, <2>2, <3>1, <3>2 DEF WorkInv, TasksOK, Going
    <2>4. ~Started(t) /\ ~Started(t)' /\ ~Booted(t)'
      BY <1>3, <2>2 DEF Started, Booted
    <2>5. MachinesOK'
      <3>1. \A u \in Tests : \/ task'[u] = task[u]
                             \/ ~Started(u) /\ ~Started(u)' /\ ~Booted(u)'
        BY <2>2, <2>4
      <3>2. port' \in Nat /\ port' >= port /\ vms' \subseteq vms /\ pc' = pc
        BY <1>1, <1>3
      <3>3. \E u \in Tests : ~Started(u) /\ in' = [in EXCEPT ![u] = NoVm]
        BY <1>1, <2>4
      <3> QED
        BY <3>1, <3>2, <3>3, MachinesStay
    <2> QED
      BY <2>1, <2>3, <2>5 DEF WorkInv
  <1> QED
    BY <1>2, <1>3 DEF FailToBoot, NextPort

LEMMA DestroyedWork ==
    ASSUME WorkInv, NEW t \in Tests, Destroyed(t)
    PROVE  WorkInv'
  BY GoneWork DEF Destroyed, run, Started

\* The steps of the run as a whole.
LEMMA StartRunWork ==
    ASSUME WorkInv, NEW sel \in Selections, StartRun(sel)
    PROVE  WorkInv'
  <1>1. /\ todo' = sel /\ task' = [t \in Tests |-> "none"] /\ in' = [t \in Tests |-> NoVm]
        /\ pc' = "raw" /\ budget' = Unknown /\ permits' = 1
        /\ vms' = {[v EXCEPT !.fate = "old"] : v \in vms}
    BY DEF StartRun
  <1>2. TestsTyped'
    BY <1>1, NoVmTyped, SelectionsMatch, TestVmsConstants DEF WorkInv, TestsTyped
  <1> DEFINE f(v) == [v EXCEPT !.fate = "old"]
             g == [v \in vms |-> f(v)]
  <1>3. \A v \in vms : f(v) \in Vm /\ f(v).fate = "old" /\ f(v).port = v.port
    BY DEF WorkInv, VmsTyped, Vm
  <1>4. vms' = {f(v) : v \in vms}
    BY <1>1
  <1> HIDE DEF f
  <1>5. /\ g \in [vms -> Vm] /\ (\A v \in vms : g[v].port = v.port)
        /\ vms' \subseteq {g[v] : v \in vms}
    BY <1>3, <1>4
  <1> HIDE DEF g
  <1>6. VmsTyped'
    BY <1>5, Relabelled DEF WorkInv
  <1>7. \A t \in Tests : task'[t] = "none"
    BY <1>1
  <1>8. TasksOK'
    BY <1>1, <1>7, SelectionsMatch DEF TasksOK, Running
  <1>9. MachinesOK'
    <2>1. \A v \in vms' : v.fate = "old"
      BY <1>3, <1>4
    <2> QED
      BY <1>7, <2>1 DEF MachinesOK, VmOK, Started, Booted
  <1> QED
    BY <1>2, <1>6, <1>8, <1>9 DEF WorkInv

LEMMA SpawnWork ==
    ASSUME WorkInv, port \in Nat, SpawnTask
    PROVE  WorkInv'
  <1>0. PICK t \in Tests : t = Head(todo) /\ todo # << >>
    BY DEF SpawnTask, WorkInv, TestsTyped
  <1>1. /\ todo \in Seq(Tests) /\ t = todo[1]
        /\ Tail(todo) \in Seq(Tests) /\ DOMAIN Tail(todo) = 1..(Len(todo) - 1)
        /\ DOMAIN todo = 1..Len(todo) /\ Len(todo) \in Nat \ {0}
        /\ \A i \in 1..(Len(todo) - 1) : Tail(todo)[i] = todo[i + 1]
    BY <1>0 DEF WorkInv, TestsTyped
  <1>2. task[t] = "none" /\ \A i \in DOMAIN Tail(todo) : Tail(todo)[i] # t
    BY <1>1 DEF WorkInv, TasksOK
  <1>3. /\ task' = [task EXCEPT ![t] = "starting"] /\ Going /\ todo' = Tail(todo)
        /\ UNCHANGED <<vms, in, pc, port, permits, budget>>
    BY <1>0 DEF SpawnTask, run
  <1>4. TestsTyped' /\ VmsTyped'
    BY <1>1, <1>3 DEF WorkInv, TestsTyped, VmsTyped
  <1>5. task'[t] = "starting" /\ \A u \in Tests \ {t} : task'[u] = task[u]
    BY <1>1, <1>3 DEF WorkInv, TestsTyped
  <1>6. TasksOK'
    <2>1. \A i \in DOMAIN todo' :
             i + 1 \in DOMAIN todo /\ todo'[i] = todo[i + 1] /\ todo'[i] \in Tests
      BY <1>1, <1>3
    <2>2. \A i, j \in DOMAIN todo' : i # j => todo'[i] # todo'[j]
      BY <1>1, <1>3, <2>1 DEF WorkInv, TasksOK
    <2>3. \A i \in DOMAIN todo' : task'[todo'[i]] = "none"
      BY <1>2, <1>3, <1>5, <2>1 DEF WorkInv, TasksOK
    <2> QED
      BY <1>3, <2>2, <2>3 DEF TasksOK, Going
  <1>7. ~Started(t) /\ ~Started(t)' /\ ~Booted(t)'
    BY <1>2, <1>5 DEF Started, Booted
  <1>8. MachinesOK'
    <2>1. \A u \in Tests : \/ task'[u] = task[u]
                           \/ ~Started(u) /\ ~Started(u)' /\ ~Booted(u)'
      BY <1>5, <1>7
    <2>2. port' \in Nat /\ port' >= port /\ vms' \subseteq vms /\ pc' = pc /\ in' = in
      BY <1>3
    <2> QED
      BY <2>1, <2>2, MachinesStay
  <1> QED
    BY <1>4, <1>6, <1>8 DEF WorkInv

\* Once a run is over, what is alive is kept or left.
LEMMA EndWork ==
    ASSUME WorkInv, pc' = "idle", VmsTyped', UNCHANGED port,
           \A v \in vms' : v.fate \in {"kept", "old"} /\ (v.fate # "old" => v.port < port),
           \/ UNCHANGED <<todo, task, in>> /\ Running = {}
           \/ Stopped,
           UNCHANGED <<permits, budget>>
    PROVE  WorkInv'
  <1>1. TestsTyped'
    <2>1. CASE UNCHANGED <<todo, task, in>>
      BY <2>1 DEF WorkInv, TestsTyped
    <2>2. CASE Stopped
      BY <2>2, NoVmTyped DEF WorkInv, TestsTyped, Stopped
    <2> QED
      BY <2>1, <2>2
  <1>2. Running' = {} /\ \A t \in Tests : ~Started(t)' /\ ~Booted(t)'
    BY DEF Running, Started, Booted, Stopped
  <1>3. TasksOK'
    BY <1>2 DEF WorkInv, TasksOK, Stopped
  <1>4. MachinesOK'
    BY <1>2 DEF MachinesOK, VmOK
  <1> QED
    BY <1>1, <1>3, <1>4 DEF WorkInv

LEMMA EndRunWork ==
    ASSUME WorkInv, EndRun
    PROVE  WorkInv'
  <1>1. /\ pc = "testing" /\ Running = {} /\ pc' = "idle"
        /\ UNCHANGED <<vms, port, todo, task, in, permits, budget>>
    BY DEF EndRun, Abandon, testVars
  <1>2. \A v \in vms : v.fate \in {"kept", "old"} /\ (v.fate # "old" => v.port < port)
    <2> SUFFICES ASSUME NEW v \in vms
                 PROVE  v.fate \in {"kept", "old"} /\ (v.fate # "old" => v.port < port)
      OBVIOUS
    <2>1. VmOK(v) /\ v \in Vm
      BY DEF WorkInv, MachinesOK, VmsTyped
    <2>2. \A t \in Tests : ~Started(t)
      BY <1>1 DEF Running, Started
    <2> QED
      BY <1>1, <2>1, <2>2 DEF VmOK, Vm
  <1>3. VmsTyped'
    BY <1>1 DEF WorkInv, VmsTyped
  <1> QED
    BY <1>1, <1>2, <1>3, EndWork

\* The handler takes what is on the list, and misses what is not there.
LEMMA InterruptWork ==
    ASSUME WorkInv, Interrupt
    PROVE  WorkInv'
  <1>1. /\ pc = "testing" /\ pc' = "interrupted" /\ vms' = {Taken(v) : v \in vms}
        /\ UNCHANGED <<port, todo, task, in, permits, budget>>
    BY DEF Interrupt, testVars
  <1> DEFINE g == [v \in vms |-> Taken(v)]
  <1>2. \A v \in vms :
           /\ Taken(v) \in Vm /\ Taken(v).port = v.port /\ Taken(v).of = v.of
           /\ Taken(v).fate = IF v.fate = "listed" THEN "doomed"
                              ELSE IF v.fate = "unlisted" THEN "slipped" ELSE v.fate
    <2> SUFFICES ASSUME NEW v \in vms
                 PROVE  /\ Taken(v) \in Vm /\ Taken(v).port = v.port /\ Taken(v).of = v.of
                        /\ Taken(v).fate = IF v.fate = "listed" THEN "doomed"
                                           ELSE IF v.fate = "unlisted" THEN "slipped" ELSE v.fate
      OBVIOUS
    <2>1. v \in Vm /\ (v.fate = "unlisted" => task[v.of] \in {"spawned", "stopping"})
      BY DEF WorkInv, VmsTyped, MachinesOK, VmOK
    <2> QED
      BY <2>1 DEF Taken, Vm
  <1>3. VmsTyped'
    <2>1. /\ g \in [vms -> Vm] /\ (\A v \in vms : g[v].port = v.port)
          /\ vms' \subseteq {g[v] : v \in vms}
      BY <1>1, <1>2
    <2> HIDE DEF g
    <2> QED
      BY <2>1, Relabelled DEF WorkInv
  <1>4. TestsTyped' /\ TasksOK'
    BY <1>1 DEF WorkInv, TestsTyped, TasksOK, Going, Running
  <1>5. ASSUME NEW w \in vms'
        PROVE  VmOK(w)'
    <2>1. PICK v \in vms : w = Taken(v)
      BY <1>1
    <2>2. VmOK(v) /\ v \in Vm
      BY DEF WorkInv, MachinesOK, VmsTyped
    <2>3. w.fate \in {"doomed", "slipped", "kept", "old"} /\ (v.fate = "old" <=> w.fate = "old")
          /\ w.port = v.port /\ w.of = v.of
      BY <1>1, <1>2, <2>1, <2>2 DEF VmOK, Vm
    <2>4. \A t \in Tests : Started(t)' <=> Started(t)
      BY <1>1 DEF Started
    <2> QED
      BY <1>1, <2>2, <2>3, <2>4 DEF VmOK
  <1>6. MachinesOK'
    BY <1>1, <1>5 DEF WorkInv, MachinesOK, Started, Booted
  <1> QED
    BY <1>3, <1>4, <1>6 DEF WorkInv

LEMMA KillAndExitWork ==
    ASSUME WorkInv, KillAndExit
    PROVE  WorkInv'
  <1>1. /\ pc = "interrupted" /\ pc' = "idle" /\ Stopped
        /\ vms' = {Missed(v) : v \in {w \in vms : w.fate # "doomed"}}
        /\ UNCHANGED <<port, permits, budget>>
    BY DEF KillAndExit, Abandon
  <1> DEFINE g == [v \in vms |-> Missed(v)]
  <1>2. \A v \in vms :
           /\ Missed(v) \in Vm /\ Missed(v).port = v.port
           /\ Missed(v).fate = IF v.fate = "slipped" THEN "old" ELSE v.fate
    BY DEF WorkInv, VmsTyped, Missed, Vm
  <1>3. VmsTyped'
    <2>1. /\ g \in [vms -> Vm] /\ (\A v \in vms : g[v].port = v.port)
          /\ vms' \subseteq {g[v] : v \in vms}
      BY <1>1, <1>2
    <2> HIDE DEF g
    <2> QED
      BY <2>1, Relabelled DEF WorkInv
  <1>4. \A w \in vms' : w.fate \in {"kept", "old"} /\ (w.fate # "old" => w.port < port)
    <2> SUFFICES ASSUME NEW v \in vms, v.fate # "doomed"
                 PROVE  /\ Missed(v).fate \in {"kept", "old"}
                        /\ Missed(v).fate # "old" => Missed(v).port < port
      BY <1>1
    <2>1. VmOK(v) /\ v \in Vm
      BY DEF WorkInv, MachinesOK, VmsTyped
    <2>2. v.fate \in {"slipped", "kept", "old"}
      BY <1>1, <2>1 DEF VmOK, Vm
    <2> QED
      BY <1>2, <2>1, <2>2 DEF VmOK
  <1> QED
    BY <1>1, <1>3, <1>4, EndWork

LEMMA KilledWork ==
    ASSUME WorkInv, Killed
    PROVE  WorkInv'
  <1> DEFINE f(v) == [v EXCEPT !.fate = "old"]
             g == [v \in vms |-> f(v)]
  <1>1. \A v \in vms : f(v) \in Vm /\ f(v).fate = "old" /\ f(v).port = v.port
    BY DEF WorkInv, VmsTyped, Vm
  <1>2. vms' = {f(v) : v \in vms}
    BY DEF Killed
  <1> HIDE DEF f
  <1>3. /\ g \in [vms -> Vm] /\ (\A v \in vms : g[v].port = v.port)
        /\ vms' \subseteq {g[v] : v \in vms}
    BY <1>1, <1>2
  <1> HIDE DEF g
  <1>4. VmsTyped'
    BY <1>3, Relabelled DEF WorkInv
  <1>5. \A v \in vms' : v.fate = "old"
    BY <1>1, <1>2
  <1> QED
    BY <1>4, <1>5, EndWork DEF Killed, Abandon

LEMMA PlanWork ==
    ASSUME WorkInv, Plan
    PROVE  WorkInv'
  <1>1. /\ ~Going /\ TestsIn(todo) \subseteq Tests /\ pc' = "testing"
        /\ permits' = PlanFor(TestsIn(todo), budget')
        /\ UNCHANGED <<port, vms, todo, task, in>>
    BY DEF Plan, Cached, WorkInv, TestsTyped, TestsIn, Going
  <1>2. permits' \in 1..Parallel
    BY <1>1, PlanIs
  <1>3. budget' \in Nat \cup {Unknown}
    BY TestVmsConstants DEF Plan, BudgetOf, Reserve
  <1>4. TestsTyped' /\ VmsTyped'
    BY <1>1, <1>2, <1>3 DEF WorkInv, TestsTyped, VmsTyped
  <1>5. TasksOK'
    BY <1>1 DEF WorkInv, TasksOK, Running, Going
  <1>6. MachinesOK'
    <2>1. \A v \in vms : v.fate \in {"kept", "old"} /\ (v.fate # "old" => v.port < port)
      BY <1>1, Quiet DEF WorkInv, MachinesOK, VmOK
    <2>2. \A t \in Tests : ~Started(t)' /\ ~Booted(t)'
      BY <1>1, Quiet DEF Started, Booted
    <2> QED
      BY <1>1, <2>1, <2>2 DEF MachinesOK, VmOK
  <1> QED
    BY <1>4, <1>5, <1>6 DEF WorkInv

LEMMA StopLeftWork ==
    ASSUME WorkInv, StopLeft
    PROVE  WorkInv'
  <1>1. vms' \subseteq vms /\ UNCHANGED <<pc, port, todo, permits, budget, task, in>>
    BY DEF StopLeft, run, testVars
  <1>2. VmsTyped' /\ TestsTyped' /\ TasksOK'
    BY <1>1 DEF WorkInv, VmsTyped, TestsTyped, TasksOK, Running, Going
  <1>3. MachinesOK'
    BY <1>1 DEF WorkInv, MachinesOK, VmOK, Started, Booted
  <1> QED
    BY <1>2, <1>3 DEF WorkInv

\* The steps of one test.
TestStep(t) ==
    \/ SpawnVm(t) \/ RegisterVm(t) \/ Boot(t) \/ FailToBoot(t) \/ SetUp(t)
    \/ FailToSetUp(t) \/ KeepVm(t) \/ EndTest(t) \/ Destroyed(t)

LEMMA TestWork ==
    ASSUME WorkInv, port \in Nat, NEW t \in Tests, TestStep(t)
    PROVE  WorkInv'
  <1>1. CASE SpawnVm(t) \/ RegisterVm(t) \/ Boot(t) \/ FailToBoot(t) \/ SetUp(t)
    BY <1>1, SpawnVmWork, RegisterVmWork, BootWork, FailToBootWork, SetUpWork
  <1>2. CASE FailToSetUp(t) \/ EndTest(t)
    BY <1>2, DestroyWork DEF FailToSetUp, EndTest, Booted
  <1>3. CASE KeepVm(t) \/ Destroyed(t)
    BY <1>3, KeepVmWork, DestroyedWork
  <1> QED
    BY <1>1, <1>2, <1>3 DEF TestStep

\* The machines are as they should be after any step.
LEMMA WorkSteps ==
    ASSUME Inv, Next
    PROVE  WorkInv'
  <1>0. WorkInv /\ RunTyped /\ port \in Nat
    BY DEF Inv, WorkInv, RunTyped
  <1>1. CASE (Publish \/ Prepare) /\ UNCHANGED testVars
    BY <1>0, <1>1, CacheWork
  <1>2. CASE \E sel \in Selections : StartRun(sel)
    BY <1>0, <1>2, StartRunWork
  <1>3. CASE Plan
    BY <1>0, <1>3, PlanWork
  <1>4. CASE SpawnTask
    BY <1>0, <1>4, SpawnWork
  <1>5. CASE EndRun \/ Interrupt \/ KillAndExit \/ Killed
    BY <1>0, <1>5, EndRunWork, InterruptWork, KillAndExitWork, KilledWork
  <1>6. CASE StopLeft
    BY <1>0, <1>6, StopLeftWork
  <1>7. CASE \E t \in Tests : TestStep(t)
    BY <1>0, <1>7, TestWork
  <1> QED
    BY <1>1, <1>2, <1>3, <1>4, <1>5, <1>6, <1>7 DEF Next, TestStep
-----------------------------------------------------------------------------
(***************************************************************************)
(* The permits: all the tests that are at work are of one selection, the   *)
(* one the plan was made for, and there are no more of them than it says.  *)
(***************************************************************************)

LEMMA RunningIsFinite ==
    IsFiniteSet(Running) /\ Cardinality(Running) \in Nat
  <1>1. Running \subseteq Tests
    BY DEF Running
  <1> QED
    BY <1>1, TestVmsConstants, FS_Subset, FS_CardinalityType

\* What ends a test's work, or leaves it where it was, frees permits or none.
LEMMA FewerRun ==
    ASSUME PlanOK, TestsTyped, Going, Running' \subseteq Running,
           UNCHANGED <<pc, todo, permits, budget>>
    PROVE  PlanOK'
  <1>1. PICK sel \in Selections :
             /\ permits = PlanFor(TestsIn(sel), budget)
             /\ TestsIn(todo) \cup Running \subseteq TestsIn(sel)
             /\ Cardinality(Running) <= permits
    BY DEF PlanOK
  <1>2. Cardinality(Running') <= Cardinality(Running) /\ Cardinality(Running') \in Nat
    BY RunningIsFinite, FS_Subset, FS_CardinalityType
  <1>3. Cardinality(Running') <= permits
    BY <1>1, <1>2, RunningIsFinite, TestVmsConstants DEF TestsTyped
  <1> QED
    BY <1>1, <1>3 DEF PlanOK, Going

LEMMA TestPlan ==
    ASSUME Inv, NEW t \in Tests, TestStep(t)
    PROVE  PlanOK'
  <1>1. t \in Running /\ UNCHANGED <<pc, todo, permits, budget>>
    BY DEF TestStep, SpawnVm, RegisterVm, Boot, FailToBoot, SetUp, FailToSetUp, KeepVm,
           EndTest, Destroyed, Destroy, Running, run
  <1>2. Going
    BY <1>1 DEF Inv, TasksOK
  <1>3. \A u \in Tests \ {t} : task'[u] = task[u]
    BY DEF TestStep, SpawnVm, RegisterVm, Boot, FailToBoot, SetUp, FailToSetUp, KeepVm,
           EndTest, Destroyed, Destroy, Inv, TestsTyped
  <1>4. Running' \subseteq Running
    BY <1>1, <1>3 DEF Running
  <1> QED
    BY <1>1, <1>2, <1>4, FewerRun DEF Inv

\* A test is spawned when there is a permit for it.
LEMMA SpawnPlan ==
    ASSUME Inv, SpawnTask
    PROVE  PlanOK'
  <1> DEFINE t == Head(todo)
  <1>1. /\ todo \in Seq(Tests) /\ t \in Tests /\ t \in TestsIn(todo)
        /\ TestsIn(Tail(todo)) \subseteq TestsIn(todo)
    <2>1. /\ todo \in Seq(Tests) /\ todo # << >> /\ Len(todo) \in Nat \ {0}
          /\ DOMAIN todo = 1..Len(todo)
      BY DEF SpawnTask, Inv, TestsTyped
    <2>2. /\ t = todo[1] /\ DOMAIN Tail(todo) = 1..(Len(todo) - 1)
          /\ \A i \in 1..(Len(todo) - 1) : Tail(todo)[i] = todo[i + 1]
      BY <2>1
    <2> QED
      BY <2>1, <2>2 DEF TestsIn
  <1>2. /\ Going /\ Going' /\ Cardinality(Running) < permits
        /\ todo' = Tail(todo) /\ task' = [task EXCEPT ![t] = "starting"]
        /\ UNCHANGED <<permits, budget>>
    BY DEF SpawnTask, Going, run
  <1> HIDE DEF t
  <1>3. Running' \subseteq Running \cup {t}
    BY <1>1, <1>2 DEF Running, Inv, TestsTyped
  <1>4. Cardinality(Running') <= permits
    <2>1. /\ IsFiniteSet(Running \cup {t})
          /\ Cardinality(Running \cup {t}) \in Nat
          /\ Cardinality(Running \cup {t}) <= Cardinality(Running) + 1
      BY RunningIsFinite, FS_AddElement, FS_CardinalityType
    <2>2. /\ Cardinality(Running') <= Cardinality(Running \cup {t})
          /\ Cardinality(Running') \in Nat
      BY <1>3, <2>1, FS_Subset, FS_CardinalityType
    <2>3. permits \in Nat /\ Cardinality(Running) \in Nat
      BY RunningIsFinite, TestVmsConstants DEF Inv, TestsTyped
    <2> QED
      BY <1>2, <2>1, <2>2, <2>3
  <1>5. PICK sel \in Selections :
             /\ permits = PlanFor(TestsIn(sel), budget)
             /\ TestsIn(todo) \cup Running \subseteq TestsIn(sel)
    BY <1>2 DEF Inv, PlanOK
  <1>6. TestsIn(todo') \cup Running' \subseteq TestsIn(sel)
    BY <1>1, <1>2, <1>3, <1>5
  <1> QED
    BY <1>2, <1>4, <1>5, <1>6 DEF PlanOK

LEMMA PlanPlan ==
    ASSUME Inv, Plan
    PROVE  PlanOK'
  <1>1. /\ pc # "idle" /\ ~Going /\ pc' = "testing"
        /\ permits' = PlanFor(TestsIn(todo), budget') /\ UNCHANGED <<todo, task>>
    BY DEF Plan, Cached, Going
  <1>2. todo \in Selections /\ Running = {} /\ Running' = {}
    BY <1>1 DEF Inv, PlanOK, TasksOK, Running
  <1>3. permits' \in 1..Parallel
    BY PlanWork DEF Inv, WorkInv, TestsTyped
  <1>4. Cardinality(Running') <= permits'
    BY <1>2, <1>3, FS_EmptySet
  <1> QED
    BY <1>1, <1>2, <1>4 DEF PlanOK, Going

LEMMA PlanSteps ==
    ASSUME Inv, Next
    PROVE  PlanOK'
  <1>1. CASE (Publish \/ Prepare) /\ UNCHANGED testVars
    <2>1. ~Going' /\ ~Going /\ (pc' # "idle" => pc # "idle") /\ todo' = todo
      BY <1>1, CacheMachines DEF Inv, testVars
    <2> QED
      BY <2>1 DEF Inv, PlanOK
  <1>2. CASE \E sel \in Selections : StartRun(sel)
    BY <1>2 DEF StartRun, PlanOK, Going
  <1>3. CASE Plan
    BY <1>3, PlanPlan
  <1>4. CASE SpawnTask
    BY <1>4, SpawnPlan
  <1>5. CASE EndRun \/ KillAndExit \/ Killed \/ StopLeft
    BY <1>5 DEF EndRun, KillAndExit, Killed, StopLeft, Abandon, run, PlanOK, Going
  <1>6. CASE Interrupt
    BY <1>6 DEF Interrupt, testVars, Inv, PlanOK, Going, Running
  <1>7. CASE \E t \in Tests : TestStep(t)
    BY <1>7, TestPlan
  <1> QED
    BY <1>1, <1>2, <1>3, <1>4, <1>5, <1>6, <1>7 DEF Next, TestStep
-----------------------------------------------------------------------------
(***************************************************************************)
(* The invariant, and what follows from it.                                *)
(***************************************************************************)

LEMMA InitInv == Init => Inv
  <1> SUFFICES ASSUME Init
               PROVE  Inv
    OBVIOUS
  <1> USE DEF Init, CacheInit
  <1>1. FilesTyped
    BY ImageCacheConstants DEF FilesTyped, NoImage, NoSnapshot, Kinds
  <1>2. RunTyped
    BY ImageCacheConstants DEF RunTyped, Phases, Kinds, FirstPort, Nothing
  <1>3. VmsTyped
    BY DEF VmsTyped
  <1>4. TestsTyped
    BY TestVmsConstants, NoVmTyped DEF TestsTyped
  <1>5. Progress
    BY DEF Progress, Going
  <1>6. Named
    BY DEF Named, NoSnapshot
  <1>7. CacheOK
    BY DEF CacheOK, Unspoilt, NoImage, NoSnapshot
  <1>8. TasksOK
    BY DEF TasksOK, Running
  <1>9. MachinesOK
    BY DEF MachinesOK, Started, Booted
  <1>10. PlanOK
    BY DEF PlanOK, Going
  <1> QED
    BY <1>1, <1>2, <1>3, <1>4, <1>5, <1>6, <1>7, <1>8, <1>9, <1>10 DEF Inv

LEMMA NextInv == Inv /\ [Next]_vars => Inv'
  <1> SUFFICES ASSUME Inv, [Next]_vars
               PROVE  Inv'
    OBVIOUS
  <1>1. CASE Next
    BY <1>1, CacheSteps, WorkSteps, PlanSteps DEF Inv, CacheInv, WorkInv
  <1>2. CASE UNCHANGED vars
    <2> USE <1>2 DEF vars, cacheVars, testVars, files, run
    <2>1. FilesTyped' /\ RunTyped' /\ VmsTyped' /\ TestsTyped'
      BY DEF Inv, FilesTyped, RunTyped, VmsTyped, TestsTyped
    <2>2. Progress' /\ Named' /\ CacheOK'
      BY DEF Inv, Progress, Current, Named, CacheOK, Unspoilt, Going
    <2>3. TasksOK' /\ MachinesOK' /\ PlanOK'
      BY DEF Inv, TasksOK, MachinesOK, VmOK, PlanOK, Running, Going, Started, Booted
    <2> QED
      BY <2>1, <2>2, <2>3 DEF Inv
  <1> QED
    BY <1>1, <1>2

LEMMA SpecInv == Spec => []Inv
  BY InitInv, NextInv, PTL DEF Spec

\* The variables keep their types, there is always a permit to take, and no two of
\* the processes alive listen on one port, whatever fails.
THEOREM TypeCorrect == Spec => []TypeOK
  <1>1. Inv => TypeOK
    BY DEF Inv, FilesTyped, RunTyped, VmsTyped, TestsTyped, TypeOK
  <1> QED
    BY <1>1, SpecInv, PTL

\* Tests only start from an image of their kind that is whole and of the cloud image
\* on disk, from a snapshot that holds a state, has its three files and lies on that
\* image, and with every container image in the store; except for a kind that a
\* failure between two of the files' steps, a download, a redownload, the base image
\* it was built from or a stranger on the port has spoilt.
THEOREM ImagesSoundAlways == Spec => []ImagesSound
  <1>1. Inv => ImagesSound
    <2> SUFFICES ASSUME Inv, Going
                 PROVE  /\ wanted.containers \subseteq store
                        /\ \A k \in (IF wanted.browser THEN Kinds ELSE {"base"})
                                      \ doubtful :
                             /\ image[k].whole /\ image[k].of = raw
                             /\ k \in usable =>
                                  LET s == snap[k][wanted.size]
                                  IN s.ready /\ s.moved = 3 /\ s.on = image[k].id
      BY DEF ImagesSound
    <2>1. wanted.containers \subseteq store /\ wanted.size \in Sizes
      BY DEF Inv, Progress, RunTyped, Going
    <2>2. ASSUME NEW k \in (IF wanted.browser THEN Kinds ELSE {"base"}) \ doubtful
          PROVE  /\ image[k].whole /\ image[k].of = raw
                 /\ k \in usable =>
                      /\ snap[k][wanted.size].ready /\ snap[k][wanted.size].moved = 3
                      /\ snap[k][wanted.size].on = image[k].id
      <3>1. k \in Kinds /\ Unspoilt(k) /\ image[k].id # 0
        BY DEF Inv, CacheOK, Progress, RunTyped, Kinds, Going
      <3>2. k \in usable => snap[k][wanted.size].on # 0
        BY DEF Inv, Progress, Going
      <3> QED
        BY <2>1, <3>1, <3>2 DEF Unspoilt, Going
    <2> QED
      BY <2>1, <2>2
  <1> QED
    BY <1>1, SpecInv, PTL

\* The same sum of memory, whether the machines or the tests are asked for theirs.
LEMMA SumSame ==
    ASSUME NEW e, NEW f, NEW S, IsFiniteSet(S), \A x \in S : e[x] = f[x] /\ f[x] \in Nat
    PROVE  SumFunctionOnSet(e, S) = SumFunctionOnSet(f, S)
  <1> DEFINE g == CHOOSE g : Summing(g, e, S)
             h == CHOOSE h : Summing(h, f, S)
  <1>1. Summing(g, e, S) /\ Summing(h, f, S)
    BY SumExists
  <1>2. SumFunctionOnSet(e, S) = g[S] /\ SumFunctionOnSet(f, S) = h[S]
    BY SumIs
  <1> HIDE DEF g, h
  <1>3. Summing(g, f, S)
    <2>1. \A U \in SUBSET S : U # {} => e[Chosen(U)] = f[Chosen(U)]
      BY DEF Chosen
    <2>2. \A U \in SUBSET S : (IF U = {} THEN 0 ELSE e[Chosen(U)] + g[U \ {Chosen(U)}])
                                = (IF U = {} THEN 0 ELSE f[Chosen(U)] + g[U \ {Chosen(U)}])
      BY <2>1
    <2> QED
      BY <1>1, <2>2 DEF Summing
  <1>4. S \in SUBSET S
    OBVIOUS
  <1>5. \A U \in SUBSET S : g[U] = h[U] /\ g[U] \in Nat
    BY <1>1, <1>3, <1>4, SumWithin
  <1> QED
    BY <1>2, <1>4, <1>5

\* At no time do the machines that tests have started, and that are still there, have
\* more memory together than the budget, unless there is only one of them, or one was
\* restored from a snapshot that is larger than its test was counted with: whichever
\* of the run's tests they are, they need no more than as many of the largest, which
\* plan_parallelism has counted.
THEOREM PlanKeptAlways == Spec => []PlanKept
  <1>1. Inv => PlanKept
    <2> SUFFICES ASSUME Inv, budget # Unknown, Going,
                        \A t \in Manned : Ram[t] = MemoryFor[t]
                 PROVE  \/ Cardinality(Manned) <= 1
                        \/ SumFunctionOnSet(Ram, Manned) <= budget
      BY DEF PlanKept, Together
    <2>1. PICK sel \in Selections :
               /\ permits = PlanFor(TestsIn(sel), budget)
               /\ Running \subseteq TestsIn(sel) /\ Cardinality(Running) <= permits
      BY DEF Inv, PlanOK
    <2>2. TestsIn(sel) \subseteq Tests /\ budget \in Nat
      BY SelectionsMatch DEF TestsIn, Inv, TestsTyped
    <2>3. /\ Manned \subseteq Running /\ Manned \subseteq TestsIn(sel) /\ Manned \subseteq Tests
          /\ IsFiniteSet(Manned) /\ Cardinality(Manned) <= Cardinality(Running)
          /\ Cardinality(Manned) \in Nat
      <3>1. Manned \subseteq Running
        BY DEF Manned
      <3> QED
        BY <2>1, <2>2, <3>1, RunningIsFinite, FS_Subset, FS_CardinalityType
    <2>4. PlanFor(TestsIn(sel), budget) \in Nat
      BY <2>2, PlanIs, TestVmsConstants
    <2>5. Cardinality(Manned) <= PlanFor(TestsIn(sel), budget)
      BY <2>1, <2>3, <2>4, RunningIsFinite
    <2>6. SumFunctionOnSet(Ram, Manned) = SumFunctionOnSet(MemoryFor, Manned)
      BY <2>3, MemoryIsNat, SumSame
    <2> QED
      BY <2>2, <2>3, <2>5, <2>6, PlanKeeps
  <1> QED
    BY <1>1, SpecInv, PTL

\* A test whose commands reach a machine that is not its own reaches one an earlier
\* run has left, and no other test of this run is in it.
THEOREM StrangersAreOldAlways == Spec => []StrangersAreOld
  <1>1. Inv => StrangersAreOld
    BY DEF Inv, MachinesOK, StrangersAreOld, Booted, Started
  <1> QED
    BY <1>1, SpecInv, PTL

\* Between runs, what is alive was kept, or the process could not stop it: it was
\* killed, or interrupted while the machine was not on the list the handler reads.
THEOREM NoOrphansAlways == Spec => []NoOrphans
  <1>1. Inv => NoOrphans
    BY Quiet DEF Inv, WorkInv, NoOrphans, Going
  <1> QED
    BY <1>1, SpecInv, PTL
================================================================================
