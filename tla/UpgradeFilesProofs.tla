-------------------------- MODULE UpgradeFilesProofs --------------------------
(***************************************************************************)
(* Proofs about UpgradeFiles, for every set of files, every history of the *)
(* registry and any number of commands and edits.                          *)
(*                                                                         *)
(* Inv says of a running upgrade what its plan still knows of the disk     *)
(* (PlanInv: what it displaces is copied first; ExactInv: how the disk     *)
(* relates to `before` while nobody else changes a file), of a running     *)
(* revert that its plan leads back to `before`, and of the manifest that   *)
(* it is true of every file but for edits (GenuineInv).                    *)
(***************************************************************************)
EXTENDS UpgradeFiles, WellFoundedInduction, SequenceTheorems, TLAPS

Upgrading == kind = "upgrade"
Opened == Upgrading /\ pc # "open"

\* The manifest that the running upgrade started from.
Base == IF pc = "open" THEN manifest ELSE before.manifest

\* What the newest backup directory holds of a file.
Copy(f) == snapshots[1].saved[f]

\* Which sets are empty and what is recorded already at each step.
StageOK ==
    /\ kind = "revert" => pc = "write" /\ needs = {}
    /\ kind = "none" => todo = {} /\ needs = {} /\ gone = {}
    /\ pc \in {"manifest", "delete", "restart"} => todo = {}
    /\ pc = "restart" => gone = {}
    /\ last # "none" => kind = "none"
    /\ Upgrading =>
         /\ needs \subseteq todo \cup gone
         /\ \A f \in todo : plan.target[f] # Absent
         /\ \A f \in gone : plan.target[f] = Absent /\ Base[f] # Absent
         /\ pc \in {"delete", "restart"} => manifest = plan.target
         /\ pc \in {"write", "manifest"} => before.manifest = manifest
         /\ pc \in {"manifest", "delete", "restart"} =>
              snapshots[1].lock = << before.manifest >>
    /\ last = "upgrade" =>
         /\ manifest = plan.target
         /\ snapshots # << >> /\ snapshots[1].lock = << before.manifest >>

\* What ryra recorded or is about to record is never an edit, but for the
\* Caddyfile, which it takes over as it finds it.
Unedited(record) == \A f \in Files \ {Shared} : ~Edited(record[f])

OwnInv ==
    /\ Unedited(manifest) /\ Unedited(before.manifest)
    /\ Upgrading => Unedited(plan.target)
    /\ \A j \in DOMAIN plan.lock : Unedited(plan.lock[j])
    /\ \A i \in DOMAIN snapshots : \A j \in DOMAIN snapshots[i].lock :
          Unedited(snapshots[i].lock[j])

\* What the plan of a running upgrade still knows of the disk.
PlanInv ==
    Upgrading =>
      /\ \A f \in (todo \cup gone) \ needs :
           IF pc = "open" THEN disk[f] = Absent
           ELSE /\ before.disk[f] = Absent \/ Copy(f) # Absent
                /\ f \notin raced => disk[f] = Absent \/ Copy(f) = disk[f]
      /\ ~plan.forced =>
           \A f \in todo \ raced : Edited(disk[f]) => Edited(plan.target[f])
      /\ plan.env # {} => env \ raced \subseteq plan.env

\* Recorded and on disk, or neither, when the newest snapshot was opened.
Matching(f) == (before.disk[f] = Absent) = (before.manifest[f] = Absent)

\* While nothing but the command changes files: what is done is as planned,
\* what is to do is as it was.
ExactInv ==
    /\ exact /\ (Upgrading \/ last = "upgrade") =>
         \A f \in Files \ (todo \cup gone) :
            disk[f] = plan.target[f] \/ (plan.target[f] = Absent /\ Base[f] = Absent)
    /\ exact /\ (Opened \/ last = "upgrade") =>
         \A f \in Files :
            /\ Copy(f) # Absent => Copy(f) = before.disk[f]
            /\ f \in todo \cup gone => disk[f] = before.disk[f]
            /\ Copy(f) = Absent /\ before.disk[f] # Absent => disk[f] = before.disk[f]
            /\ plan.target[f] = Absent /\ before.manifest[f] = Absent =>
                  disk[f] = before.disk[f]
    /\ exact /\ kind = "revert" =>
         /\ \/ plan.lock = << before.manifest >>
            \/ plan.lock = << >> /\ manifest = before.manifest
         /\ \A f \in Files : Matching(f) =>
              IF f \in todo THEN plan.target[f] = before.disk[f] /\ f \notin gone
              ELSE IF f \in gone THEN before.disk[f] = Absent
              ELSE disk[f] = before.disk[f]
    /\ RevertUndoes

\* A file that is as recorded, or edited, or deleted, or not recorded.
Genuine(content, recorded) ==
    recorded # Absent /\ content # Absent => content = recorded \/ Edited(content)

\* The newest snapshot belongs to an upgrade that began with a manifest that
\* told the truth, and that is running or ran to its end.
Trusted == snapshots # << >> /\ ~before.mixed /\ (Opened \/ ~mixed)

GenuineInv ==
    /\ ~mixed /\ (kind = "none" \/ pc = "open") =>
         \A f \in Files \ {Shared} : Genuine(disk[f], manifest[f])
    /\ Upgrading =>
         \A f \in Files \ {Shared} : f \notin todo => Genuine(disk[f], plan.target[f])
    /\ ~mixed /\ snapshots # << >> /\ ~Opened => snapshots[1].lock = << before.manifest >>
    /\ Trusted =>
         \A f \in Files \ {Shared} :
            /\ Genuine(Copy(f), before.manifest[f])
            /\ f \in needs /\ Opened => Genuine(disk[f], before.manifest[f])
            /\ (Opened => f \notin needs) /\ Copy(f) = Absent /\ before.disk[f] # Absent =>
                 Genuine(disk[f], before.manifest[f])
    /\ ~mixed /\ kind = "revert" =>
         /\ snapshots # << >> /\ ~before.mixed
         /\ \/ plan.lock = << before.manifest >>
            \/ plan.lock = << >> /\ manifest = before.manifest
         /\ \A f \in Files \ {Shared} :
              Genuine(IF f \in todo THEN plan.target[f] ELSE disk[f], before.manifest[f])

Inv == TypeOK /\ StageOK /\ OwnInv /\ PlanInv /\ ExactInv /\ GenuineInv

-----------------------------------------------------------------------------
(***************************************************************************)
(* Removing blocks from the Caddyfile.  Unrouted is a recursive function:  *)
(* that it exists, and what it returns, is shown by a least counterexample *)
(* among the lengths.                                                      *)
(***************************************************************************)

\* A set of numbers has a least one.
LEMMA LeastExists ==
    ASSUME NEW S, S \subseteq Nat, S # {}
    PROVE  \E m \in S : \A k \in S : m <= k
  <1>1. PICK m \in S : \A k \in S : <<k, m>> \notin OpToRel(<, Nat)
    BY NatLessThanWellFounded, WFMin
  <1>2. \A k \in S : ~(k < m)
    BY <1>1 DEF OpToRel
  <1> QED
    BY <1>2

\* One more line.
LEMMA ToSetAppend ==
    ASSUME NEW S, NEW s \in Seq(S), NEW e \in S
    PROVE  ToSet(Append(s, e)) = ToSet(s) \cup {e}
  <1>1. /\ Len(s) \in Nat /\ DOMAIN s = 1 .. Len(s)
        /\ DOMAIN Append(s, e) = 1 .. Len(s) + 1
        /\ \A i \in 1 .. Len(s) : Append(s, e)[i] = s[i]
        /\ Append(s, e)[Len(s) + 1] = e
    BY AppendProperties, LenProperties
  <1>2. 1 .. Len(s) + 1 = (1 .. Len(s)) \cup {Len(s) + 1}
    BY <1>1
  <1> QED
    BY <1>1, <1>2, Zenon DEF ToSet

\* One step of Unrouted: `rest` without its line n, if that is the block.
Step(content, block, rest, n) ==
    IF n = 0 THEN << >>
    ELSE IF content[n] = block THEN rest[n - 1]
    ELSE Append(rest[n - 1], content[n])

\* The function that Unrouted is defined by exists.
LEMMA UnroutedExists ==
    ASSUME NEW content \in Content, NEW block, NEW N \in Nat
    PROVE  \E rest : rest = [n \in 0 .. N |-> Step(content, block, rest, n)]
  <1> DEFINE Good(k) == \E rest : rest = [n \in 0 .. k |-> Step(content, block, rest, n)]
             Bad == {k \in Nat : ~Good(k)}
  <1>1. SUFFICES ASSUME Bad # {} PROVE FALSE
    OBVIOUS
  <1>2. PICK k \in Bad : \A j \in Bad : k <= j
    <2>1. Bad \subseteq Nat
      OBVIOUS
    <2> HIDE DEF Bad
    <2> QED
      BY <1>1, <2>1, LeastExists
  <1>3. k # 0
    <2>1. [n \in 0 .. 0 |-> << >>]
            = [n \in 0 .. 0 |-> Step(content, block, [m \in 0 .. 0 |-> << >>], n)]
      BY DEF Step
    <2>2. Good(0)
      BY <2>1
    <2> QED
      BY <2>2
  <1>4. k - 1 \in Nat /\ k - 1 \notin Bad
    BY <1>2, <1>3
  <1>5. PICK rest : rest = [n \in 0 .. k - 1 |-> Step(content, block, rest, n)]
    BY <1>4
  <1> DEFINE more == [n \in 0 .. k |-> IF n = k THEN Step(content, block, rest, k) ELSE rest[n]]
  <1>6. \A n \in 0 .. k : more[n] = Step(content, block, more, n)
    <2> TAKE n \in 0 .. k
    <2>1. n # 0 => n - 1 \in 0 .. k - 1 /\ more[n - 1] = rest[n - 1]
      BY <1>4
    <2>2. Step(content, block, more, n) = Step(content, block, rest, n)
      BY <2>1 DEF Step
    <2>3. n # k => n \in 0 .. k - 1 /\ rest[n] = Step(content, block, rest, n)
      BY <1>4, <1>5
    <2> QED
      BY <2>2, <2>3
  <1>7. more = [n \in 0 .. k |-> Step(content, block, more, n)]
    BY <1>6
  <1>8. Good(k)
    BY <1>7
  <1> QED
    BY <1>8

\* Unrouted leaves out the block's lines and no other.
LEMMA UnroutedProperties ==
    ASSUME NEW content \in Content, NEW block
    PROVE  /\ Unrouted(content, block) \in Content
           /\ ToSet(Unrouted(content, block)) = ToSet(content) \ {block}
  <1> DEFINE N == Len(content)
             rest == CHOOSE r : r = [n \in 0 .. N |-> Step(content, block, r, n)]
             Upto(n) == {content[i] : i \in 1 .. n}
             Good(n) == rest[n] \in Content /\ ToSet(rest[n]) = Upto(n) \ {block}
             Bad == {n \in 0 .. N : ~Good(n)}
  <1>1. N \in Nat /\ \A i \in 1 .. N : content[i] \in Lines
    BY ElementOfSeq, LenProperties DEF Content
  <1>2. rest = [n \in 0 .. N |-> Step(content, block, rest, n)]
    BY <1>1, UnroutedExists
  <1>3. Unrouted(content, block) = rest[N]
    BY DEF Unrouted, Step
  <1> HIDE DEF rest
  <1>4. Good(0)
    <2>1. rest[0] = << >>
      BY <1>1, <1>2 DEF Step
    <2> QED
      BY <2>1 DEF Content, ToSet
  <1>5. ASSUME NEW n \in 1 .. N, Good(n - 1)
        PROVE  Good(n)
    <2>1. rest[n] = Step(content, block, rest, n) /\ n # 0 /\ n \in Nat
      BY <1>1, <1>2
    <2>2. Upto(n) = Upto(n - 1) \cup {content[n]}
      BY <1>1
    <2>3. CASE content[n] = block
      BY <1>5, <2>1, <2>2, <2>3 DEF Step
    <2>4. CASE content[n] # block
      <3>1. rest[n] = Append(rest[n - 1], content[n])
        BY <2>1, <2>4 DEF Step
      <3>2. rest[n - 1] \in Seq(Lines) /\ content[n] \in Lines
        BY <1>1, <1>5 DEF Content
      <3>3. rest[n] \in Content
        BY <3>1, <3>2, AppendProperties DEF Content
      <3>4. ToSet(rest[n]) = ToSet(rest[n - 1]) \cup {content[n]}
        BY <3>1, <3>2, ToSetAppend
      <3> QED
        BY <1>5, <2>2, <2>4, <3>3, <3>4
    <2> QED
      BY <2>3, <2>4
  <1> HIDE DEF Good
  <1>6. Bad = {}
    <2>1. SUFFICES ASSUME Bad # {} PROVE FALSE
      OBVIOUS
    <2>2. PICK n \in Bad : \A j \in Bad : n <= j
      <3>1. Bad \subseteq Nat
        OBVIOUS
      <3> HIDE DEF Bad
      <3> QED
        BY <2>1, <3>1, LeastExists
    <2>3. n \in 0 .. N /\ n # 0
      BY <1>4
    <2>4. n - 1 \in 0 .. N /\ n - 1 \notin Bad /\ n \in 1 .. N
      BY <1>1, <2>2, <2>3
    <2>5. Good(n - 1)
      BY <2>4
    <2> QED
      BY <1>5, <2>4, <2>5
  <1>7. Good(N)
    BY <1>1, <1>6
  <1>8. Upto(N) = ToSet(content)
    BY LenProperties DEF Content, ToSet
  <1> QED
    BY <1>3, <1>7, <1>8 DEF Good

-----------------------------------------------------------------------------
(***************************************************************************)
(* Contents and kinds of files.                                            *)
(***************************************************************************)

\* No file, and so no edit.
LEMMA AbsentIsContent == Absent \in Content /\ ~Edited(Absent)
  BY DEF Absent, Content, Edited, ToSet

\* What a user's edit leaves is a file, and an edited one.
LEMMA EditIsEdited ==
    ASSUME NEW content \in Content
    PROVE  LET c == Append(content, "edit")
           IN  c \in Content /\ c # Absent /\ Edited(c)
  <1>1. "edit" \in Lines
    BY ConstantsOK
  <1>2. Append(content, "edit") \in Content /\ Append(content, "edit") # Absent
    BY <1>1, AppendProperties, EmptySeq DEF Content, Absent
  <1>3. ToSet(Append(content, "edit")) = ToSet(content) \cup {"edit"}
    BY <1>1, ToSetAppend DEF Content
  <1> QED
    BY <1>2, <1>3 DEF Edited

\* add_route gives a file, and keeps the lines that are not the service's.
LEMMA RerouteKeepsEdits ==
    ASSUME NEW content \in Content
    PROVE  /\ Rerouted(content) \in Content /\ Rerouted(content) # Absent
           /\ Edited(content) => Edited(Rerouted(content))
  <1>1. "self" \in Lines
    BY ConstantsOK
  <1> DEFINE rest == Unrouted(content, "self")
  <1>2. rest \in Content /\ ToSet(rest) = ToSet(content) \ {"self"}
    BY UnroutedProperties
  <1> HIDE DEF rest
  <1>3. Rerouted(content) = Append(rest, "self")
    BY DEF Rerouted, rest
  <1>4. Append(rest, "self") \in Content /\ Append(rest, "self") # Absent
    BY <1>1, <1>2, AppendProperties, EmptySeq DEF Content, Absent
  <1>5. ToSet(Append(rest, "self")) = ToSet(rest) \cup {"self"}
    BY <1>1, <1>2, ToSetAppend DEF Content
  <1> QED
    BY <1>2, <1>3, <1>4, <1>5 DEF Edited

\* Another service's block comes or goes.
LEMMA OtherRouteIsContent ==
    ASSUME NEW content \in Content
    PROVE  /\ Unrouted(content, "other") \in Content
           /\ Append(content, "other") \in Content
  <1>1. "other" \in Lines
    BY ConstantsOK
  <1> QED
    BY <1>1, UnroutedProperties, AppendProperties DEF Content

\* A render is a file or none.
LEMMA PlannedIsContent ==
    ASSUME registry \in Versions, disk \in State, NEW f \in Files
    PROVE  Planned(f) \in Content
  <1>1. CASE f = Shared
    BY <1>1, RerouteKeepsEdits DEF Planned, State
  <1>2. CASE f # Shared
    BY <1>2, ConstantsOK DEF Planned
  <1> QED
    BY <1>1, <1>2

\* What diff_service's kinds come to.
LEMMA KindsAre ==
    ASSUME NEW f \in Files
    PROVE  /\ f \in OfKind({"Added", "Modified", "Drift"})
                <=> Planned(f) # Absent /\ disk[f] # Planned(f)
           /\ f \in OfKind({"Removed"}) <=> Planned(f) = Absent /\ manifest[f] # Absent
           /\ f \in OfKind({"Drift"})
                <=> /\ Planned(f) # Absent /\ disk[f] # Absent
                    /\ disk[f] # Planned(f) /\ disk[f] # manifest[f]
           /\ f \in Displaced
                <=> /\ disk[f] # Absent
                    /\ IF Planned(f) = Absent THEN manifest[f] # Absent
                       ELSE disk[f] # Planned(f)
  <1> DEFINE k == Kind(f)
  <1>1. /\ k \in {"Added", "Modified", "Drift"}
             <=> Planned(f) # Absent /\ disk[f] # Planned(f)
        /\ k = "Removed" <=> Planned(f) = Absent /\ manifest[f] # Absent
        /\ k = "Drift" <=> /\ Planned(f) # Absent /\ disk[f] # Absent
                           /\ disk[f] # Planned(f) /\ disk[f] # manifest[f]
        /\ k = "Added" => disk[f] = Absent
    BY DEF Kind
  <1> QED
    BY <1>1 DEF OfKind, Displaced

-----------------------------------------------------------------------------
(***************************************************************************)
(* Types.                                                                  *)
(***************************************************************************)

\* The record of a plan, of a backup directory, of a forgotten snapshot.
LEMMA Records ==
    /\ NoPlan \in [forced : BOOLEAN, target : State, env : SUBSET Keys, lock : Seq(State)]
    /\ [saved |-> NoPlan.target, lock |-> << >>] \in Snapshots
    /\ Forgotten \in [disk : State, manifest : State, mixed : BOOLEAN]
    /\ \A f \in Files : NoPlan.target[f] = Absent
    /\ NoPlan.target \in State /\ NoPlan.lock = << >> /\ NoPlan.env = {}
  <1>1. [f \in Files |-> Absent] \in State
    BY AbsentIsContent DEF State
  <1> QED
    BY <1>1 DEF NoPlan, Snapshots, Forgotten

LEMMA InitTypeOK == Init => TypeOK
  <1> SUFFICES ASSUME Init PROVE TypeOK
    OBVIOUS
  <1>1. <<"self">> \in Content
    BY ConstantsOK DEF Content
  <1>2. disk \in State
    BY <1>1, ConstantsOK DEF Init, State
  <1>3. env \subseteq Keys
    BY ConstantsOK DEF Init
  <1>4. plan \in [forced : BOOLEAN, target : State, env : SUBSET Keys, lock : Seq(State)]
    BY Records DEF Init
  <1>5. before \in [disk : State, manifest : State, mixed : BOOLEAN]
    BY <1>2 DEF Init
  <1>6. snapshots \in Seq(Snapshots) /\ registry \in Versions
    BY ConstantsOK DEF Init
  <1>7. todo \subseteq Files /\ needs \subseteq Files /\ gone \subseteq Files
    BY DEF Init
  <1>8. commands \in 0 .. MaxCommands /\ edits \in 0 .. MaxEdits /\ manifest \in State
    BY <1>2, ConstantsOK DEF Init
  <1> QED
    BY <1>2, <1>3, <1>4, <1>5, <1>6, <1>7, <1>8 DEF Init, TypeOK

\* What a plan and its sets of files are.
LEMMA BeginUpgradeTypes ==
    ASSUME TypeOK, NEW forced \in BOOLEAN, BeginUpgrade(forced)
    PROVE  /\ plan' \in [forced : BOOLEAN, target : State, env : SUBSET Keys, lock : Seq(State)]
           /\ todo' \subseteq Files /\ needs' \subseteq Files /\ gone' \subseteq Files
           /\ \A f \in Files : plan'.target[f] = Planned(f)
           /\ plan'.forced = forced /\ plan'.lock = << >>
           /\ plan'.env = IF EnvAdditions = {} THEN {} ELSE env \cup EnvAdditions
  <1>1. registry \in Versions /\ disk \in State /\ env \subseteq Keys
    BY DEF TypeOK
  <1>2. [f \in Files |-> Planned(f)] \in State
    BY <1>1, PlannedIsContent DEF State
  <1>3. EnvAdditions \subseteq Keys
    BY <1>1, ConstantsOK DEF EnvAdditions
  <1>4. plan' = [forced |-> forced, target |-> [f \in Files |-> Planned(f)],
                 env |-> IF EnvAdditions = {} THEN {} ELSE env \cup EnvAdditions,
                 lock |-> << >>]
    BY DEF BeginUpgrade
  <1> HIDE DEF BeginUpgrade
  <1>5. OfKind({"Added", "Modified", "Drift"}) \subseteq Files
        /\ OfKind({"Removed"}) \subseteq Files /\ Displaced \subseteq Files
    BY DEF OfKind, Displaced
  <1>6. todo' \subseteq Files /\ needs' \subseteq Files /\ gone' \subseteq Files
    BY <1>5 DEF BeginUpgrade
  <1> QED
    BY <1>1, <1>2, <1>3, <1>4, <1>6

LEMMA BeginRevertTypes ==
    ASSUME TypeOK, NEW i, BeginRevert(i)
    PROVE  /\ i \in DOMAIN snapshots /\ snapshots[i] \in Snapshots
           /\ plan' \in [forced : BOOLEAN, target : State, env : SUBSET Keys, lock : Seq(State)]
           /\ todo' \subseteq Files /\ gone' \subseteq Files
           /\ plan'.lock = snapshots[i].lock
           /\ \A f \in Files :
                /\ f \in todo' <=> snapshots[i].saved[f] # Absent
                /\ plan'.target[f] = IF f \in todo' THEN snapshots[i].saved[f] ELSE disk[f]
                /\ f \in gone' <=> /\ snapshots[i].lock # << >>
                                   /\ manifest[f] # Absent
                                   /\ snapshots[i].lock[1][f] = Absent
  <1>1. i \in DOMAIN snapshots
    BY DEF BeginRevert
  <1>2. snapshots \in Seq(Snapshots) /\ disk \in State
    BY DEF TypeOK
  <1>3. snapshots[i] \in Snapshots
    BY <1>1, <1>2, ElementOfSeq, LenProperties
  <1> DEFINE T == [f \in Files |-> IF f \in Saved(snapshots[i])
                                   THEN snapshots[i].saved[f] ELSE disk[f]]
  <1>4. T \in State
    BY <1>2, <1>3 DEF State, Snapshots
  <1>5. plan' = [forced |-> TRUE, target |-> T, env |-> {}, lock |-> snapshots[i].lock]
    BY DEF BeginRevert
  <1>6. todo' = Saved(snapshots[i]) /\ gone' = AddedSince(snapshots[i])
    BY DEF BeginRevert
  <1>7. todo' \subseteq Files /\ gone' \subseteq Files
    BY <1>6 DEF Saved, AddedSince
  <1>8. \A f \in Files :
          /\ f \in todo' <=> snapshots[i].saved[f] # Absent
          /\ f \in gone' <=> /\ snapshots[i].lock # << >>
                             /\ manifest[f] # Absent
                             /\ snapshots[i].lock[1][f] = Absent
    BY <1>6 DEF Saved, AddedSince
  <1>9. plan' \in [forced : BOOLEAN, target : State, env : SUBSET Keys, lock : Seq(State)]
    BY <1>3, <1>4, <1>5 DEF Snapshots
  <1>10. \A f \in Files :
           plan'.target[f] = IF f \in todo' THEN snapshots[i].saved[f] ELSE disk[f]
    BY <1>5, <1>6
  <1> QED
    BY <1>1, <1>3, <1>5, <1>7, <1>8, <1>9, <1>10

\* The newest backup directory, before and after it changes.
LEMMA OpenSnapshotTypes ==
    ASSUME TypeOK, OpenSnapshot
    PROVE  /\ snapshots' \in Seq(Snapshots) /\ snapshots' # << >>
           /\ \A f \in Files : snapshots'[1].saved[f] = Absent
           /\ \A i \in DOMAIN snapshots' :
                snapshots'[i].lock = << >> \/ \E k \in DOMAIN snapshots : snapshots'[i] = snapshots[k]
  <1> DEFINE new == [saved |-> NoPlan.target, lock |-> << >>]
  <1>1. snapshots \in Seq(Snapshots) /\ new \in Snapshots
    BY Records DEF TypeOK
  <1>2. snapshots' = << new >> \o snapshots
    BY DEF OpenSnapshot
  <1> HIDE DEF new
  <1>3. << new >> \in Seq(Snapshots) /\ Len(<< new >>) = 1 /\ << new >>[1] = new
    BY <1>1
  <1>4. /\ snapshots' \in Seq(Snapshots) /\ Len(snapshots') = 1 + Len(snapshots)
        /\ \A i \in 1 .. Len(snapshots') :
             snapshots'[i] = IF i <= 1 THEN << new >>[i] ELSE snapshots[i - 1]
    BY <1>1, <1>2, <1>3, ConcatProperties
  <1>5. /\ Len(snapshots) \in Nat /\ DOMAIN snapshots = 1 .. Len(snapshots)
        /\ DOMAIN snapshots' = 1 .. Len(snapshots')
    BY <1>1, <1>4, LenProperties
  <1>6. snapshots'[1] = new /\ snapshots' # << >>
    BY <1>3, <1>4, <1>5
  <1>7. ASSUME NEW i \in DOMAIN snapshots'
        PROVE  snapshots'[i].lock = << >> \/ \E k \in DOMAIN snapshots : snapshots'[i] = snapshots[k]
    <2>1. CASE i = 1
      BY <1>6, <2>1 DEF new
    <2>2. CASE i # 1
      <3>1. i - 1 \in DOMAIN snapshots /\ snapshots'[i] = snapshots[i - 1]
        BY <1>4, <1>5, <2>2
      <3> QED
        BY <3>1
    <2> QED
      BY <2>1, <2>2
  <1>8. \A f \in Files : snapshots'[1].saved[f] = Absent
    BY <1>6, Records DEF new
  <1> QED
    BY <1>4, <1>6, <1>7, <1>8

\* A copy, or a manifest, put into the newest backup directory.
LEMMA NewestTypes ==
    ASSUME TypeOK, Opened, NEW s \in Snapshots, snapshots' = [snapshots EXCEPT ![1] = s]
    PROVE  /\ snapshots[1] \in Snapshots /\ 1 \in DOMAIN snapshots
           /\ snapshots' \in Seq(Snapshots) /\ snapshots' # << >>
           /\ DOMAIN snapshots' = DOMAIN snapshots
           /\ snapshots'[1] = s
           /\ \A i \in DOMAIN snapshots : i # 1 => snapshots'[i] = snapshots[i]
  <1>1. snapshots \in Seq(Snapshots) /\ snapshots # << >>
    BY DEF TypeOK, Opened, Upgrading
  <1>2. Len(snapshots) \in Nat /\ Len(snapshots) # 0 /\ DOMAIN snapshots = 1 .. Len(snapshots)
    BY <1>1, LenProperties, EmptySeq
  <1>3. 1 \in DOMAIN snapshots /\ snapshots[1] \in Snapshots
    BY <1>1, <1>2, ElementOfSeq
  <1>4. snapshots' \in Seq(Snapshots) /\ Len(snapshots') = Len(snapshots)
    BY <1>1, <1>2, ExceptSeq
  <1> QED
    BY <1>2, <1>3, <1>4, EmptySeq

\* prune_backups leaves the newest.
LEMMA PruneTypes ==
    ASSUME TypeOK, FinishUpgrade
    PROVE  /\ snapshots' \in Seq(Snapshots) /\ snapshots' # << >>
           /\ snapshots'[1] = snapshots[1]
           /\ \A i \in DOMAIN snapshots' :
                i \in DOMAIN snapshots /\ snapshots'[i] = snapshots[i]
  <1>1. snapshots \in Seq(Snapshots) /\ snapshots # << >>
    BY DEF TypeOK, FinishUpgrade
  <1>2. Len(snapshots) \in Nat \ {0} /\ DOMAIN snapshots = 1 .. Len(snapshots)
    BY <1>1, LenProperties, EmptySeq
  <1>3. Keep \in Nat \ {0}
    BY ConstantsOK
  <1>4. CASE Len(snapshots) <= Keep
    BY <1>1, <1>2, <1>4 DEF FinishUpgrade
  <1>5. CASE ~(Len(snapshots) <= Keep)
    <2>1. snapshots' = SubSeq(snapshots, 1, Keep)
      BY <1>5 DEF FinishUpgrade
    <2>2. /\ snapshots' \in Seq(Snapshots) /\ Len(snapshots') = Keep
          /\ \A i \in 1 .. Keep : snapshots'[i] = snapshots[i]
      BY <1>1, <1>2, <1>3, <1>5, <2>1, SubSeqProperties
    <2>3. DOMAIN snapshots' = 1 .. Keep
      BY <2>2, LenProperties
    <2> QED
      BY <1>2, <1>3, <1>5, <2>2, <2>3, EmptySeq
  <1> QED
    BY <1>4, <1>5

\* A file is copied only by an upgrade that has opened its backup directory.
LEMMA CopyTypes ==
    ASSUME TypeOK, StageOK, NEW f \in Files, CopyToSnapshot(f)
    PROVE  /\ Opened /\ snapshots' \in Seq(Snapshots) /\ snapshots' # << >>
           /\ DOMAIN snapshots' = DOMAIN snapshots
           /\ \A i \in DOMAIN snapshots : snapshots'[i].lock = snapshots[i].lock
           /\ snapshots'[1].lock = snapshots[1].lock
           /\ \A g \in Files :
                snapshots'[1].saved[g] = IF g = f THEN disk[f] ELSE snapshots[1].saved[g]
  <1>1. Opened
    BY DEF CopyToSnapshot, StageOK, TypeOK, Opened, Upgrading
  <1>2. snapshots \in Seq(Snapshots) /\ snapshots # << >> /\ disk \in State
    BY <1>1 DEF TypeOK, Opened, Upgrading
  <1>3. Len(snapshots) \in Nat /\ Len(snapshots) # 0 /\ DOMAIN snapshots = 1 .. Len(snapshots)
    BY <1>2, LenProperties, EmptySeq
  <1>4. snapshots[1] \in Snapshots /\ 1 \in DOMAIN snapshots
    BY <1>2, <1>3, ElementOfSeq
  <1> DEFINE s == [saved |-> [snapshots[1].saved EXCEPT ![f] = disk[f]], lock |-> snapshots[1].lock]
  <1>5. s \in Snapshots
    BY <1>2, <1>4 DEF Snapshots, State
  <1>6. snapshots' = [snapshots EXCEPT ![1] = s]
    <2>1. snapshots' = [snapshots EXCEPT ![1].saved[f] = disk[f]]
      BY DEF CopyToSnapshot
    <2>2. snapshots' = [snapshots EXCEPT ![1] =
                           [snapshots[1] EXCEPT !.saved = [@ EXCEPT ![f] = disk[f]]]]
      BY <1>4, <2>1
    <2>3. [snapshots[1] EXCEPT !.saved = [@ EXCEPT ![f] = disk[f]]] = s
      BY <1>4 DEF Snapshots
    <2> QED
      BY <2>2, <2>3
  <1>7. /\ s.lock = snapshots[1].lock
        /\ \A g \in Files : s.saved[g] = IF g = f THEN disk[f] ELSE snapshots[1].saved[g]
    BY <1>4 DEF Snapshots, State
  <1> HIDE DEF s
  <1>8. /\ snapshots' \in Seq(Snapshots) /\ snapshots' # << >>
        /\ DOMAIN snapshots' = DOMAIN snapshots /\ snapshots'[1] = s
        /\ \A i \in DOMAIN snapshots : i # 1 => snapshots'[i] = snapshots[i]
    BY <1>1, <1>5, <1>6, NewestTypes
  <1>9. \A i \in DOMAIN snapshots : snapshots'[i].lock = snapshots[i].lock
    BY <1>7, <1>8
  <1> QED
    BY <1>1, <1>7, <1>8, <1>9

LEMMA CopyManifestTypes ==
    ASSUME TypeOK, StageOK, Upgrading, CopyManifest
    PROVE  /\ Opened /\ snapshots' \in Seq(Snapshots) /\ snapshots' # << >>
           /\ DOMAIN snapshots' = DOMAIN snapshots
           /\ \A i \in DOMAIN snapshots :
                snapshots'[i].lock = snapshots[i].lock \/ snapshots'[i].lock = << manifest >>
           /\ snapshots'[1].lock = << manifest >>
           /\ \A g \in Files : snapshots'[1].saved[g] = snapshots[1].saved[g]
  <1>1. Opened
    BY DEF CopyManifest, Opened
  <1>2. snapshots \in Seq(Snapshots) /\ snapshots # << >> /\ manifest \in State
    BY <1>1 DEF TypeOK, Opened, Upgrading
  <1>3. Len(snapshots) \in Nat /\ Len(snapshots) # 0 /\ DOMAIN snapshots = 1 .. Len(snapshots)
    BY <1>2, LenProperties, EmptySeq
  <1>4. snapshots[1] \in Snapshots /\ 1 \in DOMAIN snapshots
    BY <1>2, <1>3, ElementOfSeq
  <1> DEFINE s == [saved |-> snapshots[1].saved, lock |-> << manifest >>]
  <1>5. s \in Snapshots
    BY <1>2, <1>4 DEF Snapshots
  <1>6. snapshots' = [snapshots EXCEPT ![1] = s]
    <2>1. snapshots' = [snapshots EXCEPT ![1].lock = << manifest >>]
      BY DEF CopyManifest
    <2>2. snapshots' = [snapshots EXCEPT ![1] = [snapshots[1] EXCEPT !.lock = << manifest >>]]
      BY <1>4, <2>1
    <2>3. [snapshots[1] EXCEPT !.lock = << manifest >>] = s
      BY <1>4 DEF Snapshots
    <2> QED
      BY <2>2, <2>3
  <1>7. s.lock = << manifest >> /\ s.saved = snapshots[1].saved
    OBVIOUS
  <1> HIDE DEF s
  <1>8. /\ snapshots' \in Seq(Snapshots) /\ snapshots' # << >>
        /\ DOMAIN snapshots' = DOMAIN snapshots /\ snapshots'[1] = s
        /\ \A i \in DOMAIN snapshots : i # 1 => snapshots'[i] = snapshots[i]
    BY <1>1, <1>5, <1>6, NewestTypes
  <1> QED
    BY <1>1, <1>7, <1>8

\* Every step keeps the types.
LEMMA NextTypeOK == TypeOK /\ StageOK /\ [Next]_vars => TypeOK'
  <1> SUFFICES ASSUME TypeOK, StageOK, [Next]_vars PROVE TypeOK'
    OBVIOUS
  <1>1. ASSUME NEW forced \in BOOLEAN, BeginUpgrade(forced) PROVE TypeOK'
    <2>1. /\ plan' \in [forced : BOOLEAN, target : State, env : SUBSET Keys, lock : Seq(State)]
          /\ todo' \subseteq Files /\ needs' \subseteq Files /\ gone' \subseteq Files
      BY <1>1, BeginUpgradeTypes
    <2>2. commands' \in 0 .. MaxCommands
      BY <1>1, ConstantsOK DEF BeginUpgrade, TypeOK
    <2> QED
      BY <1>1, <2>1, <2>2 DEF BeginUpgrade, TypeOK, service, bounds
  <1>2. ASSUME OpenSnapshot PROVE TypeOK'
    <2>1. snapshots' \in Seq(Snapshots) /\ snapshots' # << >>
      BY <1>2, OpenSnapshotTypes
    <2> QED
      BY <1>2, <2>1 DEF OpenSnapshot, TypeOK, service, bounds
  <1>3. ASSUME NEW f \in Files, CopyToSnapshot(f) PROVE TypeOK'
    <2>1. snapshots' \in Seq(Snapshots) /\ snapshots' # << >>
      BY <1>3, CopyTypes
    <2> QED
      BY <1>3, <2>1 DEF CopyToSnapshot, TypeOK, service, bounds, history
  <1>4. ASSUME NEW f \in Files, WriteFile(f) PROVE TypeOK'
    <2>1. disk' \in State
      BY <1>4 DEF WriteFile, TypeOK, State
    <2> QED
      BY <1>4, <2>1 DEF WriteFile, TypeOK, bounds, history
  <1>5. ASSUME Upgrading, CopyManifest PROVE TypeOK'
    <2>1. snapshots' \in Seq(Snapshots) /\ snapshots' # << >>
      BY <1>5, CopyManifestTypes
    <2> QED
      BY <1>5, <2>1 DEF CopyManifest, TypeOK, service, bounds, history
  <1>6. ASSUME WriteManifest PROVE TypeOK'
    BY <1>6 DEF WriteManifest, TypeOK, bounds, history
  <1>7. ASSUME NEW f \in Files, DeleteFile(f) \/ EraseAdded(f) PROVE TypeOK'
    <2>1. disk' \in State
      BY <1>7, AbsentIsContent DEF DeleteFile, EraseAdded, TypeOK, State
    <2> QED
      BY <1>7, <2>1 DEF DeleteFile, EraseAdded, TypeOK, bounds, history
  <1>8. ASSUME AppendEnv PROVE TypeOK'
    BY <1>8 DEF AppendEnv, TypeOK, bounds, history
  <1>9. ASSUME FinishUpgrade PROVE TypeOK'
    <2>1. snapshots' \in Seq(Snapshots)
      BY <1>9, PruneTypes
    <2> QED
      BY <1>9, <2>1 DEF FinishUpgrade, TypeOK, service, bounds
  <1>10. ASSUME NEW i \in 1 .. MaxCommands, BeginRevert(i) PROVE TypeOK'
    <2>1. /\ plan' \in [forced : BOOLEAN, target : State, env : SUBSET Keys, lock : Seq(State)]
          /\ todo' \subseteq Files /\ gone' \subseteq Files
      BY <1>10, BeginRevertTypes
    <2>2. commands' \in 0 .. MaxCommands
      BY <1>10, ConstantsOK DEF BeginRevert, TypeOK
    <2>3. exact' \in BOOLEAN /\ mixed' \in BOOLEAN
      BY <1>10, Zenon DEF BeginRevert, TypeOK
    <2> QED
      BY <1>10, <2>1, <2>2, <2>3 DEF BeginRevert, TypeOK, service
  <1>11. ASSUME RestoreManifest PROVE TypeOK'
    <2>1. plan.lock \in Seq(State) /\ plan.lock # << >>
      BY <1>11 DEF RestoreManifest, TypeOK
    <2>2. manifest' \in State
      BY <1>11, <2>1, ElementOfSeq, LenProperties, EmptySeq DEF RestoreManifest
    <2>3. plan' \in [forced : BOOLEAN, target : State, env : SUBSET Keys, lock : Seq(State)]
      <3>1. plan' = [plan EXCEPT !.lock = << >>]
        BY <1>11 DEF RestoreManifest
      <3>2. plan \in [forced : BOOLEAN, target : State, env : SUBSET Keys, lock : Seq(State)]
        BY DEF TypeOK
      <3>3. << >> \in Seq(State)
        OBVIOUS
      <3> QED
        BY <3>1, <3>2, <3>3
    <2> QED
      BY <1>11, <2>2, <2>3 DEF RestoreManifest, TypeOK, bounds, history
  <1>12. ASSUME FinishRevert PROVE TypeOK'
    BY <1>12, Records DEF FinishRevert, TypeOK, service, bounds
  <1>13. ASSUME Abort PROVE TypeOK'
    <2>1. before' \in [disk : State, manifest : State, mixed : BOOLEAN]
      BY <1>13, Records DEF Abort, TypeOK
    <2>2. mixed' \in BOOLEAN
      BY <1>13 DEF Abort, TypeOK
    <2> QED
      BY <1>13, <2>1, <2>2, Records DEF Abort, TypeOK, service, bounds
  <1>14. ASSUME NEW f \in Files, NEW c \in Content, UserChanges(f, c) PROVE TypeOK'
    <2>1. disk' \in State
      BY <1>14 DEF UserChanges, TypeOK, State
    <2>2. edits' \in 0 .. MaxEdits
      BY <1>14, ConstantsOK DEF UserChanges, TypeOK
    <2> QED
      BY <1>14, <2>1, <2>2 DEF UserChanges, TypeOK, command
  <1>15. ASSUME NEW k \in Keys, UserAddsKey(k) PROVE TypeOK'
    <2>1. edits' \in 0 .. MaxEdits /\ env' \subseteq Keys
      BY <1>15, ConstantsOK DEF UserAddsKey, TypeOK
    <2> QED
      BY <1>15, <2>1 DEF UserAddsKey, TypeOK, command
  <1>16. ASSUME BumpRegistry PROVE TypeOK'
    BY <1>16 DEF BumpRegistry, TypeOK, service, command, history, bounds
  <1>17. ASSUME OtherRoute PROVE TypeOK'
    <2>1. disk' \in State
      BY <1>17, OtherRouteIsContent DEF OtherRoute, TypeOK, State
    <2> QED
      BY <1>17, <2>1 DEF OtherRoute, TypeOK, command, bounds
  <1>18. ASSUME UNCHANGED vars PROVE TypeOK'
    BY <1>18 DEF vars, TypeOK, service, command, history, bounds
  <1>19. ASSUME NEW f \in Files, UserChanges(f, Append(disk[f], "edit")) \/ UserChanges(f, Absent)
         PROVE  TypeOK'
    <2>1. disk[f] \in Content
      BY DEF TypeOK, State
    <2> QED
      BY <1>14, <1>19, <2>1, EditIsEdited, AbsentIsContent
  <1> QED
    BY <1>1, <1>2, <1>3, <1>4, <1>5, <1>6, <1>7, <1>8, <1>9, <1>10, <1>11, <1>12, <1>13,
       <1>15, <1>16, <1>17, <1>18, <1>19 DEF Next, RestoreFile, Upgrading

-----------------------------------------------------------------------------
(***************************************************************************)
(* The stages of a command.                                                *)
(***************************************************************************)

LEMMA NextStageOK == TypeOK /\ StageOK /\ [Next]_vars => StageOK'
  <1> SUFFICES ASSUME TypeOK, StageOK, [Next]_vars PROVE StageOK'
    OBVIOUS
  <1> USE DEF Upgrading, Base
  <1>0. /\ kind \in {"none", "upgrade", "revert"}
        /\ pc \in {"idle", "open", "write", "manifest", "delete", "restart"}
        /\ (kind = "none") = (pc = "idle")
        /\ plan \in [forced : BOOLEAN, target : State, env : SUBSET Keys, lock : Seq(State)]
        /\ todo \subseteq Files /\ needs \subseteq Files /\ gone \subseteq Files
    BY DEF TypeOK
  <1>1. ASSUME NEW forced \in BOOLEAN, BeginUpgrade(forced) PROVE StageOK'
    <2>1. /\ kind' = "upgrade" /\ pc' = "open" /\ last' = "none" /\ manifest' = manifest
          /\ todo' = OfKind({"Added", "Modified", "Drift"}) /\ gone' = OfKind({"Removed"})
          /\ needs' = Displaced
      BY <1>1 DEF BeginUpgrade, service
    <2>2. \A f \in Files : plan'.target[f] = Planned(f)
      BY <1>1, BeginUpgradeTypes
    <2>3. todo' \subseteq Files /\ gone' \subseteq Files /\ needs' \subseteq Files
      BY <1>1, BeginUpgradeTypes
    <2>4. \A f \in Files :
            /\ f \in todo' => Planned(f) # Absent
            /\ f \in gone' => Planned(f) = Absent /\ manifest[f] # Absent
            /\ f \in needs' => f \in todo' \cup gone'
      BY <2>1, KindsAre
    <2> QED
      BY <2>1, <2>2, <2>3, <2>4 DEF StageOK
  <1>2. ASSUME OpenSnapshot PROVE StageOK'
    <2>1. kind = "upgrade" /\ pc = "open" /\ before'.manifest = manifest
      BY <1>0, <1>2 DEF OpenSnapshot, StageOK
    <2> QED
      BY <1>2, <2>1 DEF OpenSnapshot, StageOK, service, bounds
  <1>3. ASSUME NEW f \in Files, CopyToSnapshot(f) PROVE StageOK'
    <2>1. snapshots'[1].lock = snapshots[1].lock /\ kind = "upgrade" /\ pc # "open"
      BY <1>3, CopyTypes DEF Opened
    <2> QED
      BY <1>0, <1>3, <2>1 DEF CopyToSnapshot, StageOK, service, bounds, history
  <1>4. ASSUME NEW f \in Files, WriteFile(f) PROVE StageOK'
    BY <1>0, <1>4 DEF WriteFile, StageOK, bounds, history
  <1>5. ASSUME Upgrading, CopyManifest PROVE StageOK'
    <2>1. snapshots'[1].lock = << manifest >>
      BY <1>5, CopyManifestTypes
    <2> QED
      BY <1>0, <1>5, <2>1 DEF CopyManifest, StageOK, service, bounds, history
  <1>6. ASSUME WriteManifest PROVE StageOK'
    BY <1>0, <1>6 DEF WriteManifest, StageOK, bounds, history
  <1>7. ASSUME NEW f \in Files, DeleteFile(f) \/ EraseAdded(f) PROVE StageOK'
    BY <1>0, <1>7 DEF DeleteFile, EraseAdded, StageOK, bounds, history
  <1>8. ASSUME AppendEnv PROVE StageOK'
    BY <1>0, <1>8 DEF AppendEnv, StageOK, bounds, history
  <1>9. ASSUME FinishUpgrade PROVE StageOK'
    <2>1. snapshots' # << >> /\ snapshots'[1] = snapshots[1]
      BY <1>9, PruneTypes
    <2> QED
      BY <1>0, <1>9, <2>1 DEF FinishUpgrade, StageOK, service, bounds
  <1>10. ASSUME NEW i \in 1 .. MaxCommands, BeginRevert(i) PROVE StageOK'
    BY <1>10 DEF BeginRevert, StageOK, service
  <1>11. ASSUME RestoreManifest PROVE StageOK'
    BY <1>0, <1>11 DEF RestoreManifest, StageOK, bounds, history
  <1>12. ASSUME FinishRevert PROVE StageOK'
    BY <1>12 DEF FinishRevert, StageOK, service, bounds
  <1>13. ASSUME Abort PROVE StageOK'
    BY <1>13 DEF Abort, StageOK, service, bounds
  <1>14. ASSUME NEW f \in Files, NEW c, UserChanges(f, c) PROVE StageOK'
    BY <1>14 DEF UserChanges, StageOK, command
  <1>15. ASSUME NEW k \in Keys, UserAddsKey(k) PROVE StageOK'
    BY <1>15 DEF UserAddsKey, StageOK, command
  <1>16. ASSUME BumpRegistry \/ OtherRoute \/ UNCHANGED vars PROVE StageOK'
    BY <1>16 DEF BumpRegistry, OtherRoute, vars, StageOK, service, command, history, bounds
  <1> QED
    BY <1>1, <1>2, <1>3, <1>4, <1>5, <1>6, <1>7, <1>8, <1>9, <1>10, <1>11, <1>12, <1>13,
       <1>14, <1>15, <1>16 DEF Next, RestoreFile

-----------------------------------------------------------------------------
(***************************************************************************)
(* What ryra records is its own.                                           *)
(***************************************************************************)

LEMMA NextOwnInv == TypeOK /\ StageOK /\ OwnInv /\ [Next]_vars => OwnInv'
  <1> SUFFICES ASSUME TypeOK, StageOK, OwnInv, [Next]_vars PROVE OwnInv'
    OBVIOUS
  <1> USE DEF Upgrading
  <1>0. /\ Unedited(manifest) /\ Unedited(before.manifest)
        /\ Upgrading => Unedited(plan.target)
        /\ \A j \in DOMAIN plan.lock : Unedited(plan.lock[j])
        /\ \A i \in DOMAIN snapshots : \A j \in DOMAIN snapshots[i].lock :
              Unedited(snapshots[i].lock[j])
    BY DEF OwnInv
  <1>1. ASSUME NEW forced \in BOOLEAN, BeginUpgrade(forced) PROVE OwnInv'
    <2>1. plan'.lock = << >> /\ \A f \in Files : plan'.target[f] = Planned(f)
      BY <1>1, BeginUpgradeTypes
    <2>2. registry \in Versions
      BY DEF TypeOK
    <2>3. \A f \in Files \ {Shared} : ~Edited(Planned(f))
      BY <2>2, ConstantsOK DEF Planned
    <2>4. Unedited(plan'.target)
      BY <2>1, <2>3 DEF Unedited
    <2>5. UNCHANGED << manifest, before, snapshots >>
      BY <1>1 DEF BeginUpgrade, service
    <2> QED
      BY <1>0, <2>1, <2>4, <2>5 DEF OwnInv
  <1>2. ASSUME OpenSnapshot PROVE OwnInv'
    <2>1. before'.manifest = manifest /\ UNCHANGED << manifest, plan, kind >>
      BY <1>2 DEF OpenSnapshot, service
    <2>2. \A i \in DOMAIN snapshots' :
            snapshots'[i].lock = << >> \/ \E k \in DOMAIN snapshots : snapshots'[i] = snapshots[k]
      BY <1>2, OpenSnapshotTypes
    <2>3. \A i \in DOMAIN snapshots' : \A j \in DOMAIN snapshots'[i].lock :
             Unedited(snapshots'[i].lock[j])
      BY <1>0, <2>2
    <2> QED
      BY <1>0, <2>1, <2>3 DEF OwnInv
  <1>3. ASSUME NEW f \in Files, CopyToSnapshot(f) PROVE OwnInv'
    <2>1. /\ DOMAIN snapshots' = DOMAIN snapshots
          /\ \A i \in DOMAIN snapshots : snapshots'[i].lock = snapshots[i].lock
      BY <1>3, CopyTypes
    <2>2. UNCHANGED << manifest, plan, before, kind >>
      BY <1>3 DEF CopyToSnapshot, service, history
    <2> QED
      BY <1>0, <2>1, <2>2 DEF OwnInv
  <1>4. ASSUME NEW f \in Files, WriteFile(f) \/ DeleteFile(f) \/ EraseAdded(f)
        PROVE  OwnInv'
    <2>1. UNCHANGED << manifest, plan, before, kind, snapshots >>
      BY <1>4 DEF WriteFile, DeleteFile, EraseAdded, history
    <2> QED
      BY <1>0, <2>1 DEF OwnInv
  <1>5. ASSUME Upgrading, CopyManifest PROVE OwnInv'
    <2>1. /\ DOMAIN snapshots' = DOMAIN snapshots
          /\ \A i \in DOMAIN snapshots :
               snapshots'[i].lock = snapshots[i].lock \/ snapshots'[i].lock = << manifest >>
      BY <1>5, CopyManifestTypes
    <2>2. UNCHANGED << manifest, plan, before, kind >>
      BY <1>5 DEF CopyManifest, service, history
    <2>3. \A j \in DOMAIN << manifest >> : << manifest >>[j] = manifest
      OBVIOUS
    <2>4. \A i \in DOMAIN snapshots' : \A j \in DOMAIN snapshots'[i].lock :
             Unedited(snapshots'[i].lock[j])
      BY <1>0, <2>1, <2>3
    <2> QED
      BY <1>0, <2>2, <2>4 DEF OwnInv
  <1>6. ASSUME WriteManifest PROVE OwnInv'
    <2>1. UNCHANGED << plan, before, kind, snapshots >> /\ manifest' = plan.target
      BY <1>6 DEF WriteManifest, history
    <2>2. Upgrading
      BY <1>6 DEF WriteManifest, StageOK, TypeOK
    <2> QED
      BY <1>0, <2>1, <2>2 DEF OwnInv
  <1>7. ASSUME FinishUpgrade PROVE OwnInv'
    <2>1. UNCHANGED << plan, before, manifest >> /\ kind' = "none"
      BY <1>7 DEF FinishUpgrade, service
    <2>2. \A i \in DOMAIN snapshots' :
            i \in DOMAIN snapshots /\ snapshots'[i] = snapshots[i]
      BY <1>7, PruneTypes
    <2> QED
      BY <1>0, <2>1, <2>2 DEF OwnInv
  <1>8. ASSUME NEW i \in 1 .. MaxCommands, BeginRevert(i) PROVE OwnInv'
    <2>1. UNCHANGED << snapshots, before, manifest >> /\ kind' = "revert"
      BY <1>8 DEF BeginRevert, service
    <2>2. i \in DOMAIN snapshots /\ plan'.lock = snapshots[i].lock
      BY <1>8, BeginRevertTypes
    <2> QED
      BY <1>0, <2>1, <2>2 DEF OwnInv
  <1>9. ASSUME RestoreManifest PROVE OwnInv'
    <2>1. plan.lock \in Seq(State) /\ plan.lock # << >>
          /\ plan \in [forced : BOOLEAN, target : State, env : SUBSET Keys, lock : Seq(State)]
      BY <1>9 DEF RestoreManifest, TypeOK
    <2>2. 1 \in DOMAIN plan.lock
      BY <2>1, LenProperties, EmptySeq
    <2>3. /\ manifest' = plan.lock[1] /\ kind = "revert"
          /\ plan'.lock = << >> /\ plan'.target = plan.target
          /\ UNCHANGED << before, kind, snapshots >>
      BY <1>9, <2>1 DEF RestoreManifest, history
    <2> QED
      BY <1>0, <2>2, <2>3 DEF OwnInv
  <1>10. ASSUME FinishRevert PROVE OwnInv'
    <2>1. UNCHANGED << snapshots, before, manifest >> /\ kind' = "none" /\ plan'.lock = << >>
      BY <1>10, Records DEF FinishRevert, service
    <2> QED
      BY <1>0, <2>1 DEF OwnInv
  <1>11. ASSUME Abort PROVE OwnInv'
    <2>1. UNCHANGED << snapshots, manifest >> /\ kind' = "none" /\ plan'.lock = << >>
      BY <1>11, Records DEF Abort, service
    <2>2. before'.manifest = before.manifest \/ before'.manifest = NoPlan.target
      BY <1>11 DEF Abort, Forgotten
    <2>3. Unedited(before'.manifest)
      BY <1>0, <2>2, Records, AbsentIsContent DEF Unedited
    <2> QED
      BY <1>0, <2>1, <2>3 DEF OwnInv
  <1>12. ASSUME \/ \E f \in Files :
                      UserChanges(f, Append(disk[f], "edit")) \/ UserChanges(f, Absent)
                \/ \E k \in Keys : UserAddsKey(k)
                \/ BumpRegistry \/ OtherRoute \/ AppendEnv \/ UNCHANGED vars
         PROVE  OwnInv'
    <2>1. UNCHANGED << manifest, plan, before, kind, snapshots >>
      BY <1>12 DEF UserChanges, UserAddsKey, BumpRegistry, OtherRoute, AppendEnv, vars,
         service, command, history
    <2> QED
      BY <1>0, <2>1 DEF OwnInv
  <1> QED
    BY <1>1, <1>2, <1>3, <1>4, <1>5, <1>6, <1>7, <1>8, <1>9, <1>10, <1>11, <1>12
       DEF Next, RestoreFile

-----------------------------------------------------------------------------
(***************************************************************************)
(* What a running upgrade's plan still knows of the disk.                  *)
(***************************************************************************)

LEMMA NextPlanInv ==
    TypeOK /\ StageOK /\ OwnInv /\ PlanInv /\ [Next]_vars => PlanInv'
  <1> SUFFICES ASSUME TypeOK, StageOK, OwnInv, PlanInv, [Next]_vars, kind' = "upgrade"
               PROVE  PlanInv'
    BY DEF PlanInv, Upgrading
  <1> USE DEF Upgrading, Copy
  <1>0. /\ pc \in {"idle", "open", "write", "manifest", "delete", "restart"}
        /\ (kind = "none") = (pc = "idle")
        /\ plan \in [forced : BOOLEAN, target : State, env : SUBSET Keys, lock : Seq(State)]
        /\ todo \subseteq Files /\ needs \subseteq Files /\ gone \subseteq Files
        /\ disk \in State
    BY DEF TypeOK
  <1>1. ASSUME NEW forced \in BOOLEAN, BeginUpgrade(forced) PROVE PlanInv'
    <2>1. /\ pc' = "open" /\ UNCHANGED << disk, env, raced >> /\ ~Refused(forced)
          /\ todo' = OfKind({"Added", "Modified", "Drift"}) /\ gone' = OfKind({"Removed"})
          /\ needs' = Displaced
      BY <1>1 DEF BeginUpgrade, service
    <2>2. /\ \A f \in Files : plan'.target[f] = Planned(f)
          /\ plan'.forced = forced
          /\ plan'.env = IF EnvAdditions = {} THEN {} ELSE env \cup EnvAdditions
          /\ todo' \subseteq Files /\ gone' \subseteq Files
      BY <1>1, BeginUpgradeTypes
    <2>3. \A f \in (todo' \cup gone') \ needs' : disk[f] = Absent
      BY <2>1, <2>2, KindsAre
    <2>4. ASSUME ~forced, NEW f \in todo', Edited(disk[f]) PROVE Edited(Planned(f))
      <3>1. f \in Files /\ disk[f] \in Content /\ disk[f] # Absent
        BY <1>0, <2>2, <2>4, AbsentIsContent DEF State
      <3>2. disk[f] = manifest[f]
        <4>1. f \notin OfKind({"Drift"})
          BY <2>1, <2>4 DEF Refused
        <4>2. f \in OfKind({"Added", "Modified", "Drift"})
          BY <2>1, <2>4
        <4> QED
          BY <3>1, <4>1, <4>2, KindsAre
      <3>3. f = Shared
        BY <2>4, <3>1, <3>2 DEF OwnInv, Unedited
      <3> QED
        BY <2>4, <3>1, <3>3, RerouteKeepsEdits DEF Planned
    <2>5. plan'.env # {} => env \ raced \subseteq plan'.env
      BY <2>2
    <2> QED
      BY <2>1, <2>2, <2>3, <2>4, <2>5 DEF PlanInv
  <1>2. ASSUME OpenSnapshot PROVE PlanInv'
    <2>1. /\ kind = "upgrade" /\ pc = "open" /\ pc' = "write" /\ before'.disk = disk
          /\ UNCHANGED << disk, env, raced, plan, todo, needs, gone >>
      BY <1>2 DEF OpenSnapshot, service
    <2> QED
      BY <2>1 DEF PlanInv
  <1>3. ASSUME NEW f \in Files, CopyToSnapshot(f) PROVE PlanInv'
    <2>1. /\ kind = "upgrade" /\ pc # "open" /\ pc' = pc /\ needs' = needs \ {f}
          /\ disk[f] # Absent
          /\ UNCHANGED << disk, env, raced, plan, todo, gone, before >>
      BY <1>3, CopyTypes DEF CopyToSnapshot, Opened, service, history
    <2>2. \A g \in Files :
             snapshots'[1].saved[g] = IF g = f THEN disk[f] ELSE snapshots[1].saved[g]
      BY <1>3, CopyTypes
    <2> QED
      BY <1>0, <2>1, <2>2 DEF PlanInv
  <1>4. ASSUME NEW f \in Files, Upgrading, WriteFile(f) PROVE PlanInv'
    <2>1. /\ pc # "open" /\ pc' = pc /\ todo' = todo \ {f} /\ f \in todo
          /\ plan.target[f] # Absent
          /\ \A g \in Files \ {f} : disk'[g] = disk[g]
          /\ UNCHANGED << env, raced, plan, needs, gone, before, snapshots >>
      BY <1>0, <1>4 DEF WriteFile, State, StageOK, history
    <2>2. f \notin gone
      BY <1>4, <2>1 DEF StageOK
    <2> QED
      BY <1>0, <1>4, <2>1, <2>2 DEF PlanInv
  <1>5. ASSUME Upgrading, CopyManifest PROVE PlanInv'
    <2>1. /\ pc # "open" /\ pc' # "open"
          /\ UNCHANGED << disk, env, raced, plan, todo, needs, gone, before >>
      BY <1>5 DEF CopyManifest, service, history
    <2>2. \A g \in Files : snapshots'[1].saved[g] = snapshots[1].saved[g]
      BY <1>5, CopyManifestTypes
    <2> QED
      BY <1>0, <1>5, <2>1, <2>2 DEF PlanInv
  <1>6. ASSUME WriteManifest PROVE PlanInv'
    <2>1. /\ kind = "upgrade" /\ pc # "open" /\ pc' # "open"
          /\ UNCHANGED << disk, env, raced, plan, todo, needs, gone, before, snapshots >>
      BY <1>6 DEF WriteManifest, history
    <2> QED
      BY <2>1 DEF PlanInv
  <1>7. ASSUME NEW f \in Files, DeleteFile(f) PROVE PlanInv'
    <2>1. /\ kind = "upgrade" /\ pc = "delete" /\ pc' = pc /\ gone' = gone \ {f}
          /\ todo = {}
          /\ \A g \in Files \ {f} : disk'[g] = disk[g]
          /\ UNCHANGED << env, raced, plan, todo, needs, before, snapshots >>
      BY <1>0, <1>7 DEF DeleteFile, State, StageOK, history
    <2> QED
      BY <1>0, <2>1 DEF PlanInv
  <1>8. ASSUME AppendEnv PROVE PlanInv'
    <2>1. /\ kind = "upgrade" /\ pc = "delete" /\ pc' = "restart"
          /\ plan.env # {} => env' = plan.env
          /\ UNCHANGED << disk, raced, plan, todo, needs, gone, before, snapshots >>
      BY <1>8 DEF AppendEnv, history
    <2> QED
      BY <2>1 DEF PlanInv
  <1>9. ASSUME NEW f \in Files, NEW c \in Content, UserChanges(f, c) PROVE PlanInv'
    <2>1. /\ kind = "upgrade" /\ pc # "idle" /\ disk[f] # Absent
          /\ \A g \in Files \ {f} : disk'[g] = disk[g]
          /\ raced' = raced \cup {f}
          /\ UNCHANGED << env, pc, plan, todo, needs, gone, before, snapshots >>
      BY <1>0, <1>9 DEF UserChanges, State, command
    <2> QED
      BY <1>0, <2>1 DEF PlanInv
  <1>10. ASSUME NEW k \in Keys, UserAddsKey(k) PROVE PlanInv'
    <2>1. /\ kind = "upgrade" /\ pc # "idle"
          /\ raced' = raced \cup {k} /\ env' = env \cup {k}
          /\ UNCHANGED << disk, pc, plan, todo, needs, gone, before, snapshots >>
      BY <1>0, <1>10 DEF UserAddsKey, command
    <2> QED
      BY <1>0, <2>1 DEF PlanInv
  <1>11. ASSUME BumpRegistry \/ UNCHANGED vars PROVE PlanInv'
    <2>1. UNCHANGED << disk, env, raced, kind, pc, plan, todo, needs, gone, before, snapshots >>
      BY <1>11 DEF BumpRegistry, vars, service, command, history
    <2> QED
      BY <2>1 DEF PlanInv
  <1>12. ASSUME NEW f \in Files, UserChanges(f, Append(disk[f], "edit")) \/ UserChanges(f, Absent)
         PROVE  PlanInv'
    <2>1. disk[f] \in Content
      BY <1>0 DEF State
    <2> QED
      BY <1>9, <1>12, <2>1, EditIsEdited, AbsentIsContent
  <1>13. ASSUME \/ FinishUpgrade \/ FinishRevert \/ Abort \/ RestoreManifest \/ OtherRoute
                \/ \E i \in 1 .. MaxCommands : BeginRevert(i)
                \/ \E f \in Files : RestoreFile(f) \/ EraseAdded(f)
         PROVE  FALSE
    BY <1>0, <1>13 DEF FinishUpgrade, FinishRevert, Abort, RestoreManifest, OtherRoute,
       BeginRevert, RestoreFile, WriteFile, EraseAdded, command
  <1> QED
    BY <1>1, <1>2, <1>3, <1>4, <1>5, <1>6, <1>7, <1>8, <1>10, <1>11, <1>12, <1>13 DEF Next

-----------------------------------------------------------------------------
(***************************************************************************)
(* Commands that nobody disturbs.                                          *)
(***************************************************************************)

LEMMA NextExactInv ==
    TypeOK /\ StageOK /\ PlanInv /\ ExactInv /\ [Next]_vars => ExactInv'
  <1> SUFFICES ASSUME TypeOK, StageOK, PlanInv, ExactInv, [Next]_vars, exact'
               PROVE  ExactInv'
    BY DEF ExactInv, RevertUndoes
  <1> USE DEF Upgrading, Opened, Copy, Base
  <1>0. /\ pc \in {"idle", "open", "write", "manifest", "delete", "restart"}
        /\ (kind = "none") = (pc = "idle")
        /\ plan \in [forced : BOOLEAN, target : State, env : SUBSET Keys, lock : Seq(State)]
        /\ todo \subseteq Files /\ needs \subseteq Files /\ gone \subseteq Files
        /\ disk \in State /\ exact \in BOOLEAN
        /\ kind \in {"none", "upgrade", "revert"}
    BY DEF TypeOK
  <1>1. ASSUME NEW forced \in BOOLEAN, BeginUpgrade(forced) PROVE ExactInv'
    <2>1. /\ pc' = "open" /\ kind' = "upgrade" /\ last' = "none" /\ UNCHANGED << disk, manifest >>
          /\ todo' = OfKind({"Added", "Modified", "Drift"}) /\ gone' = OfKind({"Removed"})
      BY <1>1 DEF BeginUpgrade, service
    <2>2. \A f \in Files : plan'.target[f] = Planned(f)
      BY <1>1, BeginUpgradeTypes
    <2>3. \A f \in Files \ (todo' \cup gone') :
             disk[f] = Planned(f) \/ (Planned(f) = Absent /\ manifest[f] = Absent)
      BY <2>1, KindsAre
    <2> QED
      BY <2>1, <2>2, <2>3 DEF ExactInv, RevertUndoes
  <1>2. ASSUME OpenSnapshot PROVE ExactInv'
    <2>1. /\ kind = "upgrade" /\ pc = "open" /\ pc' = "write" /\ last = "none"
          /\ before'.disk = disk /\ before'.manifest = manifest
          /\ UNCHANGED << disk, manifest, kind, plan, todo, needs, gone, last, exact >>
      BY <1>0, <1>2 DEF OpenSnapshot, service, StageOK
    <2>2. \A f \in Files : snapshots'[1].saved[f] = Absent
      BY <1>2, OpenSnapshotTypes
    <2> QED
      BY <2>1, <2>2 DEF ExactInv, RevertUndoes
  <1>3. ASSUME NEW f \in Files, CopyToSnapshot(f) PROVE ExactInv'
    <2>1. /\ kind = "upgrade" /\ pc # "open" /\ f \in todo \cup gone
          /\ UNCHANGED << disk, manifest, kind, pc, plan, todo, gone, before, last, exact >>
      BY <1>3, CopyTypes DEF CopyToSnapshot, service, history
    <2>2. \A g \in Files :
             snapshots'[1].saved[g] = IF g = f THEN disk[f] ELSE snapshots[1].saved[g]
      BY <1>3, CopyTypes
    <2>3. last = "none"
      BY <2>1 DEF StageOK
    <2> QED
      BY <2>1, <2>2, <2>3 DEF ExactInv, RevertUndoes
  <1>4. ASSUME NEW f \in Files, Upgrading, WriteFile(f) PROVE ExactInv'
    <2>1. /\ pc # "open" /\ todo' = todo \ {f} /\ f \in todo \ needs
          /\ plan.target[f] # Absent /\ disk'[f] = plan.target[f]
          /\ \A g \in Files \ {f} : disk'[g] = disk[g]
          /\ UNCHANGED << manifest, kind, pc, plan, gone, before, snapshots, last, exact >>
      BY <1>0, <1>4 DEF WriteFile, State, StageOK, history
    <2>2. before.disk[f] = Absent \/ snapshots[1].saved[f] # Absent
      BY <1>4, <2>1 DEF PlanInv
    <2>3. f \notin gone /\ last = "none"
      BY <1>4, <2>1 DEF StageOK
    <2> QED
      BY <1>4, <2>1, <2>2, <2>3 DEF ExactInv, RevertUndoes
  <1>5. ASSUME Upgrading, CopyManifest PROVE ExactInv'
    <2>1. /\ pc # "open" /\ pc' # "open" /\ last = "none"
          /\ UNCHANGED << disk, manifest, kind, plan, todo, gone, before, last, exact >>
      BY <1>5 DEF CopyManifest, service, history, StageOK
    <2>2. \A g \in Files : snapshots'[1].saved[g] = snapshots[1].saved[g]
      BY <1>5, CopyManifestTypes
    <2> QED
      BY <1>5, <2>1, <2>2 DEF ExactInv, RevertUndoes
  <1>6. ASSUME WriteManifest PROVE ExactInv'
    <2>1. /\ kind = "upgrade" /\ pc # "open" /\ pc' # "open" /\ last = "none"
          /\ UNCHANGED << disk, kind, plan, todo, gone, before, snapshots, last, exact >>
      BY <1>0, <1>6 DEF WriteManifest, history, StageOK
    <2> QED
      BY <2>1 DEF ExactInv, RevertUndoes
  <1>7. ASSUME NEW f \in Files, DeleteFile(f) PROVE ExactInv'
    <2>1. /\ kind = "upgrade" /\ pc = "delete" /\ gone' = gone \ {f} /\ f \in gone \ needs
          /\ todo = {} /\ disk'[f] = Absent /\ last = "none"
          /\ plan.target[f] = Absent /\ before.manifest[f] # Absent
          /\ \A g \in Files \ {f} : disk'[g] = disk[g]
          /\ UNCHANGED << kind, pc, plan, todo, before, snapshots, last, exact >>
      BY <1>0, <1>7 DEF DeleteFile, State, StageOK, history
    <2>2. before.disk[f] = Absent \/ snapshots[1].saved[f] # Absent
      BY <2>1 DEF PlanInv
    <2> QED
      BY <2>1, <2>2 DEF ExactInv, RevertUndoes
  <1>8. ASSUME AppendEnv PROVE ExactInv'
    <2>1. /\ kind = "upgrade" /\ pc = "delete" /\ pc' = "restart" /\ last = "none"
          /\ UNCHANGED << disk, manifest, kind, plan, todo, gone, before, snapshots, last, exact >>
      BY <1>8 DEF AppendEnv, history, StageOK
    <2> QED
      BY <2>1 DEF ExactInv, RevertUndoes
  <1>9. ASSUME FinishUpgrade PROVE ExactInv'
    <2>1. /\ kind = "upgrade" /\ pc = "restart" /\ kind' = "none" /\ pc' = "idle"
          /\ last' = "upgrade"
          /\ UNCHANGED << disk, manifest, plan, todo, gone, before, exact >>
      BY <1>9 DEF FinishUpgrade, service
    <2>2. snapshots'[1] = snapshots[1]
      BY <1>9, PruneTypes
    <2> QED
      BY <2>1, <2>2 DEF ExactInv, RevertUndoes
  <1>10. ASSUME NEW i \in 1 .. MaxCommands, BeginRevert(i) PROVE ExactInv'
    <2>1. /\ kind = "none" /\ exact /\ i = 1 /\ last = "upgrade" /\ kind' = "revert"
          /\ last' = "none"
          /\ UNCHANGED << disk, manifest, before, snapshots >>
      BY <1>0, <1>10 DEF BeginRevert, service
    <2>2. /\ todo = {} /\ gone = {} /\ manifest = plan.target
          /\ snapshots[1].lock = << before.manifest >>
      BY <2>1 DEF StageOK
    <2>3. \A f \in Files :
            /\ disk[f] = manifest[f] \/ (manifest[f] = Absent /\ Base[f] = Absent)
            /\ snapshots[1].saved[f] # Absent => snapshots[1].saved[f] = before.disk[f]
            /\ snapshots[1].saved[f] = Absent /\ before.disk[f] # Absent =>
                 disk[f] = before.disk[f]
            /\ manifest[f] = Absent /\ before.manifest[f] = Absent => disk[f] = before.disk[f]
      BY <2>1, <2>2 DEF ExactInv
    <2>4. /\ plan'.lock = << before.manifest >>
          /\ \A f \in Files :
               /\ f \in todo' <=> snapshots[1].saved[f] # Absent
               /\ plan'.target[f] = IF f \in todo' THEN snapshots[1].saved[f] ELSE disk[f]
               /\ f \in gone' <=> manifest[f] # Absent /\ before.manifest[f] = Absent
      <3>1. << before.manifest >> # << >> /\ << before.manifest >>[1] = before.manifest
        OBVIOUS
      <3> QED
        BY <1>10, <2>1, <2>2, <3>1, BeginRevertTypes
    <2>5. ASSUME NEW f \in Files, Matching(f)
          PROVE  IF f \in todo' THEN plan'.target[f] = before.disk[f] /\ f \notin gone'
                 ELSE IF f \in gone' THEN before.disk[f] = Absent
                 ELSE disk[f] = before.disk[f]
      BY <2>3, <2>4, <2>5 DEF Matching
    <2>6. \A f \in Files : Matching(f)' <=> Matching(f)
      BY <2>1 DEF Matching
    <2> QED
      BY <2>1, <2>4, <2>5, <2>6 DEF ExactInv, RevertUndoes
  <1>11. ASSUME NEW f \in Files, RestoreFile(f) PROVE ExactInv'
    <2>1. /\ kind = "revert" /\ todo' = todo \ {f} /\ f \in todo /\ last = "none"
          /\ disk'[f] = plan.target[f]
          /\ \A g \in Files \ {f} : disk'[g] = disk[g]
          /\ UNCHANGED << manifest, kind, plan, gone, before, last, exact >>
      BY <1>0, <1>11 DEF RestoreFile, WriteFile, State, StageOK, history
    <2>2. \A g \in Files : Matching(g)' <=> Matching(g)
      BY <2>1 DEF Matching
    <2> QED
      BY <2>1, <2>2 DEF ExactInv, RevertUndoes
  <1>12. ASSUME RestoreManifest PROVE ExactInv'
    <2>1. /\ kind = "revert" /\ last = "none" /\ plan.lock # << >>
          /\ manifest' = plan.lock[1] /\ plan'.lock = << >> /\ plan'.target = plan.target
          /\ UNCHANGED << disk, kind, todo, gone, before, last, exact >>
      BY <1>0, <1>12 DEF RestoreManifest, StageOK, history
    <2>2. << before.manifest >>[1] = before.manifest
      OBVIOUS
    <2>3. manifest' = before.manifest
      BY <2>1, <2>2 DEF ExactInv
    <2>4. \A g \in Files : Matching(g)' <=> Matching(g)
      BY <2>1 DEF Matching
    <2> QED
      BY <2>1, <2>3, <2>4 DEF ExactInv, RevertUndoes
  <1>13. ASSUME NEW f \in Files, EraseAdded(f) PROVE ExactInv'
    <2>1. /\ kind = "revert" /\ gone' = gone \ {f} /\ f \in gone /\ last = "none"
          /\ disk'[f] = Absent
          /\ \A g \in Files \ {f} : disk'[g] = disk[g]
          /\ todo = {} /\ UNCHANGED << manifest, kind, plan, todo, before, last, exact >>
      BY <1>0, <1>13 DEF EraseAdded, State, StageOK, history
    <2>2. \A g \in Files : Matching(g)' <=> Matching(g)
      BY <2>1 DEF Matching
    <2> QED
      BY <2>1, <2>2 DEF ExactInv, RevertUndoes
  <1>14. ASSUME FinishRevert PROVE ExactInv'
    <2>1. /\ kind = "revert" /\ todo = {} /\ gone = {} /\ plan.lock = << >>
          /\ kind' = "none" /\ last' = "revert"
          /\ UNCHANGED << disk, manifest, before, exact >>
      BY <1>14 DEF FinishRevert, service
    <2>2. << before.manifest >> # << >>
      OBVIOUS
    <2>3. manifest = before.manifest /\ \A f \in Files : Matching(f) => disk[f] = before.disk[f]
      BY <2>1, <2>2 DEF ExactInv
    <2>4. RevertUndoes'
      BY <2>1, <2>3 DEF RevertUndoes, Matching
    <2> QED
      BY <2>1, <2>4 DEF ExactInv
  <1>15. ASSUME (\E k \in Keys : UserAddsKey(k)) \/ BumpRegistry \/ UNCHANGED vars
         PROVE  ExactInv'
    <2>1. UNCHANGED << disk, manifest, kind, pc, plan, todo, gone, before, snapshots, last, exact >>
      BY <1>15 DEF UserAddsKey, BumpRegistry, vars, service, command, history
    <2>2. \A g \in Files : Matching(g)' <=> Matching(g)
      BY <2>1 DEF Matching
    <2> QED
      BY <2>1, <2>2 DEF ExactInv, RevertUndoes
  <1>16. ASSUME \/ Abort \/ OtherRoute
                \/ \E f \in Files :
                      UserChanges(f, Append(disk[f], "edit")) \/ UserChanges(f, Absent)
         PROVE  FALSE
    BY <1>16 DEF Abort, OtherRoute, UserChanges
  <1> QED
    BY <1>1, <1>2, <1>3, <1>4, <1>5, <1>6, <1>7, <1>8, <1>9, <1>10, <1>11, <1>12, <1>13,
       <1>14, <1>15, <1>16 DEF Next

-----------------------------------------------------------------------------
(***************************************************************************)
(* The manifest tells the truth, but for edits.                            *)
(***************************************************************************)

LEMMA NextGenuineInv ==
    TypeOK /\ StageOK /\ PlanInv /\ GenuineInv /\ [Next]_vars => GenuineInv'
  <1> SUFFICES ASSUME TypeOK, StageOK, PlanInv, GenuineInv, [Next]_vars PROVE GenuineInv'
    OBVIOUS
  <1> USE DEF Upgrading, Opened, Copy, Base, Genuine, Trusted
  <1>0. /\ pc \in {"idle", "open", "write", "manifest", "delete", "restart"}
        /\ (kind = "none") = (pc = "idle")
        /\ plan \in [forced : BOOLEAN, target : State, env : SUBSET Keys, lock : Seq(State)]
        /\ todo \subseteq Files /\ needs \subseteq Files /\ gone \subseteq Files
        /\ disk \in State
        /\ kind \in {"none", "upgrade", "revert"}
        /\ kind = "upgrade" /\ pc # "open" => snapshots # << >>
    BY DEF TypeOK
  <1>1. ASSUME NEW forced \in BOOLEAN, BeginUpgrade(forced) PROVE GenuineInv'
    <2>1. /\ kind = "none" /\ pc' = "open" /\ kind' = "upgrade"
          /\ UNCHANGED << disk, manifest, before, snapshots, mixed >>
          /\ todo' = OfKind({"Added", "Modified", "Drift"})
      BY <1>0, <1>1 DEF BeginUpgrade, service
    <2>2. \A f \in Files : plan'.target[f] = Planned(f)
      BY <1>1, BeginUpgradeTypes
    <2>3. \A f \in Files : f \notin todo' => Planned(f) = Absent \/ disk[f] = Planned(f)
      BY <2>1, KindsAre
    <2> QED
      BY <2>1, <2>2, <2>3 DEF GenuineInv
  <1>2. ASSUME OpenSnapshot PROVE GenuineInv'
    <2>1. /\ kind = "upgrade" /\ pc = "open" /\ pc' = "write"
          /\ before'.disk = disk /\ before'.manifest = manifest /\ before'.mixed = mixed
          /\ UNCHANGED << disk, manifest, kind, plan, todo, needs, mixed >>
      BY <1>0, <1>2 DEF OpenSnapshot, service, StageOK
    <2>2. \A f \in Files : snapshots'[1].saved[f] = Absent
      BY <1>2, OpenSnapshotTypes
    <2> QED
      BY <2>1, <2>2 DEF GenuineInv
  <1>3. ASSUME NEW f \in Files, CopyToSnapshot(f) PROVE GenuineInv'
    <2>1. /\ kind = "upgrade" /\ pc # "open" /\ f \in needs /\ needs' = needs \ {f}
          /\ disk[f] # Absent
          /\ UNCHANGED << disk, manifest, kind, pc, plan, todo, before, mixed >>
      BY <1>3, CopyTypes DEF CopyToSnapshot, service, history
    <2>2. \A g \in Files :
             snapshots'[1].saved[g] = IF g = f THEN disk[f] ELSE snapshots[1].saved[g]
      BY <1>3, CopyTypes
    <2>3. snapshots # << >>
      BY <1>0, <2>1
    <2> QED
      BY <2>1, <2>2, <2>3 DEF GenuineInv
  <1>4. ASSUME NEW f \in Files, Upgrading, WriteFile(f) PROVE GenuineInv'
    <2>1. /\ pc # "open" /\ todo' = todo \ {f} /\ f \in todo \ needs
          /\ disk'[f] = plan.target[f]
          /\ \A g \in Files \ {f} : disk'[g] = disk[g]
          /\ UNCHANGED << manifest, kind, pc, plan, needs, before, snapshots, mixed >>
      BY <1>0, <1>4 DEF WriteFile, State, history
    <2>2. before.disk[f] = Absent \/ snapshots[1].saved[f] # Absent
      BY <1>4, <2>1 DEF PlanInv
    <2> QED
      BY <1>4, <2>1, <2>2 DEF GenuineInv
  <1>5. ASSUME Upgrading, CopyManifest PROVE GenuineInv'
    <2>1. /\ pc # "open" /\ pc' # "open" /\ snapshots # << >>
          /\ UNCHANGED << disk, manifest, kind, plan, todo, needs, before, mixed >>
      BY <1>0, <1>5 DEF CopyManifest, service, history
    <2>2. \A g \in Files : snapshots'[1].saved[g] = snapshots[1].saved[g]
      BY <1>5, CopyManifestTypes
    <2> QED
      BY <1>5, <2>1, <2>2 DEF GenuineInv
  <1>6. ASSUME WriteManifest \/ AppendEnv PROVE GenuineInv'
    <2>1. /\ kind = "upgrade" /\ pc # "open" /\ pc' # "open"
          /\ UNCHANGED << disk, kind, plan, todo, needs, before, snapshots, mixed >>
      BY <1>0, <1>6 DEF WriteManifest, AppendEnv, history, StageOK
    <2> QED
      BY <2>1 DEF GenuineInv
  <1>7. ASSUME NEW f \in Files, DeleteFile(f) PROVE GenuineInv'
    <2>1. /\ kind = "upgrade" /\ pc = "delete" /\ disk'[f] = Absent
          /\ \A g \in Files \ {f} : disk'[g] = disk[g]
          /\ UNCHANGED << kind, pc, plan, todo, needs, before, snapshots, mixed >>
      BY <1>0, <1>7 DEF DeleteFile, State, StageOK, history
    <2> QED
      BY <2>1 DEF GenuineInv
  <1>8. ASSUME FinishUpgrade PROVE GenuineInv'
    <2>1. /\ kind = "upgrade" /\ pc = "restart" /\ kind' = "none" /\ pc' = "idle"
          /\ UNCHANGED << disk, manifest, before >>
      BY <1>8 DEF FinishUpgrade, service
    <2>2. /\ todo = {} /\ needs = {} /\ manifest = plan.target
          /\ snapshots[1].lock = << before.manifest >>
      BY <2>1 DEF StageOK
    <2>3. snapshots'[1] = snapshots[1] /\ snapshots # << >>
      BY <1>0, <1>8, <2>1, PruneTypes
    <2> QED
      BY <2>1, <2>2, <2>3 DEF GenuineInv
  <1>9. ASSUME NEW i \in 1 .. MaxCommands, BeginRevert(i) PROVE GenuineInv'
    <2>1. /\ kind = "none" /\ kind' = "revert" /\ pc' = "write"
          /\ ~mixed' => /\ ~mixed /\ ~before.mixed /\ i = 1
                        /\ \A f \in Files : ~DeletedByHand(f)
          /\ UNCHANGED << disk, manifest, before, snapshots >>
      BY <1>0, <1>9 DEF BeginRevert, service
    <2>2. snapshots # << >>
      BY <1>9, BeginRevertTypes, EmptySeq
    <2>3. \A f \in Files :
            /\ f \in todo' <=> snapshots[i].saved[f] # Absent
            /\ plan'.target[f] = IF f \in todo' THEN snapshots[i].saved[f] ELSE disk[f]
      BY <1>9, BeginRevertTypes
    <2>4. plan'.lock = snapshots[i].lock
      BY <1>9, BeginRevertTypes
    <2>5. ASSUME ~mixed'
          PROVE  /\ plan'.lock = << before.manifest >>
                 /\ \A f \in Files \ {Shared} :
                      Genuine(IF f \in todo' THEN plan'.target[f] ELSE disk[f], before.manifest[f])
      <3>1. Trusted /\ ~mixed /\ i = 1 /\ kind = "none"
        BY <2>1, <2>2, <2>5
      <3>2. plan'.lock = << before.manifest >>
        BY <2>2, <2>4, <3>1 DEF GenuineInv
      <3>3. \A f \in Files : before.disk[f] = Absent => before.manifest[f] = Absent
        BY <2>1, <2>5 DEF DeletedByHand
      <3> QED
        BY <2>3, <3>1, <3>2, <3>3 DEF GenuineInv
    <2> QED
      BY <2>1, <2>2, <2>5 DEF GenuineInv
  <1>10. ASSUME NEW f \in Files, RestoreFile(f) PROVE GenuineInv'
    <2>1. /\ kind = "revert" /\ todo' = todo \ {f} /\ f \in todo
          /\ disk'[f] = plan.target[f]
          /\ \A g \in Files \ {f} : disk'[g] = disk[g]
          /\ pc = "write"
          /\ UNCHANGED << manifest, kind, pc, plan, needs, before, snapshots, mixed >>
      BY <1>0, <1>10 DEF RestoreFile, WriteFile, State, history
    <2> QED
      BY <2>1 DEF GenuineInv
  <1>11. ASSUME RestoreManifest PROVE GenuineInv'
    <2>1. /\ kind = "revert" /\ plan.lock # << >> /\ pc = "write"
          /\ manifest' = plan.lock[1] /\ plan'.lock = << >> /\ plan'.target = plan.target
          /\ UNCHANGED << disk, kind, pc, todo, needs, before, snapshots, mixed >>
      BY <1>0, <1>11 DEF RestoreManifest, history
    <2>2. << before.manifest >>[1] = before.manifest
      OBVIOUS
    <2> QED
      BY <2>1, <2>2 DEF GenuineInv
  <1>12. ASSUME NEW f \in Files, EraseAdded(f) PROVE GenuineInv'
    <2>1. /\ kind = "revert" /\ disk'[f] = Absent /\ todo = {} /\ pc = "write"
          /\ \A g \in Files \ {f} : disk'[g] = disk[g]
          /\ UNCHANGED << manifest, kind, pc, plan, todo, needs, before, snapshots, mixed >>
      BY <1>0, <1>12 DEF EraseAdded, State, history
    <2> QED
      BY <2>1 DEF GenuineInv
  <1>13. ASSUME FinishRevert PROVE GenuineInv'
    <2>1. /\ kind = "revert" /\ todo = {} /\ plan.lock = << >> /\ kind' = "none"
          /\ UNCHANGED << disk, manifest, before, snapshots, mixed >>
      BY <1>13 DEF FinishRevert, service
    <2>2. << before.manifest >> # << >>
      OBVIOUS
    <2> QED
      BY <2>1, <2>2 DEF GenuineInv
  <1>14. ASSUME Abort PROVE GenuineInv'
    <2>1. /\ kind' = "none" /\ UNCHANGED << disk, manifest, snapshots >>
          /\ mixed' = (mixed \/ pc # "open")
          /\ pc = "open" => before' = before /\ kind = "upgrade"
      BY <1>0, <1>14 DEF Abort, service, StageOK
    <2> QED
      BY <2>1 DEF GenuineInv
  <1>15. ASSUME NEW f \in Files, NEW c \in Content, c = Absent \/ Edited(c), UserChanges(f, c)
         PROVE  GenuineInv'
    <2>1. /\ disk'[f] = c
          /\ \A g \in Files \ {f} : disk'[g] = disk[g]
          /\ UNCHANGED << manifest, kind, pc, plan, todo, needs, before, snapshots, mixed >>
      BY <1>0, <1>15 DEF UserChanges, State, command
    <2> QED
      BY <1>15, <2>1 DEF GenuineInv
  <1>16. ASSUME (\E k \in Keys : UserAddsKey(k)) \/ BumpRegistry \/ UNCHANGED vars
         PROVE  GenuineInv'
    <2>1. UNCHANGED << disk, manifest, kind, pc, plan, todo, needs, before, snapshots, mixed >>
      BY <1>16 DEF UserAddsKey, BumpRegistry, vars, service, command, history
    <2> QED
      BY <2>1 DEF GenuineInv
  <1>17. ASSUME OtherRoute PROVE GenuineInv'
    <2>1. /\ \A g \in Files \ {Shared} : disk'[g] = disk[g]
          /\ UNCHANGED << manifest, kind, pc, plan, todo, needs, before, snapshots, mixed >>
      BY <1>0, <1>17 DEF OtherRoute, State, command
    <2> QED
      BY <2>1 DEF GenuineInv
  <1>18. ASSUME NEW f \in Files, UserChanges(f, Append(disk[f], "edit")) \/ UserChanges(f, Absent)
         PROVE  GenuineInv'
    <2>1. disk[f] \in Content
      BY <1>0 DEF State
    <2> QED
      BY <1>15, <1>18, <2>1, EditIsEdited, AbsentIsContent
  <1> QED
    BY <1>1, <1>2, <1>3, <1>4, <1>5, <1>6, <1>7, <1>8, <1>9, <1>10, <1>11, <1>12, <1>13,
       <1>14, <1>16, <1>17, <1>18 DEF Next

-----------------------------------------------------------------------------
(***************************************************************************)
(* The invariant and what follows from it.                                 *)
(***************************************************************************)

LEMMA InitInv == Init => Inv
  <1> SUFFICES ASSUME Init PROVE Inv
    OBVIOUS
  <1>1. TypeOK
    BY InitTypeOK
  <1>2. StageOK /\ PlanInv /\ ExactInv
    BY DEF Init, StageOK, PlanInv, ExactInv, RevertUndoes, Upgrading, Opened
  <1>3. Unedited(manifest) /\ Unedited(before.manifest)
    BY ConstantsOK DEF Init, Unedited
  <1>4. OwnInv
    BY <1>3, Records DEF Init, OwnInv, Upgrading
  <1>5. GenuineInv
    BY DEF Init, GenuineInv, Trusted, Genuine, Upgrading
  <1> QED
    BY <1>1, <1>2, <1>4, <1>5 DEF Inv

LEMMA NextInv == Inv /\ [Next]_vars => Inv'
  <1> SUFFICES ASSUME Inv, [Next]_vars PROVE Inv'
    OBVIOUS
  <1>1. TypeOK' /\ StageOK' /\ OwnInv'
    BY NextTypeOK, NextStageOK, NextOwnInv DEF Inv
  <1>2. PlanInv' /\ ExactInv' /\ GenuineInv'
    BY NextPlanInv, NextExactInv, NextGenuineInv DEF Inv
  <1> QED
    BY <1>1, <1>2 DEF Inv

LEMMA Invariance == Spec => []Inv
  BY InitInv, NextInv, PTL DEF Spec

\* Every reachable state is well typed.
THEOREM TypeCorrect == Spec => []TypeOK
  <1>1. Inv => TypeOK
    BY DEF Inv
  <1> QED
    BY <1>1, Invariance, PTL

\* revert_service puts every truly recorded file back to what it was before
\* an upgrade, edits included.
THEOREM RevertedExactly == Spec => []RevertUndoes
  <1>1. Inv => RevertUndoes
    BY DEF Inv, ExactInv
  <1> QED
    BY <1>1, Invariance, PTL

\* An upgrade that ends leaves what the registry ships and a manifest that says
\* so, also after others were cut short.
THEOREM UpgradeReaches == Spec => []UpgradeConverges
  <1>1. Inv => UpgradeConverges
    <2> SUFFICES ASSUME Inv, last = "upgrade", exact
                 PROVE  /\ manifest = plan.target
                        /\ \A f \in Files :
                              plan.target[f] # Absent \/ before.manifest[f] # Absent =>
                                  disk[f] = plan.target[f]
      BY DEF UpgradeConverges
    <2>1. kind = "none" /\ pc = "idle" /\ manifest = plan.target /\ todo = {} /\ gone = {}
      BY DEF Inv, StageOK, TypeOK
    <2> QED
      BY <2>1 DEF Inv, ExactInv, Base
  <1> QED
    BY <1>1, Invariance, PTL

\* diff_service takes nothing for a hand edit that the user did not edit, but
\* after an interruption.
THEOREM DriftIsReal == Spec => []DriftIsAnEdit
  <1>1. Inv => DriftIsAnEdit
    <2> SUFFICES ASSUME Inv, pc = "idle", ~mixed, NEW f \in Files \ {Shared},
                        Kind(f) = "Drift", manifest[f] # Absent
                 PROVE  Edited(disk[f])
      BY DEF DriftIsAnEdit
    <2>1. f \in OfKind({"Drift"})
      BY DEF OfKind
    <2>2. disk[f] # Absent /\ disk[f] # manifest[f]
      BY <2>1, KindsAre
    <2>3. kind = "none"
      BY DEF Inv, TypeOK
    <2>4. Genuine(disk[f], manifest[f])
      BY <2>3 DEF Inv, GenuineInv
    <2> QED
      BY <2>2, <2>4 DEF Genuine
  <1> QED
    BY <1>1, Invariance, PTL

\* How a step of a running upgrade can change a file.
LEMMA UpgradeSteps ==
    ASSUME Inv, [Next]_vars, kind = "upgrade", NEW f \in Files, f \notin raced',
           disk'[f] # disk[f]
    PROVE  /\ f \in (todo \cup gone) \ needs /\ pc # "open" /\ raced' = raced
           /\ snapshots' = snapshots
           /\ disk'[f] = plan.target[f]
           /\ f \in todo \/ plan.target[f] = Absent
  <1>0. pc # "idle" /\ disk \in State
    BY DEF Inv, TypeOK
  <1>1. ASSUME NEW g \in Files, WriteFile(g)
        PROVE  /\ f = g /\ f \in todo \ needs /\ pc = "write" /\ UNCHANGED << raced, snapshots >>
               /\ disk'[f] = plan.target[f]
    BY <1>0, <1>1 DEF WriteFile, State, history
  <1>2. ASSUME NEW g \in Files, DeleteFile(g)
        PROVE  /\ f = g /\ f \in gone \ needs /\ pc = "delete" /\ UNCHANGED << raced, snapshots >>
               /\ disk'[f] = Absent
    BY <1>0, <1>2 DEF DeleteFile, State, history
  <1>3. \A g \in gone : plan.target[g] = Absent
    BY DEF Inv, StageOK, Upgrading
  <1>4. ASSUME NEW g \in Files, NEW c, UserChanges(g, c) PROVE FALSE
    BY <1>0, <1>4 DEF UserChanges, State
  <1>5. ASSUME \/ \E forced \in BOOLEAN : BeginUpgrade(forced)
               \/ OpenSnapshot \/ CopyManifest \/ WriteManifest \/ AppendEnv \/ FinishUpgrade
               \/ \E g \in Files : CopyToSnapshot(g)
               \/ \E i \in 1 .. MaxCommands : BeginRevert(i)
               \/ \E g \in Files : RestoreFile(g) \/ EraseAdded(g)
               \/ RestoreManifest \/ FinishRevert \/ Abort \/ BumpRegistry \/ OtherRoute
               \/ \E k \in Keys : UserAddsKey(k)
               \/ UNCHANGED vars
        PROVE  FALSE
    BY <1>0, <1>5 DEF BeginUpgrade, OpenSnapshot, CopyManifest, WriteManifest, AppendEnv,
       FinishUpgrade, CopyToSnapshot, BeginRevert, RestoreFile, EraseAdded, RestoreManifest,
       FinishRevert, Abort, BumpRegistry, OtherRoute, UserAddsKey, vars, service
  <1> QED
    BY <1>1, <1>2, <1>3, <1>4, <1>5 DEF Next

\* upgrade_service without --force overwrites no hand edit of a file that the
\* registry still ships.
THEOREM EditsOfShippedFilesSurvive == Spec => ShippedEditsSurvive
  <1>1. Inv /\ [Next]_vars =>
          [ kind = "upgrade" /\ ~plan.forced =>
              \A f \in Files \ raced' :
                 plan.target[f] # Absent /\ Edited(disk[f]) => Edited(disk'[f]) ]_vars
    <2> SUFFICES ASSUME Inv, [Next]_vars, kind = "upgrade", ~plan.forced,
                        NEW f \in Files \ raced', plan.target[f] # Absent, Edited(disk[f])
                 PROVE  Edited(disk'[f])
      OBVIOUS
    <2>1. CASE disk'[f] = disk[f]
      BY <2>1
    <2>2. CASE disk'[f] # disk[f]
      <3>1. f \in todo \ raced /\ disk'[f] = plan.target[f]
        BY <2>2, UpgradeSteps
      <3> QED
        BY <3>1 DEF Inv, PlanInv, Upgrading
    <2> QED
      BY <2>1, <2>2
  <1> QED
    BY <1>1, Invariance, PTL DEF Spec, ShippedEditsSurvive

\* Whatever an upgrade overwrites or deletes is in its backup directory.
THEOREM DisplacedIsSaved == Spec => NothingLost
  <1>1. Inv /\ [Next]_vars =>
          [ kind = "upgrade" =>
              \A f \in Files \ raced' :
                 disk'[f] # disk[f] /\ disk[f] # Absent =>
                    /\ f \in Saved(snapshots[1])
                    /\ snapshots[1].saved[f] = disk[f] ]_vars
    <2> SUFFICES ASSUME Inv, [Next]_vars, kind = "upgrade", NEW f \in Files \ raced',
                        disk'[f] # disk[f], disk[f] # Absent
                 PROVE  f \in Saved(snapshots[1]) /\ snapshots[1].saved[f] = disk[f]
      OBVIOUS
    <2>1. f \in (todo \cup gone) \ needs /\ pc # "open" /\ f \notin raced
      BY UpgradeSteps
    <2>2. snapshots[1].saved[f] = disk[f]
      BY <2>1 DEF Inv, PlanInv, Upgrading, Copy
    <2> QED
      BY <2>2 DEF Saved
  <1> QED
    BY <1>1, Invariance, PTL DEF Spec, NothingLost

\* No command takes a key out of `.env` that its plan had read.
THEOREM EnvKeepsKeys == Spec => EnvOnlyGrows
  <1>1. Inv /\ [Next]_vars => [env \ raced \subseteq env']_vars
    <2> SUFFICES ASSUME Inv, Next PROVE env \ raced \subseteq env'
      OBVIOUS
    <2>1. ASSUME AppendEnv PROVE env \ raced \subseteq env'
      BY <2>1 DEF AppendEnv, Inv, PlanInv, Upgrading
    <2>2. ASSUME NEW k \in Keys, UserAddsKey(k) PROVE env \ raced \subseteq env'
      BY <2>2 DEF UserAddsKey
    <2>3. CASE ~(AppendEnv \/ \E k \in Keys : UserAddsKey(k))
      <3>1. env' = env
        BY <2>3 DEF Next, BeginUpgrade, OpenSnapshot, CopyManifest, WriteManifest, WriteFile,
           DeleteFile, FinishUpgrade, CopyToSnapshot, BeginRevert, RestoreFile, EraseAdded,
           RestoreManifest, FinishRevert, Abort, BumpRegistry, OtherRoute, UserChanges, service
      <3> QED
        BY <3>1
    <2> QED
      BY <2>1, <2>2, <2>3
  <1> QED
    BY <1>1, Invariance, PTL DEF Spec, EnvOnlyGrows
==============================================================================
