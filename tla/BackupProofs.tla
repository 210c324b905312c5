------------------------------ MODULE BackupProofs ------------------------------
(***************************************************************************)
(* The safety of backups and restores of one service, for any number of    *)
(* processes, schedules, files, transactions and snapshots, whichever of   *)
(* them overlap; and of what backups rest on, the place and password in    *)
(* preferences.toml, the timers and the account's key.                     *)
(***************************************************************************)
EXTENDS Backup, BackupSetup, FiniteSetTheorems, SequenceTheorems, TLAPS

USE DEF Cold, service

\* The steps at which a run of a cold service has stopped it.
Holding == {"chown", "wipe", "hook", "restic", "bringUp", "recover"}

\* What a run can be at each step.
StageOK ==
    \A j \in Jobs :
        /\ online => pc[j] \notin {"stop", "chown", "wipe"}
        /\ pc[j] \in {"chown", "recover"} => Backing(j)
        /\ pc[j] = "wipe" => kind[j] = "restore"
        /\ pc[j] = "prune" => kind[j] \in Schedules

\* A stopped application has finished its transaction, and nobody started the
\* service under a run that nobody disturbed.
StoppedInv ==
    /\ ~up => pending = {}
    /\ Cold => \A j \in Jobs \ disturbed : pc[j] \in Holding => ~up

\* How far an undisturbed cold restore is: what it has written is there; and after
\* a wipe that left nothing the tree is empty, and then the snapshot's but for the
\* files that are left.
RestoreInv ==
    Cold => \A j \in Jobs \ disturbed : kind[j] = "restore" =>
        /\ pc[j] = "hook" /\ paths /\ j \notin unwiped => data = Empty
        /\ pc[j] \in {"restic", "bringUp"} =>
              \A f \in Files : tree[j][f] # 0 /\ (pc[j] = "restic" => f \notin left[j])
                                 => data[f] = tree[j][f]
        /\ pc[j] = "restic" /\ paths /\ j \notin unwiped =>
              \A f \in Files : data[f] = IF f \in left[j] THEN 0 ELSE tree[j][f]
        /\ pc[j] = "bringUp" /\ paths /\ j \notin unwiped => data = tree[j]

\* How far an undisturbed cold backup is: what it has copied is on disk.
BackupInv ==
    Cold => \A j \in Jobs \ disturbed : Backing(j) /\ pc[j] = "restic" =>
        \A f \in Files \ left[j] : tree[j][f] = data[f]

\* Data that is the application's own work is consistent between transactions,
\* and in a transaction it is the last one's and this one's.
DataInv ==
    Cold /\ ~damaged =>
        /\ pending = {} => Consistent(data)
        /\ \A f, g \in pending : data[f] = data[g]
        /\ pending # {} => \A f \in Files \ pending : data[f] = writes

\* A service that is down for no recorded cause is held by a run.
ExcuseInv == ~up => excused \/ (~online /\ \E j \in Jobs : pc[j] \in Holding)

Inv ==
    /\ TypeOK /\ StageOK /\ StoppedInv /\ RestoreInv /\ BackupInv /\ DataInv
    /\ SoundSnapshotsConsistent /\ ExcuseInv
-----------------------------------------------------------------------------
(***************************************************************************)
(* Finite sets of numbers.  A set with a property that smaller sets lack   *)
(* is found by WFMin over the subsets of a finite set.                     *)
(***************************************************************************)

\* A finite set of numbers has a largest one.
LEMMA LargestExists ==
    ASSUME NEW S, IsFiniteSet(S), S \subseteq Nat, S # {}
    PROVE  \E m \in S : \A k \in S : k <= m
  <1> DEFINE HasMax(X) == \E m \in X : \A k \in X : k <= m
             Bad == {X \in FiniteSubsetsOf(S) : X # {} /\ ~HasMax(X)}
  <1>1. SUFFICES ASSUME Bad # {} PROVE FALSE
    BY DEF FiniteSubsetsOf
  <1>2. PICK X \in Bad : \A Y \in Bad : <<Y, X>> \notin StrictSubsetOrdering(S)
    <2>1. Bad \subseteq FiniteSubsetsOf(S)
      OBVIOUS
    <2> HIDE DEF Bad
    <2> QED
      BY <1>1, <2>1, FS_StrictSubsetOrderingWellFounded, WFMin
  <1>3. X \subseteq S /\ IsFiniteSet(X) /\ X # {} /\ ~HasMax(X)
    BY DEF FiniteSubsetsOf
  <1>4. PICK x \in X : TRUE
    BY <1>3
  <1>5. X \ {x} \in FiniteSubsetsOf(S) /\ <<X \ {x}, X>> \in StrictSubsetOrdering(S)
    BY <1>3, <1>4, FS_Subset DEF FiniteSubsetsOf, StrictSubsetOrdering
  <1>6. X \ {x} = {} \/ HasMax(X \ {x})
    BY <1>2, <1>5
  <1>7. HasMax(X)
    <2>1. CASE X \ {x} = {}
      BY <1>3, <1>4, <2>1
    <2>2. CASE HasMax(X \ {x})
      <3>1. PICK m \in X \ {x} : \A k \in X \ {x} : k <= m
        BY <2>2
      <3>2. x \in Nat /\ m \in Nat /\ \A k \in X : k \in Nat
        BY <1>3, <1>4, <3>1
      <3> QED
        BY <1>4, <3>1, <3>2
    <2> QED
      BY <1>6, <2>1, <2>2
  <1> QED
    BY <1>3, <1>7

\* The elements of a finite set of numbers are its first, second, ... last.
LEMMA NthExists ==
    ASSUME NEW S, IsFiniteSet(S), S \subseteq Nat, NEW n \in 1 .. Cardinality(S)
    PROVE  /\ Nth(S, n) \in S
           /\ Cardinality({k \in S : k <= Nth(S, n)}) = n
  <1> DEFINE Ranked(X) == \A r \in 1 .. Cardinality(X) :
                             \E i \in X : Cardinality({k \in X : k <= i}) = r
             Bad == {X \in FiniteSubsetsOf(S) : ~Ranked(X)}
  <1>1. SUFFICES ASSUME Bad # {} PROVE FALSE
    <2>1. S \in FiniteSubsetsOf(S)
      BY DEF FiniteSubsetsOf
    <2>2. Bad = {} => Ranked(S)
      <3> HIDE DEF Ranked
      <3> QED
        BY <2>1
    <2>3. Ranked(S) => \E i \in S : Cardinality({k \in S : k <= i}) = n
      OBVIOUS
    <2> QED
      BY <2>2, <2>3 DEF Nth
  <1>2. PICK X \in Bad : \A Y \in Bad : <<Y, X>> \notin StrictSubsetOrdering(S)
    <2>1. Bad \subseteq FiniteSubsetsOf(S)
      OBVIOUS
    <2> HIDE DEF Bad
    <2> QED
      BY <1>1, <2>1, FS_StrictSubsetOrderingWellFounded, WFMin
  <1>3. X \subseteq S /\ IsFiniteSet(X) /\ X \subseteq Nat /\ ~Ranked(X)
    BY DEF FiniteSubsetsOf
  <1>4. X # {}
    <2>1. Cardinality({}) = 0
      BY FS_EmptySet
    <2> QED
      BY <1>3, <2>1
  <1>5. PICK m \in X : \A k \in X : k <= m
    BY <1>3, <1>4, LargestExists
  <1> DEFINE Y == X \ {m}
  <1>6. /\ IsFiniteSet(Y) /\ Cardinality(Y) = Cardinality(X) - 1
        /\ Cardinality(X) \in Nat
    BY <1>3, <1>5, FS_RemoveElement, FS_CardinalityType
  <1>7. Ranked(Y)
    <2>1. Y \in FiniteSubsetsOf(S) /\ <<Y, X>> \in StrictSubsetOrdering(S)
      BY <1>3, <1>5, <1>6 DEF FiniteSubsetsOf, StrictSubsetOrdering
    <2> QED
      BY <1>2, <2>1
  <1>8. ASSUME NEW r \in 1 .. Cardinality(X)
        PROVE  \E i \in X : Cardinality({k \in X : k <= i}) = r
    <2>1. CASE r = Cardinality(X)
      <3>1. {k \in X : k <= m} = X
        BY <1>5
      <3> QED
        BY <1>5, <2>1, <3>1
    <2>2. CASE r # Cardinality(X)
      <3>1. r \in 1 .. Cardinality(Y)
        BY <1>6, <2>2
      <3>2. PICK i \in Y : Cardinality({k \in Y : k <= i}) = r
        BY <1>7, <3>1
      <3>3. {k \in X : k <= i} = {k \in Y : k <= i}
        <4>1. i \in Nat /\ m \in Nat /\ i <= m /\ i # m
          BY <1>3, <1>5, <3>2
        <4>2. ~(m <= i)
          BY <4>1
        <4> QED
          BY <4>2
      <3> QED
        BY <3>2, <3>3
    <2> QED
      BY <2>1, <2>2
  <1> QED
    BY <1>3, <1>8

\* Every element of a finite set of numbers has its place among them.
LEMMA NthCovers ==
    ASSUME NEW S, IsFiniteSet(S), S \subseteq Nat, NEW i \in S
    PROVE  \E n \in 1 .. Cardinality(S) : Nth(S, n) = i
  <1> DEFINE Upto(j) == {k \in S : k <= j}
             n == Cardinality(Upto(i))
  <1>1. \A j \in S : /\ IsFiniteSet(Upto(j)) /\ Cardinality(Upto(j)) \in Nat
                     /\ Cardinality(Upto(j)) <= Cardinality(S)
    BY FS_Subset, FS_CardinalityType
  <1>2. n # 0
    BY <1>1, FS_EmptySet
  <1>3. Cardinality(S) \in Nat
    BY FS_CardinalityType
  <1>4. n \in 1 .. Cardinality(S)
    BY <1>1, <1>2, <1>3
  <1>5. Nth(S, n) \in S /\ Cardinality(Upto(Nth(S, n))) = n
    BY <1>4, NthExists
  <1>6. ASSUME NEW j \in S, NEW k \in S, j < k
        PROVE  Cardinality(Upto(j)) # Cardinality(Upto(k))
    <2>1. Upto(j) \subseteq Upto(k) /\ k \in Upto(k) /\ k \notin Upto(j)
      <3>1. j \in Nat /\ k \in Nat /\ ~(k <= j) /\ k <= k
        BY <1>6
      <3>2. ASSUME NEW l \in S, l <= j PROVE l <= k
        <4>1. l \in Nat
          OBVIOUS
        <4> QED
          BY <1>6, <3>1, <3>2, <4>1
      <3> QED
        BY <3>1, <3>2
    <2> HIDE DEF Upto
    <2> QED
      BY <1>1, <2>1, FS_Subset
  <1>7. Nth(S, n) = i
    <2>1. Nth(S, n) \in Nat /\ i \in Nat
      BY <1>5
    <2>2. ~(Nth(S, n) < i) /\ ~(i < Nth(S, n))
      BY <1>5, <1>6
    <2> QED
      BY <2>1, <2>2
  <1> QED
    BY <1>4, <1>7
-----------------------------------------------------------------------------
\* A prune keeps every snapshot that is not spent, and makes none.
LEMMA WithoutProperties ==
    ASSUME TypeOK, NEW spent
    PROVE  /\ Without(spent) \in Seq(Snapshots)
           /\ \A n \in DOMAIN Without(spent) :
                 \E i \in DOMAIN repo : Without(spent)[n] = repo[i]
           /\ \A i \in DOMAIN repo \ spent :
                 \E n \in DOMAIN Without(spent) : Without(spent)[n] = repo[i]
  <1> DEFINE kept == DOMAIN repo \ spent
  <1>1. repo \in Seq(Snapshots) /\ Len(repo) \in Nat /\ DOMAIN repo = 1 .. Len(repo)
    BY LenProperties DEF TypeOK
  <1>2. IsFiniteSet(kept) /\ kept \subseteq Nat /\ Cardinality(kept) \in Nat
    <2>1. IsFiniteSet(DOMAIN repo) /\ kept \in SUBSET (DOMAIN repo)
      BY <1>1, FS_Interval
    <2>2. IsFiniteSet(kept)
      BY <2>1, FS_Subset
    <2> QED
      BY <1>1, <2>2, FS_CardinalityType
  <1>3. \A i \in kept : repo[i] \in Snapshots
    BY <1>1, ElementOfSeq
  <1>4. Without(spent) = [n \in 1 .. Cardinality(kept) |-> repo[Nth(kept, n)]]
    BY DEF Without
  <1>5. \A n \in 1 .. Cardinality(kept) : Nth(kept, n) \in kept
    BY <1>2, NthExists
  <1>6. \A i \in kept : \E n \in 1 .. Cardinality(kept) : Nth(kept, n) = i
    BY <1>2, NthCovers
  <1> HIDE DEF kept
  <1>7. Without(spent) \in Seq(Snapshots)
    <2>1. Without(spent) \in [1 .. Cardinality(kept) -> Snapshots]
      BY <1>3, <1>4, <1>5
    <2> QED
      BY <1>2, <2>1, IsASeq, SeqDef
  <1>8. \A n \in DOMAIN Without(spent) : \E i \in kept : Without(spent)[n] = repo[i]
    BY <1>4, <1>5
  <1>9. \A i \in kept : \E n \in DOMAIN Without(spent) : Without(spent)[n] = repo[i]
    BY <1>4, <1>6
  <1> QED
    BY <1>7, <1>8, <1>9 DEF kept

\* A run's tree begins empty.
LEMMA EmptyType == Empty \in Trees
  BY ConstantsOK DEF ConstantsOK, Empty, Trees

\* The service as it is installed.
LEMMA InitInv == Init => Inv
  <1> SUFFICES ASSUME Init PROVE Inv
    OBVIOUS
  <1> USE EmptyType, ConstantsOK DEF Init, ConstantsOK
  <1>1. TypeOK
    <2>1. /\ kind \in [Jobs -> Modes \cup {"none", "restore"}] /\ pc \in [Jobs -> Labels]
          /\ tree \in [Jobs -> Trees] /\ left \in [Jobs -> SUBSET Files]
          /\ \A j \in Jobs : (kind[j] = "none") = (pc[j] = "idle")
      BY DEF Labels
    <2>2. repo \in Seq(Snapshots) /\ writes \in 0 .. MaxWrites
      BY EmptySeq
    <2> QED
      BY <2>1, <2>2 DEF TypeOK
  <1>2. StageOK /\ StoppedInv /\ RestoreInv /\ BackupInv /\ ExcuseInv
    BY DEF StageOK, StoppedInv, RestoreInv, BackupInv, ExcuseInv, Holding
  <1>3. DataInv
    BY DEF DataInv, Consistent, Empty
  <1>4. SoundSnapshotsConsistent
    BY DEF SoundSnapshotsConsistent
  <1> QED
    BY <1>1, <1>2, <1>3, <1>4 DEF Inv

\* A run that ends keeps the invariant, if it leaves no service down without a
\* recorded cause and no unsound snapshot that counts as sound.
LEMMA EndsInv ==
    ASSUME Inv, NEW j \in Jobs, Ends(j), UNCHANGED <<service, app, damaged>>,
           repo' \in Seq(Snapshots), SoundSnapshotsConsistent',
           excused' = TRUE \/ (excused' = excused /\ pc[j] \notin Holding)
    PROVE  Inv'
  <1> USE EmptyType DEF Inv, Ends, Goto, Forget, app
  <1>1. /\ \A i \in Jobs \ {j} : /\ kind'[i] = kind[i] /\ pc'[i] = pc[i]
                                 /\ tree'[i] = tree[i] /\ left'[i] = left[i]
        /\ kind'[j] = "none" /\ pc'[j] = "idle"
        /\ disturbed' = disturbed \ {j} /\ unwiped' = unwiped \ {j}
        /\ UNCHANGED <<up, data, pending, writes>>
    BY DEF TypeOK
  <1>2. TypeOK'
    BY <1>1 DEF TypeOK, Labels
  <1>3. StageOK'
    BY <1>1 DEF StageOK, Backing
  <1>4. StoppedInv'
    BY <1>1 DEF StoppedInv, Holding
  <1>5. RestoreInv' /\ BackupInv'
    BY <1>1 DEF RestoreInv, BackupInv, Backing, Done
  <1>6. DataInv'
    BY <1>1 DEF DataInv, Consistent
  <1>7. ExcuseInv'
    BY <1>1 DEF ExcuseInv
  <1> QED
    BY <1>2, <1>3, <1>4, <1>5, <1>6, <1>7

\* Transactions of the application run only under runs that were disturbed.
LEMMA AppInv ==
    ASSUME Inv, BeginTransaction \/ \E f \in Files : WriteData(f)
    PROVE  Inv'
  <1> USE ConstantsOK DEF Inv, ConstantsOK, jobs, history
  <1>1. /\ up /\ UNCHANGED <<service, up, repo, holder, kind, pc, tree, left, unwiped, disturbed,
                            damaged, excused>>
    BY DEF BeginTransaction, WriteData
  <1>2. TypeOK'
    <2>1. writes' \in 0 .. MaxWrites
      BY <1>1 DEF TypeOK, BeginTransaction, WriteData
    <2>2. data' \in Trees /\ pending' \subseteq Files
      <3>1. CASE BeginTransaction
        BY <3>1 DEF BeginTransaction, TypeOK
      <3>2. ASSUME NEW f \in Files, WriteData(f) PROVE data' \in Trees /\ pending' \subseteq Files
        BY <3>2 DEF WriteData, TypeOK, Trees
      <3> QED
        BY <3>1, <3>2
    <2> QED
      BY <1>1, <2>1, <2>2 DEF TypeOK
  <1>3. StageOK' /\ SoundSnapshotsConsistent' /\ StoppedInv' /\ ExcuseInv'
    BY <1>1 DEF StageOK, Backing, SoundSnapshotsConsistent, Consistent, StoppedInv, ExcuseInv
  <1>4. RestoreInv' /\ BackupInv'
    BY <1>1 DEF RestoreInv, BackupInv, Backing, Done, StoppedInv, Holding
  <1>5. DataInv'
    <2>1. CASE BeginTransaction
      BY <1>1, <2>1 DEF DataInv, BeginTransaction, Consistent
    <2>2. ASSUME NEW f \in Files, WriteData(f) PROVE DataInv'
      <3>1. /\ f \in pending /\ pending' = pending \ {f} /\ writes' = writes
            /\ data'[f] = writes /\ \A g \in Files \ {f} : data'[g] = data[g]
            /\ pending \subseteq Files
        BY <2>2 DEF WriteData, TypeOK, Trees
      <3> QED
        BY <1>1, <3>1 DEF DataInv, Consistent
    <2> QED
      BY <2>1, <2>2
  <1> QED
    BY <1>2, <1>3, <1>4, <1>5

\* An application that is stopped leaves consistent data, unless the data was
\* not its own work.
LEMMA StoppedData ==
    ASSUME Inv, Stopped, UNCHANGED <<service, damaged>>
    PROVE  /\ data' \in Trees /\ up' = FALSE /\ pending' = {} /\ writes' = writes
           /\ DataInv'
  <1>1. /\ up' = FALSE /\ pending' = {} /\ writes' = writes
        /\ data' = [f \in Files |-> IF f \in pending THEN writes ELSE data[f]]
    BY DEF Stopped
  <1>2. data' \in Trees
    BY <1>1 DEF Inv, TypeOK, Trees
  <1>3. DataInv'
    BY <1>1 DEF Inv, DataInv, Consistent
  <1> QED
    BY <1>1, <1>2, <1>3

\* `ryra start` and `ryra stop` disturb every run.
LEMMA OperatorInv ==
    ASSUME Inv, Start \/ Stop
    PROVE  Inv'
  <1> USE DEF Inv, jobs
  <1>1. /\ UNCHANGED <<service, repo, holder, kind, pc, tree, left, unwiped, damaged>>
        /\ Disturb(Jobs)
    BY DEF Start, Stop
  <1>2. Cold => \A j \in Jobs \ disturbed' : j \in Done
    BY <1>1 DEF Disturb, Done, TypeOK
  <1>3. disturbed' \subseteq Jobs
    BY <1>1 DEF Disturb, Done, TypeOK
  <1>4. /\ data' \in Trees /\ up' \in BOOLEAN /\ pending' \subseteq Files /\ writes' = writes
        /\ excused' \in BOOLEAN /\ (~up' => pending' = {} /\ excused') /\ DataInv'
    <2>1. CASE Start
      <3>1. /\ up' = TRUE /\ excused' = FALSE /\ UNCHANGED <<data, pending, writes>>
        BY <2>1 DEF Start, Started
      <3> QED
        BY <1>1, <3>1 DEF TypeOK, DataInv, Consistent
    <2>2. CASE Stop
      BY <1>1, <2>2, StoppedData DEF Stop
    <2> QED
      BY <2>1, <2>2
  <1>5. TypeOK'
    BY <1>1, <1>3, <1>4 DEF TypeOK
  <1>6. StageOK' /\ SoundSnapshotsConsistent'
    BY <1>1 DEF StageOK, Backing, SoundSnapshotsConsistent, Consistent
  <1>7. StoppedInv' /\ ExcuseInv'
    BY <1>1, <1>2, <1>4 DEF StoppedInv, Holding, ExcuseInv, Done
  <1>8. RestoreInv' /\ BackupInv'
    BY <1>1, <1>2 DEF RestoreInv, BackupInv, Backing, Done
  <1> QED
    BY <1>4, <1>5, <1>6, <1>7, <1>8
-----------------------------------------------------------------------------
\* A step of a run, in which it only moves on: others see no change.
Moves(j) ==
    /\ pc' \in [Jobs -> Labels] /\ kind' \in [Jobs -> Modes \cup {"none", "restore"}]
    /\ tree' \in [Jobs -> Trees] /\ left' \in [Jobs -> SUBSET Files]
    /\ (kind'[j] = "none") = (pc'[j] = "idle")
    /\ \A i \in Jobs \ {j} : /\ kind'[i] = kind[i] /\ pc'[i] = pc[i]
                             /\ tree'[i] = tree[i] /\ left'[i] = left[i]

\* A step of a run that leaves the service alone keeps the invariant, if the run
\* is in order after it.
LEMMA QuietInv ==
    ASSUME Inv, NEW j \in Jobs, Moves(j), UNCHANGED <<service, app, excused>>,
           unwiped' \in {unwiped, unwiped \ {j}}, unwiped' = unwiped \/ kind'[j] # "restore",
           holder' \in Jobs \cup {Nobody},
           disturbed' \in {disturbed, disturbed \ {j}},
           repo' \in Seq(Snapshots), SoundSnapshotsConsistent',
           damaged' \in BOOLEAN, DataInv',
           /\ online => pc'[j] \notin {"stop", "chown", "wipe"}
           /\ pc'[j] \in {"chown", "recover"} => kind'[j] \in Modes
           /\ pc'[j] = "wipe" => kind'[j] = "restore"
           /\ pc'[j] = "prune" => kind'[j] \in Schedules,
           \/ pc'[j] \notin Holding \/ ~Cold
           \/ disturbed' = disturbed /\ pc[j] \in Holding,
           pc[j] \in Holding => pc'[j] \in Holding,
           Cold /\ j \notin disturbed' =>
             /\ kind'[j] = "restore" =>
                  /\ pc'[j] = "hook" /\ paths /\ j \notin unwiped => data = Empty
                  /\ pc'[j] \in {"restic", "bringUp"} =>
                       \A f \in Files : tree'[j][f] # 0
                                          /\ (pc'[j] = "restic" => f \notin left'[j])
                                          => data[f] = tree'[j][f]
                  /\ pc'[j] = "restic" /\ paths /\ j \notin unwiped =>
                       \A f \in Files : data[f] = IF f \in left'[j] THEN 0 ELSE tree'[j][f]
                  /\ pc'[j] = "bringUp" /\ paths /\ j \notin unwiped => data = tree'[j]
             /\ kind'[j] \in Modes /\ pc'[j] = "restic" =>
                  \A f \in Files \ left'[j] : tree'[j][f] = data[f]
    PROVE  Inv'
  <1> USE DEF Inv
  <1>1. /\ UNCHANGED <<up, data, pending, writes>>
        /\ unwiped' \subseteq Jobs /\ \A i \in Jobs \ {j} : i \in unwiped' <=> i \in unwiped
        /\ kind'[j] = "restore" => unwiped' = unwiped
    BY DEF app, TypeOK
  <1>2. TypeOK'
    BY <1>1 DEF TypeOK, Moves
  <1>3. StageOK'
    BY DEF StageOK, Moves, Backing
  <1>4. StoppedInv'
    BY <1>1 DEF StoppedInv, Moves
  <1>5. RestoreInv'
    <2>1. ASSUME Cold, NEW i \in Jobs \ disturbed', kind'[i] = "restore", i # j
          PROVE  /\ i \in Jobs \ disturbed /\ kind[i] = "restore" /\ pc'[i] = pc[i]
                 /\ tree'[i] = tree[i] /\ left'[i] = left[i]
      BY <2>1 DEF Moves
    <2> QED
      BY <1>1, <2>1 DEF RestoreInv
  <1>6. BackupInv'
    BY <1>1 DEF BackupInv, Backing, Moves
  <1>7. ExcuseInv'
    BY <1>1 DEF ExcuseInv, Moves
  <1> QED
    BY <1>2, <1>3, <1>4, <1>5, <1>6, <1>7

\* A cold run stops the service, and everyone else at work is disturbed.
LEMMA StopUnitsInv ==
    ASSUME Inv, NEW j \in Jobs, StopUnits(j)
    PROVE  Inv'
  <1> USE DEF Inv
  <1> DEFINE next == IF Backing(j) THEN "chown" ELSE "wipe"
  <1>1. /\ UNCHANGED <<service, repo, holder, kind, tree, left, unwiped, damaged, excused>>
        /\ pc' = [pc EXCEPT ![j] = next] /\ pc[j] = "stop"
        /\ IF native THEN UNCHANGED <<app, disturbed>>
           ELSE Disturb(Jobs \ {j}) /\ Stopped
    BY DEF StopUnits, At, Goto
  <1>2. ~online /\ kind[j] # "none"
    BY <1>1 DEF StageOK, TypeOK
  <1>3. CASE native
    <2>1. /\ Moves(j) /\ pc'[j] = next /\ kind'[j] = kind[j]
      BY <1>1, <1>2 DEF Moves, TypeOK, Labels
    <2>2. SoundSnapshotsConsistent' /\ DataInv' /\ repo' \in Seq(Snapshots)
      BY <1>1, <1>3 DEF SoundSnapshotsConsistent, DataInv, TypeOK
    <2>3. /\ holder' \in Jobs \cup {Nobody} /\ damaged' \in BOOLEAN
          /\ UNCHANGED <<service, app, unwiped, excused>> /\ disturbed' = disturbed
      BY <1>1, <1>3 DEF TypeOK
    <2>4. /\ next = "chown" => kind[j] \in Modes
          /\ next = "wipe" => kind[j] = "restore"
      BY <1>2 DEF TypeOK, Backing
    <2> QED
      BY <1>1, <1>2, <1>3, <2>1, <2>2, <2>3, <2>4, QuietInv DEF Holding
  <1>4. CASE ~native
    <2>1. Cold /\ Disturb(Jobs \ {j}) /\ Stopped
      BY <1>1, <1>2, <1>4
    <2>3. /\ data' \in Trees /\ up' = FALSE /\ pending' = {} /\ writes' = writes /\ DataInv'
      BY <1>1, <2>1, StoppedData
    <2>4. \A i \in Jobs \ disturbed' : i = j \/ i \in Done
      BY <1>1, <2>1 DEF Disturb, Done, TypeOK
    <2>5. /\ disturbed' \subseteq Jobs /\ pc' \in [Jobs -> Labels] /\ pc'[j] = next
          /\ \A i \in Jobs \ {j} : pc'[i] = pc[i]
      BY <1>1, <2>1 DEF Disturb, Done, TypeOK, Labels
    <2>6. TypeOK'
      BY <1>1, <1>2, <2>3, <2>5 DEF TypeOK
    <2>7. StageOK'
      BY <1>1, <1>2, <2>5 DEF StageOK, TypeOK, Backing
    <2>8. StoppedInv' /\ ExcuseInv'
      BY <1>1, <1>2, <2>3, <2>5 DEF StoppedInv, ExcuseInv, Holding, Done
    <2>9. RestoreInv' /\ BackupInv' /\ SoundSnapshotsConsistent'
      BY <1>1, <1>2, <2>4, <2>5
         DEF RestoreInv, BackupInv, Backing, Done, SoundSnapshotsConsistent, Consistent
    <2> QED
      BY <2>3, <2>6, <2>7, <2>8, <2>9
  <1> QED
    BY <1>3, <1>4

\* A run that brings a cold service up disturbs everyone else at work.
LEMMA BringUpInv ==
    ASSUME Inv, NEW j \in Jobs, BringUp(j)
    PROVE  Inv'
  <1> USE EmptyType DEF Inv
  <1> DEFINE next == IF pc[j] = "bringUp" /\ kind[j] \in Schedules THEN "prune" ELSE "exit"
  <1>1. /\ UNCHANGED <<service, repo, holder, kind, damaged>> /\ unwiped' = unwiped \ {j}
        /\ pc' = [pc EXCEPT ![j] = next] /\ pc[j] \in {"bringUp", "recover"}
        /\ tree' = [tree EXCEPT ![j] = Empty] /\ left' = [left EXCEPT ![j] = {}]
        /\ IF online THEN UNCHANGED <<app, disturbed, excused>>
           ELSE Started /\ Disturb(Jobs \ {j}) /\ excused' = FALSE
    BY DEF BringUp, At, Goto, Forget
  <1>2. /\ UNCHANGED <<data, pending, writes>> /\ up' \in BOOLEAN /\ excused' \in BOOLEAN
        /\ disturbed' \subseteq Jobs /\ kind[j] # "none"
        /\ online => UNCHANGED <<up, disturbed, excused>>
        /\ ~online => up'
    BY <1>1 DEF app, Started, Disturb, TypeOK
  <1>3. Cold => \A i \in Jobs \ disturbed' : i = j \/ i \in Done
    BY <1>1 DEF Disturb, Done, TypeOK
  <1>4. /\ pc' \in [Jobs -> Labels] /\ tree' \in [Jobs -> Trees] /\ left' \in [Jobs -> SUBSET Files]
        /\ pc'[j] = next /\ \A i \in Jobs \ {j} : pc'[i] = pc[i]
    BY <1>1 DEF TypeOK, Labels
  <1>5. TypeOK'
    BY <1>1, <1>2, <1>4 DEF TypeOK
  <1>6. StageOK'
    BY <1>1, <1>2, <1>4 DEF StageOK, Backing
  <1>7. StoppedInv' /\ ExcuseInv'
    BY <1>1, <1>2, <1>3, <1>4 DEF StoppedInv, ExcuseInv, Holding, Done
  <1>8. RestoreInv' /\ BackupInv'
    BY <1>1, <1>2, <1>3, <1>4 DEF RestoreInv, BackupInv, Backing, Done
  <1>9. SoundSnapshotsConsistent' /\ DataInv'
    BY <1>1, <1>2 DEF SoundSnapshotsConsistent, Consistent, DataInv
  <1> QED
    BY <1>5, <1>6, <1>7, <1>8, <1>9

\* A step of a restore that changes the tree disturbs everyone else at work.
LEMMA WritesInv ==
    ASSUME Inv, NEW j \in Jobs, kind[j] = "restore", pc[j] \in {"wipe", "restic"}, Moves(j),
           UNCHANGED <<service, up, pending, writes, repo, holder, kind, excused>>,
           pc'[j] \in {"hook", "restic"}, data' \in Trees, damaged' \in BOOLEAN,
           unwiped' \subseteq Jobs, ~Cold \/ damaged', Disturb(Jobs \ {j}),
           Cold /\ j \notin disturbed =>
             /\ pc'[j] = "hook" /\ paths /\ j \notin unwiped' => data' = Empty
             /\ pc'[j] = "restic" =>
                  \A f \in Files \ left'[j] : tree'[j][f] # 0 => data'[f] = tree'[j][f]
             /\ pc'[j] = "restic" /\ paths /\ j \notin unwiped' =>
                  \A f \in Files : data'[f] = IF f \in left'[j] THEN 0 ELSE tree'[j][f]
    PROVE  Inv'
  <1> USE DEF Inv
  <1>1. Cold => /\ j \in disturbed => j \in disturbed'
                /\ \A i \in Jobs \ disturbed' : i = j \/ i \in Done
    BY DEF Disturb, Done, TypeOK
  <1>2. disturbed' \subseteq Jobs
    BY DEF Disturb, Done, TypeOK
  <1>3. TypeOK'
    BY <1>2 DEF TypeOK, Moves
  <1>4. StageOK'
    BY DEF StageOK, Moves, Backing
  <1>5. StoppedInv' /\ ExcuseInv'
    BY <1>1 DEF StoppedInv, ExcuseInv, Moves, Holding, Done
  <1>6. RestoreInv' /\ BackupInv'
    <2>1. ASSUME Cold, NEW i \in Jobs \ disturbed', i # j
          PROVE  pc'[i] \in {"idle", "prune", "exit"}
      <3>1. i \in Done
        BY <1>1, <2>1
      <3>2. pc'[i] = pc[i]
        BY <2>1 DEF Moves
      <3> QED
        BY <3>1, <3>2 DEF Done
    <2>2. kind'[j] = "restore" /\ "restore" \notin Modes
      BY ConstantsOK DEF ConstantsOK
    <2>3. RestoreInv'
      <3>1. ASSUME Cold, j \notin disturbed'
            PROVE  /\ pc'[j] = "hook" /\ paths /\ j \notin unwiped' => data' = Empty
                   /\ pc'[j] = "restic" =>
                        /\ \A f \in Files \ left'[j] : tree'[j][f] # 0 => data'[f] = tree'[j][f]
                        /\ paths /\ j \notin unwiped' => \A f \in Files :
                              data'[f] = IF f \in left'[j] THEN 0 ELSE tree'[j][f]
        BY <1>1, <3>1
      <3>2. Cold' = Cold /\ paths' = paths
        OBVIOUS
      <3> QED
        BY <2>1, <3>1, <3>2 DEF RestoreInv
    <2>4. BackupInv'
      BY <2>1, <2>2 DEF BackupInv, Backing
    <2> QED
      BY <2>3, <2>4
  <1>7. SoundSnapshotsConsistent' /\ DataInv'
    BY DEF SoundSnapshotsConsistent, Consistent, DataInv
  <1> QED
    BY <1>3, <1>4, <1>5, <1>6, <1>7
-----------------------------------------------------------------------------
\* The steps at which a run ends: a failure, a kill, or its last step.
LEMMA EndingInv ==
    ASSUME Inv, NEW j \in Jobs,
           \/ PrepareFails(j) \/ (ResticFails(j) /\ ~Backing(j)) \/ BringUpFails(j)
           \/ Exit(j) \/ Kill(j) \/ NoSnapshot(j)
    PROVE  Inv'
  <1>1. /\ Ends(j) /\ UNCHANGED <<service, app, repo, damaged>>
        /\ excused' = TRUE \/ (excused' = excused /\ pc[j] \notin Holding)
    BY DEF PrepareFails, ResticFails, BringUpFails, Exit, Kill, NoSnapshot, At, Holding
  <1>2. repo' \in Seq(Snapshots) /\ SoundSnapshotsConsistent'
    BY <1>1 DEF Inv, TypeOK, SoundSnapshotsConsistent, Consistent
  <1> QED
    BY <1>1, <1>2, EndsInv

\* A prune keeps sound snapshots only as they are.
LEMMA PruneInv ==
    ASSUME Inv, NEW j \in Jobs, Prune(j)
    PROVE  Inv'
  <1>1. /\ Ends(j) /\ UNCHANGED <<service, app, damaged, excused>> /\ pc[j] = "prune"
        /\ repo' \in {repo, Without(Spent(kind[j]))}
    BY DEF Prune, At
  <1>2. /\ repo' \in Seq(Snapshots)
        /\ \A n \in DOMAIN repo' : \E i \in DOMAIN repo : repo'[n] = repo[i]
    <2>1. TypeOK
      BY DEF Inv
    <2>2. CASE repo' = repo
      BY <2>1, <2>2 DEF TypeOK
    <2>3. CASE repo' = Without(Spent(kind[j]))
      BY <2>1, <2>3, WithoutProperties
    <2> QED
      BY <1>1, <2>2, <2>3
  <1>3. SoundSnapshotsConsistent'
    BY <1>1, <1>2 DEF Inv, SoundSnapshotsConsistent, Consistent
  <1> QED
    BY <1>1, <1>2, <1>3, EndsInv DEF Holding

\* The steps of a run that only move it on, or change no more than its copy.
LEMMA MovingInv ==
    ASSUME Inv, NEW j \in Jobs,
           \/ (ResticFails(j) /\ Backing(j)) \/ ChownForRead(j) \/ PreBackup(j)
           \/ (\E mode \in Modes : BeginBackup(j, mode))
           \/ (\E via \in {"cli", "force", "rpc"} : BeginRestore(j, via))
    PROVE  Inv'
  <1> USE EmptyType, ConstantsOK DEF Inv, ConstantsOK
  <1>1. /\ UNCHANGED <<service, app, excused, repo, damaged>>
        /\ holder' \in {holder, j}
        /\ disturbed' \in {disturbed, disturbed \ {j}}
    BY DEF ResticFails, ChownForRead, PreBackup, BeginBackup, BeginRestore, At, history
  <1>2. /\ repo' \in Seq(Snapshots) /\ SoundSnapshotsConsistent' /\ DataInv'
        /\ damaged' \in BOOLEAN /\ holder' \in Jobs \cup {Nobody}
    BY <1>1 DEF TypeOK, SoundSnapshotsConsistent, Consistent, DataInv, app
  <1>3. CASE ResticFails(j) /\ Backing(j)
    <2>1. /\ pc' = [pc EXCEPT ![j] = "recover"] /\ Forget(j) /\ pc[j] = "restic"
          /\ UNCHANGED <<kind, disturbed>> /\ kind[j] \in Modes /\ unwiped' = unwiped \ {j}
      BY <1>3 DEF ResticFails, At, Goto, Backing, Forget
    <2>2. Moves(j) /\ pc'[j] = "recover" /\ kind'[j] = kind[j]
      BY <2>1 DEF Moves, Forget, TypeOK, Labels
    <2> QED
      BY <1>1, <1>2, <2>1, <2>2, QuietInv DEF Holding
  <1>4. CASE ChownForRead(j)
    <2>1. /\ pc' = [pc EXCEPT ![j] = "hook"] /\ pc[j] = "chown"
          /\ UNCHANGED <<kind, tree, left, unwiped, disturbed>> /\ kind[j] \in Modes
      BY <1>4 DEF ChownForRead, At, Goto, history, StageOK, Backing
    <2>2. Moves(j) /\ pc'[j] = "hook" /\ kind'[j] = kind[j]
      BY <2>1 DEF Moves, TypeOK, Labels
    <2> QED
      BY <1>1, <1>2, <2>1, <2>2, QuietInv DEF Holding
  <1>5. CASE PreBackup(j)
    <2>1. /\ pc' = [pc EXCEPT ![j] = "restic"] /\ pc[j] = "hook" /\ kind[j] \in Modes
          /\ left' = [left EXCEPT ![j] = Files]
          /\ UNCHANGED <<kind, tree, unwiped, disturbed>>
      BY <1>5 DEF PreBackup, At, Goto, history, Backing
    <2>2. Moves(j) /\ pc'[j] = "restic" /\ kind'[j] = kind[j] /\ left'[j] = Files
      BY <2>1 DEF Moves, TypeOK, Labels
    <2> QED
      BY <1>1, <1>2, <2>1, <2>2, QuietInv DEF Holding
  <1>6. CASE (\E mode \in Modes : BeginBackup(j, mode))
             \/ \E via \in {"cli", "force", "rpc"} : BeginRestore(j, via)
    <2>1. PICK k \in Modes \cup {"restore"} : kind' = [kind EXCEPT ![j] = k]
      BY <1>6 DEF BeginBackup, BeginRestore
    <2>2. /\ pc' = [pc EXCEPT ![j] = IF online THEN "hook" ELSE "stop"] /\ pc[j] = "idle"
          /\ UNCHANGED <<tree, left, unwiped>>
      BY <1>6 DEF BeginBackup, BeginRestore, Goto
    <2>3. Moves(j) /\ pc'[j] = (IF online THEN "hook" ELSE "stop") /\ kind'[j] = k
      BY <2>1, <2>2 DEF Moves, TypeOK, Labels
    <2> QED
      BY <1>1, <1>2, <2>1, <2>2, <2>3, QuietInv DEF Holding
  <1> QED
    BY <1>3, <1>4, <1>5, <1>6

\* restic's steps in a backup: a snapshot that counts as sound is what was on
\* disk, which is consistent while the service is stopped.
LEMMA SavingInv ==
    ASSUME Inv, NEW j \in Jobs, (\E f \in Files : ReadFile(j, f)) \/ SaveSnapshot(j)
    PROVE  Inv'
  <1> USE EmptyType, ConstantsOK DEF Inv, ConstantsOK
  <1>1. /\ UNCHANGED <<service, app, excused, damaged, holder, kind, disturbed>>
        /\ pc[j] = "restic" /\ kind[j] \in Modes
    BY DEF ReadFile, SaveSnapshot, At, Backing, history
  <1>2. DataInv' /\ damaged' \in BOOLEAN /\ holder' \in Jobs \cup {Nobody}
    BY <1>1 DEF TypeOK, DataInv, Consistent, app
  <1>3. ASSUME NEW f \in Files, ReadFile(j, f) PROVE Inv'
    <2>1. /\ tree' = [tree EXCEPT ![j][f] = data[f]] /\ left' = [left EXCEPT ![j] = @ \ {f}]
          /\ UNCHANGED <<repo, pc, unwiped>>
      BY <1>3 DEF ReadFile, history
    <2>2. /\ tree' \in [Jobs -> Trees] /\ tree'[j][f] = data[f]
          /\ \A g \in Files \ {f} : tree'[j][g] = tree[j][g]
          /\ left' \in [Jobs -> SUBSET Files] /\ left'[j] = left[j] \ {f}
          /\ \A i \in Jobs \ {j} : tree'[i] = tree[i] /\ left'[i] = left[i]
      BY <2>1 DEF TypeOK, Trees
    <2>3. Moves(j) /\ pc'[j] = "restic" /\ kind'[j] = kind[j]
      BY <1>1, <2>1, <2>2 DEF Moves, TypeOK
    <2>4. repo' \in Seq(Snapshots) /\ SoundSnapshotsConsistent'
      BY <1>1, <2>1 DEF TypeOK, SoundSnapshotsConsistent, Consistent
    <2>5. Cold /\ j \notin disturbed' =>
             \A g \in Files \ left'[j] : tree'[j][g] = data[g]
      BY <1>1, <2>2 DEF BackupInv, Backing
    <2> QED
      BY <1>1, <1>2, <2>1, <2>3, <2>4, <2>5, QuietInv DEF Holding
  <1>4. CASE SaveSnapshot(j)
    <2> DEFINE s == [tree |-> tree[j], mode |-> kind[j],
                     sound |-> Cold /\ j \notin disturbed /\ ~damaged]
    <2>1. /\ repo' = Append(repo, s) /\ pc' = [pc EXCEPT ![j] = "bringUp"] /\ left[j] = {}
          /\ tree' = [tree EXCEPT ![j] = Empty] /\ left' = [left EXCEPT ![j] = {}]
          /\ unwiped' = unwiped \ {j}
      BY <1>4 DEF SaveSnapshot, Goto, Forget
    <2>2. s \in Snapshots
      BY <1>1 DEF TypeOK, Snapshots
    <2>3. ASSUME Cold, s.sound PROVE Consistent(s.tree)
      <3>1. j \notin disturbed /\ ~damaged /\ s.tree = tree[j]
        BY <2>3
      <3>2. \A f \in Files : tree[j][f] = data[f]
        BY <1>1, <2>1, <2>3, <3>1 DEF BackupInv, Backing
      <3>3. pending = {}
        BY <1>1, <2>3, <3>1 DEF StoppedInv, Holding
      <3>4. Consistent(data)
        BY <2>3, <3>1, <3>3 DEF DataInv
      <3> HIDE DEF s
      <3> QED
        BY <3>1, <3>2, <3>4 DEF Consistent
    <2>4. repo \in Seq(Snapshots) /\ repo' \in Seq(Snapshots)
      BY <2>1, <2>2, AppendProperties DEF TypeOK
    <2>5. \A i \in DOMAIN repo' : repo'[i] = s \/ (i \in DOMAIN repo /\ repo'[i] = repo[i])
      BY <2>1, <2>2, <2>4, AppendProperties, LenProperties
    <2>6. SoundSnapshotsConsistent'
      BY <1>1, <2>3, <2>5 DEF SoundSnapshotsConsistent, Consistent
    <2>7. Moves(j) /\ pc'[j] = "bringUp" /\ kind'[j] = kind[j]
      BY <1>1, <2>1 DEF Moves, TypeOK, Labels
    <2>8. unwiped' \in {unwiped, unwiped \ {j}} /\ kind'[j] # "restore"
      BY <1>1, <2>1
    <2> QED
      BY <1>1, <1>2, <2>1, <2>4, <2>6, <2>7, <2>8, QuietInv DEF Holding
  <1> QED
    BY <1>3, <1>4

\* A restore takes the snapshot up and is done with it: what it leaves is the
\* application's own work again if the snapshot was, and nothing came between.
LEMMA RestoringInv ==
    ASSUME Inv, NEW j \in Jobs, (\E i \in 1 .. MaxSnapshots : PreRestore(j, i)) \/ Restored(j)
    PROVE  Inv'
  <1> USE EmptyType, ConstantsOK DEF Inv, ConstantsOK
  <1>1. /\ UNCHANGED <<service, app, excused, unwiped, repo, holder, kind, disturbed>>
        /\ kind[j] = "restore"
    BY DEF PreRestore, Restored, At, history
  <1>2. /\ repo' \in Seq(Snapshots) /\ SoundSnapshotsConsistent'
        /\ holder' \in Jobs \cup {Nobody} /\ kind'[j] \notin Modes
    BY <1>1 DEF TypeOK, SoundSnapshotsConsistent, Consistent
  <1>3. ASSUME NEW i, PreRestore(j, i) PROVE Inv'
    <2>1. /\ pc' = [pc EXCEPT ![j] = "restic"] /\ pc[j] = "hook" /\ i \in DOMAIN repo
          /\ tree' = [tree EXCEPT ![j] = repo[i].tree]
          /\ left' = [left EXCEPT ![j] = {f \in Files : repo[i].tree[f] # 0}]
          /\ UNCHANGED damaged
      BY <1>3 DEF PreRestore, At, Goto, history
    <2>2. repo[i].tree \in Trees
      <3>1. repo \in Seq(Snapshots) /\ i \in 1 .. Len(repo)
        BY <2>1, LenProperties DEF TypeOK
      <3>2. repo[i] \in Snapshots
        BY <3>1, ElementOfSeq
      <3> QED
        BY <3>2 DEF Snapshots
    <2>3. /\ Moves(j) /\ pc'[j] = "restic" /\ kind'[j] = "restore"
          /\ tree'[j] = repo[i].tree /\ left'[j] = {f \in Files : repo[i].tree[f] # 0}
      BY <1>1, <2>1, <2>2 DEF Moves, TypeOK, Labels
    <2>4. /\ Cold /\ j \notin disturbed' /\ paths /\ j \notin unwiped =>
                \A f \in Files : data[f] = IF f \in left'[j] THEN 0 ELSE tree'[j][f]
          /\ \A f \in Files \ left'[j] : tree'[j][f] = 0
      BY <1>1, <2>1, <2>3 DEF RestoreInv, Empty
    <2>5. DataInv' /\ damaged' \in BOOLEAN
      BY <1>1, <2>1 DEF TypeOK, DataInv, Consistent, app
    <2> QED
      BY <1>1, <1>2, <2>1, <2>3, <2>4, <2>5, QuietInv DEF Holding
  <1>4. CASE Restored(j)
    <2>1. /\ pc' = [pc EXCEPT ![j] = "bringUp"] /\ pc[j] = "restic" /\ left[j] = {}
          /\ UNCHANGED <<tree, left>>
          /\ damaged' = (Cold /\ (\/ j \in disturbed \/ data # tree[j]
                                   \/ ~Consistent(tree[j])))
      BY <1>4 DEF Restored, At, Goto
    <2>2. Moves(j) /\ pc'[j] = "bringUp" /\ kind'[j] = "restore" /\ tree'[j] = tree[j]
      BY <1>1, <2>1 DEF Moves, TypeOK, Labels
    <2>3. /\ Cold /\ j \notin disturbed => pending = {}
          /\ Cold /\ j \notin disturbed /\ paths /\ j \notin unwiped => data = tree[j]
          /\ Cold /\ j \notin disturbed =>
                \A f \in Files : tree[j][f] # 0 => data[f] = tree[j][f]
      <3>1. Cold /\ j \notin disturbed /\ paths /\ j \notin unwiped =>
               \A f \in Files : data[f] = tree[j][f]
        BY <1>1, <2>1 DEF RestoreInv
      <3>2. data \in Trees /\ tree[j] \in Trees
        BY DEF TypeOK
      <3>3. Cold /\ j \notin disturbed /\ paths /\ j \notin unwiped => data = tree[j]
        BY <3>1, <3>2 DEF Trees
      <3>4. Cold /\ j \notin disturbed =>
               \A f \in Files : tree[j][f] # 0 => data[f] = tree[j][f]
        BY <1>1, <2>1 DEF RestoreInv
      <3> QED
        BY <2>1, <3>3, <3>4 DEF StoppedInv, Holding
    <2>4. DataInv' /\ damaged' \in BOOLEAN
      BY <1>1, <2>1, <2>3 DEF DataInv, Consistent, app
    <2> QED
      BY <1>1, <1>2, <2>1, <2>2, <2>3, <2>4, QuietInv DEF Holding, app
  <1> QED
    BY <1>3, <1>4

\* The wipe: where no paths are declared it does nothing.
LEMMA WipeInv ==
    ASSUME Inv, NEW j \in Jobs, WipeForRestore(j)
    PROVE  Inv'
  <1> USE EmptyType DEF Inv
  <1>1. /\ UNCHANGED <<service, up, pending, writes, repo, holder, kind, tree, left, excused>>
        /\ pc' = [pc EXCEPT ![j] = "hook"] /\ pc[j] = "wipe" /\ kind[j] = "restore"
    BY DEF WipeForRestore, At, Goto, StageOK
  <1>2. Moves(j) /\ pc'[j] = "hook"
    BY <1>1 DEF Moves, TypeOK, Labels
  <1>3. CASE ~paths /\ UNCHANGED <<data, unwiped, disturbed, damaged>>
    <2>1. /\ SoundSnapshotsConsistent' /\ DataInv' /\ repo' \in Seq(Snapshots)
          /\ damaged' \in BOOLEAN /\ holder' \in Jobs \cup {Nobody}
      BY <1>1, <1>3 DEF SoundSnapshotsConsistent, Consistent, DataInv, TypeOK
    <2>2. UNCHANGED <<service, app, unwiped, excused>> /\ disturbed' = disturbed
      BY <1>1, <1>3 DEF app
    <2> QED
      BY <1>1, <1>2, <1>3, <2>1, <2>2, QuietInv DEF Holding
  <1>4. ASSUME NEW kept \in SUBSET {f \in Files : data[f] # 0}, Wiped(kept),
               damaged' = Cold, Disturb(Jobs \ {j}),
               unwiped' = IF Cold /\ kept # {} THEN unwiped \cup {j} ELSE unwiped
        PROVE  Inv'
    <2>1. data' \in Trees /\ unwiped' \subseteq Jobs
      BY <1>4, ConstantsOK DEF ConstantsOK, Wiped, TypeOK, Trees
    <2>2. Cold /\ j \notin unwiped' => data' = Empty
      BY <1>4 DEF Wiped, Empty
    <2> QED
      BY <1>1, <1>2, <1>4, <2>1, <2>2, WritesInv
  <1> QED
    BY <1>3, <1>4 DEF WipeForRestore

\* restic writes the snapshot's files one by one.
LEMMA RestoreFileInv ==
    ASSUME Inv, NEW j \in Jobs, NEW f \in Files, RestoreFile(j, f)
    PROVE  Inv'
  <1> USE EmptyType DEF Inv
  <1>1. /\ UNCHANGED <<service, up, pending, writes, repo, holder, kind, unwiped, excused>>
        /\ Disturb(Jobs \ {j})
        /\ pc[j] = "restic" /\ kind[j] = "restore" /\ f \in left[j] /\ UNCHANGED <<pc, tree>>
        /\ data' = [data EXCEPT ![f] = tree[j][f]]
        /\ left' = [left EXCEPT ![j] = @ \ {f}] /\ damaged' = Cold
    BY DEF RestoreFile, At
  <1>2. /\ Moves(j) /\ pc'[j] = "restic" /\ left'[j] = left[j] \ {f}
        /\ tree'[j] = tree[j] /\ damaged' \in BOOLEAN /\ unwiped' \subseteq Jobs
    BY <1>1 DEF Moves, TypeOK
  <1>3. /\ data' \in Trees /\ data'[f] = tree[j][f]
        /\ \A g \in Files \ {f} : data'[g] = data[g]
    BY <1>1 DEF TypeOK, Trees
  <1>4. Cold /\ j \notin disturbed =>
          /\ \A g \in Files \ left'[j] : tree'[j][g] # 0 => data'[g] = tree'[j][g]
          /\ paths /\ j \notin unwiped' =>
                \A g \in Files : data'[g] = IF g \in left'[j] THEN 0 ELSE tree'[j][g]
    BY <1>1, <1>2, <1>3 DEF RestoreInv
  <1> QED
    BY <1>1, <1>2, <1>3, <1>4, WritesInv
-----------------------------------------------------------------------------
\* Every step keeps the invariant.
LEMMA NextInv == Inv /\ [Next]_vars => Inv'
  <1> SUFFICES ASSUME Inv, [Next]_vars PROVE Inv'
    OBVIOUS
  <1>1. CASE UNCHANGED vars
    <2>1. UNCHANGED <<service, up, data, pending, writes, repo, holder, kind, pc, tree, left,
                      unwiped, disturbed, damaged, excused>>
      BY <1>1 DEF vars, app, jobs, history
    <2>2. TypeOK' /\ StageOK' /\ StoppedInv' /\ ExcuseInv'
      BY <2>1 DEF Inv, TypeOK, StageOK, Backing, StoppedInv, ExcuseInv
    <2>3. RestoreInv' /\ BackupInv' /\ DataInv' /\ SoundSnapshotsConsistent'
      BY <2>1 DEF Inv, RestoreInv, BackupInv, Backing, DataInv, Consistent,
                  SoundSnapshotsConsistent
    <2> QED
      BY <2>2, <2>3 DEF Inv
  <1> QED
    BY <1>1, AppInv, OperatorInv, StopUnitsInv, BringUpInv, EndingInv, PruneInv, MovingInv,
       SavingInv, RestoringInv, WipeInv, RestoreFileInv
       DEF Next

LEMMA SpecInv == Spec => []Inv
  BY InitInv, NextInv, PTL DEF Spec

\* Every variable keeps to its range, whatever fails, is killed or overlaps.
THEOREM TypeCorrect == Spec => []TypeOK
  <1>1. Inv => TypeOK
    BY DEF Inv
  <1> QED
    BY <1>1, SpecInv, PTL

\* A cold snapshot that no other process disturbed, of data that no restore left
\* behind half-way, is of one moment between the application's transactions.
THEOREM SnapshotsSound == Spec => []SoundSnapshotsConsistent
  <1>1. Inv => SoundSnapshotsConsistent
    BY DEF Inv
  <1> QED
    BY <1>1, SpecInv, PTL

\* A cold restore that nothing disturbed starts the service with every file of the
\* snapshot as it was; on nothing else where it had paths to wipe, and could.
THEOREM RestoredExactly == Spec => []RestoreIsExact
  <1>1. Inv => RestoreIsExact
    BY DEF Inv, RestoreInv, RestoreIsExact
  <1> QED
    BY <1>1, SpecInv, PTL

\* With no run at work a service is down only for a recorded cause.
THEOREM DownForACause == Spec => []DownHasACause
  <1>1. Inv => DownHasACause
    BY DEF Inv, ExcuseInv, DownHasACause, Holding
  <1> QED
    BY <1>1, SpecInv, PTL

\* A schedule prunes its own snapshots only, and only those with as many younger
\* ones of its own as it keeps; nothing else takes a snapshot away.
THEOREM PruningInItsTurn == Spec => PrunedInItsTurn
  <1> DEFINE A == \A i \in DOMAIN repo :
                    repo[i] \notin ToSet(repo') =>
                       repo[i].mode \in Schedules /\ Cardinality(Younger(i)) >= Keep
  <1>1. Inv /\ [Next]_vars => [A]_vars
    <2> SUFFICES ASSUME Inv, Next, NEW i \in DOMAIN repo, repo[i] \notin ToSet(repo')
                 PROVE  repo[i].mode \in Schedules /\ Cardinality(Younger(i)) >= Keep
      OBVIOUS
    <2>1. repo \in Seq(Snapshots)
      BY DEF Inv, TypeOK
    <2>2. ~\E n \in DOMAIN repo' : repo'[n] = repo[i]
      BY DEF ToSet
    <2>3. repo' # repo
      BY <2>2
    <2>4. ASSUME NEW j \in Jobs, SaveSnapshot(j) PROVE FALSE
      <3>1. PICK s : s \in Snapshots /\ repo' = Append(repo, s)
        BY <2>4 DEF SaveSnapshot, Inv, TypeOK, Snapshots, Backing
      <3>2. i \in DOMAIN repo' /\ repo'[i] = repo[i]
        BY <2>1, <3>1, AppendProperties, LenProperties
      <3> QED
        BY <2>2, <3>2
    <2>5. PICK j \in Jobs : Prune(j)
      BY <2>3, <2>4
         DEF Next, BeginTransaction, WriteData, Start, Stop, StopUnits, PrepareFails,
             ResticFails, BringUp, BringUpFails, Exit, Kill, BeginBackup, ChownForRead,
             PreBackup, ReadFile, BeginRestore, WipeForRestore, PreRestore, NoSnapshot,
             RestoreFile, Restored
    <2>6. kind[j] \in Schedules /\ repo' = Without(Spent(kind[j]))
      BY <2>3, <2>5 DEF Prune, At, Inv, StageOK
    <2>7. i \in Spent(kind[j])
      BY <2>2, <2>6, WithoutProperties DEF Inv
    <2> QED
      BY <2>6, <2>7 DEF Spent
  <1> QED
    BY <1>1, SpecInv, PTL DEF Spec, PrunedInItsTurn
-----------------------------------------------------------------------------
(***************************************************************************)
(* The safety of `[backup]` in preferences.toml and of the account's key,  *)
(* for any number of processes, cadences, commands, faults, passwords and  *)
(* API keys.  Commands of the rpc take no lock: they interleave with those *)
(* of the CLI at every step.                                               *)
(***************************************************************************)

\* These settings can be recorded: their repository is there, and opens unless
\* it was taken as it was found.
Ready(s) ==
    s # Unset =>
      \/ repos[s.at] = s.key
      \/ repos[s.at] # None /\ <<s.at, s.key>> \in accepted

\* Whatever a command or a snapshot may yet record can be recorded.
ReadyInv ==
    /\ Ready(config)
    /\ \A x \in Places : Ready(bundles[x])
    /\ \A p \in Procs : job[p].pc \in {"save", "apply"} => Ready(job[p].new)

\* What each command can still do.
JobOK ==
    \A p \in Procs :
      /\ job[p].pc = "init" => job[p].new # Unset
      /\ job[p].pc = "save" => job[p].op \in {"connect", "restore", "schedule"}
      /\ job[p].pc = "init" => job[p].op \in {"connect", "retry", "schedule"}

\* A password that a command read, and found in preferences.toml, is still
\* there or was replaced on the record; a command that is not to replace the
\* password knows the one it read, or read none.
KeyInv ==
    /\ KeysHeld
    /\ \A x \in Places : bundles[x] # Unset => repos[x] # None
    /\ \A p \in Procs :
         /\ job[p].base.key \in {config.key, None} \cup dropped
         /\ (~job[p].willed /\ job[p].pc \in {"init", "save"}) =>
               job[p].new.key = job[p].base.key \/ job[p].base.key = None

\* Only keys that were issued are stored or on their way, and a logout has done
\* with the key it revoked.
AccountInv ==
    /\ \A k \in live \cup {token, login.key, logout.key} : k <= issued
    /\ login.pc # "approved" => login.key = None
    /\ logout.pc = "revoked" => logout.key \notin live \/ logout.key \in strays
    /\ NoGhostKey

SetupInv == SetupTypeOK /\ JobOK /\ ReadyInv /\ KeyInv /\ TimersFollow /\ AccountInv
-----------------------------------------------------------------------------
\* Settings that are set name a place and a password.
LEMMA SettingsType ==
    ASSUME NEW s \in Settings
    PROVE  /\ s.sched \subseteq Cadences /\ s.key \in Passwords \cup {None}
           /\ s # Unset => /\ s.at \in Places /\ s.key \in Passwords /\ s.key # None
                          /\ s.key \in Nat
           /\ s = Unset => s.key = None /\ s.sched = {}
           /\ \A at \in Places, sched \in SUBSET Cadences :
                 s # Unset => /\ [s EXCEPT !.at = at, !.sched = sched] \in Settings
                              /\ [s EXCEPT !.at = at, !.sched = sched] # Unset
                              /\ [s EXCEPT !.at = at, !.sched = sched].key = s.key
           /\ \A sched \in SUBSET Cadences :
                 s # Unset => /\ [s EXCEPT !.sched = sched] \in Settings
                              /\ [s EXCEPT !.sched = sched].key = s.key
                              /\ [s EXCEPT !.sched = sched].at = s.at
  <1>1. CASE s = Unset
    BY <1>1 DEF Unset, None
  <1>2. CASE s \in [at : Places, key : Passwords, sched : SUBSET Cadences]
    <2>1. /\ s.at \in Places /\ s.key \in Passwords /\ s.sched \subseteq Cadences
          /\ s = [at |-> s.at, key |-> s.key, sched |-> s.sched]
      BY <1>2
    <2>2. s.key # None /\ s.key \in Nat /\ Unset.at \notin Places
      BY <2>1 DEF Passwords, None, Unset, Places
    <2>3. ASSUME NEW at \in Places, NEW sched \in SUBSET Cadences
          PROVE  /\ [s EXCEPT !.at = at, !.sched = sched] \in Settings
                 /\ [s EXCEPT !.at = at, !.sched = sched].at = at
                 /\ [s EXCEPT !.at = at, !.sched = sched].key = s.key
                 /\ [s EXCEPT !.sched = sched] \in Settings
                 /\ [s EXCEPT !.sched = sched].key = s.key
                 /\ [s EXCEPT !.sched = sched].at = s.at
      BY <2>1 DEF Settings
    <2> QED
      BY <2>1, <2>2, <2>3
  <1> QED
    BY <1>1, <1>2 DEF Settings

\* The machine as it is found.
LEMMA SetupInitInv == SetupInit => SetupInv
  <1> SUFFICES ASSUME SetupInit PROVE SetupInv
    OBVIOUS
  <1> USE SetupConstants DEF SetupConstants
  <1> DEFINE foreign == [at |-> "other", key |-> Foreign, sched |-> Cadences]
             own == [at |-> "own", key |-> Foreign + 1, sched |-> Cadences]
  <1>1. PICK theirs \in {Unset, foreign}, ours \in {Unset, own} :
           /\ config = ours /\ timers = ours.sched /\ made = Max({Foreign, ours.key})
           /\ bundles = [p \in Places |-> CASE p = "other" -> theirs [] p = "own" -> ours
                                          [] OTHER -> Unset]
           /\ repos = [p \in Places |-> bundles[p].key]
           /\ commands = IF ours = Unset THEN 0 ELSE 1
    BY DEF SetupInit
  <1>2. foreign \in Settings /\ own \in Settings /\ Unset \in Settings
    BY DEF Settings, Places, Passwords, Foreign
  <1>3. /\ bundles \in [Places -> Settings] /\ config \in Settings
        /\ \A p \in Places : bundles[p].key \in {None} \cup Passwords
    BY <1>1, <1>2, SettingsType DEF Places
  <1>4. \A p \in Places : /\ repos[p] = bundles[p].key
                          /\ bundles[p] # Unset => bundles[p].at = p /\ repos[p] # None
    BY <1>1 DEF Places, Unset, None, Foreign
  <1>5. made \in Passwords /\ Foreign \in 1 .. made
    <2>1. made \in {Foreign, ours.key}
           /\ \A y \in {Foreign, ours.key} : made >= y
      <3>1. \E x \in {Foreign, ours.key} : \A y \in {Foreign, ours.key} : x >= y
        BY DEF Foreign, None, Unset
      <3> QED
        BY <1>1, <3>1 DEF Max
    <2> QED
      BY <2>1 DEF Foreign, Passwords, Unset, None
  <1>6. \A p \in Procs : job[p] = Idle
    BY DEF SetupInit
  <1>7. SetupTypeOK
    <2>1. job \in [Procs -> [by : {"nobody", "cli", "rpc", "timer"}, op : Operations,
                             pc : {"idle", "init", "save", "apply", "snapshot"},
                             base : Settings, new : Settings, willed : BOOLEAN]]
      <3>1. Idle \in [by : {"nobody", "cli", "rpc", "timer"}, op : Operations,
                     pc : {"idle", "init", "save", "apply", "snapshot"},
                     base : Settings, new : Settings, willed : BOOLEAN]
        BY <1>2 DEF Idle, Operations
      <3> QED
        BY <3>1 DEF SetupInit
    <2>2. /\ repos \in [Places -> {None} \cup Passwords] /\ timers \subseteq Cadences
          /\ commands \in 0 .. MaxCommands /\ known \subseteq 1 .. made
      <3>1. repos \in [Places -> {None} \cup Passwords]
        BY <1>1, <1>3
      <3>2. timers \subseteq Cadences
        BY <1>1, <1>3, SettingsType
      <3>3. commands \in 0 .. MaxCommands /\ known \subseteq 1 .. made
        BY <1>1, <1>5 DEF SetupInit
      <3> QED
        BY <3>1, <3>2, <3>3
    <2>3. /\ login \in [pc : {"idle", "polling", "approved"}, key : {None} \cup Tokens]
          /\ logout \in [pc : {"idle", "revoked"}, key : {None} \cup Tokens]
      BY DEF SetupInit
    <2>4. /\ session \in BOOLEAN /\ faults \in 0 .. MaxFaults /\ plan \in BOOLEAN
          /\ token \in {None} \cup Tokens /\ live \subseteq Tokens
          /\ issued \in {None} \cup Tokens /\ strays \subseteq Tokens
      BY DEF SetupInit
    <2> QED
      BY <1>3, <1>5, <2>1, <2>2, <2>3, <2>4 DEF SetupTypeOK
  <1>8. JobOK
    BY <1>6 DEF JobOK, Idle
  <1>9. ReadyInv
    BY <1>1, <1>4, <1>6 DEF ReadyInv, Ready, Idle, Places, Unset, Foreign, None
  <1>10. KeyInv
    <2>1. \A p \in Places : bundles[p].key \in {config.key, None, Foreign}
      BY <1>1 DEF Places, Unset
    <2> QED
      BY <1>4, <1>6, <2>1 DEF KeyInv, KeysHeld, Idle, Unset, None
  <1>11. TimersFollow
    BY <1>1 DEF TimersFollow
  <1>12. AccountInv
    BY DEF SetupInit, AccountInv, NoGhostKey, None
  <1> QED
    BY <1>7, <1>8, <1>9, <1>10, <1>11, <1>12 DEF SetupInv
-----------------------------------------------------------------------------
\* The set of what a command can be at.
JobType == [by : {"nobody", "cli", "rpc", "timer"}, op : Operations,
         pc : {"idle", "init", "save", "apply", "snapshot"},
         base : Settings, new : Settings, willed : BOOLEAN]

\* A command that begins keeps the invariant, if what it is to save can be
\* recorded, and replaces the password only at the user's word or when there
\* is none.
LEMMA BeginsInv ==
    ASSUME SetupInv, NEW p \in Procs, NEW by \in {"cli", "rpc", "timer"},
           NEW op \in Operations, NEW stage \in {"init", "save", "snapshot"},
           NEW new \in Settings, NEW willed \in BOOLEAN,
           Begins(p, by, op, stage, new, willed),
           made' \in {None} \cup Passwords, known' \subseteq 1 .. made', known \subseteq known',
           stage = "init" => new # Unset /\ op \in {"connect", "retry", "schedule"},
           stage = "save" => Ready(new) /\ op \in {"connect", "restore", "schedule"},
           ~willed /\ stage \in {"init", "save"} => new.key = config.key \/ config.key = None
    PROVE  SetupInv'
  <1> USE SetupConstants DEF SetupConstants, SetupInv
  <1> DEFINE j == [by |-> by, op |-> op, pc |-> stage, base |-> config, new |-> new,
                   willed |-> willed]
  <1>1. /\ job' = [job EXCEPT ![p] = j] /\ commands' = commands + 1
        /\ commands < MaxCommands
        /\ UNCHANGED <<config, repos, bundles, timers, session, faults, token, live, issued,
                       plan, login, logout, strays, dropped, accepted, astray>>
    BY DEF Begins, disk, account, setupHistory
  <1>2. j \in JobType
    BY DEF JobType, SetupTypeOK
  <1>3. /\ job \in [Procs -> JobType] /\ job'[p] = j
        /\ \A q \in Procs \ {p} : job'[q] = job[q]
    BY <1>1 DEF SetupTypeOK, JobType
  <1>4. SetupTypeOK'
    <2>1. job' \in [Procs -> JobType]
      BY <1>1, <1>2, <1>3
    <2> QED
      BY <1>1, <2>1 DEF SetupTypeOK, JobType
  <1>5. JobOK'
    BY <1>3 DEF JobOK
  <1>6. ReadyInv'
    BY <1>1, <1>3 DEF ReadyInv, Ready
  <1>7. KeyInv'
    BY <1>1, <1>3 DEF KeyInv, KeysHeld
  <1>8. TimersFollow'
    <2>1. \A q \in Procs : job[q].pc = "apply" => job'[q].pc = "apply" \/ q = p
      BY <1>3
    <2>2. job[p].pc # "apply"
      BY DEF Begins, Idle
    <2> QED
      BY <1>1, <2>1, <2>2 DEF TimersFollow
  <1>9. AccountInv'
    BY <1>1 DEF AccountInv, NoGhostKey
  <1> QED
    BY <1>4, <1>5, <1>6, <1>7, <1>8, <1>9

\* The password of a new connection is one of the machine's or a new one.
LEMMA ConnectsInv ==
    ASSUME SetupInv, NEW p \in Procs, NEW by \in {"cli", "rpc"}, NEW at \in Places,
           NEW sched \in SUBSET Cadences, NEW shown \in BOOLEAN,
           Connects(p, by, at, sched, shown)
    PROVE  SetupInv'
  <1> USE SetupConstants DEF SetupConstants
  <1> DEFINE new(key) == [at |-> at, key |-> key, sched |-> sched]
  <1>1. /\ made \in Nat /\ made <= MaxPasswords /\ known \subseteq 1 .. made
        /\ config \in Settings
    BY DEF SetupInv, SetupTypeOK, Passwords, None
  <1>2. ASSUME NEW key \in Passwords, NEW willed \in BOOLEAN,
               Begins(p, by, "connect", "init", new(key), willed),
               willed \/ key = config.key \/ config.key = None,
               made' \in Passwords \cup {None}, known' \subseteq 1 .. made', known \subseteq known'
        PROVE  SetupInv'
    <2>1. new(key) \in Settings /\ new(key) # Unset /\ new(key).key = key
      BY DEF Settings, Unset, Places
    <2> HIDE DEF new
    <2> QED
      BY <1>2, <2>1, BeginsInv DEF Operations
  <1>3. ASSUME NEW sees \in BOOLEAN, Fresh(sees)
        PROVE  /\ made + 1 \in Passwords /\ made' = made + 1
               /\ known' \subseteq 1 .. made' /\ known \subseteq known'
    BY <1>1, <1>3 DEF Fresh, Passwords
  <1>4. ASSUME Given
        PROVE  /\ made' \in Passwords \cup {None} /\ known' \subseteq 1 .. made'
               /\ known \subseteq known'
    BY <1>4 DEF Given, SetupInv, SetupTypeOK
  <1>5. known \subseteq Passwords /\ (config.key # None => config.key \in Passwords)
    <2>1. known \subseteq Passwords
      BY <1>1 DEF Passwords
    <2> QED
      BY <1>1, <2>1, SettingsType
  <1>6. CASE \E key \in known : Begins(p, by, "connect", "init", new(key), TRUE) /\ Given
    BY <1>2, <1>4, <1>5, <1>6
  <1>7. CASE Begins(p, by, "connect", "init", new(made + 1), TRUE) /\ Fresh(TRUE)
    BY <1>2, <1>3, <1>7
  <1>8. CASE config.key # None /\ Begins(p, by, "connect", "init", new(config.key), FALSE)
             /\ Given
    BY <1>2, <1>4, <1>5, <1>8
  <1>9. CASE config.key = None /\ Begins(p, by, "connect", "init", new(made + 1), FALSE)
             /\ Fresh(shown)
    BY <1>2, <1>3, <1>9
  <1> HIDE DEF new
  <1> QED
    BY <1>6, <1>7, <1>8, <1>9 DEF Connects, Reused, new
\* Commands that begin keep the invariant.
LEMMA CommandsInv ==
    ASSUME SetupInv, NEW p \in Procs,
           \/ Connect(p) \/ Retry(p) \/ ConnectBackup(p) \/ Configure(p)
           \/ SetBackupMachine(p) \/ SetSchedule(p) \/ Disconnect(p) \/ RestoreConfig(p)
           \/ BeginRun(p)
    PROVE  SetupInv'
  <1> USE SetupConstants DEF SetupConstants
  <1>0. /\ made \in {None} \cup Passwords /\ made \in Nat /\ known \subseteq 1 .. made
        /\ config \in Settings /\ Ready(config) /\ {} \in SUBSET Cadences
        /\ Unset \in Settings
    BY DEF SetupInv, SetupTypeOK, Passwords, None, ReadyInv, Settings
  <1>1. ASSUME Given
        PROVE  /\ made' \in {None} \cup Passwords /\ known' \subseteq 1 .. made'
               /\ known \subseteq known'
    BY <1>0, <1>1 DEF Given
  <1>2. CASE Connect(p)
    <2>1. ASSUME NEW at \in Destinations, NEW shown \in BOOLEAN,
                 Connects(p, "cli", at, {}, shown)
          PROVE  SetupInv'
      BY <1>0, <2>1, ConnectsInv DEF Destinations
    <2>2. ASSUME NEW at \in Destinations, NEW shown \in BOOLEAN, Rotates(p, at, shown)
          PROVE  SetupInv'
      <3> DEFINE new == [at |-> at, key |-> made + 1, sched |-> {}]
      <3>1. /\ made' \in Passwords /\ made + 1 \in Passwords
            /\ known' \subseteq 1 .. made' /\ known \subseteq known'
        BY <1>0, <2>2 DEF Rotates, Fresh, Passwords
      <3>2. new \in Settings /\ new # Unset
        BY <3>1 DEF Settings, Unset, Places, Destinations
      <3>3. Begins(p, "cli", "connect", "init", new, TRUE)
        BY <2>2 DEF Rotates
      <3> HIDE DEF new
      <3> QED
        BY <3>1, <3>2, <3>3, BeginsInv DEF Operations
    <2> QED
      BY <1>2, <2>1, <2>2 DEF Connect
  <1>3. CASE Retry(p)
    BY <1>0, <1>1, <1>3, BeginsInv DEF Retry, Operations
  <1>4. CASE ConnectBackup(p)
    <2>1. PICK at \in Places : Connects(p, "rpc", at, config.sched, FALSE)
      BY <1>4 DEF ConnectBackup
    <2> QED
      BY <1>0, <2>1, ConnectsInv, SettingsType
  <1>5. CASE Configure(p)
    <2>1. PICK at \in IF config.at \in Bucket THEN Bucket ELSE {config.at},
               sched \in SUBSET Cadences :
             Begins(p, "cli", "schedule", IF at = config.at THEN "save" ELSE "init",
                    [config EXCEPT !.at = at, !.sched = sched], FALSE)
      BY <1>5 DEF Configure, Cadenced
    <2> DEFINE new == [config EXCEPT !.at = at, !.sched = sched]
    <2>2. config # Unset /\ Given /\ at \in Places
      BY <1>0, <1>5, SettingsType DEF Configure, Bucket, Places
    <2>3. new \in Settings /\ new # Unset /\ new.key = config.key
      BY <1>0, <2>1, <2>2 DEF Settings, Places, Unset
    <2>4. at = config.at => Ready(new)
      BY <1>0, <2>2, <2>3 DEF Ready, Settings
    <2> HIDE DEF new
    <2> QED
      BY <1>1, <2>1, <2>2, <2>3, <2>4, BeginsInv DEF Operations, new
  <1>6. CASE SetBackupMachine(p)
    <2>1. PICK at \in Bucket :
             Begins(p, "rpc", "connect", "init", [config EXCEPT !.at = at], FALSE)
      BY <1>6 DEF SetBackupMachine
    <2> DEFINE new == [config EXCEPT !.at = at]
    <2>2. config # Unset /\ Given
      BY <1>6 DEF SetBackupMachine, Bucket, Unset
    <2>3. new \in Settings /\ new # Unset /\ new.key = config.key
      BY <1>0, <2>2 DEF Settings, Bucket, Places, Unset
    <2> HIDE DEF new
    <2> QED
      BY <1>1, <2>1, <2>2, <2>3, BeginsInv DEF Operations, new
  <1>7. CASE SetSchedule(p)
    <2>1. PICK sched \in SUBSET Cadences :
             Begins(p, "rpc", "schedule", "save", [config EXCEPT !.sched = sched], FALSE)
      BY <1>7 DEF SetSchedule, Cadenced
    <2> DEFINE new == [config EXCEPT !.sched = sched]
    <2>2. config # Unset /\ Given
      BY <1>7 DEF SetSchedule
    <2>3. new \in Settings /\ new.key = config.key /\ new.at = config.at
      BY <1>0, <2>2, SettingsType
    <2>4. Ready(new)
      BY <1>0, <2>2, <2>3 DEF Ready
    <2> HIDE DEF new
    <2> QED
      BY <1>1, <2>1, <2>2, <2>3, <2>4, BeginsInv DEF Operations, new
  <1>8. CASE Disconnect(p)
    BY <1>0, <1>1, <1>8, BeginsInv DEF Disconnect, Operations, Ready
  <1>9. CASE RestoreConfig(p)
    <2>1. /\ config.at \in Places /\ bundles[config.at] \in Settings
          /\ Ready(bundles[config.at])
      BY <1>0, <1>9, SettingsType DEF RestoreConfig, Opens, SetupInv, SetupTypeOK, ReadyInv
    <2> QED
      BY <1>1, <1>9, <2>1, BeginsInv DEF RestoreConfig, Operations
  <1>10. CASE BeginRun(p)
    <2>1. PICK by \in {"rpc", "timer"} : Begins(p, by, "backup", "snapshot", config, FALSE)
      BY <1>10 DEF BeginRun
    <2> QED
      BY <1>0, <1>1, <1>10, <2>1, BeginsInv DEF BeginRun, Operations
  <1> QED
    BY <1>2, <1>3, <1>4, <1>5, <1>6, <1>7, <1>8, <1>9, <1>10
-----------------------------------------------------------------------------
\* What a process's job is after its step.
LEMMA JobStep ==
    ASSUME SetupTypeOK, NEW p \in Procs
    PROVE  /\ job[p] \in JobType
           /\ CommandEnds(p) => /\ job' \in [Procs -> JobType] /\ job'[p] = Idle
                         /\ \A q \in Procs \ {p} : job'[q] = job[q]
           /\ \A stage \in {"save", "apply"} :
                Goes(p, stage) => /\ job' \in [Procs -> JobType]
                                  /\ job'[p] = [job[p] EXCEPT !.pc = stage]
                                  /\ \A q \in Procs \ {p} : job'[q] = job[q]
  <1>1. job \in [Procs -> JobType]
    BY DEF SetupTypeOK, JobType
  <1>2. Idle \in JobType
    BY DEF JobType, Idle, Operations, Settings
  <1>3. ASSUME NEW stage \in {"save", "apply"}
        PROVE  [job[p] EXCEPT !.pc = stage] \in JobType
    BY <1>1 DEF JobType
  <1> QED
    BY <1>1, <1>2, <1>3 DEF CommandEnds, Goes

\* Init comes before the save, and makes what is to be saved ready for it.
LEMMA InitRepoInv ==
    ASSUME SetupInv, NEW p \in Procs, InitRepo(p)
    PROVE  SetupInv'
  <1> USE DEF SetupInv
  <1> DEFINE s == job[p].new
  <1>1. /\ s \in Settings /\ s # Unset /\ s.at \in Places /\ s.key \in Passwords /\ s.key # None
        /\ job[p].pc = "init" /\ job[p].op \in {"connect", "retry", "schedule"}
    BY JobStep, SettingsType DEF JobType, InitRepo, JobOK
  <1>2. UNCHANGED <<config, bundles, timers, session, made, known, commands, faults, account,
                    dropped, astray>>
    BY DEF InitRepo
  <1>3. UNCHANGED <<token, live, issued, plan, login, logout, strays>>
    BY <1>2 DEF account
  <1>4. CASE ~Resolves(s)
    <2>1. CommandEnds(p) /\ UNCHANGED <<repos, accepted>>
      BY <1>4 DEF InitRepo
    <2>2. job' \in [Procs -> JobType] /\ job'[p] = Idle /\ \A q \in Procs \ {p} : job'[q] = job[q]
      BY <2>1, JobStep
    <2>3. SetupTypeOK'
      BY <1>2, <1>3, <2>1, <2>2 DEF SetupTypeOK, JobType
    <2>4. JobOK' /\ ReadyInv'
      BY <1>2, <1>3, <2>1, <2>2 DEF JobOK, ReadyInv, Ready, Idle
    <2>5. KeyInv'
      <3>1. Idle.base.key = None /\ Idle.pc = "idle"
        BY DEF Idle, Unset
      <3>2. KeysHeld' /\ \A x \in Places : bundles'[x] # Unset => repos'[x] # None
        BY <1>2, <2>1 DEF KeyInv, KeysHeld
      <3> QED
        BY <1>2, <2>2, <3>1, <3>2 DEF KeyInv
    <2>6. TimersFollow' /\ AccountInv'
      BY <1>1, <1>2, <1>3, <2>1, <2>2 DEF TimersFollow, AccountInv, NoGhostKey
    <2> QED
      BY <2>3, <2>4, <2>5, <2>6
  <1>5. CASE Resolves(s)
    <2>1. /\ repos' = [repos EXCEPT ![s.at] = IF @ = None THEN s.key ELSE @]
          /\ accepted' = IF repos[s.at] \in {None, s.key} THEN accepted
                         ELSE accepted \cup {<<s.at, s.key>>}
          /\ IF job[p].op = "retry" THEN CommandEnds(p) ELSE Goes(p, "save")
      BY <1>5 DEF InitRepo, Inited
    <2>2. /\ job' \in [Procs -> JobType] /\ \A q \in Procs \ {p} : job'[q] = job[q]
          /\ \/ job'[p] = Idle
             \/ job'[p] = [job[p] EXCEPT !.pc = "save"] /\ job[p].op # "retry"
      BY <2>1, JobStep
    <2>3. /\ repos' \in [Places -> {None} \cup Passwords] /\ accepted \subseteq accepted'
          /\ \A x \in Places : repos[x] # None => repos'[x] = repos[x]
      BY <1>1, <2>1 DEF SetupTypeOK
    <2>4. Ready(s)'
      <3>1. \/ repos'[s.at] = s.key
            \/ repos'[s.at] # None /\ <<s.at, s.key>> \in accepted'
        BY <1>1, <2>1, <2>3 DEF SetupTypeOK
      <3>2. s' = s \/ job'[p] = Idle
        BY <2>2, JobStep DEF JobType
      <3> QED
        BY <3>1, <3>2 DEF Ready, Idle
    <2>5. \A t \in Settings : Ready(t) => Ready(t)'
      BY <2>3, SettingsType DEF Ready
    <2>6. SetupTypeOK'
      BY <1>2, <1>3, <2>2, <2>3 DEF SetupTypeOK, JobType
    <2>7. JobOK'
      BY <1>1, <2>2, JobStep DEF JobOK, Idle, JobType
    <2>8. ReadyInv'
      <3>1. Ready(config)' /\ \A x \in Places : Ready(bundles[x])'
        BY <1>2, <2>5 DEF ReadyInv, SetupTypeOK, Ready
      <3>2. ASSUME NEW q \in Procs, job'[q].pc \in {"save", "apply"} PROVE Ready(job[q].new)'
        <4>1. CASE q = p
          BY <2>4, <4>1
        <4>2. CASE q # p
          BY <2>2, <2>5, <3>2, <4>2, JobStep DEF ReadyInv, JobType, Ready
        <4> QED
          BY <4>1, <4>2
      <3> QED
        BY <3>1, <3>2 DEF ReadyInv
    <2>9. KeyInv'
      <3>1. KeysHeld' /\ \A x \in Places : bundles'[x] # Unset => repos'[x] # None
        BY <1>2, <2>3 DEF KeyInv, KeysHeld
      <3>2. ASSUME NEW q \in Procs
            PROVE  /\ job'[q].base.key \in {config.key, None} \cup dropped
                   /\ (~job'[q].willed /\ job'[q].pc \in {"init", "save"}) =>
                        job'[q].new.key = job'[q].base.key \/ job'[q].base.key = None
        <4>1. CASE job'[q] = job[q]
          BY <4>1 DEF KeyInv
        <4>2. CASE job'[q] = Idle
          BY <4>2 DEF Idle, Unset
        <4>3. CASE q = p /\ job'[p] = [job[p] EXCEPT !.pc = "save"]
          BY <1>1, <4>3, JobStep DEF KeyInv, JobType
        <4> QED
          BY <2>2, <4>1, <4>2, <4>3
      <3> QED
        BY <1>2, <3>1, <3>2 DEF KeyInv
    <2>10. TimersFollow'
      BY <1>1, <1>2, <2>2, JobStep DEF TimersFollow, JobType
    <2>11. AccountInv'
      BY <1>3 DEF AccountInv, NoGhostKey
    <2> QED
      BY <2>6, <2>7, <2>8, <2>9, <2>10, <2>11
  <1> QED
    BY <1>4, <1>5
\* A save replaces the password it read, or puts the one it replaces on record,
\* and leaves the timers to apply_schedule or differing on the record.
LEMMA SaveInv ==
    ASSUME SetupInv, NEW p \in Procs, Save(p)
    PROVE  SetupInv'
  <1> USE DEF SetupInv
  <1> DEFINE j == job[p]
             stale == config # j.base
  <1>1. /\ j \in JobType /\ j.pc = "save" /\ j.op \in {"connect", "restore", "schedule"}
        /\ Ready(j.new) /\ config' = j.new
        /\ dropped' = IF (j.willed \/ stale) /\ config.key # j.new.key
                      THEN dropped \cup ({config.key} \ {None}) ELSE dropped
        /\ astray' = (astray \/ ((stale \/ j.op \in {"connect", "restore"})
                                /\ j.new.sched # config.sched))
        /\ IF j.op = "schedule" THEN Goes(p, "apply") ELSE CommandEnds(p)
    BY JobStep DEF Save, JobOK, ReadyInv, Applies
  <1>2. UNCHANGED <<repos, bundles, timers, session, made, known, commands, faults, token,
                    live, issued, plan, login, logout, strays, accepted>>
    BY DEF Save, account
  <1>3. /\ job' \in [Procs -> JobType] /\ \A q \in Procs \ {p} : job'[q] = job[q]
        /\ \/ job'[p] = Idle /\ j.op # "schedule"
           \/ job'[p] = [j EXCEPT !.pc = "apply"]
    BY <1>1, JobStep
  <1>4. SetupTypeOK'
    BY <1>1, <1>2, <1>3 DEF SetupTypeOK, JobType
  <1>5. JobOK'
    BY <1>1, <1>3 DEF JobOK, Idle, JobType
  <1>6. ReadyInv'
    BY <1>1, <1>2, <1>3 DEF ReadyInv, Ready, Idle, JobType
  <1>7. KeyInv'
    <2>1. /\ dropped \subseteq dropped'
          /\ config.key \in {config'.key, None} \cup dropped' \/ j.base.key = None
          /\ config.key # None => config.key \in {config'.key} \cup dropped'
      <3>1. ~j.willed => j.new.key = j.base.key \/ j.base.key = None
        BY <1>1 DEF KeyInv
      <3>2. CASE ~stale
        BY <1>1, <3>1, <3>2
      <3>3. CASE stale
        BY <1>1, <3>3
      <3> QED
        BY <3>2, <3>3
    <2>2. ASSUME NEW q \in Procs
          PROVE  job'[q].base.key \in {config'.key, None} \cup dropped'
      <3>1. job[q].base.key \in {config.key, None} \cup dropped
        BY DEF KeyInv
      <3>2. job'[q].base = job[q].base \/ job'[q] = Idle
        BY <1>1, <1>3 DEF JobType
      <3> QED
        BY <2>1, <3>1, <3>2 DEF Idle, Unset
    <2>3. ASSUME NEW q \in Procs, ~job'[q].willed, job'[q].pc \in {"init", "save"}
          PROVE  job'[q].new.key = job'[q].base.key \/ job'[q].base.key = None
      BY <1>1, <1>3, <2>3 DEF KeyInv, Idle, JobType
    <2>4. ASSUME NEW x \in Places, bundles'[x] # Unset
          PROVE  /\ repos'[x] # None
                 /\ repos'[x] \in {config'.key} \cup known' \cup dropped' \cup {Foreign}
      <3>1. /\ repos[x] # None
            /\ repos[x] \in {config.key} \cup known \cup dropped \cup {Foreign}
        BY <1>2, <2>4 DEF KeyInv, KeysHeld
      <3> QED
        BY <1>2, <2>1, <3>1
    <2> QED
      BY <2>2, <2>3, <2>4 DEF KeyInv, KeysHeld
  <1>8. TimersFollow'
    <2> SUFFICES ASSUME ~astray', \A q \in Procs : job'[q].pc # "apply"
                 PROVE  timers' = config'.sched
      BY DEF TimersFollow
    <2>1. job'[p] = Idle /\ j.op # "schedule"
      BY <1>1, <1>3 DEF JobType
    <2>2. \A q \in Procs : job[q].pc # "apply"
      BY <1>1, <1>3
    <2>3. ~astray /\ j.new.sched = config.sched
      BY <1>1, <2>1
    <2> QED
      BY <1>1, <1>2, <2>2, <2>3 DEF TimersFollow
  <1>9. AccountInv'
    BY <1>2 DEF AccountInv, NoGhostKey
  <1> QED
    BY <1>4, <1>5, <1>6, <1>7, <1>8, <1>9

\* A job that ends without saving keeps all but what it says of the timers.
LEMMA CommandEndsInv ==
    ASSUME SetupInv, NEW p \in Procs, CommandEnds(p),
           UNCHANGED <<config, repos, session, made, known, commands, account, dropped, accepted>>
    PROVE  /\ job' \in [Procs -> JobType] /\ job'[p] = Idle
           /\ \A q \in Procs \ {p} : job'[q] = job[q]
           /\ JobOK' /\ AccountInv'
           /\ (\A x \in Places : Ready(bundles[x])') => ReadyInv'
           /\ (\A x \in Places : bundles'[x] # Unset =>
                   /\ repos[x] # None
                   /\ repos[x] \in {config.key} \cup known \cup dropped \cup {Foreign}) => KeyInv'
  <1>1. /\ job' \in [Procs -> JobType] /\ job'[p] = Idle
        /\ \A q \in Procs \ {p} : job'[q] = job[q]
    BY JobStep DEF SetupInv
  <1>2. Idle.base.key = None /\ Idle.pc = "idle"
    BY DEF Idle, Unset
  <1>3. JobOK' /\ AccountInv'
    BY <1>1, <1>2 DEF SetupInv, JobOK, AccountInv, NoGhostKey, account
  <1>4. ASSUME \A x \in Places : Ready(bundles[x])' PROVE ReadyInv'
    BY <1>1, <1>2, <1>4 DEF SetupInv, ReadyInv, Ready
  <1>5. ASSUME \A x \in Places : bundles'[x] # Unset =>
                   /\ repos[x] # None
                   /\ repos[x] \in {config.key} \cup known \cup dropped \cup {Foreign}
        PROVE  KeyInv'
    BY <1>1, <1>2, <1>5 DEF SetupInv, KeyInv, KeysHeld
  <1> QED
    BY <1>1, <1>3, <1>4, <1>5
\* The bounds count up to their limits.
LEMMA Bounded ==
    ASSUME SetupTypeOK
    PROVE  /\ Faulty => faults' \in 0 .. MaxFaults
           /\ Command => commands' \in 0 .. MaxCommands
  <1>1. MaxFaults \in Nat /\ MaxCommands \in Nat
    BY SetupConstants DEF SetupConstants
  <1> QED
    BY <1>1 DEF SetupTypeOK, Faulty, Command

\* JobType that fail, die or finish keep the invariant.
LEMMA JobEndInv ==
    ASSUME SetupInv, NEW p \in Procs, InitFails(p) \/ KillCommand(p) \/ Apply(p) \/ Snapshot(p)
    PROVE  SetupInv'
  <1> USE SetupConstants DEF SetupInv, SetupConstants
  <1>0. job[p] \in JobType
    BY JobStep
  <1>1. /\ CommandEnds(p) /\ commands' = commands
        /\ UNCHANGED <<config, repos, session, made, known, token, live, issued, plan, login,
                       logout, strays, dropped, accepted>>
        /\ faults' \in 0 .. MaxFaults
    BY DEF InitFails, KillCommand, Apply, Snapshot, Faulty, disk, account, setupHistory, SetupTypeOK
  <1>2. /\ job' \in [Procs -> JobType] /\ job'[p] = Idle
        /\ \A q \in Procs \ {p} : job'[q] = job[q]
        /\ JobOK' /\ AccountInv'
    BY <1>1, CommandEndsInv DEF account
  <1>3. timers' \subseteq Cadences
    <2>1. CASE Apply(p)
      <3>1. job[p].new.sched \subseteq Cadences
        BY <1>0, SettingsType DEF JobType
      <3> QED
        BY <2>1, <3>1 DEF Apply, Enabled
    <2>2. CASE ~Apply(p)
      BY <2>2 DEF InitFails, KillCommand, Snapshot, disk, SetupTypeOK
    <2> QED
      BY <2>1, <2>2
  <1>4. bundles' \in [Places -> Settings]
    BY DEF InitFails, KillCommand, Apply, Snapshot, disk, SetupTypeOK
  <1>5. SetupTypeOK'
    BY <1>1, <1>2, <1>3, <1>4 DEF SetupTypeOK, JobType
  <1>6. CASE bundles' = bundles
    <2>1. ReadyInv' /\ KeyInv'
      BY <1>1, <1>6, CommandEndsInv DEF ReadyInv, KeyInv, KeysHeld, Ready, account
    <2>2. TimersFollow'
      <3> SUFFICES ASSUME ~astray', \A q \in Procs : job'[q].pc # "apply"
                   PROVE  timers' = config'.sched
        BY DEF TimersFollow
      <3>1. CASE Apply(p)
        BY <1>1, <3>1 DEF Apply
      <3>2. CASE InitFails(p) \/ KillCommand(p) \/ Snapshot(p)
        <4>1. timers' = timers /\ ~astray /\ job[p].pc # "apply"
          <5>1. CASE InitFails(p) \/ Snapshot(p)
            BY <5>1 DEF InitFails, Snapshot, disk, setupHistory
          <5>2. CASE KillCommand(p)
            BY <5>2 DEF KillCommand, disk
          <5> QED
            BY <3>2, <5>1, <5>2
        <4> QED
          BY <1>1, <1>2, <4>1 DEF TimersFollow
      <3> QED
        BY <3>1, <3>2
    <2> QED
      BY <1>2, <1>5, <2>1, <2>2
  <1>7. CASE bundles' # bundles
    <2> DEFINE base == job[p].base
    <2>1. /\ Snapshot(p) /\ Opens(base)
          /\ bundles' = [bundles EXCEPT ![base.at] = config]
      BY <1>7 DEF InitFails, KillCommand, Apply, Snapshot, disk
    <2>2. /\ base.at \in Places /\ repos[base.at] = base.key /\ base.key # None
          /\ base.key \in {config.key} \cup dropped
      BY <1>0, <2>1, SettingsType DEF Opens, KeyInv, JobType
    <2>3. ReadyInv'
      <3>1. \A x \in Places : Ready(bundles[x])'
        BY <1>1, <2>1, <2>2 DEF ReadyInv, Ready, SetupTypeOK
      <3> QED
        BY <1>1, <3>1, CommandEndsInv DEF account
    <2>4. KeyInv'
      <3>1. \A x \in Places : bundles'[x] # Unset =>
               /\ repos[x] # None
               /\ repos[x] \in {config.key} \cup known \cup dropped \cup {Foreign}
        BY <2>1, <2>2 DEF KeyInv, KeysHeld, SetupTypeOK
      <3> QED
        BY <1>1, <3>1, CommandEndsInv DEF account
    <2>5. TimersFollow'
      BY <1>1, <1>2, <2>1 DEF TimersFollow, Snapshot, setupHistory
    <2> QED
      BY <1>2, <1>5, <2>3, <2>4, <2>5
  <1> QED
    BY <1>6, <1>7

\* So do a deletion and the comings and goings of the user manager.
LEMMA DeleteInv ==
    ASSUME SetupInv, Delete \/ LoseSession \/ LogIn
    PROVE  SetupInv'
  <1> USE SetupConstants DEF SetupInv, SetupConstants
  <1>1. /\ UNCHANGED <<config, repos, timers, job, made, known, commands, token, live, issued,
                       plan, login, logout, strays, dropped, accepted, astray>>
        /\ session' \in BOOLEAN /\ faults' \in 0 .. MaxFaults
        /\ \/ bundles' = bundles
           \/ config.at \in Places /\ bundles' = [bundles EXCEPT ![config.at] = Unset]
    <2>1. CASE Delete
      <3>1. config.at \in Places
        BY <2>1, SettingsType DEF Delete, Opens, SetupTypeOK
      <3> QED
        BY <2>1, <3>1 DEF Delete, account, setupHistory, SetupTypeOK
    <2>2. CASE LoseSession
      BY <2>2, Bounded DEF LoseSession, disk, account, setupHistory, SetupTypeOK
    <2>3. CASE LogIn
      BY <2>3 DEF LogIn, disk, account, setupHistory, SetupTypeOK
    <2> QED
      BY <2>1, <2>2, <2>3
  <1>2. bundles' \in [Places -> Settings]
        /\ \A x \in Places : bundles'[x] \in {bundles[x], Unset}
    BY <1>1 DEF SetupTypeOK, Settings
  <1>3. SetupTypeOK'
    BY <1>1, <1>2 DEF SetupTypeOK
  <1>4. JobOK' /\ AccountInv' /\ TimersFollow'
    BY <1>1 DEF JobOK, AccountInv, NoGhostKey, TimersFollow
  <1>5. ReadyInv' /\ KeyInv'
    BY <1>1, <1>2 DEF ReadyInv, Ready, KeyInv, KeysHeld
  <1> QED
    BY <1>3, <1>4, <1>5

\* The part of the type invariant that is about the account, and its bounds.
AccountOK ==
    /\ commands \in 0 .. MaxCommands /\ faults \in 0 .. MaxFaults
    /\ token \in {None} \cup Tokens /\ live \subseteq Tokens /\ issued \in {None} \cup Tokens
    /\ plan \in BOOLEAN /\ strays \subseteq Tokens
    /\ login \in [pc : {"idle", "polling", "approved"}, key : {None} \cup Tokens]
    /\ logout \in [pc : {"idle", "revoked"}, key : {None} \cup Tokens]

\* Steps of the account leave the backups alone, and lose no key that works.
LEMMA AccountStepInv ==
    ASSUME SetupInv,
           \/ DeviceStart \/ Approve \/ Polled \/ GiveUp \/ LoginWithToken
           \/ Revoke \/ DeleteCredentials \/ RevokeElsewhere \/ ChangePlan
    PROVE  SetupInv'
  <1> USE DEF SetupInv, Stores
  <1>1. backups' = backups
    BY DEF DeviceStart, Approve, Polled, GiveUp, LoginWithToken, Revoke, DeleteCredentials,
           RevokeElsewhere, ChangePlan
  <1>2. /\ UNCHANGED <<config, repos, bundles, timers, session, job, made, known, dropped,
                       accepted, astray>>
    BY <1>1 DEF backups, disk, setupHistory
  <1>3. JobOK' /\ ReadyInv' /\ KeyInv' /\ TimersFollow'
    BY <1>2 DEF JobOK, ReadyInv, Ready, KeyInv, KeysHeld, TimersFollow
  <1>4. AccountOK' /\ AccountInv'
    <2>0. /\ AccountOK /\ AccountInv
          /\ Faulty => faults' \in 0 .. MaxFaults
          /\ Command => commands' \in 0 .. MaxCommands
      BY Bounded DEF AccountOK, SetupTypeOK
    <2>9. MaxTokens \in Nat
      BY SetupConstants DEF SetupConstants
    <2> USE <2>0, <2>9 DEF AccountOK, AccountInv, NoGhostKey, Tokens, None
    <2>1. CASE DeviceStart
      BY <2>1 DEF DeviceStart
    <2>10. CASE Approve
      <3>1. login.pc = "polling" => login.key = None
        BY DEF AccountInv
      <3>2. /\ issued' \in Tokens /\ issued' > issued
            /\ login' = [pc |-> "approved", key |-> issued']
        BY <2>10 DEF Approve
      <3>3. AccountOK'
        BY <2>10, <3>2 DEF Approve
      <3>4. /\ \A k \in live' \cup {token', login'.key, logout'.key} : k <= issued'
            /\ logout'.pc = "revoked" => logout'.key \notin live' \/ logout'.key \in strays'
        BY <2>10, <3>2 DEF Approve
      <3>5. live' \subseteq {token'} \cup strays' \cup {login'.key}
        BY <2>10, <3>1, <3>2 DEF Approve
      <3> QED
        BY <3>2, <3>3, <3>4, <3>5
    <2>2. CASE Polled
      <3>1. AccountOK'
        BY <2>2 DEF Polled
      <3>2. /\ \A k \in live' \cup {token', login'.key, logout'.key} : k <= issued'
            /\ logout'.pc = "revoked" => logout'.key \notin live' \/ logout'.key \in strays'
            /\ login'.key = None
        BY <2>2 DEF Polled
      <3>3. live' \subseteq {token'} \cup strays' \cup {login'.key}
        BY <2>2 DEF Polled
      <3> QED
        BY <3>1, <3>2, <3>3
    <2>8. CASE GiveUp
      <3>1. AccountOK'
        BY <2>8 DEF GiveUp
      <3>2. /\ \A k \in live' \cup {token', login'.key, logout'.key} : k <= issued'
            /\ logout'.pc = "revoked" => logout'.key \notin live' \/ logout'.key \in strays'
            /\ login'.key = None
        BY <2>8 DEF GiveUp
      <3>3. live' \subseteq {token'} \cup strays' \cup {login'.key}
        BY <2>8 DEF GiveUp
      <3> QED
        BY <3>1, <3>2, <3>3
    <2>3. CASE LoginWithToken
      BY <2>3 DEF LoginWithToken
    <2>4. CASE Revoke
      <3>1. AccountOK'
        BY <2>4, Zenon DEF Revoke
      <3>2. AccountInv'
        BY <2>4 DEF Revoke
      <3> QED
        BY <3>1, <3>2
    <2>5. CASE DeleteCredentials
      BY <2>5 DEF DeleteCredentials
    <2>6. CASE RevokeElsewhere
      BY <2>6 DEF RevokeElsewhere
    <2>7. CASE ChangePlan
      BY <2>7 DEF ChangePlan
    <2> QED
      BY <2>1, <2>2, <2>3, <2>4, <2>5, <2>6, <2>7, <2>8, <2>10
  <1>5. SetupTypeOK'
    BY <1>2, <1>4 DEF SetupTypeOK, AccountOK
  <1> QED
    BY <1>3, <1>4, <1>5

\* Every step keeps the invariant.
LEMMA SetupNextInv == SetupInv /\ [SetupNext]_setupVars => SetupInv'
  <1> SUFFICES ASSUME SetupInv, [SetupNext]_setupVars PROVE SetupInv'
    OBVIOUS
  <1>1. CASE UNCHANGED setupVars
    BY <1>1
       DEF setupVars, disk, account, setupHistory, SetupInv, SetupTypeOK, JobOK, ReadyInv,
           Ready, KeyInv, KeysHeld, TimersFollow, AccountInv, NoGhostKey
  <1> QED
    BY <1>1, CommandsInv, InitRepoInv, SaveInv, JobEndInv, DeleteInv, AccountStepInv DEF SetupNext

\* The invariant holds at every moment of every execution.
LEMMA SetupSpecInv == SetupSpec => []SetupInv
  BY SetupInitInv, SetupNextInv, PTL DEF SetupSpec

\* Type correctness of preferences.toml, the repositories and the account.
THEOREM SetupTypeCorrect == SetupSpec => []SetupTypeOK
  <1>1. SetupInv => SetupTypeOK
    BY DEF SetupInv
  <1> QED
    BY <1>1, SetupSpecInv, PTL

\* No interleaving of commands, kills and stale saves loses the password of a
\* repository with snapshots behind the user's back.
THEOREM KeysStayHeld == SetupSpec => []KeysHeld
  <1>1. SetupInv => KeysHeld
    BY DEF SetupInv, KeyInv
  <1> QED
    BY <1>1, SetupSpecInv, PTL

\* What is recorded has been initialised, whichever commands interleave.
THEOREM RecordedIsReady == SetupSpec => []RepositoryReady
  <1>1. SetupInv => RepositoryReady
    BY DEF SetupInv, ReadyInv, Ready, RepositoryReady
  <1> QED
    BY <1>1, SetupSpecInv, PTL

\* The timers follow the schedule, but for the recorded ways to leave them.
THEOREM TimersFollowSchedule == SetupSpec => []TimersFollow
  <1>1. SetupInv => TimersFollow
    BY DEF SetupInv
  <1> QED
    BY <1>1, SetupSpecInv, PTL

\* A key the control plane accepts is held, awaited, or known to be let go.
THEOREM KeysAccountedFor == SetupSpec => []NoGhostKey
  <1>1. SetupInv => NoGhostKey
    BY DEF SetupInv, AccountInv
  <1> QED
    BY <1>1, SetupSpecInv, PTL
================================================================================
