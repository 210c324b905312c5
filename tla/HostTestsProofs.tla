---------------------------- MODULE HostTestsProofs ----------------------------
(***************************************************************************)
(* Proofs about HostTests, for any services, tests, scripts and bounds:    *)
(* what the user installed stays as it is, what tests leave behind is in   *)
(* the ledger, and a test that has been cleaned up after leaves nothing,   *)
(* each with the exceptions the property names.                            *)
(*                                                                         *)
(* The argument follows two kinds of services.  Those to be spared are in  *)
(* no queue, no ledger and no script, which holds because a run knows them *)
(* from its first scan or the history knows that it does not.  Traces,     *)
(* what is installed and not the user's, are in the ledger on disk and in  *)
(* the run's, and, once the steps are over, in the queue of what is purged *)
(* next.                                                                   *)
(***************************************************************************)
EXTENDS HostTests, FiniteSetTheorems, WellFoundedInduction, TLAPS

Testing == pc \in {"before", "steps", "after", "sweep"}
Elements(q) == {q[i] : i \in DOMAIN q}
Queued == Elements(queue)
Spared == mine \ (exposed \cup overlooked)
Touched(t) == Declared(t) \cup Pulled(t) \cup Removed(t)

\* Installed by a test, and no purge of it is known to have failed.
Trace(s) == s \in Scan \ stuck /\ host[s].unit # "real"

\* The rpc runs one test and has no other phase.
RunOK ==
    /\ who = "rpc" => pc \in {"before", "steps", "after", "sweep", "next"}
    /\ who = "rpc" /\ Testing => Tail(todo) = << >>
    /\ who = "rpc" /\ pc = "next" => todo = << >>

\* What is left of the script is of the test under way.
ScriptOK ==
    pc = "steps" => \A i \in DOMAIN script :
        /\ script[i].op = "add" => /\ script[i].of \in Declared(Root)
                                   /\ script[i].pulls \subseteq Pulled(Root)
        /\ script[i].op = "remove" => script[i].of \in Removed(Root)

\* A queue holds leftovers, then what the test declares, then what else it has
\* brought.
QueueOK ==
    /\ pc = "reclaim" => Queued \subseteq ledger
    /\ pc \in {"before", "after"} => Queued \subseteq Declared(Root)
    /\ pc = "sweep" => (Queued \cup leaked) \cap (owned \cup Native) = {}
    /\ who = "cli" /\ Testing => Declared(Root) \cap owned = {}

\* A service of the user's that no run has in its hands.
Kept(s) ==
    /\ Intact(s) /\ s \notin ledger
    /\ who = "cli" => s \notin led
    /\ who # "none" /\ s \notin Native => s \in owned
    /\ Testing => s \notin Touched(Root)
    /\ \A a \in stragglers : s \notin Adding(a)

KeptOK == \A s \in Spared : Kept(s)

RecordedOK ==
    /\ \A s \in Services : Trace(s) /\ s \notin unwritten \cup forgotten =>
          s \in ledger /\ (who = "cli" => s \in led)
    /\ Testing => /\ Declared(Root) \subseteq ledger \cup unwritten
                  /\ Pulled(Root) \subseteq unwritten
                  /\ who = "cli" => Declared(Root) \subseteq led

CleanedOK ==
    \A s \in Services : Trace(s) =>
        /\ pc = "after" /\ s \in Declared(Root) => s \in Queued
        /\ pc = "sweep" => s \in owned \cup Queued \cup (unseen \ (Declared(Root) \cup leaked))

Inv == TypeOK /\ RunOK /\ ScriptOK /\ QueueOK /\ KeptOK /\ RecordedOK /\ CleanedOK
-----------------------------------------------------------------------------
(***************************************************************************)
(* Sequences: what a queue that is built from a set, or reversed, holds,   *)
(* and what is left of it after its head.                                  *)
(***************************************************************************)

\* SetToSeq lists every element of a finite set, and nothing else.
LEMMA SetToSeqElements ==
    ASSUME NEW S, IsFiniteSet(S)
    PROVE  SetToSeq(S) \in Seq(S) /\ Elements(SetToSeq(S)) = S
  <1> DEFINE n == Cardinality(S)
  <1>1. n \in Nat /\ ExistsBijection(1..n, S)
    BY FS_CardinalityType
  <1>2. \E f \in [1..n -> S] : IsInjective(f)
    BY <1>1 DEF ExistsBijection, Bijection, Injection, IsInjective
  <1>3. SetToSeq(S) \in [1..n -> S] /\ IsInjective(SetToSeq(S))
    BY <1>2 DEF SetToSeq
  <1>4. SetToSeq(S) \in Injection(1..n, S)
    BY <1>3 DEF Injection, IsInjective
  <1>5. Cardinality(1..n) = n /\ IsFiniteSet(1..n)
    BY <1>1, FS_Interval
  <1>6. SetToSeq(S) \in Surjection(1..n, S)
    BY <1>4, <1>5, FS_Injection
  <1> QED
    BY <1>1, <1>3, <1>6 DEF Surjection, Elements

\* Reverse keeps the elements.
LEMMA ReverseElements ==
    ASSUME NEW S, NEW q \in Seq(S)
    PROVE  Reverse(q) \in Seq(S) /\ Elements(Reverse(q)) = Elements(q)
  <1>1. Reverse(q) \in Seq(S) /\ DOMAIN Reverse(q) = 1..Len(q) /\ DOMAIN q = 1..Len(q)
    BY DEF Reverse
  <1>2. \A i \in 1..Len(q) : Reverse(q)[i] = q[Len(q) - i + 1] /\ Len(q) - i + 1 \in 1..Len(q)
    BY DEF Reverse
  <1>3. \A i \in 1..Len(q) : q[i] = Reverse(q)[Len(q) - i + 1]
    BY <1>2
  <1> QED
    BY <1>1, <1>2, <1>3 DEF Elements

\* What follows the head, with the head, is all there was.
LEMMA TailElements ==
    ASSUME NEW S, NEW q \in Seq(S), q # << >>
    PROVE  /\ Head(q) \in S /\ Tail(q) \in Seq(S)
           /\ Elements(Tail(q)) \subseteq Elements(q)
           /\ Elements(q) = Elements(Tail(q)) \cup {Head(q)}
  <1>1. /\ Head(q) = q[1] /\ Tail(q) \in Seq(S) /\ Len(Tail(q)) = Len(q) - 1
        /\ DOMAIN q = 1..Len(q) /\ DOMAIN Tail(q) = 1..(Len(q) - 1) /\ Len(q) \in Nat \ {0}
        /\ \A i \in 1..(Len(q) - 1) : Tail(q)[i] = q[i + 1]
    OBVIOUS
  <1>2. \A i \in 1..Len(q) : i = 1 \/ (i - 1 \in 1..(Len(q) - 1) /\ q[i] = Tail(q)[i - 1])
    BY <1>1
  <1>3. \A i \in 1..(Len(q) - 1) : i + 1 \in 1..Len(q)
    BY <1>1
  <1>4. Elements(Tail(q)) \subseteq Elements(q)
    BY <1>1, <1>3 DEF Elements
  <1>5. 1 \in 1..Len(q) /\ q[1] \in S
    BY <1>1
  <1>6. Elements(q) \subseteq Elements(Tail(q)) \cup {Head(q)}
    <2> SUFFICES ASSUME NEW i \in 1..Len(q)
                 PROVE  q[i] \in Elements(Tail(q)) \/ q[i] = Head(q)
      BY <1>1 DEF Elements
    <2>1. CASE i = 1
      BY <1>1, <2>1
    <2>2. CASE i - 1 \in DOMAIN Tail(q) /\ q[i] = Tail(q)[i - 1]
      BY <2>2 DEF Elements
    <2> QED
      BY <1>1, <1>2, <2>1, <2>2
  <1>7. Head(q) \in Elements(q)
    BY <1>1, <1>5 DEF Elements
  <1> QED
    BY <1>1, <1>4, <1>5, <1>6, <1>7

(***************************************************************************)
(* The order of a purge: every service a test declares, and no other.      *)
(***************************************************************************)

\* A non-empty set of positive numbers has a smallest.
LEMMA SmallestExists ==
    ASSUME NEW S, S \subseteq Nat, S # {}
    PROVE  \E m \in S : \A k \in S : m <= k
  <1> DEFINE T == {0..i : i \in S}
  <1>1. T \subseteq FiniteSubsetsOf(Nat) /\ T # {}
    <2>1. \A i \in S : 0..i \in SUBSET Nat /\ IsFiniteSet(0..i)
      <3> TAKE i \in S
      <3>1. 0 \in Int /\ i \in Int
        OBVIOUS
      <3> QED
        BY <3>1, FS_Interval
    <2> QED
      BY <2>1 DEF FiniteSubsetsOf
  <1>2. PICK X \in T : \A Y \in T : <<Y, X>> \notin StrictSubsetOrdering(Nat)
    <2> HIDE DEF T
    <2> QED
      BY <1>1, FS_StrictSubsetOrderingWellFounded, WFMin
  <1>3. PICK m \in S : X = 0..m
    OBVIOUS
  <1>4. ASSUME NEW k \in S, ~(m <= k) PROVE FALSE
    <2>1. m \in Nat /\ k \in Nat /\ k < m
      BY <1>4
    <2>2. 0..k \subseteq 0..m /\ 0..k # 0..m
      BY <2>1
    <2>3. <<0..k, X>> \in StrictSubsetOrdering(Nat)
      BY <1>3, <2>1, <2>2 DEF StrictSubsetOrdering
    <2> QED
      BY <1>2, <2>3
  <1> QED
    BY <1>3, <1>4

Above(F, i) == {j \in F : j > i}

\* Among finitely many numbers fewer are above the larger of two, and never all.
LEMMA AboveFalls ==
    ASSUME NEW F, IsFiniteSet(F), F \subseteq Nat, NEW i \in F
    PROVE  /\ Cardinality(Above(F, i)) \in Nat
           /\ Cardinality(Above(F, i)) < Cardinality(F)
           /\ \A j \in F : i < j => Cardinality(Above(F, j)) < Cardinality(Above(F, i))
  <1>1. \A k \in F : k \in Nat
    OBVIOUS
  <1>2. \A k \in F : Above(F, k) \in SUBSET F /\ Above(F, k) # F
    BY <1>1 DEF Above
  <1>3. \A k \in F : IsFiniteSet(Above(F, k)) /\ Cardinality(Above(F, k)) \in Nat
    BY <1>2, FS_Subset, FS_CardinalityType
  <1>4. Cardinality(Above(F, i)) <= Cardinality(F) /\ Cardinality(Above(F, i)) # Cardinality(F)
    BY <1>2, FS_Subset
  <1>5. Cardinality(F) \in Nat
    BY FS_CardinalityType
  <1>6. ASSUME NEW j \in F, i < j PROVE Cardinality(Above(F, j)) < Cardinality(Above(F, i))
    <2>1. i \in Nat /\ j \in Nat
      BY <1>1
    <2>2. Above(F, j) \in SUBSET Above(F, i)
      <3>1. \A m \in F : m > j => m > i
        BY <1>1, <1>6, <2>1
      <3> QED
        BY <3>1 DEF Above
    <2>3. j \in Above(F, i) /\ j \notin Above(F, j)
      BY <1>6, <2>1 DEF Above
    <2>4. Cardinality(Above(F, j)) <= Cardinality(Above(F, i))
          /\ Cardinality(Above(F, j)) # Cardinality(Above(F, i))
      BY <1>3, <2>2, <2>3, FS_Subset
    <2> QED
      BY <1>3, <2>4
  <1> QED
    BY <1>3, <1>4, <1>5, <1>6

\* For every k there is exactly one of them that k - 1 are above.
LEMMA RankExists ==
    ASSUME NEW F, IsFiniteSet(F), F \subseteq Nat, NEW k \in 1..Cardinality(F)
    PROVE  \E i \in F : Cardinality(Above(F, i)) = k - 1
  <1> DEFINE n == Cardinality(F)
             rank == [i \in F |-> Cardinality(Above(F, i))]
  <1>1. n \in Nat
    BY FS_CardinalityType
  <1>2. rank \in [F -> 0..(n - 1)]
    <2>1. \A i \in F : Cardinality(Above(F, i)) \in Nat /\ Cardinality(Above(F, i)) < n
      BY AboveFalls
    <2> QED
      BY <1>1, <2>1
  <1>3. ASSUME NEW i \in F, NEW j \in F, i # j PROVE rank[i] # rank[j]
    <2>1. i \in Nat /\ j \in Nat
      OBVIOUS
    <2>2. i < j \/ j < i
      BY <1>3, <2>1
    <2>3. Cardinality(Above(F, i)) \in Nat /\ Cardinality(Above(F, j)) \in Nat
      BY AboveFalls
    <2>4. /\ i < j => Cardinality(Above(F, j)) < Cardinality(Above(F, i))
          /\ j < i => Cardinality(Above(F, i)) < Cardinality(Above(F, j))
      BY AboveFalls
    <2>5. Cardinality(Above(F, i)) # Cardinality(Above(F, j))
      BY <2>2, <2>3, <2>4
    <2> QED
      BY <2>5
  <1>4. rank \in Injection(F, 0..(n - 1))
    <2> HIDE DEF rank
    <2> QED
      BY <1>2, <1>3 DEF Injection, IsInjective
  <1>5. IsFiniteSet(0..(n - 1)) /\ Cardinality(0..(n - 1)) = n
    <2> HIDE DEF n
    <2>1. 0 \in Int /\ n - 1 \in Int /\ n >= 0
      BY <1>1
    <2>2. Cardinality(0..(n - 1)) = IF 0 > n - 1 THEN 0 ELSE n - 1 - 0 + 1
      BY <2>1, FS_Interval
    <2> QED
      BY <1>1, <2>1, <2>2, FS_Interval
  <1>6. rank \in Surjection(F, 0..(n - 1))
    <2> HIDE DEF rank, n
    <2> QED
      BY <1>4, <1>5, FS_Injection DEF n
  <1>7. k - 1 \in 0..(n - 1)
    BY <1>1
  <1>8. PICK i \in F : rank[i] = k - 1
    <2> HIDE DEF rank, n
    <2> QED
      BY <1>6, <1>7 DEF Surjection
  <1> QED
    BY <1>8

LEMMA RankUnique ==
    ASSUME NEW F, IsFiniteSet(F), F \subseteq Nat, NEW i \in F, NEW j \in F,
           Cardinality(Above(F, i)) = Cardinality(Above(F, j))
    PROVE  i = j
  <1>1. i \in Nat /\ j \in Nat
    OBVIOUS
  <1>2. Cardinality(Above(F, i)) \in Nat
    BY AboveFalls
  <1>3. /\ i < j => Cardinality(Above(F, j)) < Cardinality(Above(F, i))
        /\ j < i => Cardinality(Above(F, i)) < Cardinality(Above(F, j))
    BY AboveFalls
  <1>4. ~(i < j) /\ ~(j < i)
    BY <1>2, <1>3
  <1> QED
    BY <1>1, <1>4

\* What a script is, step by step.
LEMMA ScriptType ==
    ASSUME HostTestsConstants, NEW t \in Tests
    PROVE  /\ Script[t] \in Seq(Step)
           /\ Declared(t) \subseteq Services /\ Pulled(t) \subseteq Services
           /\ Removed(t) \subseteq Services
  <1>1. Script[t] \in Seq(Step)
    BY DEF HostTestsConstants
  <1>2. \A i \in DOMAIN Script[t] :
            Script[t][i].of \in Services /\ Script[t][i].pulls \subseteq Services
    <2> TAKE i \in DOMAIN Script[t]
    <2>1. Script[t][i] \in Step
      BY <1>1
    <2> QED
      BY <2>1 DEF Step
  <1> QED
    BY <1>1, <1>2 DEF Declared, Pulled, Removed, Steps

\* The queue of a test holds what it declares.
LEMMA LastFirstElements ==
    ASSUME HostTestsConstants, NEW t \in Tests
    PROVE  LastFirst(t) \in Seq(Services) /\ Elements(LastFirst(t)) = Declared(t)
  <1> DEFINE F == FirstAdds(t)
             n == Cardinality(F)
             at(k) == CHOOSE i \in F : Cardinality(AddedAfter(t, i)) = k - 1
  <1>1. Script[t] \in Seq(Step) /\ DOMAIN Script[t] = 1..Len(Script[t]) /\ Len(Script[t]) \in Nat
    BY ScriptType
  <1>2. Steps(t, "add") \subseteq 1..Len(Script[t]) /\ F \subseteq Steps(t, "add")
    BY <1>1 DEF Steps, FirstAdds
  <1>3. IsFiniteSet(F) /\ F \subseteq Nat /\ n \in Nat
    <2>1. IsFiniteSet(1..Len(Script[t])) /\ F \in SUBSET (1..Len(Script[t]))
      <3>1. 1 \in Int /\ Len(Script[t]) \in Int
        BY <1>1
      <3> QED
        BY <1>2, <3>1, FS_Interval
    <2>2. IsFiniteSet(F)
      BY <2>1, FS_Subset
    <2>3. n \in Nat
      BY <2>2, FS_CardinalityType
    <2> QED
      BY <1>1, <2>1, <2>2, <2>3
  <1>4. \A i : AddedAfter(t, i) = Above(F, i)
    BY DEF AddedAfter, Above
  <1>5. \A k \in 1..n : at(k) \in F /\ Cardinality(Above(F, at(k))) = k - 1
    <2> TAKE k \in 1..n
    <2>1. \E i \in F : Cardinality(AddedAfter(t, i)) = k - 1
      BY <1>3, <1>4, RankExists
    <2> QED
      BY <1>4, <2>1
  <1>6. \A i \in F : Script[t][i].of \in Declared(t) /\ Declared(t) \subseteq Services
    BY <1>2, ScriptType DEF Declared
  <1>7. LastFirst(t) = [k \in 1..n |-> Script[t][at(k)].of]
    BY DEF LastFirst
  <1> HIDE DEF F, n, at
  <1>8. LastFirst(t) \in [1..n -> Services]
    BY <1>5, <1>6, <1>7
  <1>9. LastFirst(t) \in Seq(Services)
    BY <1>3, <1>8
  <1>10. Elements(LastFirst(t)) \subseteq Declared(t)
    BY <1>5, <1>6, <1>7 DEF Elements
  <1>11. ASSUME NEW s \in Declared(t) PROVE s \in Elements(LastFirst(t))
    <2> DEFINE B == {i \in Steps(t, "add") : Script[t][i].of = s}
    <2>1. B \subseteq Nat /\ B # {}
      BY <1>1, <1>2, <1>11 DEF Declared
    <2>2. PICK i \in B : \A j \in B : i <= j
      <3> HIDE DEF B
      <3> QED
        BY <2>1, SmallestExists
    <2>3. i \in F /\ Script[t][i].of = s
      BY <2>2 DEF FirstAdds, F
    <2> DEFINE k == Cardinality(Above(F, i)) + 1
    <2>4. k \in 1..n /\ Cardinality(Above(F, i)) = k - 1
      <3>1. Cardinality(Above(F, i)) \in Nat /\ Cardinality(Above(F, i)) < n
        BY <1>3, <2>3, AboveFalls DEF n
      <3> QED
        BY <1>3, <3>1
    <2> HIDE DEF k
    <2>5. at(k) = i
      BY <1>3, <1>5, <2>3, <2>4, RankUnique
    <2>6. LastFirst(t)[k] = s /\ k \in DOMAIN LastFirst(t)
      BY <1>7, <2>3, <2>4, <2>5
    <2> QED
      BY <2>6 DEF Elements
  <1> QED
    BY <1>9, <1>10, <1>11
-----------------------------------------------------------------------------
(***************************************************************************)
(* What the commands do to what is on the host of one service.             *)
(***************************************************************************)
LEMMA HostOps ==
    ASSUME HostTestsConstants, TypeOK, NEW s \in Services, NEW r \in Roots
    PROVE  /\ Purged(s, r) \in Host /\ Added(s, r) \in Host /\ AfterPurge(s, r) \in Host
           /\ Partial(s, r) \subseteq Host
           /\ s \notin Native => ~Present(Purged(s, r))
  <1>1. host[s] \in Host
    BY DEF TypeOK
  <1>2. Purged(s, r) \in Host /\ Added(s, r) \in Host
    BY <1>1 DEF Host, Purged, Added
  <1>3. AfterPurge(s, r) \in Host
    BY <1>1, <1>2 DEF AfterPurge
  <1>4. "none" \notin Roots
    BY DEF Roots, HostTestsConstants
  <1>5. Purged(s, r).homes \subseteq Roots
    BY <1>1 DEF Purged, Host
  <1>6. s \notin Native => Purged(s, r).unit = "none"
    BY DEF Purged
  <1>7. [AfterPurge(s, r) EXCEPT !.homes = @ \cup {r}] \in Host
    BY <1>3 DEF Host
  <1>8. [unit |-> "none", homes |-> host[s].homes \ {r}, volume |-> "none"] \in Host
    BY <1>1 DEF Host
  <1>9. Partial(s, r) \subseteq Host
    BY <1>1, <1>2, <1>3, <1>7, <1>8 DEF Partial
  <1> QED
    BY <1>2, <1>3, <1>4, <1>5, <1>6, <1>9 DEF Present

\* What holds a lock no more is otherwise as it was.
LEMMA UnlockedType ==
    ASSUME TypeOK, NEW r
    PROVE  /\ WithoutLock(r) \subseteq Straggler
           /\ {Unlocked(a) : a \in stragglers} \subseteq Straggler
           /\ \A a \in WithoutLock(r) \cup {Unlocked(b) : b \in stragglers} :
                 \E b \in stragglers : Adding(a) = Adding(b)
  <1>1. stragglers \subseteq Straggler
    BY DEF TypeOK
  <1>2. \A a \in Straggler : Unlocked(a) \in Straggler /\ Adding(Unlocked(a)) = Adding(a)
    BY DEF Straggler, Unlocked, Adding
  <1> QED
    BY <1>1, <1>2 DEF WithoutLock

LEMMA RootType ==
    ASSUME TypeOK
    PROVE  /\ Root \in Roots
           /\ todo # << >> => Root \in Tests /\ Root = Head(todo) /\ Tail(todo) \in Seq(Tests)
           /\ Testing => todo # << >>
  <1>1. todo \in Seq(Tests)
    BY DEF TypeOK
  <1>2. todo # << >> => Head(todo) \in Tests /\ Tail(todo) \in Seq(Tests)
    BY <1>1
  <1> QED
    BY <1>2 DEF Root, Roots, TypeOK, Testing

LEMMA ScanType ==
    ASSUME HostTestsConstants
    PROVE  Scan \subseteq Services \ Native /\ IsFiniteSet(Scan)
  <1>1. Scan \in SUBSET Services
    BY DEF Scan
  <1> QED
    BY <1>1, FS_Subset DEF Scan, HostTestsConstants

\* The next service of a straggler is one it is to add.
LEMMA NextType ==
    ASSUME TypeOK, NEW a \in stragglers, NEW s \in NextOf(a)
    PROVE  s \in Services /\ s \in Adding(a) /\ a.root \in Roots /\ a \in Straggler
  <1>1. a \in Straggler
    BY DEF TypeOK
  <1> QED
    BY <1>1 DEF Straggler, NextOf, Adding, Roots

\* What a straggler does next, and to which service.
LEMMA StragglerEffect ==
    ASSUME TypeOK, StragglerAdds \/ StragglerFails
    PROVE  \E a \in stragglers, s \in Services :
             /\ s \in Adding(a) /\ a.root \in Roots
             /\ \E h \in {Added(s, a.root)} \cup Partial(s, a.root) :
                   host' = [host EXCEPT ![s] = h]
             /\ stuck' = stuck \cup {s}
             /\ stragglers' \subseteq Straggler
             /\ \A b \in stragglers' : \E c \in stragglers : Adding(b) \subseteq Adding(c)
  <1>1. CASE StragglerAdds
    <2>1. PICK a \in stragglers : \E s \in NextOf(a) :
             /\ host' = [host EXCEPT ![s] = Added(s, a.root)]
             /\ stragglers' \subseteq stragglers \cup {[a EXCEPT !.pulls = @ \ {s}]}
             /\ stuck' = stuck \cup {s}
      BY <1>1 DEF StragglerAdds
    <2>2. PICK s \in NextOf(a) :
             /\ host' = [host EXCEPT ![s] = Added(s, a.root)]
             /\ stragglers' \subseteq stragglers \cup {[a EXCEPT !.pulls = @ \ {s}]}
             /\ stuck' = stuck \cup {s}
      BY <2>1
    <2>3. s \in Services /\ s \in Adding(a) /\ a.root \in Roots /\ a \in Straggler
      BY NextType
    <2>4. /\ [a EXCEPT !.pulls = @ \ {s}] \in Straggler
          /\ Adding([a EXCEPT !.pulls = @ \ {s}]) \subseteq Adding(a)
      BY <2>3 DEF Straggler, Adding
    <2>5. /\ stragglers' \subseteq Straggler
          /\ \A b \in stragglers' : \E c \in stragglers : Adding(b) \subseteq Adding(c)
      BY <2>2, <2>4 DEF TypeOK
    <2> QED
      BY <2>2, <2>3, <2>5
  <1>2. CASE StragglerFails
    <2>1. PICK a \in stragglers : \E s \in NextOf(a) : \E h \in Partial(s, a.root) :
             /\ host' = [host EXCEPT ![s] = h]
             /\ stragglers' \subseteq stragglers
             /\ stuck' = stuck \cup {s}
      BY <1>2 DEF StragglerFails
    <2>2. PICK s \in NextOf(a) : \E h \in Partial(s, a.root) :
             /\ host' = [host EXCEPT ![s] = h]
             /\ stragglers' \subseteq stragglers
             /\ stuck' = stuck \cup {s}
      BY <2>1
    <2>3. s \in Services /\ s \in Adding(a) /\ a.root \in Roots
      BY NextType
    <2>4. /\ stragglers' \subseteq Straggler
          /\ \A b \in stragglers' : \E c \in stragglers : Adding(b) \subseteq Adding(c)
      BY <2>2 DEF TypeOK
    <2> QED
      BY <2>2, <2>3, <2>4
  <1> QED
    BY <1>1, <1>2

\* A purge of the head of the queue touches nothing else, and what is installed
\* after it is recorded as refused.
LEMMA PurgeHeadEffect ==
    ASSUME HostTestsConstants, TypeOK, queue # << >>, NEW r \in Roots, PurgeHead(r)
    PROVE  /\ host' \in [Services -> Host] /\ unseen' \subseteq Services
           /\ queue' \in Seq(Services) /\ Head(queue) \in Services
           /\ Queued = Queued' \cup {Head(queue)}
           /\ \A s \in Services \ {Head(queue)} :
                 host'[s] = host[s] /\ (s \in unseen' <=> s \in unseen)
           /\ \A s \in Services : s \in Scan' => s \in Scan /\ (s \in unseen => s \in unseen')
  <1> PICK q : q = Head(queue)
    OBVIOUS
  <1> DEFINE works == PurgeWorks(r)
  <1>1. queue \in Seq(Services) /\ host \in [Services -> Host] /\ unseen \subseteq Services
    BY DEF TypeOK
  <1>2. /\ q \in Services /\ Tail(queue) \in Seq(Services)
        /\ Elements(queue) = Elements(Tail(queue)) \cup {q}
    BY <1>1, TailElements
  <1>3. /\ host' = [host EXCEPT ![q] = IF works THEN Purged(q, r) ELSE host[q]]
        /\ unseen' = IF works THEN unseen \ {q} ELSE unseen
        /\ queue' = Tail(queue)
    BY DEF PurgeHead
  <1>4. Purged(q, r) \in Host /\ (q \notin Native => ~Present(Purged(q, r)))
    BY <1>2, HostOps
  <1> HIDE DEF works
  <1>5. host' \in [Services -> Host] /\ unseen' \subseteq Services
    BY <1>1, <1>2, <1>3, <1>4
  <1>6. Queued = Queued' \cup {q}
    BY <1>2, <1>3 DEF Queued
  <1>7. \A s \in Services \ {q} : host'[s] = host[s] /\ (s \in unseen' <=> s \in unseen)
    BY <1>1, <1>3
  <1>8. host'[q] = IF works THEN Purged(q, r) ELSE host[q]
    BY <1>1, <1>2, <1>3
  <1>9. q \in Scan' => q \in Scan /\ ~works
    <2>1. CASE works
      BY <1>4, <1>8, <2>1 DEF Scan, Present
    <2>2. CASE ~works
      BY <1>8, <2>2 DEF Scan, Present
    <2> QED
      BY <2>1, <2>2
  <1>10. \A s \in Services \ {q} : s \in Scan' => s \in Scan
    BY <1>7 DEF Scan, Present
  <1>11. \A s \in Services : s \in Scan' => s \in Scan /\ (s \in unseen => s \in unseen')
    BY <1>3, <1>7, <1>9, <1>10
  <1>12. queue' \in Seq(Services)
    BY <1>2, <1>3
  <1> QED
    BY <1>2, <1>5, <1>6, <1>7, <1>11, <1>12

\* After a purge of the head, the unit of what is still installed is as it was.
LEMMA HeadEffect ==
    ASSUME HostTestsConstants, TypeOK, queue # << >>, NEW r \in Roots, PurgeHead(r),
           NEW s \in Scan'
    PROVE  host'[s].unit = host[s].unit
  <1>1. s \in Services \ Native /\ host \in [Services -> Host] /\ Present(host'[s])
    BY DEF Scan, TypeOK
  <1>2. CASE s # Head(queue)
    BY <1>1, <1>2, PurgeHeadEffect
  <1>3. CASE s = Head(queue)
    <2>1. host'[s] = IF PurgeWorks(r) THEN Purged(s, r) ELSE host[s]
      BY <1>1, <1>3 DEF PurgeHead
    <2>2. ~Present(Purged(s, r))
      BY <1>1, HostOps
    <2> QED
      BY <1>1, <2>1, <2>2
  <1> QED
    BY <1>2, <1>3

LEMMA MissedEffect ==
    ASSUME HostTestsConstants, TypeOK, queue # << >>, NEW r \in Roots, PurgeHead(r),
           NEW refused, refused \subseteq Services
    PROVE  /\ Missed(r, refused) \subseteq Services
           /\ \A s \in Services \ {Head(queue)} : s \in Missed(r, refused) <=> s \in refused
           /\ Head(queue) \in Scan' => Head(queue) \in Missed(r, refused)
  <1> PICK q : q = Head(queue)
    OBVIOUS
  <1>1. host \in [Services -> Host] /\ q \in Services
    BY PurgeHeadEffect DEF TypeOK
  <1>2. Missed(r, refused) = IF PurgeWorks(r) THEN refused \ {q}
                             ELSE IF Present(host[q]) THEN refused \cup {q} ELSE refused
    BY DEF Missed
  <1>3. host'[q] = IF PurgeWorks(r) THEN Purged(q, r) ELSE host[q]
    BY <1>1 DEF PurgeHead
  <1>4. q \notin Native => ~Present(Purged(q, r))
    BY <1>1, HostOps
  <1>5. q \in Scan' => ~PurgeWorks(r) /\ Present(host[q])
    BY <1>3, <1>4 DEF Scan, Present
  <1> QED
    BY <1>1, <1>2, <1>5
-----------------------------------------------------------------------------
(***************************************************************************)
(* The invariant is inductive, part by part.                               *)
(***************************************************************************)
\* An add that fails has added some of its services, and part of another.
LEMMA AddFailsEffect ==
    ASSUME AddFails
    PROVE  \E s \in ToAdd(Head(script)), done \in SUBSET ToAdd(Head(script)) :
              \E left \in Partial(s, Root) :
                 host' = [x \in Services |-> IF x = s THEN left
                                             ELSE IF x \in done THEN Added(x, Root) ELSE host[x]]
  <1> DEFINE of == Head(script).of
             first == PulledIn(Head(script))
             next(done) == IF done = first THEN {of} ELSE first \ done
  <1>1. PICK done \in SUBSET first :
           \E s \in next(done) : \E left \in Partial(s, Root) :
              host' = [x \in Services |-> IF x = s THEN left
                                          ELSE IF x \in done THEN Added(x, Root) ELSE host[x]]
    BY DEF AddFails
  <1>2. next(done) \subseteq ToAdd(Head(script)) /\ done \subseteq ToAdd(Head(script))
    BY DEF ToAdd
  <1> HIDE DEF next, first, of
  <1> QED
    BY <1>1, <1>2

LEMMA TypeStep ==
    ASSUME HostTestsConstants, TypeOK, RunOK, [Next]_vars
    PROVE  TypeOK'
  <1> USE DEF Fault, Save, LoseSave, run, history, counters
  <1>1. ASSUME NEW s \in Services, UserAdds(s) PROVE TypeOK'
    <2>1. Added(s, "real") \in Host
      BY HostOps DEF Roots
    <2>2. exposed' \subseteq Services
      BY <1>1 DEF UserAdds, TypeOK
    <2> QED
      BY <1>1, <2>1, <2>2 DEF UserAdds, TypeOK
  <1>2. ASSUME NEW s \in Services, UserRemoves(s) PROVE TypeOK'
    <2>1. Purged(s, "real") \in Host
      BY HostOps DEF Roots
    <2> QED
      BY <1>2, <2>1 DEF UserRemoves, TypeOK
  <1>3. ASSUME NEW tests \in Selections, NEW seen \in SUBSET Scan, Begin(tests, seen),
               overlooked' \subseteq Services, faults' \in Nat
        PROVE  TypeOK'
    <2>5. runs' \in Nat /\ actions' \in Nat
      BY <1>3 DEF Begin, TypeOK
    <2>1. seen \subseteq Services /\ seen \cap ledger \in SUBSET Services
      BY ScanType
    <2>2. SetToSeq(seen \cap ledger) \in Seq(seen \cap ledger)
      BY <2>1, FS_Subset, SetToSeqElements DEF HostTestsConstants
    <2>3. SetToSeq(seen \cap ledger) \in Seq(Services)
      BY <2>1, <2>2
    <2>4. tests \in Seq(Tests)
      BY DEF HostTestsConstants
    <2> QED
      BY <1>3, <2>1, <2>3, <2>4, <2>5 DEF Begin, TypeOK
  <1>4. ASSUME NEW t \in Tests, NEW seen \in SUBSET Scan, BeginRpc(t, seen),
               exposed' \subseteq Services, overlooked' \subseteq Services, faults' \in Nat
        PROVE  TypeOK'
    <2>5. runs' \in Nat /\ actions' \in Nat
      BY <1>4 DEF BeginRpc, TypeOK
    <2>1. LastFirst(t) \in Seq(Services) /\ seen \subseteq Services
      BY LastFirstElements, ScanType
    <2>2. Declared(t) \subseteq Services /\ Pulled(t) \subseteq Services
      BY ScriptType
    <2>3. <<t>> \in Seq(Tests) /\ <<t>> # << >>
      OBVIOUS
    <2>4. stragglers' \subseteq Straggler
      BY <1>4, UnlockedType DEF BeginRpc
    <2> QED
      BY <1>4, <2>1, <2>2, <2>3, <2>4, <2>5 DEF BeginRpc, TypeOK
  <1>5. CASE Reclaim
    <2>1. /\ host' \in [Services -> Host] /\ unseen' \subseteq Services
          /\ queue' \in Seq(Services)
      BY <1>5, PurgeHeadEffect DEF Reclaim, Roots
    <2>2. forgotten' \subseteq Services
      BY <1>5, MissedEffect DEF Reclaim, Roots, TypeOK
    <2> QED
      BY <1>5, <2>1, <2>2 DEF Reclaim, TypeOK
  <1>6. CASE EndReclaim
    BY <1>6 DEF EndReclaim, TypeOK
  <1>7. CASE SkipTest
    <2>1. Tail(todo) \in Seq(Tests)
      BY <1>7, RootType DEF SkipTest
    <2> QED
      BY <1>7, <2>1 DEF SkipTest, TypeOK
  <1>8. CASE BeginTest
    <2>1. PICK t \in Tests : t = Head(todo)
      BY <1>8, RootType DEF BeginTest
    <2>2. /\ LastFirst(t) \in Seq(Services)
          /\ Declared(t) \subseteq Services /\ Pulled(t) \subseteq Services
      BY LastFirstElements, ScriptType
    <2>3. who = "cli" /\ led \cap owned = {}
      BY <1>8 DEF BeginTest, TypeOK, RunOK
    <2>4. /\ led' = led \cup Declared(t) /\ Declared(t) \cap owned = {}
          /\ ledger' \in {led', ledger}
          /\ unwritten' \subseteq unwritten \cup Declared(t) \cup Pulled(t)
      BY <1>8, <2>1 DEF BeginTest, RecordIntent, Skips
    <2>5. led' \cap owned' = {} /\ led' \subseteq Services /\ ledger' \subseteq Services
          /\ unwritten' \subseteq Services /\ who' = who /\ owned' = owned
      BY <1>8, <2>2, <2>3, <2>4 DEF BeginTest, TypeOK
    <2>6. queue' = LastFirst(t) /\ exposed' = exposed \cup (mine \cap Unguarded(t))
          /\ stragglers' = WithoutLock(t)
      BY <1>8, <2>1 DEF BeginTest
    <2>7. stragglers' \subseteq Straggler
      BY <2>6, UnlockedType
    <2>8. faults' \in Nat /\ runs' \in Nat /\ actions' \in Nat
      BY <1>8 DEF BeginTest, RecordIntent, TypeOK
    <2> QED
      BY <1>8, <2>2, <2>5, <2>6, <2>7, <2>8 DEF BeginTest, TypeOK
  <1>9. CASE PurgeBefore
    <2>1. /\ host' \in [Services -> Host] /\ unseen' \subseteq Services
          /\ queue' \in Seq(Services)
      BY <1>9, PurgeHeadEffect, RootType DEF PurgeBefore
    <2>2. stuck' \subseteq Services
      BY <1>9, MissedEffect, RootType DEF PurgeBefore, TypeOK
    <2> QED
      BY <1>9, <2>1, <2>2 DEF PurgeBefore, TypeOK
  <1>10. CASE BeginSteps
    <2>1. Script[Root] \in Seq(Step)
      BY <1>10, RootType, ScriptType DEF BeginSteps, Testing
    <2> QED
      BY <1>10, <2>1 DEF BeginSteps, TypeOK
  <1> DEFINE step == Head(script)
  <1>11. pc = "steps" /\ script # << >> => step \in Step /\ Tail(script) \in Seq(Step)
                                           /\ Root \in Tests
    BY RootType, TailElements DEF TypeOK, Testing
  <1>12. CASE SkipStep
    BY <1>11, <1>12 DEF SkipStep, TypeOK
  <1>13. CASE AddStep
    <2>1. host' \in [Services -> Host]
      <3>1. \A s \in Services : Added(s, Root) \in Host
        BY HostOps, RootType
      <3> QED
        BY <1>13, <3>1 DEF AddStep, TypeOK
    <2> QED
      BY <1>11, <1>13, <2>1 DEF AddStep, Stepping, TypeOK
  <1>14. CASE AddRefused
    <2>1. host' \in [Services -> Host]
      <3>1. \A s \in Services : Added(s, Root) \in Host
        BY HostOps, RootType
      <3> QED
        BY <1>14, <3>1 DEF AddRefused, TypeOK
    <2> QED
      BY <1>11, <1>14, <2>1 DEF AddRefused, Stepping, TypeOK
  <1>15. CASE AddFails
    <2>4. step \in Step
      BY <1>11, <1>15 DEF AddFails, Stepping
    <2>5. ToAdd(step) \subseteq Services
      BY <2>4 DEF ToAdd, PulledIn, Step
    <2>6. PICK s \in ToAdd(step), done \in SUBSET ToAdd(step) :
             \E left \in Partial(s, Root) :
                host' = [x \in Services |-> IF x = s THEN left
                                            ELSE IF x \in done THEN Added(x, Root) ELSE host[x]]
      BY <1>15, AddFailsEffect
    <2>1. PICK left \in Partial(s, Root) :
             host' = [x \in Services |-> IF x = s THEN left
                                         ELSE IF x \in done THEN Added(x, Root) ELSE host[x]]
      BY <2>6
    <2>2. left \in Host /\ \A x \in Services : Added(x, Root) \in Host /\ host[x] \in Host
      BY <2>5, HostOps, RootType DEF TypeOK
    <2>3. host' \in [Services -> Host]
      BY <2>1, <2>2
    <2> QED
      BY <1>11, <1>15, <2>3 DEF AddFails, Stepping, TypeOK
  <1>16. CASE AddTimesOut
    <2>1. step.of \in Services /\ PulledIn(step) \subseteq Services /\ Root \in Tests
      BY <1>11, <1>16 DEF AddTimesOut, Stepping, Step, PulledIn
    <2>2. faults \in Nat /\ faults' \in Nat
      BY <1>16 DEF AddTimesOut, TypeOK
    <2>3. [of |-> step.of, pulls |-> PulledIn(step), root |-> Root,
           locked |-> TRUE, no |-> faults] \in Straggler
      BY <2>1, <2>2 DEF Straggler
    <2>4. stragglers' \subseteq Straggler
      BY <1>16, <2>3 DEF AddTimesOut, TypeOK
    <2> QED
      BY <1>11, <1>16, <2>4 DEF AddTimesOut, Stepping, TypeOK
  <1>17. CASE RemoveStep
    <2>1. PICK s \in Services : s = step.of
      BY <1>11, <1>17 DEF RemoveStep, Stepping, Step
    <2>2. Purged(s, Root) \in Host
      BY HostOps, RootType
    <2>3. host' \in [Services -> Host]
      BY <1>17, <2>1, <2>2 DEF RemoveStep, TypeOK
    <2>4. failed' \in BOOLEAN
      BY <1>17 DEF RemoveStep
    <2> QED
      BY <1>11, <1>17, <2>3, <2>4 DEF RemoveStep, Stepping, TypeOK
  <1>18. CASE WaitStep
    <2>1. failed' \in BOOLEAN
      BY <1>18 DEF WaitStep, Present
    <2> QED
      BY <1>11, <1>18, <2>1 DEF WaitStep, Stepping, TypeOK
  <1>19. CASE CheckStep
    <2>1. failed' \in BOOLEAN
      BY <1>19 DEF CheckStep, Present
    <2> QED
      BY <1>11, <1>19, <2>1 DEF CheckStep, Stepping, TypeOK
  <1>20. CASE StragglerAdds \/ StragglerFails
    <2>1. PICK a \in stragglers, s \in Services :
             /\ \E h \in {Added(s, a.root)} \cup Partial(s, a.root) :
                   host' = [host EXCEPT ![s] = h]
             /\ a.root \in Roots /\ stuck' = stuck \cup {s} /\ stragglers' \subseteq Straggler
      BY <1>20, StragglerEffect
    <2>2. {Added(s, a.root)} \cup Partial(s, a.root) \subseteq Host
      BY <2>1, HostOps
    <2>3. host' \in [Services -> Host]
      BY <2>1, <2>2 DEF TypeOK
    <2>4. faults' \in Nat /\ runs' \in Nat /\ actions' \in Nat
      BY <1>20 DEF StragglerAdds, StragglerFails, TypeOK
    <2>5. stuck' \subseteq Services
      BY <2>1 DEF TypeOK
    <2> QED
      BY <1>20, <2>1, <2>3, <2>4, <2>5 DEF StragglerAdds, StragglerFails, TypeOK
  <1>21. CASE EndSteps
    <2>1. LastFirst(Root) \in Seq(Services)
      BY <1>21, RootType, LastFirstElements DEF EndSteps, Testing
    <2> QED
      BY <1>21, <2>1 DEF EndSteps, TypeOK
  <1>22. CASE PurgeAfter
    <2>1. /\ host' \in [Services -> Host] /\ unseen' \subseteq Services
          /\ queue' \in Seq(Services)
      BY <1>22, PurgeHeadEffect, RootType DEF PurgeAfter
    <2>2. stuck' \subseteq Services
      BY <1>22, MissedEffect, RootType DEF PurgeAfter, TypeOK
    <2> QED
      BY <1>22, <2>1, <2>2 DEF PurgeAfter, TypeOK
  <1>23. CASE FindSideEffects
    <2>1. SideEffects \in SUBSET Scan /\ SideEffects \subseteq Services
      BY ScanType DEF SideEffects
    <2>2. SetToSeq(SideEffects) \in Seq(SideEffects)
      BY <2>1, ScanType, FS_Subset, SetToSeqElements
    <2>3. SetToSeq(SideEffects) \in Seq(Services)
      BY <2>1, <2>2
    <2>4. Reverse(SetToSeq(SideEffects)) \in Seq(Services)
      BY <2>3, ReverseElements
    <2> QED
      BY <1>23, <2>1, <2>4 DEF FindSideEffects, TypeOK
  <1>24. CASE EndTest
    <2>1. Tail(todo) \in Seq(Tests)
      BY <1>24, RootType DEF EndTest, Testing
    <2> QED
      BY <1>24, <2>1 DEF EndTest, TypeOK
  <1>25. ASSUME Quit, faults' \in Nat PROVE TypeOK'
    <2>1. << >> \in Seq(Tests) /\ << >> \in Seq(Services) /\ << >> \in Seq(Step)
      OBVIOUS
    <2>2. /\ who' = "none" /\ pc' = "idle" /\ retest' = FALSE /\ failed' = FALSE
          /\ owned' = {} /\ led' = {} /\ leaked' = {}
          /\ todo' = << >> /\ queue' = << >> /\ script' = << >>
          /\ UNCHANGED <<host, mine, ledger, stragglers, exposed, overlooked, stuck, forgotten,
                         unseen, unwritten, actions, runs>>
      BY <1>25 DEF Quit
    <2> QED
      BY <1>25, <2>1, <2>2 DEF TypeOK
  <1>26. ASSUME NEW blind \in BOOLEAN, NEW unchecked \in BOOLEAN, Reset(blind, unchecked)
         PROVE  TypeOK'
    <2> DEFINE left == IF blind THEN {} ELSE ledger \cap Scan
               purged == [s \in Services |-> IF s \in left THEN AfterPurge(s, "top") ELSE host[s]]
    <2>1. purged \in [Services -> Host]
      <3>1. \A s \in Services : AfterPurge(s, "top") \in Host
        BY HostOps DEF Roots
      <3> QED
        BY <3>1 DEF TypeOK
    <2>2. [s \in Services |-> [purged[s] EXCEPT !.homes = @ \cap {"real"}]] \in [Services -> Host]
      <3> HIDE DEF purged
      <3> QED
        BY <2>1 DEF Host
    <2>3. /\ host' \in {purged, [s \in Services |-> [purged[s] EXCEPT !.homes = @ \cap {"real"}]]}
          /\ ledger' \in {{}, ledger}
          /\ stragglers' \in {stragglers, {Unlocked(a) : a \in stragglers}}
      BY <1>26 DEF Reset
    <2>5. stragglers' \subseteq Straggler
      BY <2>3, UnlockedType DEF TypeOK
    <2>4. host' \in [Services -> Host] /\ ledger' \subseteq Services
      <3> HIDE DEF purged
      <3> QED
        BY <2>1, <2>2, <2>3 DEF TypeOK
    <2> QED
      BY <1>26, <2>4, <2>5 DEF Reset, TypeOK
  <1>27. CASE UNCHANGED vars
    BY <1>27 DEF vars, TypeOK
  <1>28. ASSUME NEW tests \in Selections, StartRun(tests) \/ StartBlind(tests) PROVE TypeOK'
    <2>1. overlooked \subseteq Services /\ mine \subseteq Services /\ faults' \in Nat
      BY <1>28 DEF StartRun, StartBlind, TypeOK
    <2> QED
      BY <1>3, <1>28, <2>1 DEF StartRun, StartBlind
  <1>31. ASSUME NEW t \in Tests, StartRpc(t) \/ StartRpcBlind(t) PROVE TypeOK'
    <2>1. /\ overlooked \subseteq Services /\ mine \subseteq Services
          /\ exposed \subseteq Services /\ faults' \in Nat
      BY <1>31 DEF StartRpc, StartRpcBlind, TypeOK
    <2> QED
      BY <1>4, <1>31, <2>1 DEF StartRpc, StartRpcBlind
  <1>32. CASE FindNothing
    BY <1>32, ScanType DEF FindNothing, SideEffects, TypeOK
  <1>29. CASE EndRun \/ Aborted
    BY <1>25, <1>29 DEF EndRun, Aborted, TypeOK
  <1> QED
    BY <1>1, <1>2, <1>5, <1>6, <1>7, <1>8, <1>9, <1>10, <1>12, <1>13, <1>14, <1>15,
       <1>16, <1>17, <1>18, <1>19, <1>20, <1>21, <1>22, <1>23, <1>24, <1>26, <1>27, <1>28,
       <1>29, <1>31, <1>32 DEF Next

\* The root is the one of the test at the head of the list.
LEMMA RootStays == todo' = todo => Root' = Root
  BY DEF Root

\* A script of which a step is done is still the test's.
LEMMA ScriptAdvances ==
    ASSUME TypeOK, ScriptOK, pc = "steps", script # << >>, script' = Tail(script),
           UNCHANGED <<pc, todo>>
    PROVE  ScriptOK'
  <1>1. script \in Seq(Step) /\ Root' = Root
    BY RootStays DEF TypeOK
  <1>2. \A i \in DOMAIN script' : i + 1 \in DOMAIN script /\ script'[i] = script[i + 1]
    BY <1>1
  <1> QED
    BY <1>1, <1>2 DEF ScriptOK

LEMMA RunStep ==
    ASSUME HostTestsConstants, TypeOK, RunOK, [Next]_vars
    PROVE  RunOK'
  <1> USE DEF RunOK, Testing, run
  <1>1. ASSUME NEW t \in Tests, StartRpc(t) \/ StartRpcBlind(t) PROVE RunOK'
    <2>1. Tail(<<t>>) = << >>
      OBVIOUS
    <2> QED
      BY <1>1, <2>1 DEF StartRpc, StartRpcBlind, BeginRpc
  <1>2. ASSUME UNCHANGED <<who, pc, todo>> PROVE RunOK'
    BY <1>2
  <1>3. CASE \/ \E s \in Services : UserAdds(s) \/ UserRemoves(s)
             \/ Reclaim \/ PurgeBefore \/ SkipStep \/ AddStep \/ AddRefused \/ AddFails
             \/ AddTimesOut \/ RemoveStep \/ WaitStep \/ CheckStep \/ StragglerAdds
             \/ StragglerFails \/ PurgeAfter \/ UNCHANGED vars
             \/ \E blind, unchecked \in BOOLEAN : Reset(blind, unchecked)
    BY <1>2, <1>3
       DEF UserAdds, UserRemoves, Reclaim, PurgeBefore, SkipStep, AddStep, AddRefused,
           AddFails, AddTimesOut, RemoveStep, WaitStep, CheckStep, Stepping, StragglerAdds,
           StragglerFails, PurgeAfter, Reset, vars
  <1>4. CASE \/ \E tests \in Selections : StartRun(tests) \/ StartBlind(tests)
             \/ EndReclaim \/ SkipTest \/ BeginTest
    BY <1>4 DEF StartRun, StartBlind, Begin, EndReclaim, SkipTest, BeginTest
  <1>5. CASE BeginSteps \/ EndSteps \/ FindSideEffects \/ FindNothing
    BY <1>5 DEF BeginSteps, EndSteps, FindSideEffects, FindNothing
  <1>6. CASE EndTest
    BY <1>6 DEF EndTest
  <1>7. CASE EndRun \/ Aborted
    BY <1>7 DEF EndRun, Aborted, Quit
  <1> QED
    BY <1>1, <1>3, <1>4, <1>5, <1>6, <1>7 DEF Next

LEMMA ScriptStep ==
    ASSUME HostTestsConstants, TypeOK, ScriptOK, [Next]_vars
    PROVE  ScriptOK'
  <1> USE DEF run
  <1>1. ASSUME pc' # "steps" PROVE ScriptOK'
    BY <1>1 DEF ScriptOK
  <1>2. ASSUME UNCHANGED <<pc, script, todo>> PROVE ScriptOK'
    <2>1. Root' = Root
      BY <1>2, RootStays
    <2> QED
      BY <1>2, <2>1 DEF ScriptOK
  <1>3. CASE \/ \E s \in Services : UserAdds(s) \/ UserRemoves(s)
             \/ Reclaim \/ SkipTest \/ PurgeBefore \/ StragglerAdds \/ StragglerFails
             \/ PurgeAfter \/ UNCHANGED vars
             \/ \E blind, unchecked \in BOOLEAN : Reset(blind, unchecked)
    <2>1. UNCHANGED <<pc, script>> /\ (UNCHANGED todo \/ pc' # "steps")
      BY <1>3
         DEF UserAdds, UserRemoves, Reclaim, SkipTest, PurgeBefore, StragglerAdds,
             StragglerFails, PurgeAfter, Reset, vars
    <2> QED
      BY <1>1, <1>2, <2>1
  <1>4. CASE \/ \E tests \in Selections : StartRun(tests) \/ StartBlind(tests)
             \/ \E t \in Tests : StartRpc(t) \/ StartRpcBlind(t)
             \/ EndReclaim \/ BeginTest \/ EndSteps \/ FindSideEffects \/ FindNothing \/ EndTest
             \/ EndRun \/ Aborted
    <2>1. pc' # "steps"
      BY <1>4
         DEF StartRun, StartBlind, Begin, StartRpc, StartRpcBlind, BeginRpc, EndReclaim,
             BeginTest, EndSteps, FindSideEffects, FindNothing, EndTest, EndRun, Aborted, Quit
    <2> QED
      BY <1>1, <2>1
  <1>5. CASE BeginSteps
    <2>1. Root' = Root /\ script' = Script[Root]
      BY <1>5, RootStays DEF BeginSteps
    <2> QED
      BY <2>1 DEF ScriptOK, Declared, Pulled, Removed, Steps
  <1>6. CASE \/ SkipStep \/ AddStep \/ AddRefused \/ AddFails \/ AddTimesOut
             \/ RemoveStep \/ WaitStep \/ CheckStep
    <2>1. pc = "steps" /\ script # << >> /\ script' = Tail(script) /\ UNCHANGED <<pc, todo>>
      BY <1>6 DEF SkipStep, AddStep, AddRefused, AddFails, AddTimesOut, RemoveStep,
                  WaitStep, CheckStep, Stepping
    <2> QED
      BY <2>1, ScriptAdvances
  <1> QED
    BY <1>3, <1>4, <1>5, <1>6 DEF Next

LEMMA QueueStep ==
    ASSUME HostTestsConstants, TypeOK, RunOK, QueueOK, [Next]_vars
    PROVE  QueueOK'
  <1> USE DEF run
  <1>1. ASSUME UNCHANGED <<who, pc, todo, queue, owned, leaked>>, ledger' = ledger \/ pc # "reclaim"
        PROVE  QueueOK'
    <2>1. Root' = Root /\ Queued' = Queued
      BY <1>1, RootStays DEF Queued
    <2> QED
      BY <1>1, <2>1 DEF QueueOK, Testing
  <1>2. ASSUME queue # << >>, NEW r \in Roots, PurgeHead(r),
               UNCHANGED <<who, pc, todo, owned, leaked, ledger>>
        PROVE  QueueOK'
    <2>1. Root' = Root /\ Queued' \subseteq Queued
      BY <1>2, RootStays, PurgeHeadEffect
    <2> QED
      BY <1>2, <2>1 DEF QueueOK, Testing
  <1>3. CASE \/ \E s \in Services : UserAdds(s) \/ UserRemoves(s)
             \/ SkipStep \/ AddStep \/ AddRefused \/ AddFails \/ AddTimesOut \/ RemoveStep
             \/ WaitStep \/ CheckStep \/ StragglerAdds \/ StragglerFails \/ UNCHANGED vars
             \/ \E blind, unchecked \in BOOLEAN : Reset(blind, unchecked)
    <2>1. /\ UNCHANGED <<who, pc, todo, queue, owned, leaked>>
          /\ ledger' = ledger \/ who = "none"
      BY <1>3
         DEF UserAdds, UserRemoves, SkipStep, AddStep, AddRefused, AddFails, AddTimesOut,
             RemoveStep, WaitStep, CheckStep, Stepping, StragglerAdds, StragglerFails,
             Reset, vars
    <2> QED
      BY <1>1, <2>1 DEF TypeOK
  <1>4. CASE Reclaim \/ PurgeBefore \/ PurgeAfter
    BY <1>2, <1>4, RootType DEF Reclaim, PurgeBefore, PurgeAfter, Roots
  <1>5. ASSUME NEW tests \in Selections, NEW seen \in SUBSET Scan, Begin(tests, seen)
        PROVE  QueueOK'
    <2>1. Elements(SetToSeq(seen \cap ledger)) = seen \cap ledger
      BY ScanType, FS_Subset, SetToSeqElements
    <2>2. pc' = "reclaim" /\ Queued' \subseteq ledger'
      BY <1>5, <2>1 DEF Begin, Queued
    <2> QED
      BY <2>2 DEF QueueOK, Testing
  <1>6. ASSUME pc' \in {"idle", "next"} PROVE QueueOK'
    BY <1>6 DEF QueueOK, Testing
  <1>7. CASE EndReclaim \/ SkipTest \/ EndTest \/ EndRun \/ Aborted
    BY <1>6, <1>7 DEF EndReclaim, SkipTest, EndTest, EndRun, Aborted, Quit
  <1>8. CASE BeginTest
    <2>1. Root' = Root /\ Root = Head(todo) /\ Root \in Tests
      BY <1>8, RootStays, RootType DEF BeginTest
    <2>2. pc' = "before" /\ Declared(Root) \cap owned = {} /\ owned' = owned
          /\ queue' = LastFirst(Root)
      BY <1>8, <2>1 DEF BeginTest, Skips
    <2>3. Queued' = Declared(Root)
      BY <2>1, <2>2, LastFirstElements DEF Queued
    <2> QED
      BY <2>1, <2>2, <2>3 DEF QueueOK, Testing
  <1>9. ASSUME NEW t \in Tests, StartRpc(t) \/ StartRpcBlind(t) PROVE QueueOK'
    <2>1. pc' = "before" /\ who' = "rpc" /\ queue' = LastFirst(t) /\ todo' = <<t>>
      BY <1>9 DEF StartRpc, StartRpcBlind, BeginRpc
    <2>2. Root' = t /\ Queued' = Declared(t)
      BY <2>1, LastFirstElements DEF Root, Queued
    <2> QED
      BY <2>1, <2>2 DEF QueueOK
  <1>10. CASE BeginSteps
    <2>1. Root' = Root /\ pc' = "steps" /\ pc = "before" /\ UNCHANGED <<who, owned>>
      BY <1>10, RootStays DEF BeginSteps
    <2> QED
      BY <2>1 DEF QueueOK, Testing
  <1>11. CASE EndSteps
    <2>1. Root' = Root /\ pc' = "after" /\ pc = "steps" /\ UNCHANGED <<who, owned>>
          /\ queue' = LastFirst(Root) /\ Root \in Tests
      BY <1>11, RootStays, RootType DEF EndSteps, Testing
    <2>2. Queued' = Declared(Root)
      BY <2>1, LastFirstElements DEF Queued
    <2> QED
      BY <2>1, <2>2 DEF QueueOK, Testing
  <1>12. CASE FindSideEffects
    <2>1. Root' = Root /\ pc' = "sweep" /\ pc = "after" /\ UNCHANGED <<who, owned>>
          /\ leaked' = SideEffects /\ queue' = Reverse(SetToSeq(SideEffects))
      BY <1>12, RootStays DEF FindSideEffects
    <2>2. SideEffects \in SUBSET Scan /\ SideEffects \cap (owned \cup Native) = {}
      BY ScanType DEF SideEffects
    <2>3. SetToSeq(SideEffects) \in Seq(SideEffects)
          /\ Elements(SetToSeq(SideEffects)) = SideEffects
      BY <2>2, ScanType, FS_Subset, SetToSeqElements
    <2>4. Queued' = SideEffects
      BY <2>1, <2>3, ReverseElements DEF Queued
    <2> QED
      BY <2>1, <2>2, <2>4 DEF QueueOK, Testing
  <1>14. CASE FindNothing
    <2>1. Root' = Root /\ pc' = "sweep" /\ pc = "after" /\ UNCHANGED <<who, owned, queue>>
          /\ leaked' = {} /\ queue = << >>
      BY <1>14, RootStays DEF FindNothing
    <2>2. Queued' = {}
      BY <2>1 DEF Queued, Elements
    <2> QED
      BY <2>1, <2>2 DEF QueueOK, Testing
  <1>13. CASE \E tests \in Selections : StartRun(tests) \/ StartBlind(tests)
    BY <1>5, <1>13 DEF StartRun, StartBlind
  <1> QED
    BY <1>3, <1>4, <1>7, <1>8, <1>9, <1>10, <1>11, <1>12, <1>13, <1>14 DEF Next

(***************************************************************************)
(* Services to be spared.                                                  *)
(***************************************************************************)
LEMMA KeptFrame ==
    ASSUME NEW s, Kept(s), Intact(s)', s \notin ledger', who' = "cli" => s \notin led',
           who' # "none" => UNCHANGED <<who, owned>>,
           Testing' => Testing /\ UNCHANGED todo,
           \A a \in stragglers' : \E b \in stragglers : Adding(a) \subseteq Adding(b)
    PROVE  Kept(s)'
  <1>1. Testing' => Root' = Root
    BY RootStays
  <1>2. \A a \in stragglers' : s \notin Adding(a)
    BY DEF Kept
  <1>3. (\A a \in stragglers : s \notin Adding(a))'
    BY <1>2 DEF Adding
  <1> QED
    BY <1>1, <1>3 DEF Kept, Touched

\* What an action does not change on the host is intact after it.
LEMMA IntactFrame ==
    ASSUME NEW s, Intact(s), host'[s] = host[s]
    PROVE  Intact(s)'
  BY DEF Intact

\* The step of the script that is next is about what the test touches.
LEMMA StepTouches ==
    ASSUME TypeOK, ScriptOK, pc = "steps", script # << >>
    PROVE  /\ Head(script) \in Step
           /\ Head(script).op = "add" => /\ Head(script).of \in Declared(Root)
                                         /\ Head(script).pulls \subseteq Pulled(Root)
           /\ Head(script).op = "remove" => Head(script).of \in Removed(Root)
  <1>1. script \in Seq(Step)
    BY DEF TypeOK
  <1>2. 1 \in DOMAIN script /\ Head(script) = script[1] /\ Head(script) \in Step
    BY <1>1
  <1> QED
    BY <1>2 DEF ScriptOK

LEMMA KeptStep ==
    ASSUME HostTestsConstants, TypeOK, RunOK, ScriptOK, QueueOK, KeptOK, [Next]_vars
    PROVE  KeptOK'
  <1> USE DEF run, history
  <1> SUFFICES ASSUME NEW s \in Spared' PROVE Kept(s)'
    BY DEF KeptOK
  <1>1. ASSUME UNCHANGED <<mine, exposed, overlooked>> PROVE s \in Services /\ Kept(s)
    BY <1>1 DEF KeptOK, Spared, TypeOK
  <1>2. ASSUME s \in Services, Kept(s), host'[s] = host[s],
               UNCHANGED <<ledger, led, who, owned, todo>>,
               Testing' => Testing,
               \A a \in stragglers' : \E b \in stragglers : Adding(a) \subseteq Adding(b)
        PROVE  Kept(s)'
    <2>1. Intact(s)'
      BY <1>2, IntactFrame DEF Kept
    <2> QED
      BY <1>2, <2>1, KeptFrame DEF Kept
  <1>3. ASSUME NEW u \in Services, UserAdds(u) PROVE Kept(s)'
    <2>1. CASE s = u
      <3>1. /\ u \notin exposed' /\ who = "none" /\ u \notin ledger /\ pc = "idle"
            /\ \A a \in stragglers : u \notin Adding(a)
        BY <1>3, <2>1 DEF Spared, UserAdds, TypeOK
      <3>2. host'[u] = Added(u, "real")
        BY <1>3 DEF UserAdds, TypeOK
      <3>3. Intact(u)'
        BY <3>2 DEF Intact, Added
      <3>4. (\A a \in stragglers : u \notin Adding(a))'
        BY <1>3, <3>1 DEF UserAdds, Adding
      <3> QED
        BY <1>3, <2>1, <3>1, <3>3, <3>4 DEF UserAdds, Kept, Testing
    <2>2. CASE s # u
      <3>1. s \in Spared /\ s \in Services
        BY <1>3, <2>2 DEF Spared, UserAdds, TypeOK
      <3>2. host'[s] = host[s]
        BY <1>3, <2>2, <3>1 DEF UserAdds, TypeOK
      <3> QED
        BY <1>2, <1>3, <3>1, <3>2 DEF KeptOK, UserAdds, Testing
    <2> QED
      BY <2>1, <2>2
  <1>4. ASSUME NEW u \in Services, UserRemoves(u) PROVE Kept(s)'
    <2>1. s \in Spared /\ s \in Services /\ s # u
      BY <1>4 DEF Spared, UserRemoves, TypeOK
    <2>2. host'[s] = host[s]
      BY <1>4, <2>1 DEF UserRemoves, TypeOK
    <2> QED
      BY <1>2, <1>4, <2>1, <2>2 DEF KeptOK, UserRemoves, Testing
  <1>5. ASSUME NEW tests \in Selections, StartRun(tests) PROVE Kept(s)'
    <2>1. /\ who = "none" /\ who' = "cli" /\ pc' = "reclaim" /\ led' = ledger
          /\ owned' = Scan \ ledger
          /\ UNCHANGED <<host, mine, ledger, exposed, overlooked, stragglers>>
      BY <1>5 DEF StartRun, Begin
    <2>2. Kept(s) /\ s \in Services
      BY <1>1, <2>1
    <2>3. s \notin Native => s \in Scan
      BY <2>2 DEF Kept, Intact, Scan, Present
    <2>4. Intact(s)'
      BY <2>1, <2>2, IntactFrame DEF Kept
    <2>5. (\A a \in stragglers : s \notin Adding(a))'
      BY <2>1, <2>2 DEF Kept, Adding
    <2> QED
      BY <2>1, <2>2, <2>3, <2>4, <2>5 DEF Kept, Testing
  <1>6. ASSUME NEW tests \in Selections, StartBlind(tests) PROVE Kept(s)'
    BY <1>6 DEF StartBlind, Begin, Spared
  <1>7. ASSUME NEW t \in Tests, StartRpc(t) PROVE Kept(s)'
    <2>1. /\ who = "none" /\ who' = "rpc" /\ owned' = Scan /\ todo' = <<t>>
          /\ exposed' = exposed \cup (mine \cap (Unguarded(t) \cup Declared(t)))
          /\ UNCHANGED <<host, mine, ledger, overlooked>> /\ stragglers' = WithoutLock(t)
      BY <1>7 DEF StartRpc, BeginRpc
    <2>2. s \in Spared /\ s \notin Unguarded(t) \cup Declared(t) /\ s \in Services
      BY <2>1 DEF Spared, TypeOK
    <2>3. s \notin Touched(t) /\ Root' = t
      BY <2>1, <2>2 DEF Touched, Unguarded, Root
    <2>4. Kept(s)
      BY <2>2 DEF KeptOK
    <2>5. s \notin Native => s \in Scan
      BY <2>2, <2>4 DEF Kept, Intact, Scan, Present
    <2>6. Intact(s)'
      BY <2>1, <2>4, IntactFrame DEF Kept
    <2>7. s \notin Touched(Root)'
      BY <2>3 DEF Touched, Declared, Pulled, Removed, Steps
    <2>8. (\A a \in stragglers : s \notin Adding(a))'
      <3>1. \A a \in stragglers' : s \notin Adding(a)
        BY <2>1, <2>4, UnlockedType DEF Kept
      <3> QED
        BY <3>1 DEF Adding
    <2> QED
      BY <2>1, <2>4, <2>5, <2>6, <2>7, <2>8 DEF Kept
  <1>22. ASSUME NEW t \in Tests, StartRpcBlind(t) PROVE Kept(s)'
    BY <1>22 DEF StartRpcBlind, BeginRpc, Spared
  <1>8. ASSUME queue # << >>, NEW r \in Roots, PurgeHead(r), Kept(s), s \in Services
        PROVE  host'[s] = host[s] \/ s \in Queued
    BY <1>8, PurgeHeadEffect
  <1>9. CASE Reclaim
    <2>1. Kept(s) /\ s \in Services /\ who = "cli"
      BY <1>1, <1>9 DEF Reclaim, RunOK, TypeOK
    <2>2. s \notin Queued
      BY <1>9, <2>1 DEF Reclaim, QueueOK, Kept
    <2>3. host'[s] = host[s]
      BY <1>8, <1>9, <2>1, <2>2 DEF Reclaim, Roots
    <2>4. Intact(s)'
      BY <2>1, <2>3, IntactFrame DEF Kept
    <2> QED
      BY <1>9, <2>1, <2>4, KeptFrame DEF Reclaim, Kept, Testing
  <1>10. CASE PurgeBefore \/ PurgeAfter
    <2>1. Kept(s) /\ s \in Services
      BY <1>1, <1>10 DEF PurgeBefore, PurgeAfter
    <2>2. Testing /\ who # "none"
      BY <1>10 DEF PurgeBefore, PurgeAfter, Testing, TypeOK
    <2>3. s \notin Queued
      BY <1>10, <2>1, <2>2 DEF PurgeBefore, PurgeAfter, QueueOK, Kept, Touched
    <2>4. host'[s] = host[s]
      BY <1>8, <1>10, <2>1, <2>3, RootType DEF PurgeBefore, PurgeAfter
    <2> QED
      BY <1>2, <1>10, <2>1, <2>2, <2>4 DEF PurgeBefore, PurgeAfter
  <1>11. CASE EndReclaim \/ SkipTest \/ EndTest
    <2>1. Kept(s) /\ UNCHANGED <<host, who, owned, stragglers>>
      BY <1>1, <1>11 DEF EndReclaim, SkipTest, EndTest
    <2>2. led' \subseteq led /\ pc' = "next"
      BY <1>11 DEF EndReclaim, SkipTest, EndTest
    <2>3. ledger' \in {led', ledger} /\ (who = "cli" \/ ledger' = ledger)
      BY <1>11 DEF EndReclaim, SkipTest, EndTest, Save, LoseSave, RunOK, TypeOK
    <2>4. s \notin ledger' /\ (who' = "cli" => s \notin led')
      BY <2>1, <2>2, <2>3 DEF Kept
    <2>5. Intact(s)'
      BY <2>1, IntactFrame DEF Kept
    <2> QED
      BY <2>1, <2>2, <2>4, <2>5, KeptFrame DEF Testing
  <1>12. CASE BeginTest
    <2>1. PICK t \in Tests : t = Head(todo) /\ t = Root
      BY <1>12, RootType DEF BeginTest
    <2>2. who = "cli"
      BY <1>12 DEF BeginTest, RunOK, TypeOK
    <2>3. /\ exposed' = exposed \cup (mine \cap Unguarded(t))
          /\ led' = led \cup Declared(t) /\ ledger' \in {led', ledger}
          /\ Declared(t) \cap owned = {}
          /\ UNCHANGED <<host, mine, who, owned, todo, overlooked>>
          /\ stragglers' = WithoutLock(t)
      BY <1>12, <2>1 DEF BeginTest, RecordIntent, Save, LoseSave, Skips
    <2>4. s \in Spared /\ s \notin Unguarded(t)
      BY <2>3 DEF Spared
    <2>5. Kept(s)
      BY <2>4 DEF KeptOK
    <2>6. s \notin Declared(t) /\ s \notin Touched(t)
      BY <2>2, <2>3, <2>4, <2>5 DEF Kept, Unguarded, Touched
    <2>7. Root' = t
      BY <2>1, <2>3, RootStays
    <2>8. s \notin Touched(Root)'
      BY <2>6, <2>7 DEF Touched, Declared, Pulled, Removed, Steps
    <2>9. Intact(s)'
      BY <2>3, <2>5, IntactFrame DEF Kept
    <2>10. (\A a \in stragglers : s \notin Adding(a))'
      <3>1. \A a \in stragglers' : s \notin Adding(a)
        BY <2>3, <2>5, UnlockedType DEF Kept
      <3> QED
        BY <3>1 DEF Adding
    <2> QED
      BY <2>2, <2>3, <2>5, <2>6, <2>8, <2>9, <2>10 DEF Kept
  <1>13. CASE BeginSteps \/ EndSteps \/ FindSideEffects \/ FindNothing
    BY <1>1, <1>2, <1>13 DEF BeginSteps, EndSteps, FindSideEffects, FindNothing, Testing
  <1>14. CASE SkipStep \/ WaitStep \/ CheckStep
    BY <1>1, <1>2, <1>14 DEF SkipStep, WaitStep, CheckStep, Stepping, Testing
  <1>15. CASE AddStep \/ AddRefused
    <2>1. Kept(s) /\ s \in Services /\ Testing
      BY <1>1, <1>15 DEF AddStep, AddRefused, Stepping, Testing
    <2>2. s \notin ToAdd(Head(script))
      BY <1>15, <2>1, StepTouches DEF AddStep, AddRefused, Stepping, ToAdd, PulledIn, Kept, Touched
    <2>3. host'[s] = host[s]
      BY <1>15, <2>1, <2>2 DEF AddStep, AddRefused, ToAdd
    <2> QED
      BY <1>2, <1>15, <2>1, <2>3 DEF AddStep, AddRefused, Stepping
  <1>16. CASE RemoveStep
    <2>1. Kept(s) /\ s \in Services /\ Testing
      BY <1>1, <1>16 DEF RemoveStep, Stepping, Testing
    <2>2. s # Head(script).of
      BY <1>16, <2>1, StepTouches DEF RemoveStep, Stepping, Kept, Touched
    <2>3. host'[s] = host[s]
      BY <1>16, <2>1, <2>2 DEF RemoveStep, TypeOK
    <2> QED
      BY <1>2, <1>16, <2>1, <2>3 DEF RemoveStep, Stepping
  <1>23. CASE AddFails
    <2>1. Kept(s) /\ s \in Services /\ Testing
      BY <1>1, <1>23 DEF AddFails, Stepping, Testing
    <2>2. s \notin ToAdd(Head(script))
      BY <1>23, <2>1, StepTouches DEF AddFails, Stepping, ToAdd, PulledIn, Kept, Touched
    <2>3. host'[s] = host[s]
      BY <1>23, <2>1, <2>2, AddFailsEffect
    <2> QED
      BY <1>2, <1>23, <2>1, <2>3 DEF AddFails, Stepping
  <1>17. CASE AddTimesOut
    <2>1. /\ Kept(s) /\ Testing /\ UNCHANGED <<host, ledger, led, who, owned, pc, todo>>
      BY <1>1, <1>17 DEF AddTimesOut, Stepping, Testing
    <2>2. s \notin ToAdd(Head(script)) \cup {Head(script).of}
      BY <1>17, <2>1, StepTouches DEF AddTimesOut, Stepping, Kept, Touched, ToAdd, PulledIn
    <2>3. Intact(s)' /\ Root' = Root
      BY <2>1, IntactFrame, RootStays DEF Kept
    <2>4. \A a \in stragglers' : s \notin Adding(a)
      BY <1>17, <2>1, <2>2 DEF AddTimesOut, Kept, Adding, ToAdd
    <2>5. (\A a \in stragglers : s \notin Adding(a))'
      BY <2>4 DEF Adding
    <2> QED
      BY <2>1, <2>3, <2>5 DEF Kept, Testing, Touched
  <1>18. CASE StragglerAdds \/ StragglerFails
    <2>1. PICK a \in stragglers, u \in Services :
             /\ \E h : host' = [host EXCEPT ![u] = h]
             /\ u \in Adding(a)
             /\ \A b \in stragglers' : \E c \in stragglers : Adding(b) \subseteq Adding(c)
      BY <1>18, StragglerEffect
    <2>2. Kept(s) /\ s \in Services
      BY <1>1, <1>18 DEF StragglerAdds, StragglerFails
    <2>3. host'[s] = host[s]
      BY <2>1, <2>2 DEF Kept, TypeOK
    <2> QED
      BY <1>2, <1>18, <2>1, <2>2, <2>3 DEF StragglerAdds, StragglerFails, Testing
  <1>19. CASE EndRun \/ Aborted
    <2>1. Kept(s) /\ who' = "none" /\ pc' = "idle" /\ UNCHANGED <<host, ledger, stragglers>>
      BY <1>1, <1>19 DEF EndRun, Aborted, Quit
    <2>2. Intact(s)'
      BY <2>1, IntactFrame DEF Kept
    <2>3. (\A a \in stragglers : s \notin Adding(a))'
      BY <2>1 DEF Kept, Adding
    <2> QED
      BY <2>1, <2>2, <2>3 DEF Kept, Testing
  <1>20. ASSUME NEW blind \in BOOLEAN, NEW unchecked \in BOOLEAN, Reset(blind, unchecked)
         PROVE  Kept(s)'
    <2>1. Kept(s) /\ s \in Services /\ who = "none"
          /\ UNCHANGED <<who, pc, led, owned, todo>>
      BY <1>1, <1>20 DEF Reset
    <2>6. \A a \in stragglers' : \E b \in stragglers : Adding(a) \subseteq Adding(b)
      <3>1. stragglers' \in {stragglers, {Unlocked(a) : a \in stragglers}}
        BY <1>20 DEF Reset
      <3> QED
        BY <3>1, UnlockedType
    <2>2. \/ host'[s] = host[s]
          \/ host'[s] = [host[s] EXCEPT !.homes = @ \cap {"real"}]
      BY <1>20, <2>1 DEF Reset, Kept
    <2>3. host[s] \in Host
      BY <2>1 DEF TypeOK
    <2>4. Intact(s)'
      BY <2>1, <2>2, <2>3 DEF Kept, Intact, Host
    <2>5. ledger' \in {{}, ledger}
      BY <1>20 DEF Reset
    <2> QED
      BY <2>1, <2>4, <2>5, <2>6, KeptFrame DEF Kept, Testing
  <1>21. CASE UNCHANGED vars
    BY <1>1, <1>2, <1>21 DEF vars, Testing
  <1> QED
    BY <1>3, <1>4, <1>5, <1>6, <1>7, <1>9, <1>10, <1>11, <1>12, <1>13, <1>14, <1>15, <1>16,
       <1>17, <1>18, <1>19, <1>20, <1>21, <1>22, <1>23 DEF Next

(***************************************************************************)
(* Traces.                                                                 *)
(***************************************************************************)

\* Only the steps of a test leave a trace that was not there, of what the test
\* declares or pulls in; and what is one stays forgotten, or unseen, if it was.
LEMMA TraceEffect ==
    ASSUME HostTestsConstants, TypeOK, ScriptOK, [Next]_vars, NEW s \in Services, Trace(s)'
    PROVE  /\ \/ Trace(s)
              \/ pc = "steps" /\ s \in Declared(Root) \cup Pulled(Root)
           /\ s \in forgotten => s \in forgotten'
           /\ s \in unseen => s \in unseen'
  <1> USE DEF run, history
  <1> DEFINE Goal == /\ \/ Trace(s)
                        \/ pc = "steps" /\ s \in Declared(Root) \cup Pulled(Root)
                     /\ s \in forgotten => s \in forgotten'
                     /\ s \in unseen => s \in unseen'
  <1> SUFFICES Goal
    OBVIOUS
  <1>1. ASSUME host'[s] = host[s], s \in stuck => s \in stuck',
               s \in forgotten => s \in forgotten', s \in unseen => s \in unseen'
        PROVE  Goal
    BY <1>1 DEF Trace, Scan, Present
  <1>2. CASE \/ \E tests \in Selections : StartRun(tests) \/ StartBlind(tests)
             \/ \E t \in Tests : StartRpc(t) \/ StartRpcBlind(t)
             \/ EndReclaim \/ SkipTest \/ BeginTest \/ BeginSteps \/ SkipStep
             \/ AddTimesOut \/ WaitStep \/ CheckStep \/ EndSteps \/ FindSideEffects
             \/ FindNothing \/ EndTest \/ EndRun \/ Aborted \/ UNCHANGED vars
    <2>1. UNCHANGED <<host, stuck, forgotten>> /\ unseen \subseteq unseen'
      BY <1>2
         DEF StartRun, StartBlind, Begin, StartRpc, StartRpcBlind, BeginRpc, EndReclaim,
             SkipTest, BeginTest, BeginSteps, SkipStep, AddTimesOut, WaitStep, CheckStep, Stepping,
             EndSteps, FindSideEffects, FindNothing, EndTest, EndRun, Aborted, Quit, vars
    <2> QED
      BY <1>1, <2>1
  <1>3. ASSUME NEW u \in Services, UserAdds(u) PROVE Goal
    <2>1. s # u
      <3>1. host'[u].unit = "real"
        BY <1>3 DEF UserAdds, Added, TypeOK
      <3> QED
        BY <3>1 DEF Trace
    <2> QED
      BY <1>1, <1>3, <2>1 DEF UserAdds, TypeOK
  <1>4. ASSUME NEW u \in Services, UserRemoves(u) PROVE Goal
    <2>1. s # u
      <3>1. host'[u] = Purged(u, "real")
        BY <1>4 DEF UserRemoves, TypeOK
      <3>2. u \notin Native => ~Present(Purged(u, "real"))
        BY HostOps DEF Roots
      <3> QED
        BY <3>1, <3>2 DEF Trace, Scan, Present
    <2> QED
      BY <1>1, <1>4, <2>1 DEF UserRemoves, TypeOK
  <1>5. CASE Reclaim
    <2>1. PICK r \in Roots : PurgeHead(r) /\ forgotten' = Missed(r, forgotten)
      BY <1>5 DEF Reclaim, Roots
    <2>2. queue # << >> /\ stuck' = stuck /\ s \in Scan' /\ forgotten \subseteq Services
      BY <1>5 DEF Reclaim, Trace, TypeOK
    <2>3. /\ s \in Scan /\ (s \in unseen => s \in unseen')
          /\ s # Head(queue) => host'[s] = host[s]
      BY <2>1, <2>2, PurgeHeadEffect
    <2>4. s \in forgotten => s \in forgotten'
      BY <2>1, <2>2, MissedEffect
    <2>5. Trace(s)
      <3>1. host[s].unit # "real"
        BY <2>1, <2>2, HeadEffect DEF Trace
      <3> QED
        BY <2>2, <2>3, <3>1 DEF Trace
    <2> QED
      BY <2>3, <2>4, <2>5
  <1>11. CASE PurgeBefore \/ PurgeAfter
    <2>1. PICK r \in Roots : PurgeHead(r) /\ stuck' = Missed(r, stuck)
      BY <1>11, RootType DEF PurgeBefore, PurgeAfter
    <2>2. queue # << >> /\ forgotten' = forgotten /\ s \in Scan' /\ stuck \subseteq Services
      BY <1>11 DEF PurgeBefore, PurgeAfter, Trace, TypeOK
    <2>3. /\ s \in Scan /\ (s \in unseen => s \in unseen')
      BY <2>1, <2>2, PurgeHeadEffect
    <2>4. s \notin stuck
      BY <2>1, <2>2, MissedEffect DEF Trace
    <2>5. Trace(s)
      <3>1. host[s].unit # "real"
        BY <2>1, <2>2, HeadEffect DEF Trace
      <3> QED
        BY <2>3, <2>4, <3>1 DEF Trace
    <2> QED
      BY <2>2, <2>3, <2>5
  <1>6. CASE AddStep \/ AddRefused
    <2>1. CASE s \in ToAdd(Head(script))
      <3>1. pc = "steps" /\ script # << >> /\ Head(script).op = "add"
        BY <1>6 DEF AddStep, AddRefused, Stepping
      <3>2. s \in Declared(Root) \cup Pulled(Root)
        BY <2>1, <3>1, StepTouches DEF ToAdd, PulledIn
      <3>3. UNCHANGED <<forgotten, unseen>>
        BY <1>6 DEF AddStep, AddRefused, Stepping
      <3> QED
        BY <3>1, <3>2, <3>3
    <2>2. CASE s \notin ToAdd(Head(script))
      BY <1>1, <1>6, <2>2 DEF AddStep, AddRefused, Stepping, ToAdd
    <2> QED
      BY <2>1, <2>2
  <1>7. CASE AddFails
    <2>1. pc = "steps" /\ script # << >> /\ Head(script).op = "add"
          /\ UNCHANGED <<stuck, forgotten, unseen>>
      BY <1>7 DEF AddFails, Stepping
    <2>2. CASE s \in ToAdd(Head(script))
      BY <2>1, <2>2, StepTouches DEF ToAdd, PulledIn
    <2>3. CASE s \notin ToAdd(Head(script))
      BY <1>1, <1>7, <2>1, <2>3, AddFailsEffect
    <2> QED
      BY <2>2, <2>3
  <1>8. CASE RemoveStep
    <2> PICK u : u = Head(script).of
      OBVIOUS
    <2>1. /\ host' = host \/ host' = [host EXCEPT ![u] = Purged(u, Root)]
          /\ UNCHANGED <<stuck, forgotten, unseen>>
      BY <1>8 DEF RemoveStep, Stepping, TypeOK
    <2>2. CASE s = u /\ host' = [host EXCEPT ![u] = Purged(u, Root)]
      <3>1. host'[s] = Purged(s, Root)
        BY <2>2 DEF TypeOK
      <3>2. s \notin Native => ~Present(Purged(s, Root))
        BY HostOps, RootType
      <3> QED
        BY <3>1, <3>2 DEF Trace, Scan, Present
    <2>3. CASE s # u \/ host' = host
      BY <1>1, <2>1, <2>3 DEF TypeOK
    <2> QED
      BY <2>1, <2>2, <2>3
  <1>9. CASE StragglerAdds \/ StragglerFails
    <2>1. PICK u : /\ \E h : host' = [host EXCEPT ![u] = h]
                   /\ stuck' = stuck \cup {u} /\ UNCHANGED <<forgotten, unseen>>
      <3>1. UNCHANGED <<forgotten, unseen>>
        BY <1>9 DEF StragglerAdds, StragglerFails
      <3> QED
        BY <1>9, <3>1, StragglerEffect
    <2>2. s # u
      BY <2>1 DEF Trace
    <2> QED
      BY <1>1, <2>1, <2>2 DEF TypeOK
  <1>10. ASSUME NEW blind \in BOOLEAN, NEW unchecked \in BOOLEAN, Reset(blind, unchecked)
         PROVE  Goal
    <2> DEFINE cut(h) == [h EXCEPT !.homes = @ \cap {"real"}]
    <2>1. /\ UNCHANGED <<stuck, forgotten, unseen>>
          /\ host'[s] \in {host[s], Purged(s, "top"), cut(host[s]), cut(Purged(s, "top"))}
      BY <1>10 DEF Reset, AfterPurge
    <2>2. host[s] \in Host /\ Purged(s, "top") \in Host
          /\ (s \notin Native => ~Present(Purged(s, "top")))
      BY HostOps DEF Roots, TypeOK
    <2>3. \A h \in Host : Present(cut(h)) => h.unit = "real" /\ cut(h).unit = "real"
      BY DEF Present, Host
    <2>4. s \notin Native /\ Present(host'[s]) /\ host'[s].unit # "real"
      BY DEF Trace, Scan, Present
    <2> HIDE DEF cut
    <2>5. host'[s] = host[s]
      BY <2>1, <2>2, <2>3, <2>4
    <2> QED
      BY <1>1, <2>1, <2>5
  <1> QED
    BY <1>2, <1>3, <1>4, <1>5, <1>6, <1>7, <1>8, <1>9, <1>10, <1>11 DEF Next

LEMMA RecordedStep ==
    ASSUME HostTestsConstants, TypeOK, RunOK, ScriptOK, QueueOK, RecordedOK, CleanedOK,
           [Next]_vars
    PROVE  RecordedOK'
  <1> USE DEF run, history
  <1>1. ASSUME UNCHANGED <<ledger, led, who, unwritten, todo>>, Testing' => Testing
        PROVE  RecordedOK'
    <2>1. Root' = Root
      BY <1>1, RootStays
    <2>2. ASSUME NEW s \in Services, Trace(s)', s \notin unwritten' \cup forgotten'
          PROVE  s \in ledger' /\ (who' = "cli" => s \in led')
      <3>1. /\ Trace(s) \/ (Testing /\ s \in Declared(Root) \cup Pulled(Root))
            /\ s \notin forgotten
        BY <2>2, TraceEffect DEF Testing
      <3> QED
        BY <1>1, <2>2, <3>1 DEF RecordedOK
    <2> QED
      BY <1>1, <2>1, <2>2 DEF RecordedOK
  <1>2. CASE \/ \E u \in Services : UserAdds(u) \/ UserRemoves(u)
             \/ PurgeBefore \/ BeginSteps \/ SkipStep \/ AddStep \/ AddRefused \/ AddFails
             \/ AddTimesOut \/ RemoveStep \/ WaitStep \/ CheckStep \/ StragglerAdds
             \/ StragglerFails \/ EndSteps \/ PurgeAfter \/ FindSideEffects \/ FindNothing
             \/ UNCHANGED vars
    <2>1. UNCHANGED <<ledger, led, who, unwritten, todo>> /\ (Testing' => Testing)
      BY <1>2
         DEF UserAdds, UserRemoves, PurgeBefore, BeginSteps, SkipStep, AddStep, AddRefused,
             AddFails, AddTimesOut, RemoveStep, WaitStep, CheckStep, Stepping, StragglerAdds,
             StragglerFails, EndSteps, PurgeAfter, FindSideEffects, FindNothing, vars,
             Testing
    <2> QED
      BY <1>1, <2>1
  <1>3. ASSUME \A s \in Services : Trace(s)' => Trace(s), ~Testing',
               \A s \in Services : Trace(s)' /\ s \notin unwritten' \cup forgotten'
                   => s \in ledger' /\ (who' = "cli" => s \in led')
        PROVE  RecordedOK'
    BY <1>3 DEF RecordedOK
  <1>4. ASSUME pc # "steps"
        PROVE  \A s \in Services : Trace(s)' => Trace(s) /\ (s \in forgotten => s \in forgotten')
    BY <1>4, TraceEffect
  <1>5. CASE \E tests \in Selections : StartRun(tests) \/ StartBlind(tests)
    <2>1. led' = ledger /\ pc' = "reclaim" /\ pc = "idle" /\ UNCHANGED <<ledger, unwritten>>
      BY <1>5 DEF StartRun, StartBlind, Begin, TypeOK
    <2> QED
      BY <1>3, <1>4, <2>1 DEF RecordedOK, Testing
  <1>6. ASSUME NEW t \in Tests, StartRpc(t) \/ StartRpcBlind(t) PROVE RecordedOK'
    <2>1. /\ ledger' = ledger /\ who' = "rpc" /\ pc = "idle"
          /\ unwritten' = unwritten \cup Declared(t) \cup Pulled(t) /\ todo' = <<t>>
      BY <1>6 DEF StartRpc, StartRpcBlind, BeginRpc, TypeOK
    <2>2. Root' = t
      BY <2>1 DEF Root
    <2>3. Declared(Root)' = Declared(t) /\ Pulled(Root)' = Pulled(t)
      BY <2>2 DEF Declared, Pulled, Steps
    <2> QED
      BY <1>4, <2>1, <2>3 DEF RecordedOK
  <1>7. CASE Reclaim
    <2>1. /\ PurgeHead("real") /\ queue # << >> /\ forgotten' = Missed("real", forgotten)
          /\ "real" \in Roots /\ forgotten \subseteq Services /\ pc = "reclaim"
      BY <1>7 DEF Reclaim, Roots, TypeOK
    <2>2. \A s \in Services : Trace(s)' /\ s \notin forgotten' => s # Head(queue)
      BY <2>1, MissedEffect DEF Trace
    <2>3. led' = led \ {Head(queue)} /\ pc' = "reclaim" /\ UNCHANGED <<ledger, who, unwritten>>
      BY <1>7 DEF Reclaim
    <2> QED
      BY <1>3, <1>4, <2>1, <2>2, <2>3 DEF RecordedOK, Testing
  <1>8. CASE EndReclaim
    <2>1. pc = "reclaim" /\ pc' = "next" /\ who = "cli" /\ ledger' \in {led, ledger}
          /\ UNCHANGED <<led, who, unwritten>>
      BY <1>8 DEF EndReclaim, Save, LoseSave, RunOK, TypeOK
    <2> QED
      BY <1>3, <1>4, <2>1 DEF RecordedOK, Testing
  <1>9. CASE SkipTest
    <2>1. pc = "next" /\ pc' = "next" /\ UNCHANGED <<ledger, led, who, unwritten>>
      BY <1>9 DEF SkipTest
    <2> QED
      BY <1>3, <1>4, <2>1 DEF RecordedOK, Testing
  <1>10. CASE BeginTest
    <2>1. PICK t \in Tests : t = Head(todo) /\ t = Root
      BY <1>10, RootType DEF BeginTest
    <2>2. /\ led' = led \cup Declared(t) /\ pc = "next" /\ who = "cli"
          /\ UNCHANGED <<who, todo>>
          /\ \/ ledger' = led' /\ unwritten' = (unwritten \ Declared(t)) \cup Pulled(t)
             \/ ledger' = ledger /\ unwritten' = unwritten \cup Declared(t) \cup Pulled(t)
      BY <1>10, <2>1 DEF BeginTest, RecordIntent, Save, LoseSave, RunOK, TypeOK
    <2>3. Root' = t
      BY <2>1, <2>2, RootStays
    <2>4. Declared(Root)' = Declared(t) /\ Pulled(Root)' = Pulled(t)
      BY <2>3 DEF Declared, Pulled, Steps
    <2>5. \A s \in Services : Trace(s)' /\ s \notin unwritten' \cup forgotten' => s \in ledger' /\ s \in led'
      BY <1>4, <2>2 DEF RecordedOK
    <2> QED
      BY <2>2, <2>4, <2>5 DEF RecordedOK
  <1>11. CASE EndTest
    <2>1. /\ pc = "sweep" /\ queue = << >> /\ pc' = "next" /\ UNCHANGED <<who, unwritten>>
          /\ led' = led \ (Declared(Root) \cup leaked)
          /\ ledger' = ledger \/ (who = "cli" /\ ledger' = led')
      BY <1>11 DEF EndTest, Save, LoseSave
    <2>2. Queued = {}
      BY <2>1 DEF Queued, Elements
    <2>3. \A s \in Services :
             Trace(s) => s \in owned \cup (unseen \ (Declared(Root) \cup leaked))
      BY <2>1, <2>2 DEF CleanedOK
    <2>4. who = "cli" => (Declared(Root) \cup leaked) \cap owned = {}
      BY <2>1 DEF QueueOK, Testing
    <2> QED
      BY <1>3, <1>4, <2>1, <2>3, <2>4 DEF RecordedOK, Testing
  <1>12. CASE EndRun \/ Aborted
    <2>1. who' = "none" /\ pc' = "idle" /\ UNCHANGED <<host, stuck, forgotten, ledger, unwritten>>
      BY <1>12 DEF EndRun, Aborted, Quit
    <2>2. \A s \in Services : Trace(s)' => Trace(s)
      BY <2>1 DEF Trace, Scan, Present
    <2> QED
      BY <1>3, <2>1, <2>2 DEF RecordedOK, Testing
  <1>13. ASSUME NEW blind \in BOOLEAN, NEW unchecked \in BOOLEAN, Reset(blind, unchecked)
         PROVE  RecordedOK'
    <2>1. who = "none" /\ pc = "idle" /\ UNCHANGED <<who, pc, unwritten>>
      BY <1>13 DEF Reset, TypeOK
    <2>2. ledger' = ledger \/ \A s \in Services : ~Trace(s)'
      <3>1. SUFFICES ASSUME ledger' # ledger, NEW s \in Services PROVE ~Trace(s)'
        OBVIOUS
      <3>2. \E h \in Host : host'[s] = [h EXCEPT !.homes = @ \cap {"real"}]
        <4> DEFINE left == IF blind THEN {} ELSE ledger \cap Scan
                   purged == [u \in Services |-> IF u \in left THEN AfterPurge(u, "top")
                                                 ELSE host[u]]
        <4>1. host' = [u \in Services |-> [purged[u] EXCEPT !.homes = @ \cap {"real"}]]
          BY <1>13, <3>1 DEF Reset
        <4>2. purged[s] \in Host
          BY HostOps DEF TypeOK, Roots
        <4> HIDE DEF purged
        <4> QED
          BY <4>1, <4>2
      <3> QED
        BY <3>2 DEF Trace, Scan, Present, Host
    <2> QED
      BY <1>3, <1>4, <2>1, <2>2 DEF RecordedOK, Testing
  <1> QED
    BY <1>2, <1>5, <1>6, <1>7, <1>8, <1>9, <1>10, <1>11, <1>12, <1>13 DEF Next

LEMMA CleanedStep ==
    ASSUME HostTestsConstants, TypeOK, RunOK, ScriptOK, CleanedOK, [Next]_vars
    PROVE  CleanedOK'
  <1> USE DEF run, history
  <1>1. ASSUME pc' \notin {"after", "sweep"} PROVE CleanedOK'
    BY <1>1 DEF CleanedOK
  <1>2. ASSUME pc \in {"after", "sweep"}, UNCHANGED <<pc, todo, queue, owned, leaked>>
        PROVE  CleanedOK'
    <2>1. Root' = Root /\ Queued' = Queued
      BY <1>2, RootStays DEF Queued
    <2>2. \A s \in Services : Trace(s)' => Trace(s) /\ (s \in unseen => s \in unseen')
      BY <1>2, TraceEffect
    <2>3. Declared(Root)' = Declared(Root)
      BY <2>1 DEF Declared, Steps
    <2> QED
      BY <1>2, <2>1, <2>2, <2>3 DEF CleanedOK
  <1>3. CASE \/ \E u \in Services : UserAdds(u) \/ UserRemoves(u)
             \/ StragglerAdds \/ StragglerFails \/ UNCHANGED vars
    <2>1. UNCHANGED <<pc, todo, queue, owned, leaked>>
      BY <1>3 DEF UserAdds, UserRemoves, StragglerAdds, StragglerFails, vars
    <2> QED
      BY <1>1, <1>2, <2>1
  <1>4. CASE \/ \E tests \in Selections : StartRun(tests) \/ StartBlind(tests)
             \/ \E t \in Tests : StartRpc(t) \/ StartRpcBlind(t)
             \/ Reclaim \/ EndReclaim \/ SkipTest \/ BeginTest \/ PurgeBefore \/ BeginSteps
             \/ SkipStep \/ AddStep \/ AddRefused \/ AddFails \/ AddTimesOut \/ RemoveStep
             \/ WaitStep \/ CheckStep \/ EndTest \/ EndRun \/ Aborted
             \/ \E blind, unchecked \in BOOLEAN : Reset(blind, unchecked)
    <2>1. pc' \notin {"after", "sweep"}
      BY <1>4
         DEF StartRun, StartBlind, Begin, StartRpc, StartRpcBlind, BeginRpc, Reclaim,
             EndReclaim, SkipTest, BeginTest, PurgeBefore, BeginSteps, SkipStep, AddStep, AddRefused, AddFails, AddTimesOut,
             RemoveStep, WaitStep, CheckStep, Stepping, EndTest, EndRun, Aborted, Quit,
             Reset, TypeOK
    <2> QED
      BY <1>1, <2>1
  <1>5. CASE EndSteps
    <2>1. /\ pc' = "after" /\ queue' = LastFirst(Root) /\ Root' = Root /\ Root \in Tests
      BY <1>5, RootStays, RootType DEF EndSteps, Testing
    <2>2. Queued' = Declared(Root)
      BY <2>1, LastFirstElements DEF Queued
    <2> QED
      BY <2>1, <2>2 DEF CleanedOK
  <1>6. CASE PurgeAfter
    <2>1. /\ PurgeHead(Root) /\ queue # << >> /\ Root' = Root /\ UNCHANGED <<pc, owned, leaked>>
          /\ pc \in {"after", "sweep"} /\ stuck' = Missed(Root, stuck)
          /\ Root \in Roots /\ stuck \subseteq Services
      BY <1>6, RootStays, RootType DEF PurgeAfter, TypeOK
    <2>2. /\ \A s \in Services : Trace(s)' => s # Head(queue)
          /\ Queued = Queued' \cup {Head(queue)}
      BY <2>1, PurgeHeadEffect, MissedEffect DEF Trace
    <2>3. \A s \in Services : Trace(s)' => Trace(s) /\ (s \in unseen => s \in unseen')
      BY <2>1, TraceEffect
    <2>4. Declared(Root)' = Declared(Root)
      BY <2>1 DEF Declared, Steps
    <2> QED
      BY <2>1, <2>2, <2>3, <2>4 DEF CleanedOK
  <1>7. CASE FindSideEffects
    <2>1. /\ pc = "after" /\ pc' = "sweep" /\ queue = << >> /\ UNCHANGED owned
          /\ queue' = Reverse(SetToSeq(SideEffects)) /\ UNCHANGED <<host, stuck>>
      BY <1>7 DEF FindSideEffects
    <2>2. SideEffects \in SUBSET Scan
      BY DEF SideEffects
    <2>3. SetToSeq(SideEffects) \in Seq(SideEffects)
          /\ Elements(SetToSeq(SideEffects)) = SideEffects
      BY <2>2, ScanType, FS_Subset, SetToSeqElements
    <2>4. Queued' = SideEffects
      BY <2>1, <2>3, ReverseElements DEF Queued
    <2>5. Queued = {}
      BY <2>1 DEF Queued, Elements
    <2>6. ASSUME NEW s \in Services, Trace(s)' PROVE s \in owned \cup SideEffects
      <3>1. Trace(s)
        BY <2>1, <2>6, TraceEffect
      <3>2. s \notin Declared(Root) /\ s \in Scan
        BY <2>1, <2>5, <3>1 DEF CleanedOK, Trace
      <3> QED
        BY <3>2 DEF SideEffects
    <2> QED
      BY <2>1, <2>4, <2>6 DEF CleanedOK
  <1>8. CASE FindNothing
    <2>1. /\ pc = "after" /\ pc' = "sweep" /\ queue = << >> /\ leaked' = {}
          /\ UNCHANGED <<host, stuck, owned>> /\ unseen' = unseen \cup SideEffects /\ Root' = Root
      BY <1>8, RootStays DEF FindNothing
    <2>2. Queued = {} /\ Declared(Root)' = Declared(Root)
      BY <2>1 DEF Queued, Elements, Declared, Steps
    <2>3. ASSUME NEW s \in Services, Trace(s)'
          PROVE  s \in owned' \cup (unseen' \ (Declared(Root)' \cup leaked'))
      <3>1. Trace(s)
        BY <2>1, <2>3, TraceEffect
      <3>2. s \notin Declared(Root) /\ s \in Scan
        BY <2>1, <2>2, <3>1 DEF CleanedOK, Trace
      <3> QED
        BY <2>1, <2>2, <3>2 DEF SideEffects
    <2> QED
      BY <2>1, <2>3 DEF CleanedOK
  <1> QED
    BY <1>3, <1>4, <1>5, <1>6, <1>7, <1>8 DEF Next
-----------------------------------------------------------------------------
LEMMA InitInv == HostTestsConstants => (Init => Inv)
  <1> SUFFICES ASSUME HostTestsConstants, Init PROVE Inv
    OBVIOUS
  <1>1. << >> \in Seq(Tests) /\ << >> \in Seq(Services) /\ << >> \in Seq(Step)
    OBVIOUS
  <1>2. [s \in Services |-> Absent] \in [Services -> Host]
    BY DEF Absent, Host
  <1>3. TypeOK
    BY <1>1, <1>2 DEF Init, TypeOK
  <1>4. Scan = {}
    BY DEF Init, Scan, Present, Absent
  <1> QED
    BY <1>3, <1>4
       DEF Init, Inv, RunOK, ScriptOK, QueueOK, KeptOK, Spared, RecordedOK, CleanedOK, Trace,
           Testing

LEMMA InvInductive == HostTestsConstants => (Inv /\ [Next]_vars => Inv')
  BY TypeStep, RunStep, ScriptStep, QueueStep, KeptStep, RecordedStep, CleanedStep DEF Inv

LEMMA Invariance == Spec => []Inv
  <1>1. Init => Inv
    BY InitInv, HostTestsConstants
  <1>2. Inv /\ [Next]_vars => Inv'
    BY InvInductive, HostTestsConstants
  <1> QED
    BY <1>1, <1>2, PTL DEF Spec

\* What the commands and the runs keep on disk and in memory has its shape; the
\* ledger of a run and what it takes for the user's have nothing in common
\* (run_bare, run_lifecycle_test).
THEOREM TypeCorrect == Spec => []TypeOK
  BY Invariance, PTL DEF Inv

\* Whatever the tests' scripts, the interleaving with the user's commands, and
\* the failures, aborts and time-outs, a service the user installed keeps its
\* unit, home and volume, with the exceptions of the property (run_bare's "Leaving
\* already-installed services untouched").
THEOREM UserKeepsServices == Spec => []UserServicesKept
  <1>1. Inv => UserServicesKept
    BY DEF Inv, KeptOK, Kept, Spared, UserServicesKept
  <1> QED
    BY <1>1, Invariance, PTL

\* Between two runs the ledger on disk names every trace a test has left, with
\* the exceptions of the property (host_ledger_path).
THEOREM LedgerKnowsLeftovers == Spec => []LeftoversRecorded
  <1>1. Inv => LeftoversRecorded
    BY DEF Inv, RecordedOK, Trace, Scan, LeftoversRecorded
  <1> QED
    BY <1>1, Invariance, PTL

\* A test that has been cleaned up after leaves nothing that was not there before
\* the run (run_bare's "nothing accumulates").
THEOREM TestsLeaveNothing == Spec => []NothingPilesUp
  <1>1. Inv => NothingPilesUp
    <2>1. ASSUME Inv, pc = "sweep", queue = << >>,
                 NEW s \in Scan \ (stuck \cup unseen \cup owned)
          PROVE  host[s].unit = "real"
      <3>1. s \in Services /\ Queued = {}
        BY <2>1 DEF Scan, Queued, Elements
      <3> QED
        BY <2>1, <3>1 DEF Inv, CleanedOK, Trace
    <2> QED
      BY <2>1 DEF NothingPilesUp
  <1> QED
    BY <1>1, Invariance, PTL
================================================================================
