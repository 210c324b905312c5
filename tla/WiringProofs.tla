---------------------------- MODULE WiringProofs ------------------------------
(***************************************************************************)
(* Proofs about Wiring, for any services, requests, scenes and bounds: an  *)
(* add that fails leaves the wiring of the others as it found it, and      *)
(* between commands the store scrapes whom it is to scrape, consumers are  *)
(* on the networks of what they use, and nothing points at a service that  *)
(* is not there.                                                           *)
(***************************************************************************)
EXTENDS Wiring, FiniteSetTheorems, SequenceTheorems, WellFoundedInduction, TLAPS

(***************************************************************************)
(* Sequences of steps.                                                     *)
(***************************************************************************)

\* A set of natural numbers has a least element.
LEMMA LeastExists ==
    ASSUME NEW N, N \subseteq Nat, N # {}
    PROVE  \E m \in N : \A k \in N : m <= k
  <1>1. PICK m \in N : \A k \in N : <<k, m>> \notin OpToRel(<, Nat)
    BY NatLessThanWellFounded, WFMin
  <1>2. \A k \in N : ~(k < m)
    BY <1>1 DEF OpToRel
  <1> QED
    BY <1>2

LEMMA Concatenated ==
    ASSUME NEW X, NEW p \in Seq(X), NEW q \in Seq(X)
    PROVE  p \o q \in Seq(X) /\ ToSet(p \o q) = ToSet(p) \cup ToSet(q)
  <1>1. /\ Len(p) \in Nat /\ Len(q) \in Nat
        /\ DOMAIN p = 1 .. Len(p) /\ DOMAIN q = 1 .. Len(q)
        /\ DOMAIN (p \o q) = 1 .. Len(p) + Len(q)
        /\ \A i \in 1 .. Len(p) : (p \o q)[i] = p[i]
        /\ \A i \in 1 .. Len(q) : (p \o q)[i + Len(p)] = q[i]
    BY ConcatProperties, LenProperties
  <1>2. \A i \in DOMAIN (p \o q) : i \notin DOMAIN p => i - Len(p) \in DOMAIN q
    BY <1>1
  <1>3. \A i \in DOMAIN q : i + Len(p) \in DOMAIN (p \o q)
    BY <1>1
  <1>4. \A i \in DOMAIN (p \o q) : (p \o q)[i] \in ToSet(p) \cup ToSet(q)
    <2> TAKE i \in DOMAIN (p \o q)
    <2>1. CASE i \in DOMAIN p
      BY <1>1, <2>1 DEF ToSet
    <2>2. CASE i \notin DOMAIN p
      <3>1. (p \o q)[i] = q[i - Len(p)]
        BY <1>1, <1>2, <2>2
      <3> QED
        BY <1>2, <2>2, <3>1 DEF ToSet
    <2> QED
      BY <2>1, <2>2
  <1>5. \A i \in DOMAIN p : p[i] \in ToSet(p \o q)
    BY <1>1 DEF ToSet
  <1>6. \A i \in DOMAIN q : q[i] \in ToSet(p \o q)
    BY <1>1, <1>3 DEF ToSet
  <1> QED
    BY <1>4, <1>5, <1>6, ConcatProperties DEF ToSet

LEMMA EmptyIs == ASSUME NEW X PROVE << >> \in Seq(X) /\ ToSet(<< >>) = {}
  BY DEF ToSet

LEMMA SingleIs == ASSUME NEW X, NEW a \in X PROVE <<a>> \in Seq(X) /\ ToSet(<<a>>) = {a}
  BY DEF ToSet

LEMMA PairIs ==
    ASSUME NEW X, NEW a \in X, NEW b \in X
    PROVE  <<a, b>> \in Seq(X) /\ ToSet(<<a, b>>) = {a, b}
  BY DEF ToSet

LEMMA TailIs ==
    ASSUME NEW X, NEW p \in Seq(X), p # << >>
    PROVE  /\ Head(p) \in ToSet(p) /\ Head(p) \in X /\ Head(p) = p[1] /\ Len(p) \in Nat \ {0}
           /\ Tail(p) \in Seq(X) /\ ToSet(Tail(p)) \subseteq ToSet(p)
           /\ ToSet(p) = {Head(p)} \cup ToSet(Tail(p))
           /\ Len(Tail(p)) = Len(p) - 1 /\ DOMAIN p = 1 .. Len(p)
           /\ DOMAIN Tail(p) = 1 .. Len(p) - 1
           /\ \A i \in DOMAIN Tail(p) : Tail(p)[i] = p[i + 1] /\ i + 1 \in DOMAIN p
           /\ Tail(p) = << >> <=> Len(p) = 1
  <1>1. /\ Len(p) \in Nat \ {0} /\ DOMAIN p = 1 .. Len(p) /\ Head(p) = p[1]
        /\ Tail(p) \in Seq(X) /\ Len(Tail(p)) = Len(p) - 1
        /\ DOMAIN Tail(p) = 1 .. Len(p) - 1
        /\ \A i \in 1 .. Len(p) - 1 : Tail(p)[i] = p[i + 1]
    BY HeadTailProperties, LenProperties, EmptySeq
  <1>2. Head(p) \in X /\ Head(p) \in ToSet(p)
    BY <1>1, ElementOfSeq DEF ToSet
  <1>3. \A i \in DOMAIN Tail(p) : Tail(p)[i] = p[i + 1] /\ i + 1 \in DOMAIN p
    BY <1>1
  <1>4. \A i \in DOMAIN p : i = 1 \/ (i - 1 \in DOMAIN Tail(p) /\ Tail(p)[i - 1] = p[i])
    BY <1>1
  <1>5. ToSet(p) = {Head(p)} \cup ToSet(Tail(p))
    <2>1. ASSUME NEW i \in DOMAIN p PROVE p[i] \in {Head(p)} \cup ToSet(Tail(p))
      BY <1>1, <1>4 DEF ToSet
    <2>2. ASSUME NEW i \in DOMAIN Tail(p) PROVE Tail(p)[i] \in ToSet(p)
      BY <1>3 DEF ToSet
    <2>3. ToSet(p) \subseteq {Head(p)} \cup ToSet(Tail(p))
      BY <2>1 DEF ToSet
    <2>4. ToSet(Tail(p)) \subseteq ToSet(p)
      BY <2>2 DEF ToSet
    <2> QED
      BY <1>2, <2>3, <2>4
  <1>6. Tail(p) = << >> <=> Len(p) = 1
    BY <1>1, EmptySeq
  <1> QED
    BY <1>1, <1>2, <1>3, <1>5, <1>6

\* The function that FlattenSeq is defined by.
LEMMA FlattenExists ==
    ASSUME NEW seqs, NEW N \in Nat
    PROVE  \E f : f = [i \in 1 .. N |-> IF i = 1 THEN seqs[i] ELSE f[i - 1] \o seqs[i]]
  <1> DEFINE At1(f, i) == IF i = 1 THEN seqs[i] ELSE f[i - 1] \o seqs[i]
             Good(k) == \E f : f = [i \in 1 .. k |-> At1(f, i)]
             Bad == {k \in Nat : ~Good(k)}
  <1>1. SUFFICES ASSUME Bad # {} PROVE FALSE
    OBVIOUS
  <1>2. PICK k \in Bad : \A j \in Bad : k <= j
    <2>1. Bad \subseteq Nat
      OBVIOUS
    <2> HIDE DEF Bad
    <2> QED
      BY <1>1, <2>1, LeastExists
  <1>3. k # 0
    <2>1. [i \in 1 .. 0 |-> seqs[1]] = [i \in 1 .. 0 |-> At1([j \in 1 .. 0 |-> seqs[1]], i)]
      OBVIOUS
    <2>2. Good(0)
      BY <2>1
    <2> QED
      BY <2>2
  <1>4. k \in Nat /\ k - 1 \in Nat /\ Good(k - 1)
    <2>1. k \in Nat
      OBVIOUS
    <2>2. k - 1 \in Nat /\ ~(k <= k - 1)
      BY <1>3, <2>1
    <2>3. k - 1 \notin Bad
      BY <1>2, <2>2
    <2> QED
      BY <2>1, <2>2, <2>3
  <1>5. PICK f : f = [i \in 1 .. k - 1 |-> At1(f, i)]
    BY <1>4
  <1> DEFINE more == [i \in 1 .. k |-> IF i = k THEN At1(f, k) ELSE f[i]]
  <1>6. \A i \in 1 .. k : more[i] = At1(more, i)
    <2> TAKE i \in 1 .. k
    <2>1. i # 1 => i - 1 \in 1 .. k - 1 /\ more[i - 1] = f[i - 1]
      BY <1>4
    <2>2. At1(more, i) = At1(f, i)
      BY <2>1
    <2>3. ASSUME i # k PROVE f[i] = At1(f, i)
      <3>1. i \in 1 .. k - 1
        BY <1>4, <2>3
      <3> QED
        BY <1>5, <3>1
    <2> QED
      BY <2>2, <2>3
  <1>7. more = [i \in 1 .. k |-> At1(more, i)]
    BY <1>6
  <1>8. Good(k)
    BY <1>7
  <1> QED
    BY <1>8

\* FlattenSeq holds what the sequences hold.
LEMMA FlattenIs ==
    ASSUME NEW X, NEW N \in Nat, NEW seqs \in [1 .. N -> Seq(X)]
    PROVE  /\ FlattenSeq(seqs) \in Seq(X)
           /\ ToSet(FlattenSeq(seqs)) = UNION {ToSet(seqs[i]) : i \in 1 .. N}
  <1>1. Len(seqs) = N /\ seqs \in Seq(Seq(X))
    BY SMT
  <1>2. CASE N = 0
    <2>1. FlattenSeq(seqs) = seqs /\ seqs = << >>
      BY <1>1, <1>2, EmptySeq DEF FlattenSeq
    <2> QED
      BY <1>2, <2>1, EmptyIs
  <1>3. CASE N # 0
    <2> DEFINE f == CHOOSE g : g = [i \in 1 .. N |-> IF i = 1 THEN seqs[i]
                                                     ELSE g[i - 1] \o seqs[i]]
    <2>1. f = [i \in 1 .. N |-> IF i = 1 THEN seqs[i] ELSE f[i - 1] \o seqs[i]]
      BY FlattenExists
    <2>2. FlattenSeq(seqs) = f[N]
      BY <1>1, <1>3, Zenon DEF FlattenSeq
    <2> HIDE DEF f
    <2> DEFINE Good(k) == f[k] \in Seq(X) /\ ToSet(f[k]) = UNION {ToSet(seqs[i]) : i \in 1 .. k}
               Bad == {k \in 1 .. N : ~Good(k)}
    <2>3. SUFFICES ASSUME Bad # {} PROVE FALSE
      <3>1. N \in 1 .. N
        BY <1>3
      <3>2. Bad = {} => Good(N)
        BY <3>1
      <3> QED
        BY <2>2, <3>2
    <2>4. PICK k \in Bad : \A j \in Bad : k <= j
      <3>1. Bad \subseteq Nat
        OBVIOUS
      <3> HIDE DEF Bad
      <3> QED
        BY <2>3, <3>1, LeastExists
    <2>5. k # 1
      <3>1. f[1] = seqs[1] /\ seqs[1] \in Seq(X)
        BY <1>3, <2>1
      <3>2. UNION {ToSet(seqs[i]) : i \in 1 .. 1} = ToSet(seqs[1])
        OBVIOUS
      <3>3. Good(1)
        BY <3>1, <3>2
      <3> QED
        BY <3>3
    <2>6. k - 1 \in 1 .. N /\ Good(k - 1) /\ k \in 1 .. N
      <3>1. k \in 1 .. N
        OBVIOUS
      <3>2. k - 1 \in 1 .. N /\ ~(k <= k - 1)
        BY <2>5, <3>1
      <3>3. k - 1 \notin Bad
        BY <2>4, <3>2
      <3> QED
        BY <3>1, <3>2, <3>3
    <2>7. f[k] = f[k - 1] \o seqs[k] /\ seqs[k] \in Seq(X)
      BY <2>1, <2>5, <2>6
    <2>8. f[k] \in Seq(X) /\ ToSet(f[k]) = ToSet(f[k - 1]) \cup ToSet(seqs[k])
      BY <2>6, <2>7, Concatenated
    <2>9. 1 .. k = (1 .. k - 1) \cup {k}
      BY <2>6
    <2>10. UNION {ToSet(seqs[i]) : i \in 1 .. k}
             = (UNION {ToSet(seqs[i]) : i \in 1 .. k - 1}) \cup ToSet(seqs[k])
      BY <2>9
    <2>11. Good(k)
      BY <2>6, <2>8, <2>10
    <2> QED
      BY <2>11
  <1> QED
    BY <1>2, <1>3

\* SetToSeq lists every member.
LEMMA ListIs ==
    ASSUME NEW A, IsFiniteSet(A)
    PROVE  /\ Cardinality(A) \in Nat
           /\ SetToSeq(A) \in [1 .. Cardinality(A) -> A]
           /\ \A a \in A : \E i \in 1 .. Cardinality(A) : SetToSeq(A)[i] = a
  <1> DEFINE n == Cardinality(A)
  <1>1. n \in Nat /\ ExistsBijection(1 .. n, A)
    BY FS_CardinalityType
  <1>2. \E f \in [1 .. n -> A] : IsInjective(f)
    BY <1>1 DEF ExistsBijection, Bijection, Injection
  <1>3. SetToSeq(A) \in [1 .. n -> A] /\ IsInjective(SetToSeq(A))
    BY <1>2 DEF SetToSeq
  <1>4. SetToSeq(A) \in Injection(1 .. n, A)
    BY <1>3 DEF Injection
  <1>5. IsFiniteSet(1 .. n) /\ Cardinality(1 .. n) = n
    BY <1>1, FS_Interval
  <1>6. SetToSeq(A) \in Surjection(1 .. n, A)
    BY <1>4, <1>5, FS_Injection
  <1> QED
    BY <1>1, <1>3, <1>6 DEF Surjection

\* ForEach, for the steps that a function gives.
LEMMA EachIs ==
    ASSUME NEW X, NEW A, IsFiniteSet(A), NEW f \in [A -> Seq(X)]
    PROVE  LET p == FlattenSeq([i \in 1 .. Cardinality(A) |-> f[SetToSeq(A)[i]]]) IN
           p \in Seq(X) /\ ToSet(p) = UNION {ToSet(f[a]) : a \in A}
  <1> DEFINE n == Cardinality(A)
             at == SetToSeq(A)
             seqs == [i \in 1 .. n |-> f[at[i]]]
  <1>1. n \in Nat /\ at \in [1 .. n -> A] /\ \A a \in A : \E i \in 1 .. n : at[i] = a
    BY ListIs
  <1> HIDE DEF n, at
  <1>2. seqs \in [1 .. n -> Seq(X)]
    BY <1>1
  <1>3. UNION {ToSet(seqs[i]) : i \in 1 .. n} = UNION {ToSet(f[a]) : a \in A}
    BY <1>1
  <1>4. /\ FlattenSeq(seqs) \in Seq(X)
        /\ ToSet(FlattenSeq(seqs)) = UNION {ToSet(seqs[i]) : i \in 1 .. n}
    <2> HIDE DEF seqs
    <2> QED
      BY <1>1, <1>2, FlattenIs
  <1> QED
    BY <1>3, <1>4 DEF n, at

\* A plan whose last step, and no other, is one of ops.
EndsWith(p, ops) == \A i \in DOMAIN p : p[i].op \in ops <=> i = Len(p)

LEMMA EndsIs ==
    ASSUME NEW X, NEW p \in Seq(X), NEW z \in X, NEW ops, z.op \in ops,
           \A x \in ToSet(p) : x.op \notin ops
    PROVE  EndsWith(p \o <<z>>, ops) /\ p \o <<z>> # << >>
  <1> DEFINE q == p \o <<z>>
  <1>1. /\ Len(p) \in Nat /\ Len(q) = Len(p) + 1 /\ DOMAIN q = 1 .. Len(p) + 1
        /\ \A i \in 1 .. Len(p) : q[i] = p[i]
        /\ q[Len(p) + 1] = z /\ DOMAIN p = 1 .. Len(p)
    OBVIOUS
  <1> HIDE DEF q
  <1>2. \A i \in DOMAIN q : q[i].op \in ops <=> i = Len(q)
    <2> TAKE i \in DOMAIN q
    <2>1. CASE i = Len(q)
      BY <1>1, <2>1
    <2>2. CASE i # Len(q)
      <3>1. i \in DOMAIN p /\ q[i] = p[i]
        BY <1>1, <2>2
      <3> QED
        BY <2>2, <3>1 DEF ToSet
    <2> QED
      BY <2>1, <2>2
  <1>3. q # << >>
    BY <1>1
  <1> QED
    BY <1>2, <1>3 DEF EndsWith, q

LEMMA EndsTail ==
    ASSUME NEW X, NEW p \in Seq(X), p # << >>, NEW ops, EndsWith(p, ops)
    PROVE  EndsWith(Tail(p), ops) /\ (Head(p).op \in ops <=> Tail(p) = << >>)
  <1>1. /\ Len(p) \in Nat \ {0} /\ DOMAIN p = 1 .. Len(p) /\ Head(p) = p[1]
        /\ Len(Tail(p)) = Len(p) - 1 /\ DOMAIN Tail(p) = 1 .. Len(p) - 1
        /\ \A i \in DOMAIN Tail(p) : Tail(p)[i] = p[i + 1] /\ i + 1 \in DOMAIN p
        /\ Tail(p) = << >> <=> Len(p) = 1
    BY TailIs
  <1>2. \A i \in DOMAIN Tail(p) : Tail(p)[i].op \in ops <=> i + 1 = Len(p)
    BY <1>1 DEF EndsWith
  <1>3. Head(p).op \in ops <=> 1 = Len(p)
    BY <1>1 DEF EndsWith
  <1> QED
    BY <1>1, <1>2, <1>3 DEF EndsWith

(***************************************************************************)
(* The steps of a plan.                                                    *)
(***************************************************************************)
\* A manifest lists no unit file of its service and no datasource but the
\* dashboard's.
OfDash(file) == file[1] = "source" => file[2] = Dash
Listable(v, t) == <<"quadlet", t>> \notin v /\ \A file \in v : OfDash(file)
Manifests(t) == {v \in SUBSET (Files \X Services) : Listable(v, t)}
Orders == {"start", "restart", "takedown", "purge", "preserve", "wipe"}

Values ==
    (SUBSET Services) \cup Record \cup [Services -> Urls] \cup [Services -> SUBSET Urls]
    \cup {TRUE, FALSE} \cup (SUBSET (Files \X Services)) \cup (Files \X Services)

StepTyped(x) ==
    \/ x.op = "quadlet" /\ x.of \in Services /\ x.val \subseteq Services
    \/ x.op = "record" /\ x.of \in Services /\ x.val \in Record
    \/ x.op = "caddyfile" /\ x.of = Proxy /\ x.val \in [Services -> Urls]
    \/ x.op = "clients" /\ x.of = Idp /\ x.val \in [Services -> SUBSET Urls]
    \/ x.op = "snippet" /\ x.of = Proxy /\ x.val = TRUE
    \/ x.op = "target" /\ x.of \in Metrics /\ (x.val = TRUE \/ x.val = FALSE)
    \/ x.op = "source" /\ x.of = Dash /\ (x.val = TRUE \/ x.val = FALSE)
    \/ x.op = "manifest" /\ x.of \in Services /\ x.val \in Manifests(x.of)
    \/ x.op = "drop" /\ x.of \in Services /\ x.val \in Files \X Services
    \/ x.op \in Orders /\ x.of \in Services /\ x.val = {}

AllSteps ==
    {x \in [op : Files \cup Orders \cup {"record", "manifest", "drop"}, of : Services, val : Values] :
        StepTyped(x)}

LEMMA StepsTyped ==
    ASSUME NEW x \in AllSteps
    PROVE  StepTyped(x) /\ x = Step(x.op, x.of, x.val) /\ x.of \in Services
  BY DEF AllSteps, Step

LEMMA StepMade ==
    ASSUME NEW op \in Files \cup Orders \cup {"record", "manifest", "drop"}, NEW t \in Services,
           NEW v \in Values, StepTyped(Step(op, t, v))
    PROVE  Step(op, t, v) \in AllSteps
  BY DEF AllSteps, Step

LEMMA ProvidersApart ==
    /\ {Proxy, Idp, Relay, Store, Dash} \subseteq Services
    /\ Proxy # Idp /\ Proxy # Relay /\ Proxy # Store /\ Proxy # Dash /\ Idp # Relay
    /\ Idp # Store /\ Idp # Dash /\ Relay # Store /\ Relay # Dash /\ Store # Dash
    /\ Native \cap Providers = {}
  <1> DEFINE five == <<Proxy, Idp, Relay, Store, Dash>>
  <1>1. \A i, j \in 1 .. 5 : five[i] = five[j] => i = j
    BY WiringConstants DEF IsInjective
  <1>2. five[1] # five[2] /\ five[1] # five[3] /\ five[1] # five[4] /\ five[1] # five[5]
    BY <1>1
  <1>3. five[2] # five[3] /\ five[2] # five[4] /\ five[2] # five[5]
    BY <1>1
  <1>4. five[3] # five[4] /\ five[3] # five[5] /\ five[4] # five[5]
    BY <1>1
  <1> QED
    BY <1>2, <1>3, <1>4, WiringConstants DEF Providers

LEMMA StepsMade ==
    /\ \A t \in Services, v \in SUBSET Services : Step("quadlet", t, v) \in AllSteps
    /\ \A t \in Services, v \in Record : Step("record", t, v) \in AllSteps
    /\ \A v \in [Services -> Urls] : Step("caddyfile", Proxy, v) \in AllSteps
    /\ \A v \in [Services -> SUBSET Urls] : Step("clients", Idp, v) \in AllSteps
    /\ Step("snippet", Proxy, TRUE) \in AllSteps
    /\ \A t \in Metrics : Step("target", t, TRUE) \in AllSteps /\ Step("target", t, FALSE) \in AllSteps
    /\ Step("source", Dash, TRUE) \in AllSteps /\ Step("source", Dash, FALSE) \in AllSteps
    /\ \A t \in Services : \A v \in Manifests(t) : Step("manifest", t, v) \in AllSteps
    /\ \A t \in Services, v \in Files \X Services : Step("drop", t, v) \in AllSteps
    /\ \A t \in Services, op \in Orders : Step(op, t, {}) \in AllSteps
  <1>1. \A t \in Services, v \in SUBSET Services : Step("quadlet", t, v) \in AllSteps
    BY ProvidersApart, WiringConstants, StepMade DEF StepTyped, Step, Values, Files, Orders, Manifests
  <1>2. \A t \in Services, v \in Record : Step("record", t, v) \in AllSteps
    BY ProvidersApart, WiringConstants, StepMade DEF StepTyped, Step, Values, Files, Orders, Manifests
  <1>3. \A v \in [Services -> Urls] : Step("caddyfile", Proxy, v) \in AllSteps
    BY ProvidersApart, WiringConstants, StepMade DEF StepTyped, Step, Values, Files, Orders, Manifests
  <1>4. \A v \in [Services -> SUBSET Urls] : Step("clients", Idp, v) \in AllSteps
    BY ProvidersApart, WiringConstants, StepMade DEF StepTyped, Step, Values, Files, Orders, Manifests
  <1>5. Step("snippet", Proxy, TRUE) \in AllSteps
    BY ProvidersApart, WiringConstants, StepMade DEF StepTyped, Step, Values, Files, Orders, Manifests
  <1>6. \A t \in Metrics : Step("target", t, TRUE) \in AllSteps /\ Step("target", t, FALSE) \in AllSteps
    BY ProvidersApart, WiringConstants, StepMade DEF StepTyped, Step, Values, Files, Orders, Manifests
  <1>7. Step("source", Dash, TRUE) \in AllSteps /\ Step("source", Dash, FALSE) \in AllSteps
    BY ProvidersApart, WiringConstants, StepMade DEF StepTyped, Step, Values, Files, Orders, Manifests
  <1>8. \A t \in Services : \A v \in Manifests(t) : Step("manifest", t, v) \in AllSteps
    BY ProvidersApart, WiringConstants, StepMade DEF StepTyped, Step, Values, Files, Orders, Manifests
  <1>9. \A t \in Services, v \in Files \X Services : Step("drop", t, v) \in AllSteps
    BY ProvidersApart, WiringConstants, StepMade DEF StepTyped, Step, Values, Files, Orders, Manifests
  <1>10. \A t \in Services, op \in Orders : Step(op, t, {}) \in AllSteps
    BY ProvidersApart, WiringConstants, StepMade DEF StepTyped, Step, Values, Files, Orders, Manifests
  <1> QED
    BY <1>1, <1>2, <1>3, <1>4, <1>5, <1>6, <1>7, <1>8, <1>9, <1>10

LEMMA SeqMono == ASSUME NEW A, NEW B, A \subseteq B, NEW p \in Seq(A) PROVE p \in Seq(B)
  BY SMT

LEMMA None == ASSUME NEW X PROVE << >> \in Seq(X)
  OBVIOUS

LEMMA One == ASSUME NEW X, NEW a \in X PROVE <<a>> \in Seq(X)
  OBVIOUS

LEMMA Chained ==
    ASSUME NEW X, NEW p \in Seq(X), NEW q \in Seq(X)
    PROVE  p \o q \in Seq(X)
  OBVIOUS

LEMMA Longer ==
    ASSUME NEW X, NEW p \in Seq(X), NEW q \in Seq(X), p # << >>
    PROVE  p \o q \in Seq(X) /\ p \o q # << >> /\ Head(p \o q) = Head(p)
  <1>1. Len(p) \in Nat \ {0} /\ Len(q) \in Nat
    BY EmptySeq, LenProperties
  <1>2. Len(p \o q) = Len(p) + Len(q) /\ (p \o q)[1] = p[1]
    BY <1>1
  <1>3. p \o q \in Seq(X) /\ p \o q # << >>
    BY <1>1, <1>2
  <1> QED
    BY <1>2, <1>3, HeadTailProperties

LEMMA Appended ==
    ASSUME NEW X, NEW p \in Seq(X), NEW z \in X
    PROVE  p \o <<z>> \in Seq(X) /\ ToSet(p \o <<z>>) = ToSet(p) \cup {z}
  <1> DEFINE q == <<z>>
  <1>1. q \in Seq(X) /\ ToSet(q) = {z}
    BY SingleIs
  <1>2. p \o q \in Seq(X) /\ ToSet(p \o q) = ToSet(p) \cup ToSet(q)
    <2> HIDE DEF q
    <2> QED
      BY <1>1, Concatenated
  <1> QED
    BY <1>1, <1>2

(***************************************************************************)
(* The invariant.  Every file lies in the home of its service; a command's *)
(* plan holds only the steps of its kind.                                  *)
(***************************************************************************)
Housed ==
    /\ \A t \in Services \ Native : quadlet[t].present => t \in home
    /\ caddyfile # NoFile => Proxy \in home
    /\ clients # NoFile => Idp \in home
    /\ targets # {} => Store \in home
    /\ sources # {} => Dash \in home

Homed(x) == /\ x.op = "caddyfile" => Proxy \in home
            /\ x.op = "clients" => Idp \in home

\* The step leaves the routes and clients of all but s as they are.
Keeps(x, s) ==
    /\ x.op = "caddyfile" => \A t \in Services \ {s, Idp} : x.val[t] = RouteOf(t)
    /\ x.op = "clients" => \A t \in Services \ {s} : x.val[t] = ClientOf(t)

\* What it writes for s itself: as it is, what r asks for, or nothing.
Owned(x, s, r) ==
    /\ x.op = "caddyfile" /\ s # Idp =>
         \/ x.val[s] \in {RouteOf(s), "none"}
         \/ Routed(r) /\ s # Proxy /\ x.val[s] = r.url
    /\ x.op = "clients" => r.auth \/ x.val[s] = {}

ClientSteps(s) ==
    {x \in AllSteps :
        /\ x.op \in {"clients", "restart"} /\ Homed(x) /\ Keeps(x, s)
        /\ x.op = "clients" => x.val[s] = {}}

SharedSteps(s, r) ==
    {x \in AllSteps :
        /\ x.op \in {"quadlet", "caddyfile", "clients", "restart"}
        /\ x.op \in {"quadlet", "caddyfile"} => x.of = Proxy /\ Installed(Proxy)
        /\ Homed(x) /\ Keeps(x, s) /\ Owned(x, s, r)}

WireSteps(s) ==
    {x \in AllSteps :
        /\ x.op \in Files \cup {"restart", "manifest", "start"}
        /\ x.op = "quadlet" => x.of # s /\ Installed(x.of)
        /\ x.op = "source" => /\ x.val = TRUE
                              /\ s \in {Dash, Store}
                              /\ s = Store => Installed(Dash)
                              /\ s = Dash => Installed(Store)
        /\ x.op = "target" => (x.of = s /\ Store \in home) \/ (s = Store /\ Installed(x.of))
        /\ x.op = "manifest" => x.of = s
        /\ Homed(x) /\ Keeps(x, s)}

OwnRecord(x, s) == x.op = "record" /\ x.of = s
OwnQuadlet(x, s) == x.op = "quadlet" /\ x.of = s

NativeSteps(s) ==
    {x \in AllSteps :
        /\ OwnRecord(x, s) \/ OwnQuadlet(x, s) \/ x.op \in {"start", "caddyfile"}
        /\ Homed(x) /\ Keeps(x, s)}

Finals == {"purge", "preserve"}

RemoveSteps(s) ==
    {x \in AllSteps :
        /\ x.op \in {"takedown", "caddyfile", "clients", "restart", "target", "source"} \cup Finals
        /\ x.op \in {"takedown"} \cup Finals => x.of = s
        /\ x.op = "caddyfile" => s # Proxy /\ x.val[s] = "none"
        /\ x.op = "clients" => s # Idp /\ x.val[s] = {}
        /\ x.op = "target" => s # Store /\ x.of = s /\ x.val = FALSE
        /\ x.op = "source" => s = Store /\ Installed(Dash) /\ x.val = FALSE
        /\ Homed(x) /\ Keeps(x, s)}

ConfigureSteps(s) ==
    {x \in AllSteps :
        /\ x.op \in {"quadlet", "record", "caddyfile", "clients", "manifest", "drop", "restart"}
        /\ x.op \in {"record", "manifest"} => x.of = s
        /\ x.op = "quadlet" => x.of \in {s, Proxy}
        /\ x.op = "drop" => x.val # <<"quadlet", s>> /\ OfDash(x.val)
        /\ Homed(x)}

ResetSteps == {x \in AllSteps : x.op \in {"takedown", "wipe"}}

(***************************************************************************)
(* The pieces of plans.                                                    *)
(***************************************************************************)
LEMMA FilesTyped ==
    ASSUME TypeOK
    PROVE  /\ caddyfile # NoFile => caddyfile \in [Services -> Urls]
           /\ clients # NoFile => clients \in [Services -> SUBSET Urls]
           /\ quadlet \in [Services -> Networks]
           /\ \A t \in Services : quadlet[t].networks \subseteq Services
           /\ record \in [Services -> Record] /\ recorded \subseteq home
           /\ \A t \in Services : record[t] \in Record /\ record[t].url \in Urls
           /\ targets \subseteq Metrics /\ sources \subseteq {Dash}
           /\ listed \in [Services -> SUBSET (Files \X Services)]
  BY DEF TypeOK, Networks, Record

LEMMA RouteIs ==
    ASSUME TypeOK, Housed, NEW s \in Services, NEW r \in Record, Routable(s, r)
    PROVE  /\ RouteSteps(s, r) \in Seq(SharedSteps(s, r))
           /\ Routed(r) /\ s # Proxy /\ Installed(Proxy)
                => Step("caddyfile", Proxy, WithRoute(s, r.url)) \in ToSet(RouteSteps(s, r))
  <1>1. CASE Routed(r) /\ s # Proxy /\ Installed(Proxy)
    <2> DEFINE x == Step("caddyfile", Proxy, WithRoute(s, r.url))
    <2>1. caddyfile \in [Services -> Urls] /\ Proxy \in home
      BY <1>1, FilesTyped DEF Routable, Housed
    <2>2. WithRoute(s, r.url) \in [Services -> Urls]
      BY <2>1 DEF WithRoute, Record
    <2>3. x \in AllSteps
      BY <2>2, StepsMade
    <2>4. Homed(x) /\ Keeps(x, s)
      BY <1>1, <2>1 DEF Homed, Keeps, Step, WithRoute, RouteOf, Routable
    <2>5. Owned(x, s, r)
      BY <1>1, <2>1 DEF Owned, Step, WithRoute
    <2>6. x \in SharedSteps(s, r)
      BY <1>1, <2>3, <2>4, <2>5 DEF SharedSteps, Step
    <2>7. RouteSteps(s, r) = <<x>>
      BY <1>1 DEF RouteSteps, When
    <2> HIDE DEF x
    <2> QED
      BY <2>6, <2>7, SingleIs DEF x
  <1>2. CASE ~(Routed(r) /\ s # Proxy /\ Installed(Proxy))
    BY <1>2 DEF RouteSteps, When
  <1> QED
    BY <1>1, <1>2

LEMMA IssuerIs ==
    ASSUME TypeOK, Housed, NEW s \in Services, NEW r, Installed(Proxy) => caddyfile # NoFile
    PROVE  IssuerSteps \in Seq(SharedSteps(s, r))
  <1>1. CASE Installed(Proxy) /\ record[Idp].url # "none"
    <2> DEFINE x == Step("quadlet", Proxy, quadlet[Proxy].networks \cup {Idp})
               y == Step("caddyfile", Proxy, WithRoute(Idp, record[Idp].url))
               z == Step("restart", Proxy, {})
               joined == Idp \in quadlet[Proxy].networks
               served == caddyfile[Idp] # "none"
    <2>1. caddyfile \in [Services -> Urls] /\ Proxy \in home
      BY <1>1, FilesTyped DEF Housed
    <2>2. WithRoute(Idp, record[Idp].url) \in [Services -> Urls]
      BY <2>1, FilesTyped, ProvidersApart DEF WithRoute
    <2>3. x \in AllSteps /\ y \in AllSteps /\ z \in AllSteps
      BY <2>2, StepsMade, FilesTyped, ProvidersApart DEF Orders
    <2>4. Homed(y) /\ Keeps(y, s) /\ Owned(y, s, r)
      <3>1. Homed(y) /\ Keeps(y, s)
        BY <1>1, <2>1 DEF Homed, Keeps, Step, WithRoute, RouteOf
      <3>2. s # Idp => y.val[s] = RouteOf(s)
        BY <1>1, <2>1 DEF Step, WithRoute, RouteOf
      <3>3. y.op = "caddyfile" /\ y.op # "clients"
        BY DEF Step
      <3> HIDE DEF y
      <3>4. Owned(y, s, r)
        BY <3>2, <3>3 DEF Owned
      <3> QED
        BY <3>1, <3>4
    <2>5. x \in SharedSteps(s, r) /\ y \in SharedSteps(s, r) /\ z \in SharedSteps(s, r)
      BY <1>1, <2>3, <2>4 DEF SharedSteps, Step, Homed, Keeps, Owned
    <2>6. IssuerSteps = When(~joined, <<x>>) \o When(~served, <<y>>) \o When(~joined \/ ~served, <<z>>)
      BY <1>1 DEF IssuerSteps, When
    <2> HIDE DEF x, y, z, joined, served
    <2>7. /\ When(~joined, <<x>>) \in Seq(SharedSteps(s, r)) /\ When(~served, <<y>>) \in Seq(SharedSteps(s, r))
          /\ When(~joined \/ ~served, <<z>>) \in Seq(SharedSteps(s, r))
      BY <2>5 DEF When
    <2>8. When(~joined, <<x>>) \o When(~served, <<y>>) \in Seq(SharedSteps(s, r))
      BY <2>7, Chained
    <2> QED
      BY <2>6, <2>7, <2>8, Chained
  <1>2. CASE ~(Installed(Proxy) /\ record[Idp].url # "none")
    BY <1>2 DEF IssuerSteps, When
  <1> QED
    BY <1>1, <1>2

LEMMA RegisterIs ==
    ASSUME TypeOK, Housed, NEW s \in Services, NEW url \in Urls, NEW r, r.auth, clients # NoFile,
           Installed(Proxy) => caddyfile # NoFile
    PROVE  RegisterSteps(s, url) \in Seq(SharedSteps(s, r)) /\ ReregisterSteps(s, url) \in Seq(SharedSteps(s, r))
  <1> DEFINE x == Step("clients", Idp, [clients EXCEPT ![s] = @ \cup {url}])
             y == Step("clients", Idp, [clients EXCEPT ![s] = IF @ = {} THEN {url} ELSE @])
             z == Step("restart", Idp, {})
  <1>1. clients \in [Services -> SUBSET Urls] /\ Idp \in home
    BY FilesTyped DEF Housed
  <1>2. /\ [clients EXCEPT ![s] = @ \cup {url}] \in [Services -> SUBSET Urls]
        /\ [clients EXCEPT ![s] = IF @ = {} THEN {url} ELSE @] \in [Services -> SUBSET Urls]
    BY <1>1
  <1>3. x \in AllSteps /\ y \in AllSteps /\ z \in AllSteps
    BY <1>2, StepsMade, ProvidersApart DEF Orders
  <1>4. Homed(x) /\ Keeps(x, s) /\ Homed(y) /\ Keeps(y, s)
    BY <1>1 DEF Homed, Keeps, Step, ClientOf
  <1>5. x \in SharedSteps(s, r) /\ y \in SharedSteps(s, r) /\ z \in SharedSteps(s, r)
    BY <1>3, <1>4 DEF SharedSteps, Step, Homed, Keeps, Owned
  <1>6. RegisterSteps(s, url) = <<x, z>> \o IssuerSteps /\ ReregisterSteps(s, url) = <<y, z>> \o IssuerSteps
    BY DEF RegisterSteps, ReregisterSteps
  <1> HIDE DEF x, y, z
  <1>7. <<x, z>> \in Seq(SharedSteps(s, r)) /\ <<y, z>> \in Seq(SharedSteps(s, r))
    BY <1>5
  <1> QED
    BY <1>6, <1>7, IssuerIs

\* The step that takes the client of s out.
Forgets(s) == Step("clients", Idp, [clients EXCEPT ![s] = {}])

LEMMA UnregisterIs ==
    ASSUME TypeOK, Housed, NEW s \in Services
    PROVE  /\ UnregisterSteps(s) \in Seq(ClientSteps(s))
           /\ ClientOf(s) # {} => Forgets(s) \in ToSet(UnregisterSteps(s))
  <1>1. CASE clients # NoFile /\ clients[s] # {}
    <2> DEFINE x == Step("clients", Idp, [clients EXCEPT ![s] = {}])
               z == Step("restart", Idp, {})
    <2>1. clients \in [Services -> SUBSET Urls] /\ Idp \in home
      BY <1>1, FilesTyped DEF Housed
    <2>2. x \in AllSteps /\ z \in AllSteps
      BY <2>1, StepsMade, ProvidersApart DEF Orders
    <2>3. Homed(x) /\ Keeps(x, s)
      BY <1>1, <2>1 DEF Homed, Keeps, Step, ClientOf
    <2>4. x \in ClientSteps(s) /\ z \in ClientSteps(s)
      BY <1>1, <2>1, <2>2, <2>3 DEF ClientSteps, Step, Homed, Keeps
    <2> HIDE DEF x, z
    <2>5. <<x, z>> \in Seq(ClientSteps(s)) /\ x \in ToSet(<<x, z>>)
      BY <2>4, PairIs
    <2>6. UnregisterSteps(s) = <<x, z>>
      BY <1>1 DEF UnregisterSteps, When, x, z
    <2> QED
      BY <2>5, <2>6 DEF x, Forgets
  <1>2. CASE ~(clients # NoFile /\ clients[s] # {})
    BY <1>2 DEF UnregisterSteps, When, ClientOf
  <1> QED
    BY <1>1, <1>2

LEMMA SharedWires ==
    ASSUME NEW s, NEW r, ~Installed(s)
    PROVE  SharedSteps(s, r) \subseteq WireSteps(s)
  BY DEF SharedSteps, WireSteps, Files

LEMMA JoinIs ==
    ASSUME TypeOK, NEW s \in Services, NEW n \in Services,
           NEW t \in Services, Installed(t), t # s
    PROVE  JoinSteps(t, n) \in Seq(WireSteps(s))
  <1> DEFINE x == Step("quadlet", t, quadlet[t].networks \cup {n})
             z == Step("restart", t, {})
  <1>1. x \in AllSteps /\ z \in AllSteps
    BY StepsMade, FilesTyped DEF Orders
  <1>2. x \in WireSteps(s) /\ z \in WireSteps(s)
    BY <1>1 DEF WireSteps, Step, Homed, Keeps, Files
  <1> HIDE DEF x, z
  <1>3. <<x, z>> \in Seq(WireSteps(s))
    BY <1>2
  <1> QED
    BY <1>3 DEF JoinSteps, When, x, z

LEMMA RetroJoinsIs ==
    ASSUME TypeOK, NEW s \in Services, ~Installed(s)
    PROVE  RetroJoins(s) \in Seq(WireSteps(s))
  <1> DEFINE A == {t \in Services \ Providers :
                     /\ Installed(t)
                     /\ \/ s = Proxy /\ Routed(record[t])
                        \/ s = Relay /\ record[t].smtp}
             f == [t \in A |-> JoinSteps(t, s)]
             seqs == [i \in 1 .. Cardinality(A) |-> JoinSteps(SetToSeq(A)[i], s)]
  <1>1. IsFiniteSet(A)
    BY WiringConstants, FS_Subset
  <1>2. RetroJoins(s) = FlattenSeq(seqs)
    BY DEF RetroJoins, ForEach
  <1>3. f \in [A -> Seq(WireSteps(s))]
    BY JoinIs
  <1> HIDE DEF A
  <1>4. seqs = [i \in 1 .. Cardinality(A) |-> f[SetToSeq(A)[i]]]
    BY <1>1, ListIs
  <1> HIDE DEF f, seqs
  <1> QED
    BY <1>1, <1>2, <1>3, <1>4, EachIs

LEMMA ConsumerIs ==
    ASSUME TypeOK, Housed, NEW s \in Services
    PROVE  ConsumerSteps(s) \in Seq(WireSteps(s))
  <1> DEFINE p == When(Installed(Store) /\ s \in Metrics, << Step("target", s, TRUE) >>)
             q == When(Installed(Store) /\ s = Dash, << Step("source", s, TRUE) >>)
  <1>1. p \in Seq(WireSteps(s))
    <2>1. CASE Installed(Store) /\ s \in Metrics
      <3>1. Step("target", s, TRUE) \in AllSteps /\ Store \in home
        BY <2>1, StepsMade, FilesTyped DEF Installed
      <3>2. Step("target", s, TRUE) \in WireSteps(s)
        BY <3>1 DEF WireSteps, Step, Homed, Keeps, Files
      <3> QED
        BY <2>1, <3>2, One, Zenon DEF When
    <2>2. CASE ~(Installed(Store) /\ s \in Metrics)
      BY <2>2, None, Zenon DEF When
    <2> QED
      BY <2>1, <2>2
  <1>2. q \in Seq(WireSteps(s))
    <2>1. CASE Installed(Store) /\ s = Dash
      <3>1. Step("source", s, TRUE) \in WireSteps(s)
        BY <2>1, StepsMade, ProvidersApart DEF WireSteps, Step, Homed, Keeps, Files
      <3> QED
        BY <2>1, <3>1, One, Zenon DEF When
    <2>2. CASE ~(Installed(Store) /\ s = Dash)
      BY <2>2, None, Zenon DEF When
    <2> QED
      BY <2>1, <2>2
  <1>3. ConsumerSteps(s) = p \o q
    BY DEF ConsumerSteps
  <1> QED
    BY <1>1, <1>2, <1>3, Chained

LEMMA RetroMetricsIs ==
    ASSUME TypeOK, Housed, NEW s \in Services, ~Installed(s)
    PROVE  RetroMetrics(s) \in Seq(WireSteps(s))
  <1>1. CASE s = Store
    <2> DEFINE A == {t \in Metrics \ {s} : Installed(t)}
               part(t) == << Step("target", t, TRUE) >> \o When(t \notin HostNet, JoinSteps(t, Store))
               f == [t \in A |-> part(t)]
               seqs == [i \in 1 .. Cardinality(A) |-> part(SetToSeq(A)[i])]
               dash == << Step("source", Dash, TRUE) >>
               join == JoinSteps(Dash, Store)
               again == When(Store \in quadlet[Dash].networks, << Step("restart", Dash, {}) >>)
    <2>1. IsFiniteSet(A)
      BY WiringConstants, FS_Subset
    <2>2. ASSUME NEW t \in A PROVE part(t) \in Seq(WireSteps(s))
      <3>1. t \in Services /\ Installed(t) /\ t # s /\ t \in Metrics
        BY WiringConstants
      <3>2. Step("target", t, TRUE) \in WireSteps(s)
        BY <1>1, <3>1, StepsMade DEF WireSteps, Step, Homed, Keeps, Files
      <3>3. << Step("target", t, TRUE) >> \in Seq(WireSteps(s))
        BY <3>2, One, Zenon
      <3>4. JoinSteps(t, Store) \in Seq(WireSteps(s))
        BY <1>1, <3>1, JoinIs
      <3>5. When(t \notin HostNet, JoinSteps(t, Store)) \in Seq(WireSteps(s))
        BY <3>4, None, Zenon DEF When
      <3> QED
        BY <3>3, <3>5, Chained
    <2>3. f \in [A -> Seq(WireSteps(s))]
      BY <2>2
    <2> HIDE DEF A
    <2>4. seqs = [i \in 1 .. Cardinality(A) |-> f[SetToSeq(A)[i]]]
      BY <2>1, ListIs
    <2>5. FlattenSeq(seqs) \in Seq(WireSteps(s))
      <3> HIDE DEF f, seqs
      <3> QED
        BY <2>1, <2>3, <2>4, EachIs
    <2>6. RetroMetrics(s) = FlattenSeq(seqs) \o When(Installed(Dash), dash \o join \o again)
      BY <1>1 DEF RetroMetrics, ForEach, When, A
    <2>7. CASE Installed(Dash)
      <3>1. Step("source", Dash, TRUE) \in WireSteps(s) /\ Step("restart", Dash, {}) \in WireSteps(s)
        BY <1>1, <2>7, StepsMade, ProvidersApart DEF WireSteps, Step, Homed, Keeps, Files, Orders
      <3>2. dash \in Seq(WireSteps(s)) /\ again \in Seq(WireSteps(s))
        BY <3>1, One, None, Zenon DEF When
      <3>3. join \in Seq(WireSteps(s))
        BY <1>1, <2>7, JoinIs, ProvidersApart
      <3> HIDE DEF dash, join, again, seqs
      <3>4. dash \o join \in Seq(WireSteps(s))
        BY <3>2, <3>3, Chained
      <3>5. dash \o join \o again \in Seq(WireSteps(s))
        BY <3>2, <3>4, Chained
      <3> QED
        BY <2>5, <2>6, <2>7, <3>5, Chained DEF When
    <2>8. CASE ~Installed(Dash)
      <3>1. When(Installed(Dash), dash \o join \o again) = << >>
        BY <2>8 DEF When
      <3>2. << >> \in Seq(WireSteps(s))
        OBVIOUS
      <3> HIDE DEF dash, join, again, seqs
      <3> QED
        BY <2>5, <2>6, <3>1, <3>2, Chained
    <2> QED
      BY <2>7, <2>8
  <1>2. CASE s # Store
    BY <1>2, None, Zenon DEF RetroMetrics, When
  <1> QED
    BY <1>1, <1>2

LEMMA WrittenIs ==
    ASSUME NEW p \in Seq(AllSteps), NEW s \in Services
    PROVE  Written(p, s) \in Manifests(s)
  <1>1. \A x \in ToSet(p) : x \in AllSteps
    BY ElementOfSeq, LenProperties DEF ToSet
  <1>2. \A x \in ToSet(p) : x.of \in Services /\ (x.op = "source" => x.of = Dash)
    BY <1>1, StepsTyped DEF StepTyped, Orders
  <1> QED
    BY <1>2 DEF Written, FileOf, Manifests, Files, Listable, OfDash

LEMMA WiringIs ==
    ASSUME TypeOK, Housed, NEW s \in Services, NEW r \in Record, ~Installed(s),
           Routable(s, r), Registrable(r)
    PROVE  WiringSteps(s, r) \in Seq(WireSteps(s))
  <1> DEFINE p1 == When(r.auth, RegisterSteps(s, r.url))
             p2 == RouteSteps(s, r)
             p3 == RetroJoins(s)
             p4 == ConsumerSteps(s)
             p5 == RetroMetrics(s)
             p6 == When(s = Proxy, << Step("snippet", Proxy, TRUE) >>)
  <1>1. p1 \in Seq(WireSteps(s))
    <2>1. r.auth => RegisterSteps(s, r.url) \in Seq(SharedSteps(s, r))
      BY RegisterIs DEF Record, Registrable, Routable
    <2>2. r.auth => RegisterSteps(s, r.url) \in Seq(WireSteps(s))
      BY <2>1, SharedWires, SeqMono
    <2> QED
      BY <2>2 DEF When
  <1>2. p2 \in Seq(WireSteps(s))
    BY RouteIs, SharedWires, SeqMono
  <1>3. p3 \in Seq(WireSteps(s)) /\ p4 \in Seq(WireSteps(s)) /\ p5 \in Seq(WireSteps(s))
    BY RetroJoinsIs, ConsumerIs, RetroMetricsIs
  <1>4. p6 \in Seq(WireSteps(s))
    <2>1. Step("snippet", Proxy, TRUE) \in WireSteps(s)
      BY StepsMade DEF WireSteps, Step, Homed, Keeps, Files
    <2> QED
      BY <2>1, One, None, Zenon DEF When
  <1>5. WiringSteps(s, r) = p1 \o p2 \o p3 \o p4 \o p5 \o p6
    BY DEF WiringSteps
  <1> HIDE DEF p1, p2, p3, p4, p5, p6
  <1>6. p1 \o p2 \in Seq(WireSteps(s))
    BY <1>1, <1>2, Chained
  <1>7. p1 \o p2 \o p3 \in Seq(WireSteps(s))
    BY <1>3, <1>6, Chained
  <1>8. p1 \o p2 \o p3 \o p4 \in Seq(WireSteps(s))
    BY <1>3, <1>7, Chained
  <1>9. p1 \o p2 \o p3 \o p4 \o p5 \in Seq(WireSteps(s))
    BY <1>3, <1>8, Chained
  <1> QED
    BY <1>4, <1>5, <1>9, Chained

\* The plan of an add, for a service that has nothing on disk yet.
LEMMA PodmanAddIs ==
    ASSUME TypeOK, Housed, NEW s \in Services \ Native, NEW r \in Record, s \notin home, CanAdd(s, r)
    PROVE  /\ Step("quadlet", s, ExtraNetworks(s, r)) \in AllSteps /\ Step("record", s, r) \in AllSteps
           /\ \E q \in Seq(WireSteps(s)) :
                AddPlan(s, r) = <<Step("quadlet", s, ExtraNetworks(s, r)), Step("record", s, r)>> \o q
  <1> DEFINE w == WiringSteps(s, r)
             m == Step("manifest", s, Written(w, s))
             z == Step("start", s, {})
             own == <<Step("quadlet", s, ExtraNetworks(s, r)), Step("record", s, r)>>
  <1>1. ~Installed(s)
    BY FilesTyped DEF Installed
  <1>2. w \in Seq(WireSteps(s))
    BY <1>1, WiringIs DEF CanAdd, Plannable
  <1>3. Written(w, s) \in Manifests(s)
    <2>1. WireSteps(s) \subseteq AllSteps
      BY DEF WireSteps
    <2> HIDE DEF w
    <2> QED
      BY <1>2, <2>1, SeqMono, WrittenIs
  <1>4. m \in WireSteps(s) /\ z \in WireSteps(s)
    BY <1>3, StepsMade DEF WireSteps, Step, Homed, Keeps, Files, Orders
  <1>5. ExtraNetworks(s, r) \subseteq Services
    BY ProvidersApart DEF ExtraNetworks
  <1>6. AddPlan(s, r) = own \o w \o <<m, z>>
    BY DEF AddPlan, PodmanAdd, OwnFiles, Settled
  <1>7. own \in Seq(AllSteps)
    BY <1>5, StepsMade
  <1> HIDE DEF w, m, z, own
  <1>8. <<m, z>> \in Seq(WireSteps(s))
    BY <1>4
  <1>9. w \o <<m, z>> \in Seq(WireSteps(s))
    BY <1>2, <1>8, Chained
  <1>10. own \o w \o <<m, z>> = own \o (w \o <<m, z>>)
    BY <1>2, <1>7, <1>8, ConcatAssociative
  <1> QED
    BY <1>5, <1>6, <1>9, <1>10, StepsMade DEF own

LEMMA NativeAddIs ==
    ASSUME TypeOK, Housed, NEW s \in Native, NEW r \in Record, CanAdd(s, r)
    PROVE  /\ AddPlan(s, r) \in Seq(NativeSteps(s)) /\ s \in Services
           /\ Step("record", s, r) \in ToSet(AddPlan(s, r))
           /\ \A x \in ToSet(AddPlan(s, r)) : x.op = "record" => x.val = r
  <1> DEFINE a == Step("record", s, r)
             b == Step("quadlet", s, {})
             z == Step("start", s, {})
  <1>1. s \in Services
    BY WiringConstants
  <1>2. a \in NativeSteps(s) /\ b \in NativeSteps(s) /\ z \in NativeSteps(s)
    BY <1>1, StepsMade DEF NativeSteps, Step, OwnRecord, OwnQuadlet, Homed, Keeps, Orders
  <1>3. RouteSteps(s, r) \in Seq(SharedSteps(s, r))
    BY <1>1, RouteIs DEF CanAdd, Plannable
  <1>4. RouteSteps(s, r) \in Seq(NativeSteps(s))
    <2> DEFINE x == Step("caddyfile", Proxy, WithRoute(s, r.url))
    <2>1. CASE Routed(r) /\ s # Proxy /\ Installed(Proxy)
      <3>1. RouteSteps(s, r) = <<x>>
        BY <2>1 DEF RouteSteps, When
      <3>2. x \in SharedSteps(s, r)
        BY <1>3, <3>1
      <3>3. x \in NativeSteps(s)
        BY <3>2 DEF SharedSteps, NativeSteps, Step
      <3> QED
        BY <3>1, <3>3
    <2>2. CASE ~(Routed(r) /\ s # Proxy /\ Installed(Proxy))
      BY <2>2 DEF RouteSteps, When
    <2> QED
      BY <2>1, <2>2
  <1> DEFINE own == <<a, b, z>>
             w == RouteSteps(s, r)
  <1>5. AddPlan(s, r) = own \o w
    BY DEF AddPlan, NativeAdd
  <1>6. (a.op = "record" => a.val = r) /\ b.op # "record" /\ z.op # "record"
    BY DEF Step
  <1>7. \A x \in ToSet(w) : x.op # "record"
    <2>1. \A x \in ToSet(w) : x \in SharedSteps(s, r)
      BY <1>3, ElementOfSeq, LenProperties DEF ToSet
    <2> QED
      BY <2>1 DEF SharedSteps
  <1> HIDE DEF a, b, z
  <1>8. own \in Seq(NativeSteps(s)) /\ ToSet(own) = {a, b, z}
    <2>1. own \in Seq(NativeSteps(s)) /\ DOMAIN own = {1, 2, 3} /\ own[1] = a /\ own[2] = b /\ own[3] = z
      BY <1>2
    <2> QED
      BY <2>1 DEF ToSet
  <1> HIDE DEF own, w
  <1>9. own \o w \in Seq(NativeSteps(s)) /\ ToSet(own \o w) = ToSet(own) \cup ToSet(w)
    BY <1>4, <1>8, Concatenated DEF w
  <1> QED
    BY <1>1, <1>5, <1>6, <1>7, <1>8, <1>9 DEF a

(***************************************************************************)
(* The plans of remove, purge, configure, upgrade and reset.               *)
(***************************************************************************)
MidSteps(s) == {x \in RemoveSteps(s) : x.op \notin Finals}

LEMMA LastIs ==
    ASSUME NEW s \in Services, NEW last \in Finals
    PROVE  Step(last, s, {}) \in RemoveSteps(s) /\ Step("takedown", s, {}) \in RemoveSteps(s)
  <1>1. Step(last, s, {}) \in AllSteps /\ Step("takedown", s, {}) \in AllSteps
    BY StepsMade DEF Finals, Orders
  <1> QED
    BY <1>1 DEF RemoveSteps, Step, Homed, Keeps, Finals

\* The steps p leave nothing of s in the files of others.
Clears(p, s) ==
    /\ s # Proxy /\ Routed(record[s]) /\ RouteOf(s) # "none"
         => Step("caddyfile", Proxy, WithoutRoute(s)) \in p
    /\ s # Idp /\ record[s].auth /\ ClientOf(s) # {} => Forgets(s) \in p
    /\ Installed(Store) /\ s # Store /\ s \in targets => Step("target", s, FALSE) \in p

LEMMA MiddleIs ==
    ASSUME TypeOK, Housed, NEW s \in Services, NEW last \in Finals, s \notin Native
    PROVE  \E q \in Seq(MidSteps(s)) :
             /\ RemovePlan(s, last) = q \o <<Step(last, s, {})>>
             /\ q # << >> /\ Head(q) = Step("takedown", s, {}) /\ Clears(ToSet(q), s)
             /\ s = Store /\ Installed(Dash) /\ Dash \in sources
                  => Step("source", Dash, FALSE) \in ToSet(q)
  <1> DEFINE c1 == s # Proxy /\ Routed(record[s]) /\ caddyfile # NoFile /\ caddyfile[s] # "none"
             c3 == Installed(Store) /\ s # Store /\ s \in targets
             c4 == s = Store /\ Installed(Dash) /\ Dash \in sources
             p1 == When(c1, << Step("caddyfile", Proxy, WithoutRoute(s)) >>)
             p2 == When(s # Idp /\ record[s].auth, UnregisterSteps(s))
             p3 == When(c3, << Step("target", s, FALSE) >>)
             p4 == When(c4, << Step("source", Dash, FALSE), Step("restart", Dash, {}) >>)
             X == MidSteps(s)
             first == <<Step("takedown", s, {})>>
             final == <<Step(last, s, {})>>
  <1>1. p1 \in Seq(X) /\ (c1 => Step("caddyfile", Proxy, WithoutRoute(s)) \in ToSet(p1))
    <2>1. CASE c1
      <3>1. caddyfile \in [Services -> Urls] /\ Proxy \in home
        BY <2>1, FilesTyped DEF Housed
      <3>2. WithoutRoute(s) \in [Services -> Urls]
        BY <3>1 DEF WithoutRoute, Urls
      <3>3. Step("caddyfile", Proxy, WithoutRoute(s)) \in AllSteps
        BY <3>2, StepsMade
      <3>4. /\ Homed(Step("caddyfile", Proxy, WithoutRoute(s)))
            /\ Keeps(Step("caddyfile", Proxy, WithoutRoute(s)), s)
        BY <2>1, <3>1 DEF Homed, Keeps, Step, WithoutRoute, RouteOf
      <3>5. Step("caddyfile", Proxy, WithoutRoute(s)) \in X
        BY <2>1, <3>1, <3>3, <3>4 DEF MidSteps, RemoveSteps, Step, Finals, WithoutRoute
      <3> DEFINE x == Step("caddyfile", Proxy, WithoutRoute(s))
      <3>6. p1 = <<x>> /\ x \in X
        BY <2>1, <3>5 DEF When
      <3> HIDE DEF x, p1, X
      <3>7. p1 \in Seq(X) /\ x \in ToSet(p1)
        BY <3>6, SingleIs
      <3> QED
        BY <3>7 DEF x
    <2>2. CASE ~c1
      BY <2>2, None, Zenon DEF When
    <2> QED
      BY <2>1, <2>2
  <1>2. p2 \in Seq(X) /\ (s # Idp /\ record[s].auth /\ ClientOf(s) # {} => Forgets(s) \in ToSet(p2))
    <2>1. CASE s # Idp /\ record[s].auth
      <3>1. ClientSteps(s) \subseteq X
        BY <2>1 DEF ClientSteps, MidSteps, RemoveSteps, Finals
      <3> QED
        BY <2>1, <3>1, UnregisterIs, SeqMono DEF When
    <2>2. CASE ~(s # Idp /\ record[s].auth)
      BY <2>2, None, Zenon DEF When
    <2> QED
      BY <2>1, <2>2
  <1>3. p3 \in Seq(X) /\ (c3 => Step("target", s, FALSE) \in ToSet(p3))
    <2>1. CASE c3
      <3>1. Step("target", s, FALSE) \in AllSteps
        BY <2>1, StepsMade, FilesTyped
      <3>2. Step("target", s, FALSE) \in X
        BY <2>1, <3>1 DEF MidSteps, RemoveSteps, Step, Homed, Keeps, Finals
      <3> DEFINE x == Step("target", s, FALSE)
      <3>3. p3 = <<x>> /\ x \in X
        BY <2>1, <3>2 DEF When
      <3> HIDE DEF x, p3, X
      <3>4. p3 \in Seq(X) /\ x \in ToSet(p3)
        BY <3>3, SingleIs
      <3> QED
        BY <3>4 DEF x
    <2>2. CASE ~c3
      BY <2>2, None, Zenon DEF When
    <2> QED
      BY <2>1, <2>2
  <1>4. p4 \in Seq(X) /\ (c4 => Step("source", Dash, FALSE) \in ToSet(p4))
    <2>1. CASE c4
      <3>1. Step("source", Dash, FALSE) \in AllSteps /\ Step("restart", Dash, {}) \in AllSteps
        BY StepsMade, ProvidersApart DEF Orders
      <3>2. Step("source", Dash, FALSE) \in X /\ Step("restart", Dash, {}) \in X
        BY <2>1, <3>1 DEF MidSteps, RemoveSteps, Step, Homed, Keeps, Finals
      <3>3. p4 = << Step("source", Dash, FALSE), Step("restart", Dash, {}) >>
        BY <2>1 DEF When
      <3> QED
        <4> DEFINE a == Step("source", Dash, FALSE)
                   b == Step("restart", Dash, {})
        <4>1. p4 = <<a, b>> /\ a \in X /\ b \in X
          BY <3>2, <3>3
        <4> HIDE DEF a, b, p4, X
        <4>2. p4 \in Seq(X) /\ a \in ToSet(p4)
          BY <4>1, PairIs
        <4> QED
          BY <4>2 DEF a
    <2>2. CASE ~c4
      BY <2>2, None, Zenon DEF When
    <2> QED
      BY <2>1, <2>2
  <1>5. RemovePlan(s, last) = first \o p1 \o p2 \o p3 \o p4 \o final
    BY DEF RemovePlan, PodmanRemove
  <1>6. first \in Seq(X) /\ first # << >> /\ Head(first) = Step("takedown", s, {})
    <2>1. Step("takedown", s, {}) \in X
      BY LastIs DEF MidSteps, Step, Finals
    <2> QED
      BY <2>1, One
  <1> HIDE DEF p1, p2, p3, p4, X, first, final
  <1> DEFINE b1 == first \o p1
             b2 == b1 \o p2
             b3 == b2 \o p3
             q == b3 \o p4
  <1>7. /\ b1 \in Seq(X) /\ b1 # << >> /\ Head(b1) = Head(first) /\ ToSet(b1) = ToSet(first) \cup ToSet(p1)
        /\ RemovePlan(s, last) = q \o final
    BY <1>1, <1>5, <1>6, Longer, Concatenated
  <1> HIDE DEF b1
  <1>8. b2 \in Seq(X) /\ b2 # << >> /\ Head(b2) = Head(b1) /\ ToSet(b2) = ToSet(b1) \cup ToSet(p2)
    BY <1>2, <1>7, Longer, Concatenated
  <1> HIDE DEF b2
  <1>9. b3 \in Seq(X) /\ b3 # << >> /\ Head(b3) = Head(b2) /\ ToSet(b3) = ToSet(b2) \cup ToSet(p3)
    BY <1>3, <1>8, Longer, Concatenated
  <1> HIDE DEF b3
  <1>10. q \in Seq(X) /\ q # << >> /\ Head(q) = Head(b3) /\ ToSet(q) = ToSet(b3) \cup ToSet(p4)
    BY <1>4, <1>9, Longer, Concatenated
  <1> HIDE DEF q
  <1>11. ToSet(p1) \cup ToSet(p2) \cup ToSet(p3) \cup ToSet(p4) \subseteq ToSet(q)
    BY <1>7, <1>8, <1>9, <1>10
  <1>12. Clears(ToSet(q), s)
    <2>1. s # Proxy /\ Routed(record[s]) /\ RouteOf(s) # "none" => c1
      BY DEF RouteOf
    <2> QED
      BY <1>1, <1>2, <1>3, <1>11, <2>1 DEF Clears
  <1>13. c4 => Step("source", Dash, FALSE) \in ToSet(q)
    BY <1>4, <1>11
  <1> QED
    BY <1>6, <1>7, <1>8, <1>9, <1>10, <1>12, <1>13 DEF X, final

\* The shape of the plan that takes s down.
Removal(p, s, last) ==
    /\ p \in Seq(RemoveSteps(s)) /\ p # << >> /\ EndsWith(p, Finals)
    /\ last = "purge" => \A x \in ToSet(p) : x.op # "preserve"

LEMMA RemovalIs ==
    ASSUME NEW s \in Services, NEW last \in Finals, NEW p \in Seq(RemoveSteps(s)),
           \A x \in ToSet(p) : x.op \notin Finals
    PROVE  Removal(p \o <<Step(last, s, {})>>, s, last)
  <1> DEFINE z == Step(last, s, {})
  <1>1. z \in RemoveSteps(s) /\ z.op = last
    BY LastIs DEF Step
  <1> HIDE DEF z
  <1>2. <<z>> \in Seq(RemoveSteps(s)) /\ ToSet(<<z>>) = {z}
    BY <1>1, SingleIs
  <1>3. /\ p \o <<z>> \in Seq(RemoveSteps(s))
        /\ ToSet(p \o <<z>>) = ToSet(p) \cup {z}
    <2>1. /\ p \o <<z>> \in Seq(RemoveSteps(s))
          /\ ToSet(p \o <<z>>) = ToSet(p) \cup ToSet(<<z>>)
      BY <1>2, Concatenated, Zenon
    <2> QED
      BY <1>2, <2>1
  <1>4. EndsWith(p \o <<z>>, Finals) /\ p \o <<z>> # << >>
    BY <1>1, EndsIs
  <1> QED
    BY <1>1, <1>3, <1>4 DEF Removal, Finals, z

LEMMA RemoveIs ==
    ASSUME TypeOK, Housed, NEW s \in Services, NEW last \in Finals
    PROVE  /\ Removal(RemovePlan(s, last), s, last)
           /\ Head(RemovePlan(s, last)) = Step("takedown", s, {})
           /\ s = Store /\ Installed(Dash) /\ Dash \in sources
                => Step("source", Dash, FALSE) \in ToSet(RemovePlan(s, last))
           /\ s \notin Native => Clears(ToSet(RemovePlan(s, last)), s)
  <1> DEFINE a == Step("takedown", s, {})
             z == Step(last, s, {})
  <1>1. a \in MidSteps(s) /\ z \in RemoveSteps(s)
    BY LastIs DEF Step, MidSteps, Finals
  <1>2. \E q \in Seq(MidSteps(s)) :
          /\ RemovePlan(s, last) = q \o <<z>> /\ q # << >> /\ Head(q) = a
          /\ s = Store /\ Installed(Dash) /\ Dash \in sources
               => Step("source", Dash, FALSE) \in ToSet(q)
          /\ s \notin Native => Clears(ToSet(q), s)
    <2>1. CASE s \in Native
      <3> HIDE DEF a, z
      <3>1. <<a>> \in Seq(MidSteps(s)) /\ <<a>> # << >> /\ Head(<<a>>) = a
        BY <1>1, One
      <3>2. RemovePlan(s, last) = <<a>> \o <<z>>
        BY <2>1 DEF RemovePlan, NativeRemove, a, z
      <3>3. s # Store
        BY <2>1, ProvidersApart DEF Providers
      <3> QED
        BY <2>1, <3>1, <3>2, <3>3
    <2>2. CASE s \notin Native
      BY <2>2, MiddleIs
    <2> QED
      BY <2>1, <2>2
  <1>3. PICK q \in Seq(MidSteps(s)) :
          /\ RemovePlan(s, last) = q \o <<z>> /\ q # << >> /\ Head(q) = a
          /\ s = Store /\ Installed(Dash) /\ Dash \in sources
               => Step("source", Dash, FALSE) \in ToSet(q)
          /\ s \notin Native => Clears(ToSet(q), s)
    BY <1>2
  <1>4. q \in Seq(RemoveSteps(s)) /\ \A x \in ToSet(q) : x.op \notin Finals
    <2>1. MidSteps(s) \subseteq RemoveSteps(s)
      BY DEF MidSteps
    <2>2. ToSet(q) \subseteq MidSteps(s)
      BY DEF ToSet
    <2>3. \A x \in MidSteps(s) : x.op \notin Finals
      BY DEF MidSteps
    <2> QED
      BY <2>1, <2>2, <2>3, SeqMono
  <1>5. Removal(q \o <<z>>, s, last)
    BY <1>4, RemovalIs
  <1> DEFINE final == <<z>>
  <1>6. final \in Seq(RemoveSteps(s))
    BY <1>1, One
  <1> HIDE DEF z
  <1>7. ToSet(q \o <<z>>) = ToSet(q) \cup {z}
    BY <1>1, <1>4, Appended
  <1> HIDE DEF final
  <1>8. Head(q \o final) = Head(q)
    BY <1>3, <1>4, <1>6, Longer
  <1> QED
    BY <1>3, <1>5, <1>7, <1>8 DEF final, z, Clears

LEMMA OrphanIs ==
    ASSUME NEW s \in Services
    PROVE  /\ Removal(OrphanPurge(s), s, "purge")
           /\ quadlet[s].present /\ s \notin Native => Head(OrphanPurge(s)) = Step("takedown", s, {})
  <1> DEFINE a == Step("takedown", s, {})
             c == quadlet[s].present /\ s \notin Native
             p == When(c, <<a>>)
  <1>1. a \in RemoveSteps(s) /\ a.op = "takedown"
    BY LastIs DEF Step, Finals
  <1>2. OrphanPurge(s) = p \o <<Step("purge", s, {})>>
    BY DEF OrphanPurge
  <1> HIDE DEF a
  <1>3. p \in Seq(RemoveSteps(s)) /\ \A x \in ToSet(p) : x.op \notin Finals
    <2>1. CASE c
      BY <1>1, <2>1, SingleIs DEF When, Finals
    <2>2. CASE ~c
      BY <2>2, EmptyIs DEF When
    <2> QED
      BY <2>1, <2>2
  <1>4. c => Head(p \o <<Step("purge", s, {})>>) = a
    BY DEF When
  <1> HIDE DEF p
  <1>5. "purge" \in Finals
    BY DEF Finals
  <1> QED
    BY <1>2, <1>3, <1>4, <1>5, RemovalIs DEF a

\* Whom providers join to their networks, and which providers.
Consumers == Services \ (Providers \cup Native)
Joinable == {Proxy, Relay, Store}

\* As they are planned, they join the dashboard to the store, leave alone a
\* proxy that is not there, and write what is asked for.
PlannedSteps(s, r) ==
    {x \in ConfigureSteps(s) :
        /\ OwnQuadlet(x, Dash) => (Installed(Store) => Store \in x.val)
        /\ OwnQuadlet(x, Proxy) => s = Proxy \/ Installed(Proxy)
        /\ x.op = "quadlet" /\ x.of \in Consumers => x.val = ExtraNetworks(s, r)
        /\ x.op = "record" => x.val = r
        /\ x.op = "caddyfile" => Installed(Proxy)
        /\ x.op = "manifest" => x.val = Written(Rerendered(s, r), s)
        /\ Keeps(x, s) /\ Owned(x, s, r)}
LaterSteps(s, r) == {x \in PlannedSteps(s, r) : x.op = "quadlet" => x.of \notin Consumers}

\* The unit file of a consumer is written first, if at all.
Led(s, r) ==
    {p \in Seq(PlannedSteps(s, r)) :
        \A i \in DOMAIN p : p[i].op = "quadlet" /\ p[i].of \in Consumers => i = 1}
Renders(p, s, r) ==
    /\ quadlet[s].networks # ExtraNetworks(s, r) => Step("quadlet", s, ExtraNetworks(s, r)) \in p
    /\ record[s] # r => Step("record", s, r) \in p
    /\ Routed(r) /\ s # Proxy /\ Installed(Proxy) => Step("caddyfile", Proxy, WithRoute(s, r.url)) \in p
Planned(s, r) == {p \in Led(s, r) : Renders(ToSet(p), s, r)}

LEMMA PlannedIs == ASSUME NEW s, NEW r, NEW p \in Seq(PlannedSteps(s, r)) PROVE p \in Seq(ConfigureSteps(s))
  <1>1. PlannedSteps(s, r) \subseteq ConfigureSteps(s)
    BY DEF PlannedSteps
  <1> QED
    BY <1>1, SeqMono

LEMMA LedChained ==
    ASSUME NEW s, NEW r, NEW p \in Led(s, r), NEW q \in Seq(LaterSteps(s, r))
    PROVE  p \o q \in Led(s, r) /\ ToSet(p \o q) = ToSet(p) \cup ToSet(q)
  <1> DEFINE X == PlannedSteps(s, r)
             w == p \o q
  <1>1. p \in Seq(X) /\ q \in Seq(X)
    <2>1. LaterSteps(s, r) \subseteq X
      BY DEF LaterSteps
    <2> QED
      BY <2>1, SeqMono DEF Led
  <1> HIDE DEF X
  <1>2. w \in Seq(X) /\ ToSet(w) = ToSet(p) \cup ToSet(q)
    BY <1>1, Concatenated
  <1>3. /\ Len(p) \in Nat /\ DOMAIN p = 1 .. Len(p) /\ DOMAIN q = 1 .. Len(q)
        /\ DOMAIN w = 1 .. Len(p) + Len(q) /\ Len(q) \in Nat
        /\ \A i \in 1 .. Len(p) : w[i] = p[i]
        /\ \A i \in 1 .. Len(q) : w[i + Len(p)] = q[i]
    BY <1>1, ConcatProperties, LenProperties
  <1>4. \A i \in DOMAIN q : q[i] \in LaterSteps(s, r)
    BY <1>3, ElementOfSeq
  <1> HIDE DEF w
  <1>5. ASSUME NEW i \in DOMAIN w, w[i].op = "quadlet", w[i].of \in Consumers PROVE i = 1
    <2>1. CASE i \in DOMAIN p
      BY <1>3, <1>5, <2>1 DEF Led
    <2>2. CASE i \notin DOMAIN p
      <3> DEFINE k == i - Len(p)
      <3>1. k \in DOMAIN q /\ w[i] = q[k]
        BY <1>3, <2>2
      <3> QED
        BY <1>4, <1>5, <3>1 DEF LaterSteps
    <2> QED
      BY <2>1, <2>2
  <1> QED
    BY <1>2, <1>5 DEF Led, X, w

LEMMA PlannedChained ==
    ASSUME NEW s, NEW r, NEW p \in Planned(s, r), NEW q \in Seq(LaterSteps(s, r))
    PROVE  p \o q \in Planned(s, r) /\ ToSet(p \o q) = ToSet(p) \cup ToSet(q)
  <1>1. p \in Led(s, r) /\ Renders(ToSet(p), s, r)
    BY DEF Planned
  <1>2. p \o q \in Led(s, r) /\ ToSet(p \o q) = ToSet(p) \cup ToSet(q)
    BY <1>1, LedChained
  <1> QED
    BY <1>1, <1>2 DEF Planned, Renders

LEMMA SharedLater == ASSUME NEW s, NEW r PROVE SharedSteps(s, r) \subseteq LaterSteps(s, r)
  BY ProvidersApart
     DEF SharedSteps, LaterSteps, PlannedSteps, ConfigureSteps, OwnQuadlet, Consumers, Providers

LEMMA RerenderedIs ==
    ASSUME TypeOK, Housed, NEW s \in Services, NEW r \in Record, Routable(s, r)
    PROVE  Rerendered(s, r) \in Planned(s, r)
  <1> DEFINE x == Step("quadlet", s, ExtraNetworks(s, r))
             y == Step("record", s, r)
             p == When(quadlet[s].networks # ExtraNetworks(s, r), <<x>>)
             q == When(record[s] # r, <<y>>)
  <1>1. x \in PlannedSteps(s, r) /\ y \in LaterSteps(s, r)
    <2>1. ExtraNetworks(s, r) \subseteq Services
      BY ProvidersApart DEF ExtraNetworks
    <2>2. x \in AllSteps /\ y \in AllSteps
      BY <2>1, StepsMade
    <2>3. s = Dash /\ Installed(Store) => Store \in ExtraNetworks(s, r)
      BY ProvidersApart DEF ExtraNetworks, Bridged
    <2> QED
      BY <2>2, <2>3 DEF LaterSteps, PlannedSteps, ConfigureSteps, OwnQuadlet, Step, Homed, Keeps, Owned
  <1>2. RouteSteps(s, r) \in Seq(LaterSteps(s, r))
    BY SharedLater, RouteIs, SeqMono
  <1>3. Rerendered(s, r) = p \o q \o RouteSteps(s, r)
    BY DEF Rerendered
  <1> HIDE DEF x, y
  <1>4. p \in Led(s, r) /\ (quadlet[s].networks # ExtraNetworks(s, r) => x \in ToSet(p))
    <2>1. CASE quadlet[s].networks # ExtraNetworks(s, r)
      <3>1. p = <<x>>
        BY <2>1 DEF When
      <3> HIDE DEF p
      <3>2. p \in Seq(PlannedSteps(s, r)) /\ ToSet(p) = {x} /\ DOMAIN p = {1}
        BY <1>1, <3>1, SingleIs
      <3> QED
        BY <3>2 DEF Led
    <2>2. CASE quadlet[s].networks = ExtraNetworks(s, r)
      <3>1. p = << >>
        BY <2>2 DEF When
      <3> HIDE DEF p
      <3>2. p \in Seq(PlannedSteps(s, r)) /\ DOMAIN p = {}
        BY <3>1
      <3> QED
        BY <2>2, <3>2 DEF Led
    <2> QED
      BY <2>1, <2>2
  <1>5. q \in Seq(LaterSteps(s, r)) /\ (record[s] # r => y \in ToSet(q))
    <2>1. CASE record[s] # r
      <3>1. q = <<y>>
        BY <2>1 DEF When
      <3> QED
        BY <1>1, <3>1, SingleIs
    <2>2. CASE record[s] = r
      BY <2>2, None, Zenon DEF When
    <2> QED
      BY <2>1, <2>2
  <1> HIDE DEF p, q
  <1>6. p \o q \in Led(s, r) /\ ToSet(p \o q) = ToSet(p) \cup ToSet(q)
    BY <1>4, <1>5, LedChained
  <1> DEFINE pq == p \o q
  <1>7. /\ pq \in Led(s, r) /\ ToSet(pq) = ToSet(p) \cup ToSet(q)
        /\ Rerendered(s, r) = pq \o RouteSteps(s, r)
    BY <1>3, <1>6
  <1> HIDE DEF pq
  <1>8. Rerendered(s, r) \in Led(s, r) /\ ToSet(Rerendered(s, r)) = ToSet(pq) \cup ToSet(RouteSteps(s, r))
    BY <1>2, <1>7, LedChained
  <1> QED
    BY <1>4, <1>5, <1>7, <1>8, RouteIs DEF Planned, Renders, x, y

LEMMA DropsIs ==
    ASSUME TypeOK, NEW s \in Services, NEW r \in Record, Listable(listed[s], s)
    PROVE  /\ DropSteps(s, r) \in Seq(LaterSteps(s, r))
           /\ \A v \in Dropped(s, r) : Step("drop", s, v) \in ToSet(DropSteps(s, r))
  <1> DEFINE A == Dropped(s, r)
             f == [v \in A |-> <<Step("drop", s, v)>>]
             seqs == [i \in 1 .. Cardinality(A) |-> <<Step("drop", s, SetToSeq(A)[i])>>]
  <1>1. A \subseteq Files \X Services /\ Listable(A, s)
    BY FilesTyped DEF Dropped, Listable
  <1>2. IsFiniteSet(A)
    <2>1. IsFiniteSet(Files)
      <3>1. Files = {"quadlet", "caddyfile", "clients"} \cup {"snippet", "target", "source"}
        BY DEF Files
      <3>2. IsFiniteSet({"quadlet", "caddyfile", "clients"}) /\ IsFiniteSet({"snippet", "target", "source"})
        <4>1. ASSUME NEW a, NEW b, NEW c PROVE IsFiniteSet({a, b, c})
          <5>1. {a, b, c} = ({} \cup {a}) \cup ({b} \cup {c})
            OBVIOUS
          <5>2. IsFiniteSet({a}) /\ IsFiniteSet({b}) /\ IsFiniteSet({c}) /\ IsFiniteSet({})
            BY FS_Singleton, FS_EmptySet
          <5>3. IsFiniteSet({} \cup {a}) /\ IsFiniteSet({b} \cup {c})
            BY <5>2, FS_Union
          <5>4. IsFiniteSet(({} \cup {a}) \cup ({b} \cup {c}))
            BY <5>3, FS_Union
          <5> QED
            BY <5>1, <5>4
        <4> QED
          BY <4>1
      <3> QED
        BY <3>1, <3>2, FS_Union
    <2>2. IsFiniteSet(Files \X Services)
      BY <2>1, WiringConstants, FS_Product
    <2> QED
      BY <1>1, <2>2, FS_Subset
  <1> HIDE DEF A
  <1>3. ASSUME NEW v \in A
        PROVE  <<Step("drop", s, v)>> \in Seq(LaterSteps(s, r)) /\ Step("drop", s, v) \in ToSet(<<Step("drop", s, v)>>)
    <2>1. Step("drop", s, v) \in AllSteps
      BY <1>1, StepsMade
    <2>2. Step("drop", s, v) \in LaterSteps(s, r)
      BY <1>1, <2>1 DEF LaterSteps, PlannedSteps, ConfigureSteps, OwnQuadlet, Step, Homed, Keeps, Owned, Listable
    <2> DEFINE x == Step("drop", s, v)
    <2> HIDE DEF x
    <2>3. <<x>> \in Seq(LaterSteps(s, r)) /\ x \in ToSet(<<x>>)
      BY <2>2, SingleIs DEF x
    <2> QED
      BY <2>3 DEF x
  <1>4. /\ f \in [A -> Seq(LaterSteps(s, r))]
        /\ \A v \in A : Step("drop", s, v) \in ToSet(f[v])
    BY <1>3
  <1>5. seqs = [i \in 1 .. Cardinality(A) |-> f[SetToSeq(A)[i]]]
    BY <1>2, ListIs
  <1>6. DropSteps(s, r) = FlattenSeq(seqs)
    BY DEF DropSteps, ForEach, A
  <1> HIDE DEF f
  <1>7. /\ FlattenSeq([i \in 1 .. Cardinality(A) |-> f[SetToSeq(A)[i]]]) \in Seq(LaterSteps(s, r))
        /\ ToSet(FlattenSeq([i \in 1 .. Cardinality(A) |-> f[SetToSeq(A)[i]]])) = UNION {ToSet(f[v]) : v \in A}
    BY <1>2, <1>4, EachIs
  <1>8. DropSteps(s, r) \in Seq(LaterSteps(s, r)) /\ ToSet(DropSteps(s, r)) = UNION {ToSet(f[v]) : v \in A}
    BY <1>5, <1>6, <1>7
  <1> QED
    BY <1>4, <1>8 DEF A

LEMMA ManifestIs ==
    ASSUME TypeOK, Housed, NEW s \in Services, NEW r \in Record, Routable(s, r)
    PROVE  /\ <<Manifest(s, r)>> \in Seq(LaterSteps(s, r))
           /\ ToSet(<<Manifest(s, r)>>) = {Manifest(s, r)}
  <1>1. Rerendered(s, r) \in Seq(AllSteps)
    <2>1. PlannedSteps(s, r) \subseteq AllSteps
      BY DEF PlannedSteps, ConfigureSteps, OwnQuadlet
    <2> QED
      BY <2>1, RerenderedIs, SeqMono DEF Planned, Led
  <1>2. Written(Rerendered(s, r), s) \in Manifests(s)
    BY <1>1, WrittenIs
  <1>3. Manifest(s, r) \in AllSteps
    BY <1>2, StepsMade DEF Manifest
  <1>4. Manifest(s, r) \in LaterSteps(s, r)
    BY <1>3 DEF LaterSteps, PlannedSteps, ConfigureSteps, OwnQuadlet, Manifest, Step, Homed, Keeps, Owned
  <1> QED
    BY <1>4, SingleIs, Zenon

\* The steps p leave nothing behind of what s was and r is not.
Settles(p, s, r) ==
    /\ Manifest(s, r) \in p
    /\ \A v \in Dropped(s, r) : Step("drop", s, v) \in p
    /\ Routed(record[s]) /\ ~Routed(r) /\ Installed(Proxy) /\ s # Proxy /\ RouteOf(s) # "none"
         => Step("caddyfile", Proxy, WithoutRoute(s)) \in p
    /\ record[s].auth /\ ~r.auth /\ ClientOf(s) # {} => Forgets(s) \in p

LEMMA ConfigureIs ==
    ASSUME TypeOK, Housed, NEW s \in Services, NEW r \in Record, Plannable(s, r),
           Listable(listed[s], s),
           r.auth /\ (~record[s].auth \/ record[s].url # r.url) => Registrable(r)
    PROVE  /\ ConfigurePlan(s, r) \in Planned(s, r)
           /\ Settles(ToSet(ConfigurePlan(s, r)), s, r)
           /\ \E q \in Planned(s, r) : ConfigurePlan(s, r) = q \o <<Step("restart", s, {})>>
  <1> DEFINE was == record[s]
             X == LaterSteps(s, r)
             p1 == Rerendered(s, r)
             p2 == <<Manifest(s, r)>>
             p3 == DropSteps(s, r)
             p4 == LeavesProxy(s, r)
             p5 == When(was.auth /\ (~r.auth \/ was.url # r.url), UnregisterSteps(s))
             p6 == When(r.auth /\ ~was.auth, RegisterSteps(s, r.url))
             p7 == When(r.auth /\ was.auth /\ was.url # r.url, ReregisterSteps(s, r.url))
             p8 == << Step("restart", s, {}) >>
  <1>1. /\ p1 \in Planned(s, r) /\ p2 \in Seq(X) /\ p3 \in Seq(X)
        /\ Manifest(s, r) \in ToSet(p2) /\ \A v \in Dropped(s, r) : Step("drop", s, v) \in ToSet(p3)
    BY RerenderedIs, ManifestIs, DropsIs DEF Plannable
  <1>2. /\ p4 \in Seq(X)
        /\ Routed(record[s]) /\ ~Routed(r) /\ Installed(Proxy) /\ s # Proxy /\ RouteOf(s) # "none"
             => Step("caddyfile", Proxy, WithoutRoute(s)) \in ToSet(p4)
    <2> DEFINE c == Routed(record[s]) /\ ~Routed(r) /\ Installed(Proxy) /\ s # Proxy
                      /\ caddyfile # NoFile /\ caddyfile[s] # "none"
    <2>1. CASE c
      <3>1. caddyfile \in [Services -> Urls] /\ Proxy \in home
        BY <2>1, FilesTyped DEF Housed
      <3>2. WithoutRoute(s) \in [Services -> Urls]
        BY <3>1 DEF WithoutRoute, Urls
      <3>3. Step("caddyfile", Proxy, WithoutRoute(s)) \in AllSteps
        BY <3>2, StepsMade
      <3> DEFINE x == Step("caddyfile", Proxy, WithoutRoute(s))
      <3>4. x.op = "caddyfile" /\ x.val[s] = "none" /\ Keeps(x, s)
        BY <2>1, <3>1 DEF Step, Keeps, WithoutRoute, RouteOf
      <3> HIDE DEF x
      <3>5. Owned(x, s, r)
        BY <3>4 DEF Owned
      <3>6. x \in X
        BY <2>1, <3>1, <3>3, <3>4, <3>5 DEF LaterSteps, PlannedSteps, ConfigureSteps, OwnQuadlet, Homed, x
      <3>7. p4 = <<x>>
        BY <2>1 DEF LeavesProxy, When, x
      <3> HIDE DEF p4
      <3> QED
        BY <3>6, <3>7, SingleIs DEF x
    <2>2. CASE ~c
      <3>1. RouteOf(s) = "none" \/ ~(Routed(record[s]) /\ ~Routed(r) /\ Installed(Proxy) /\ s # Proxy)
        BY <2>2 DEF RouteOf
      <3> QED
        BY <2>2, <3>1, None, Zenon DEF LeavesProxy, When
    <2> QED
      BY <2>1, <2>2
  <1>3. p5 \in Seq(X) /\ (was.auth /\ ~r.auth /\ ClientOf(s) # {} => Forgets(s) \in ToSet(p5))
    <2>1. ClientSteps(s) \subseteq X
      BY DEF ClientSteps, LaterSteps, PlannedSteps, ConfigureSteps, OwnQuadlet, Owned
    <2>2. UnregisterSteps(s) \in Seq(X)
      BY <2>1, UnregisterIs, SeqMono
    <2>3. ClientOf(s) # {} => Forgets(s) \in ToSet(UnregisterSteps(s))
      BY UnregisterIs
    <2> QED
      BY <2>2, <2>3, None, Zenon DEF When
  <1>4. p6 \in Seq(X) /\ p7 \in Seq(X)
    <2>1. SharedSteps(s, r) \subseteq X
      BY SharedLater
    <2>2. ASSUME r.auth, ~was.auth \/ was.url # r.url
          PROVE  RegisterSteps(s, r.url) \in Seq(X) /\ ReregisterSteps(s, r.url) \in Seq(X)
      <3>1. clients # NoFile /\ r.url \in Urls /\ (Installed(Proxy) => caddyfile # NoFile)
        BY <2>2 DEF Registrable, Plannable, Routable, Record
      <3>2. RegisterSteps(s, r.url) \in Seq(SharedSteps(s, r)) /\ ReregisterSteps(s, r.url) \in Seq(SharedSteps(s, r))
        BY <2>2, <3>1, RegisterIs
      <3> QED
        BY <2>1, <3>2, SeqMono
    <2> QED
      BY <2>2, None, Zenon DEF When
  <1>5. p8 \in Seq(X)
    <2>1. Step("restart", s, {}) \in X
      BY StepsMade DEF LaterSteps, PlannedSteps, ConfigureSteps, OwnQuadlet, Step, Homed, Keeps, Owned, Orders
    <2> QED
      BY <2>1, One, Zenon
  <1>6. ConfigurePlan(s, r) = p1 \o p2 \o p3 \o p4 \o p5 \o p6 \o p7 \o p8
    BY DEF ConfigurePlan
  <1> HIDE DEF p1, p2, p3, p4, p5, p6, p7, p8
  <1> DEFINE q2 == p1 \o p2
             q3 == q2 \o p3
             q4 == q3 \o p4
             q5 == q4 \o p5
             q6 == q5 \o p6
             q7 == q6 \o p7
  <1>7. q2 \in Planned(s, r) /\ ToSet(q2) = ToSet(p1) \cup ToSet(p2) /\ ConfigurePlan(s, r) = q7 \o p8
    BY <1>1, <1>6, PlannedChained
  <1> HIDE DEF q2
  <1>8. q3 \in Planned(s, r) /\ ToSet(q3) = ToSet(q2) \cup ToSet(p3)
    BY <1>1, <1>7, PlannedChained
  <1> HIDE DEF q3
  <1>9. q4 \in Planned(s, r) /\ ToSet(q4) = ToSet(q3) \cup ToSet(p4)
    BY <1>2, <1>8, PlannedChained
  <1> HIDE DEF q4
  <1>10. q5 \in Planned(s, r) /\ ToSet(q5) = ToSet(q4) \cup ToSet(p5)
    BY <1>3, <1>9, PlannedChained
  <1> HIDE DEF q5
  <1>11. q6 \in Planned(s, r) /\ ToSet(q6) = ToSet(q5) \cup ToSet(p6)
    BY <1>4, <1>10, PlannedChained
  <1> HIDE DEF q6
  <1>12. q7 \in Planned(s, r) /\ ToSet(q7) = ToSet(q6) \cup ToSet(p7)
    BY <1>4, <1>11, PlannedChained
  <1> HIDE DEF q7
  <1>13. q7 \o p8 \in Planned(s, r) /\ ToSet(q7 \o p8) = ToSet(q7) \cup ToSet(p8)
    BY <1>5, <1>12, PlannedChained
  <1>14. ToSet(p2) \cup ToSet(p3) \cup ToSet(p4) \cup ToSet(p5) \subseteq ToSet(ConfigurePlan(s, r))
    BY <1>7, <1>8, <1>9, <1>10, <1>11, <1>12, <1>13
  <1>15. Settles(ToSet(ConfigurePlan(s, r)), s, r)
    BY <1>1, <1>2, <1>3, <1>14 DEF Settles
  <1> QED
    BY <1>7, <1>12, <1>13, <1>15 DEF p8

LEMMA UpgradeIs ==
    ASSUME TypeOK, Housed, NEW s \in Services, Plannable(s, record[s]), Listable(listed[s], s)
    PROVE  /\ UpgradePlan(s) \in Planned(s, record[s])
           /\ Settles(ToSet(UpgradePlan(s)), s, record[s])
           /\ \E q \in Planned(s, record[s]) : UpgradePlan(s) = q \o <<Step("restart", s, {})>>
  <1> DEFINE r == record[s]
             X == LaterSteps(s, r)
             p1 == Rerendered(s, r)
             p2 == <<Manifest(s, r)>>
             p3 == DropSteps(s, r)
             p4 == << Step("restart", s, {}) >>
             q2 == p1 \o p2
             q == q2 \o p3
  <1>1. r \in Record
    BY FilesTyped
  <1>2. /\ p1 \in Planned(s, r) /\ p2 \in Seq(X) /\ p3 \in Seq(X)
        /\ Manifest(s, r) \in ToSet(p2) /\ \A v \in Dropped(s, r) : Step("drop", s, v) \in ToSet(p3)
    BY <1>1, RerenderedIs, ManifestIs, DropsIs DEF Plannable
  <1>3. p4 \in Seq(X)
    <2>1. Step("restart", s, {}) \in X
      BY StepsMade DEF LaterSteps, PlannedSteps, ConfigureSteps, OwnQuadlet, Step, Homed, Keeps, Owned, Orders
    <2> QED
      BY <2>1, One, Zenon
  <1>4. UpgradePlan(s) = q \o p4
    BY DEF UpgradePlan
  <1> HIDE DEF p1, p2, p3, p4, r
  <1>5. q2 \in Planned(s, r) /\ ToSet(q2) = ToSet(p1) \cup ToSet(p2)
    BY <1>2, PlannedChained
  <1> HIDE DEF q2
  <1>6. q \in Planned(s, r) /\ ToSet(q) = ToSet(q2) \cup ToSet(p3)
    BY <1>2, <1>5, PlannedChained
  <1> HIDE DEF q
  <1>7. q \o p4 \in Planned(s, r) /\ ToSet(q \o p4) = ToSet(q) \cup ToSet(p4)
    BY <1>3, <1>6, PlannedChained
  <1>8. Settles(ToSet(UpgradePlan(s)), s, r)
    BY <1>2, <1>4, <1>5, <1>6, <1>7 DEF Settles, r
  <1> QED
    BY <1>4, <1>6, <1>7, <1>8 DEF p4, r

LEMMA ResetIs ==
    /\ ResetPlan \in Seq(ResetSteps) /\ ResetPlan # << >> /\ EndsWith(ResetPlan, {"wipe"})
    /\ \A t \in Services \ Native : quadlet[t].present => Step("takedown", t, {}) \in ToSet(ResetPlan)
  <1> DEFINE A == Managed
             X == {x \in AllSteps : x.op = "takedown"}
             f == [t \in A |-> <<Step("takedown", t, {})>>]
             seqs == [i \in 1 .. Cardinality(A) |-> <<Step("takedown", SetToSeq(A)[i], {})>>]
             p == FlattenSeq(seqs)
             z == Step("wipe", Proxy, {})
  <1>1. A \subseteq Services /\ IsFiniteSet(A)
    BY WiringConstants, FS_Subset DEF Managed
  <1>2. \A t \in Services \ Native : quadlet[t].present => t \in A
    BY DEF Managed
  <1>3. ResetPlan = p \o <<z>>
    BY DEF ResetPlan, ForEach
  <1> HIDE DEF A
  <1>4. ASSUME NEW t \in A
        PROVE  <<Step("takedown", t, {})>> \in Seq(X) /\ ToSet(<<Step("takedown", t, {})>>) = {Step("takedown", t, {})}
    <2>1. Step("takedown", t, {}) \in X
      BY <1>1, StepsMade DEF Step, Orders
    <2> QED
      BY <2>1, SingleIs, Zenon
  <1>5. f \in [A -> Seq(X)] /\ \A t \in A : ToSet(f[t]) = {Step("takedown", t, {})}
    BY <1>4
  <1>6. seqs = [i \in 1 .. Cardinality(A) |-> f[SetToSeq(A)[i]]]
    BY <1>1, ListIs
  <1>7. p \in Seq(X) /\ ToSet(p) = UNION {ToSet(f[t]) : t \in A}
    <2> HIDE DEF f, X
    <2>1. seqs = [i \in 1 .. Cardinality(A) |-> f[SetToSeq(A)[i]]] => p = FlattenSeq([i \in 1 .. Cardinality(A) |-> f[SetToSeq(A)[i]]])
      BY Zenon
    <2> HIDE DEF p
    <2> QED
      BY <1>1, <1>5, <1>6, <2>1, EachIs
  <1>8. \A t \in A : Step("takedown", t, {}) \in ToSet(p)
    <2> HIDE DEF f, p
    <2> QED
      BY <1>5, <1>7
  <1>9. z \in ResetSteps /\ z.op = "wipe"
    BY StepsMade, ProvidersApart DEF ResetSteps, Step, Orders
  <1>10. X \subseteq ResetSteps
    BY DEF ResetSteps
  <1> HIDE DEF p, z
  <1>11. p \in Seq(ResetSteps)
    BY <1>7, <1>10, SeqMono
  <1>12. \A x \in ToSet(p) : x.op \notin {"wipe"}
    <2>1. ToSet(p) \subseteq X
      BY <1>7 DEF ToSet
    <2> QED
      BY <2>1
  <1>13. EndsWith(p \o <<z>>, {"wipe"}) /\ p \o <<z>> # << >>
    BY <1>9, <1>11, <1>12, EndsIs
  <1>15. p \o <<z>> \in Seq(ResetSteps) /\ ToSet(p \o <<z>>) = ToSet(p) \cup {z}
    BY <1>9, <1>11, Appended
  <1> QED
    BY <1>2, <1>3, <1>8, <1>13, <1>15

(***************************************************************************)
(* The invariant, by the kind of command that runs.                        *)
(***************************************************************************)
S == job.service
Left == ToSet(plan)
Removes == {"remove", "cleanup", "recover"}
Updates == {"configure", "upgrade"}

Typed ==
    /\ TypeOK
    /\ prefs \in [auth : BOOLEAN, smtp : BOOLEAN]
    /\ job \in [kind : {"none", "add", "reset"} \cup Removes \cup Updates,
                service : Services, request : Record]
    /\ plan \in Seq(AllSteps)
    /\ \A s \in Services : Listable(listed[s], s)
    /\ Idle => plan = << >>

\* A service is taken down first and its home goes last.
RemoveInv ==
    job.kind \in Removes =>
      /\ Left \subseteq RemoveSteps(S) /\ EndsWith(plan, Finals)
      /\ job.kind # "remove" => /\ \A x \in Left : x.op # "preserve"
                                /\ plan = << >> => S \notin home
      /\ \/ ~quadlet[S].present
         \/ plan # << >> /\ Head(plan) = Step("takedown", S, {})
         \/ S \in Native /\ job.kind # "cleanup"

ResetInv ==
    job.kind = "reset" =>
      /\ Left \subseteq ResetSteps /\ EndsWith(plan, {"wipe"})
      /\ \A t \in Services \ Native : quadlet[t].present => Step("takedown", t, {}) \in Left
      /\ plan = << >> => sources = {}

UpdateInv == job.kind \in Updates => Installed(S) /\ Left \subseteq ConfigureSteps(S)

\* An add writes its own quadlet and record, and wires when it has both.
Unrecorded == S \notin recorded /\ (S = Dash => sources = {})
WritesBoth ==
    /\ Unrecorded /\ plan # << >> /\ OwnQuadlet(Head(plan), S)
    /\ Tail(plan) # << >> /\ OwnRecord(Head(Tail(plan)), S)
    /\ ToSet(Tail(Tail(plan))) \subseteq WireSteps(S)
WritesRecord ==
    /\ Unrecorded /\ quadlet[S].present /\ plan # << >> /\ OwnRecord(Head(plan), S)
    /\ ToSet(Tail(plan)) \subseteq WireSteps(S)
Wires == Installed(S) /\ Left \subseteq WireSteps(S)

AddInv ==
    job.kind = "add" =>
      IF S \in Native THEN Left \subseteq NativeSteps(S)
                      ELSE WritesBoth \/ WritesRecord \/ Wires

\* The dashboard reads a store that is there, or that is about to be left.
DropsSource == Step("source", Dash, FALSE) \in Left
SourceInv ==
    Sound(Store) /\ Dash \in sources /\ Installed(Dash) /\ job.kind # "reset" =>
        IF job.kind \in Removes /\ S = Store THEN DropsSource ELSE Installed(Store)

\* The others are wired as they were, or as a step that is left will wire them.
BeforeTyped ==
    before \in [routes : [Services \ {S, Idp} -> Urls], clients : [Services \ {S} -> SUBSET Urls],
                targets : SUBSET Services, sources : SUBSET {Dash},
                records : [Services \ {S} -> Record]]
RoutesKept == \A t \in Services \ {S, Idp} : RouteOf(t) = before.routes[t]
ClientsKept == \A t \in Services \ {S} : ClientOf(t) = before.clients[t]
RecordsKept == \A t \in Services \ {S} : record[t] = before.records[t]
ProvidersNew ==
    /\ S = Proxy => \A t \in Services \ {S, Idp} : before.routes[t] = "none"
    /\ S = Idp => \A t \in Services \ {S} : before.clients[t] = {}
TargetsKept == IF S = Store THEN before.targets = {} ELSE targets \ {S} = before.targets
SourcesKept ==
    IF S # Store THEN sources \ {S} = before.sources
    ELSE Sound(Store) =>
           /\ Installed(Dash) => before.sources = {}
           /\ sources = before.sources
              \/ (IF job.kind = "add" THEN Installed(Dash) ELSE DropsSource)

KeptInv ==
    job.kind \in {"add", "cleanup"} =>
      /\ BeforeTyped /\ RoutesKept /\ ClientsKept /\ RecordsKept
      /\ ProvidersNew /\ TargetsKept /\ SourcesKept

Inv == Typed /\ Housed /\ RemoveInv /\ ResetInv /\ UpdateInv /\ AddInv /\ SourceInv /\ KeptInv

(***************************************************************************)
(* What every step of execute_all has in common.                           *)
(***************************************************************************)
LEMMA PlanIs ==
    ASSUME Typed, plan # << >>
    PROVE  /\ Head(plan) \in Left /\ Head(plan) \in AllSteps
           /\ Tail(plan) \in Seq(AllSteps) /\ ToSet(Tail(plan)) \subseteq Left
           /\ Left = {Head(plan)} \cup ToSet(Tail(plan)) /\ Left \subseteq AllSteps
           /\ Tail(plan) # << >> => Head(Tail(plan)) \in Left
  <1>1. plan \in Seq(AllSteps)
    BY DEF Typed
  <1>2. /\ Head(plan) \in ToSet(plan) /\ Head(plan) \in AllSteps
        /\ Tail(plan) \in Seq(AllSteps) /\ ToSet(Tail(plan)) \subseteq ToSet(plan)
        /\ ToSet(plan) = {Head(plan)} \cup ToSet(Tail(plan))
    BY <1>1, TailIs
  <1>3. Left \subseteq AllSteps
    BY <1>1 DEF Left, ToSet
  <1>4. Tail(plan) # << >> => Head(Tail(plan)) \in ToSet(Tail(plan))
    <2> DEFINE p == Tail(plan)
    <2>1. p \in Seq(AllSteps)
      BY <1>2
    <2> HIDE DEF p
    <2>2. p # << >> => Head(p) \in ToSet(p)
      BY <2>1, TailIs
    <2> QED
      BY <2>2 DEF p
  <1> QED
    BY <1>2, <1>3, <1>4 DEF Left

\* What the first step of a plan may be.
OwnStep(x) == S \notin Native /\ Unrecorded /\ (OwnQuadlet(x, S) \/ OwnRecord(x, S))

LEMMA HeadIs ==
    ASSUME Inv, plan # << >>
    PROVE  LET x == Head(plan) IN
           /\ job.kind \in {"add", "reset"} \cup Removes \cup Updates
           /\ job.kind = "add" => \/ S \in Native /\ x \in NativeSteps(S)
                                  \/ OwnStep(x)
                                  \/ S \notin Native /\ Installed(S) /\ x \in WireSteps(S)
           /\ job.kind \in Removes => x \in RemoveSteps(S)
           /\ job.kind \in Updates => x \in ConfigureSteps(S)
           /\ job.kind = "reset" => x \in ResetSteps
           /\ x \in AllSteps /\ S \in Services
  <1>1. Head(plan) \in Left /\ Head(plan) \in AllSteps
    BY PlanIs DEF Inv
  <1>2. job.kind \in {"add", "reset"} \cup Removes \cup Updates /\ S \in Services
    BY DEF Inv, Typed, Idle, S
  <1>3. ASSUME job.kind = "add"
        PROVE  \/ S \in Native /\ Head(plan) \in NativeSteps(S)
               \/ OwnStep(Head(plan))
               \/ S \notin Native /\ Installed(S) /\ Head(plan) \in WireSteps(S)
    BY <1>1, <1>3 DEF Inv, AddInv, WritesBoth, WritesRecord, Wires, OwnStep
  <1> QED
    BY <1>1, <1>2, <1>3 DEF Inv, RemoveInv, UpdateInv, ResetInv

LEMMA AdvanceTyped ==
    ASSUME Inv, plan # << >>, Next1, TypeOK', \A s \in Services : Listable(listed'[s], s)
    PROVE  Typed' /\ Left' \subseteq Left /\ S' = S /\ job' = job
  <1>1. plan' = Tail(plan) /\ job' = job /\ prefs' = prefs
    BY DEF Next1
  <1>2. plan' \in Seq(AllSteps) /\ Left' \subseteq Left
    BY <1>1, PlanIs DEF Inv, Left
  <1>3. ~Idle
    BY DEF Inv, Typed
  <1> QED
    BY <1>1, <1>2, <1>3 DEF Inv, Typed, S, Idle

\* Nothing of the others moves that the steps left depend on.
Unmoved ==
    /\ home \subseteq home'
    /\ \A t \in Services \ {S, Idp} : RouteOf(t)' = RouteOf(t)
    /\ \A t \in Services \ {S} : ClientOf(t)' = ClientOf(t)

LEMMA HomedStays ==
    ASSUME home \subseteq home', NEW x, Homed(x)
    PROVE  Homed(x)'
  BY DEF Homed

LEMMA KeepsStays ==
    ASSUME Unmoved, S' = S, NEW x, Keeps(x, S)
    PROVE  Keeps(x, S)'
  BY DEF Unmoved, Keeps

LEMMA NativeStays ==
    ASSUME Unmoved, S' = S, NEW steps, steps \subseteq NativeSteps(S)
    PROVE  steps \subseteq NativeSteps(S)'
  <1>1. home \subseteq home'
    BY DEF Unmoved
  <1>2. ASSUME NEW x \in steps PROVE Homed(x)' /\ Keeps(x, S)'
    <2>1. Homed(x) /\ Keeps(x, S)
      BY DEF NativeSteps
    <2> QED
      BY <1>1, <2>1, HomedStays, KeepsStays
  <1> QED
    BY <1>2 DEF NativeSteps, OwnRecord, OwnQuadlet

LEMMA WireStays ==
    ASSUME Unmoved, S' = S, \A t \in Services : Installed(t) => Installed(t)', NEW steps,
           steps \subseteq WireSteps(S)
    PROVE  steps \subseteq WireSteps(S)'
  <1>1. home \subseteq home'
    BY DEF Unmoved
  <1>2. ASSUME NEW x \in steps PROVE Homed(x)' /\ Keeps(x, S)' /\ x.of \in Services
    <2>1. Homed(x) /\ Keeps(x, S) /\ x.of \in Services
      BY StepsTyped DEF WireSteps
    <2> QED
      BY <1>1, <2>1, HomedStays, KeepsStays
  <1>3. Dash \in Services /\ Store \in Services
    BY ProvidersApart
  <1> QED
    BY <1>1, <1>2, <1>3 DEF WireSteps

LEMMA RemoveStays ==
    ASSUME Unmoved, S' = S, NEW steps, steps \subseteq RemoveSteps(S),
           S = Store /\ Installed(Dash) => Installed(Dash)'
    PROVE  steps \subseteq RemoveSteps(S)'
  <1>1. home \subseteq home'
    BY DEF Unmoved
  <1>2. ASSUME NEW x \in steps PROVE Homed(x)' /\ Keeps(x, S)'
    <2>1. Homed(x) /\ Keeps(x, S)
      BY DEF RemoveSteps
    <2> QED
      BY <1>1, <2>1, HomedStays, KeepsStays
  <1> QED
    BY <1>2 DEF RemoveSteps

LEMMA UpdateStays ==
    ASSUME home \subseteq home', S' = S, NEW steps, steps \subseteq ConfigureSteps(S)
    PROVE  steps \subseteq ConfigureSteps(S)'
  BY DEF ConfigureSteps, Homed

LEMMA KeptWith ==
    ASSUME Inv, Unmoved, job' = job, before' = before, cut' = cut, robbed' = robbed,
           \A t \in Services \ {S} : record'[t] = record[t],
           S # Store => targets' \ {S} = targets \ {S}, SourcesKept'
    PROVE  KeptInv'
  <1> SUFFICES ASSUME job.kind \in {"add", "cleanup"} PROVE KeptInv'
    BY DEF KeptInv
  <1>1. S' = S
    BY DEF S
  <1>2. BeforeTyped /\ RoutesKept /\ ClientsKept /\ RecordsKept /\ ProvidersNew /\ TargetsKept
    BY DEF Inv, KeptInv
  <1>3. BeforeTyped'
    BY <1>1, <1>2 DEF BeforeTyped
  <1>4. RoutesKept' /\ ClientsKept' /\ RecordsKept'
    BY <1>1, <1>2 DEF RoutesKept, ClientsKept, RecordsKept, Unmoved
  <1>5. ProvidersNew'
    BY <1>1, <1>2 DEF ProvidersNew
  <1>6. TargetsKept'
    BY <1>1, <1>2 DEF TargetsKept
  <1> QED
    BY <1>3, <1>4, <1>5, <1>6 DEF KeptInv

LEMMA KeptStays ==
    ASSUME Inv, Unmoved, job' = job, before' = before, cut' = cut, robbed' = robbed,
           \A t \in Services \ {S} : record'[t] = record[t],
           S # Store => targets' \ {S} = targets \ {S}, sources' = sources,
           S = Store => (Installed(Dash)' <=> Installed(Dash)),
           S = Store /\ job.kind = "cleanup" /\ DropsSource => DropsSource'
    PROVE  KeptInv'
  <1> SUFFICES ASSUME job.kind \in {"add", "cleanup"} PROVE KeptInv'
    BY DEF KeptInv
  <1>1. SourcesKept
    BY DEF Inv, KeptInv
  <1>2. SourcesKept'
    BY <1>1 DEF SourcesKept, Sound, S
  <1> QED
    BY <1>2, KeptWith

\* A step of a removal that is not its last.
LEMMA RemoveAdvances ==
    ASSUME Inv, plan # << >>, plan' = Tail(plan), job' = job, job.kind \in Removes, Unmoved,
           S = Store /\ Installed(Dash) => Installed(Dash)', Head(plan).op \notin Finals,
           quadlet'[S].present => quadlet[S].present /\ Head(plan).op # "takedown"
    PROVE  RemoveInv'
  <1>1. S' = S
    BY DEF S
  <1>2. plan \in Seq(AllSteps) /\ Left' \subseteq Left
    BY PlanIs DEF Inv, Typed, Left
  <1>3. /\ Left \subseteq RemoveSteps(S) /\ EndsWith(plan, Finals)
        /\ job.kind # "remove" => \A x \in Left : x.op # "preserve"
        /\ \/ ~quadlet[S].present
           \/ Head(plan) = Step("takedown", S, {})
           \/ S \in Native /\ job.kind # "cleanup"
    BY DEF Inv, RemoveInv
  <1>4. EndsWith(plan', Finals) /\ plan' # << >>
    BY <1>2, <1>3, EndsTail
  <1>5. Left' \subseteq RemoveSteps(S)
    BY <1>2, <1>3
  <1>6. Left' \subseteq RemoveSteps(S)'
    BY <1>1, <1>5, RemoveStays
  <1>7. \/ ~quadlet'[S].present
        \/ S \in Native /\ job.kind # "cleanup"
    BY <1>3 DEF Step
  <1> QED
    BY <1>1, <1>2, <1>3, <1>4, <1>6, <1>7 DEF RemoveInv, Removes

LEMMA UpdateAdvances ==
    ASSUME Inv, job' = job, Left' \subseteq Left, home \subseteq home', Installed(S) => Installed(S)'
    PROVE  UpdateInv'
  <1> SUFFICES ASSUME job.kind \in Updates PROVE UpdateInv'
    BY DEF UpdateInv
  <1>1. S' = S
    BY DEF S
  <1>2. Left \subseteq ConfigureSteps(S) /\ Installed(S)
    BY DEF Inv, UpdateInv
  <1>3. Left' \subseteq ConfigureSteps(S)'
    BY <1>1, <1>2, UpdateStays
  <1>4. Installed(S)'
    BY <1>1, <1>2
  <1> QED
    BY <1>3, <1>4 DEF UpdateInv

LEMMA WiringAdvances ==
    ASSUME Inv, job' = job, Left' \subseteq Left, Unmoved, job.kind = "add", S \in Native \/ Wires,
           \A t \in Services : Installed(t) => Installed(t)'
    PROVE  AddInv'
  <1>1. S' = S /\ S \in Services
    BY DEF S, Inv, Typed
  <1>2. CASE S \in Native
    <2>1. Left' \subseteq NativeSteps(S)
      BY <1>2 DEF Inv, AddInv
    <2> QED
      BY <1>1, <1>2, <2>1, NativeStays DEF AddInv
  <1>3. CASE S \notin Native
    <2>1. Left' \subseteq WireSteps(S) /\ Installed(S)
      BY <1>3 DEF Wires
    <2>2. Left' \subseteq WireSteps(S)'
      BY <1>1, <2>1, WireStays
    <2>3. Installed(S)'
      BY <1>1, <2>1
    <2> QED
      BY <1>1, <1>3, <2>2, <2>3 DEF AddInv, Wires
  <1> QED
    BY <1>2, <1>3

(***************************************************************************)
(* Each step keeps the invariant.                                          *)
(***************************************************************************)
LEMMA QuadletStep == ASSUME Inv, WriteQuadlet PROVE Inv'
  <1> DEFINE x == Head(plan)
  <1>1. /\ plan # << >> /\ x.op = "quadlet" /\ Next1 /\ plan' = Tail(plan)
        /\ quadlet' = [quadlet EXCEPT ![x.of] = Joining(x.val)] /\ home' = home \cup {x.of}
        /\ UNCHANGED <<offered, prefs, job, before, doubled, record, recorded, caddyfile, clients,
                       snippet, targets, sources, listed, running, cut, stranded, robbed>>
    BY DEF WriteQuadlet, At, Of, Val, Next1
  <1>2. x \in AllSteps /\ StepTyped(x) /\ S \in Services
    BY <1>1, HeadIs, StepsTyped
  <1>3. x.of \in Services /\ x.val \subseteq Services
    BY <1>1, <1>2 DEF StepTyped, Orders
  <1>4. TypeOK
    BY DEF Inv, Typed
  <1>5. \/ job.kind = "add" /\ S \in Native /\ x.of = S
        \/ job.kind = "add" /\ S \notin Native /\ Unrecorded /\ x.of = S
        \/ job.kind = "add" /\ S \notin Native /\ Installed(S) /\ x.of # S /\ Installed(x.of)
        \/ job.kind \in Updates /\ Installed(S) /\ x.of \in {S, Proxy}
    <2>1. job.kind \notin Removes
      BY <1>1, HeadIs DEF RemoveSteps, Finals
    <2>2. job.kind # "reset"
      BY <1>1, HeadIs DEF ResetSteps
    <2>3. ASSUME job.kind = "add"
          PROVE  \/ S \in Native /\ x.of = S
                 \/ S \notin Native /\ Unrecorded /\ x.of = S
                 \/ S \notin Native /\ Installed(S) /\ x.of # S /\ Installed(x.of)
      BY <1>1, <2>3, HeadIs DEF NativeSteps, OwnStep, OwnQuadlet, OwnRecord, WireSteps
    <2>4. ASSUME job.kind \in Updates PROVE Installed(S) /\ x.of \in {S, Proxy}
      BY <1>1, <2>4, HeadIs DEF ConfigureSteps, Inv, UpdateInv
    <2> QED
      BY <1>1, <2>1, <2>2, <2>3, <2>4, HeadIs
  <1> HIDE DEF x
  <1>6. \A t \in Services : /\ t # x.of => quadlet'[t] = quadlet[t]
                            /\ quadlet'[x.of] = Joining(x.val) /\ quadlet'[x.of].present
    BY <1>1, <1>3, <1>4, FilesTyped DEF Joining
  <1>7. Unmoved /\ \A t \in Services : Installed(t) => Installed(t)'
    <2>1. \A t \in Services : Installed(t) => Installed(t)'
      BY <1>1, <1>3, <1>6 DEF Installed
    <2>2. Unmoved
      BY <1>1 DEF Unmoved, RouteOf, ClientOf
    <2> QED
      BY <2>1, <2>2
  <1>8. TypeOK'
    BY <1>1, <1>3, <1>4 DEF TypeOK, Networks, Joining
  <1>9. Typed' /\ Left' \subseteq Left /\ S' = S /\ job' = job
    BY <1>1, <1>8, AdvanceTyped DEF Inv, Typed
  <1>10. Housed'
    BY <1>1, <1>3, <1>6 DEF Inv, Housed
  <1>11. RemoveInv' /\ ResetInv'
    BY <1>5, <1>9 DEF RemoveInv, ResetInv, Removes, Updates
  <1>12. UpdateInv'
    <2> SUFFICES ASSUME job.kind \in Updates PROVE Installed(S)' /\ Left' \subseteq ConfigureSteps(S)'
      BY <1>9 DEF UpdateInv
    <2>1. Left \subseteq ConfigureSteps(S) /\ Installed(S)
      BY DEF Inv, UpdateInv
    <2>2. Installed(S)'
      BY <1>2, <1>7, <1>9, <2>1 DEF Installed
    <2>3. home \subseteq home'
      BY <1>1
    <2> QED
      BY <1>9, <2>1, <2>2, <2>3, UpdateStays
  <1>13. AddInv'
    <2> SUFFICES ASSUME job.kind = "add" PROVE AddInv'
      BY <1>9 DEF AddInv
    <2>1. CASE S \in Native
      <3>1. Left' \subseteq NativeSteps(S)
        BY <1>9, <2>1 DEF Inv, AddInv
      <3> QED
        BY <1>7, <1>9, <2>1, <3>1, NativeStays DEF AddInv
    <2>2. CASE S \notin Native /\ WritesBoth
      <3>1. /\ plan' # << >> /\ OwnRecord(Head(plan'), S) /\ ToSet(Tail(plan')) \subseteq WireSteps(S)
            /\ x.of = S /\ Unrecorded
        BY <1>1, <2>2 DEF WritesBoth, OwnQuadlet, x
      <3>2. ToSet(Tail(plan')) \subseteq WireSteps(S)'
        BY <1>7, <1>9, <3>1, WireStays
      <3>3. quadlet'[S].present /\ Unrecorded'
        BY <1>1, <1>2, <1>6, <1>9, <3>1 DEF Unrecorded
      <3>4. WritesRecord'
        BY <1>9, <3>1, <3>2, <3>3 DEF WritesRecord, OwnRecord
      <3> QED
        BY <1>9, <2>2, <3>4 DEF AddInv
    <2>3. CASE S \notin Native /\ Wires
      <3>1. Left' \subseteq WireSteps(S) /\ Installed(S)
        BY <1>9, <2>3 DEF Wires
      <3>2. Left' \subseteq WireSteps(S)' /\ Installed(S)'
        <4>1. Installed(S)'
          BY <1>2, <1>7, <1>9, <3>1 DEF Installed
        <4> QED
          BY <1>7, <1>9, <3>1, <4>1, WireStays
      <3> QED
        BY <1>9, <2>3, <3>2 DEF AddInv, Wires
    <2>4. ~WritesRecord
      BY <1>1 DEF WritesRecord, OwnRecord, x
    <2> QED
      BY <2>1, <2>2, <2>3, <2>4 DEF Inv, AddInv
  <1>14. Installed(Dash)' /\ (S # Dash \/ ~Unrecorded) => Installed(Dash)
    <2>1. x.of = Dash => Installed(Dash) \/ (S = Dash /\ Unrecorded)
      BY <1>5, ProvidersApart DEF Providers
    <2>2. Dash \in Services
      BY ProvidersApart
    <2> QED
      BY <1>1, <1>6, <2>1, <2>2 DEF Installed
  <1>15. SourceInv'
    <2> SUFFICES ASSUME Sound(Store)', Dash \in sources', Installed(Dash)', job.kind # "reset"
                 PROVE  Installed(Store)'
      BY <1>5, <1>9 DEF SourceInv, Removes, Updates
    <2>1. Sound(Store) /\ Dash \in sources
      BY <1>1 DEF Sound
    <2>2. Installed(Dash)
      BY <1>14, <2>1 DEF Unrecorded
    <2>3. Installed(Store)
      BY <1>5, <2>1, <2>2 DEF Inv, SourceInv, Removes, Updates
    <2> QED
      BY <1>7, <2>3, ProvidersApart
  <1>16. KeptInv'
    <2>1. S = Store => (Installed(Dash)' <=> Installed(Dash))
      BY <1>7, <1>14, ProvidersApart
    <2>2. job.kind # "cleanup"
      BY <1>5 DEF Updates
    <2> QED
      BY <1>1, <1>7, <2>1, <2>2, KeptStays
  <1> QED
    BY <1>9, <1>10, <1>11, <1>12, <1>13, <1>15, <1>16 DEF Inv

LEMMA RecordStep == ASSUME Inv, WriteRecord PROVE Inv'
  <1> DEFINE x == Head(plan)
  <1>1. /\ plan # << >> /\ x.op = "record" /\ Next1 /\ plan' = Tail(plan)
        /\ record' = [record EXCEPT ![x.of] = x.val] /\ recorded' = recorded \cup {x.of}
        /\ home' = home \cup {x.of}
        /\ clients' = IF x.of = Idp THEN [s \in Services |-> {}] ELSE clients
        /\ UNCHANGED <<offered, prefs, job, before, doubled, quadlet, caddyfile,
                       snippet, targets, sources, listed, running, cut, stranded, robbed>>
    BY DEF WriteRecord, At, Of, Val, Next1
  <1>2. x \in AllSteps /\ StepTyped(x) /\ S \in Services
    BY <1>1, HeadIs, StepsTyped
  <1>3. x.of \in Services /\ x.val \in Record
    BY <1>1, <1>2 DEF StepTyped, Orders
  <1>4. TypeOK
    BY DEF Inv, Typed
  <1>5. /\ x.of = S
        /\ \/ job.kind = "add" /\ S \in Native
           \/ job.kind = "add" /\ S \notin Native /\ WritesRecord
           \/ job.kind \in Updates /\ Installed(S)
    <2>1. job.kind \notin Removes
      BY <1>1, HeadIs DEF RemoveSteps, Finals
    <2>2. job.kind # "reset"
      BY <1>1, HeadIs DEF ResetSteps
    <2>3. ASSUME job.kind = "add"
          PROVE  x.of = S /\ (S \in Native \/ (S \notin Native /\ WritesRecord))
      <3>1. x.of = S
        BY <1>1, <2>3, HeadIs DEF NativeSteps, OwnStep, OwnQuadlet, OwnRecord, WireSteps, Files
      <3>2. ~WritesBoth
        BY <1>1 DEF WritesBoth, OwnQuadlet
      <3>3. ~Wires
        <4>1. x \in Left
          BY <1>1, PlanIs DEF Inv
        <4> QED
          BY <1>1, <4>1 DEF Wires, WireSteps, Files
      <3> QED
        BY <2>3, <3>1, <3>2, <3>3 DEF Inv, AddInv
    <2>4. ASSUME job.kind \in Updates PROVE Installed(S) /\ x.of = S
      BY <1>1, <2>4, HeadIs DEF ConfigureSteps, Inv, UpdateInv
    <2> QED
      BY <1>1, <2>1, <2>2, <2>3, <2>4, HeadIs
  <1> HIDE DEF x
  <1>6. job.kind = "add" => Unmoved
    <2>1. \A t \in Services \ {S, Idp} : RouteOf(t)' = RouteOf(t)
      BY <1>1 DEF RouteOf
    <2>2. ASSUME job.kind = "add", NEW t \in Services \ {S} PROVE ClientOf(t)' = ClientOf(t)
      <3>1. CASE S = Idp
        <4>1. ClientOf(t) = {}
          BY <2>2, <3>1 DEF Inv, KeptInv, ClientsKept, ProvidersNew
        <4>2. ClientOf(t)' = {}
          BY <1>1, <1>5, <3>1 DEF ClientOf
        <4> QED
          BY <4>1, <4>2
      <3>2. CASE S # Idp
        BY <1>1, <1>5, <3>2 DEF ClientOf
      <3> QED
        BY <3>1, <3>2
    <2> QED
      BY <1>1, <2>1, <2>2 DEF Unmoved
  <1>7. \A t \in Services : /\ Installed(t) => Installed(t)'
                            /\ Installed(t)' /\ t # S => Installed(t)
    BY <1>1, <1>5 DEF Installed
  <1>8. TypeOK'
    <2>1. recorded' \subseteq home'
      BY <1>1, <1>4 DEF TypeOK
    <2>2. record' \in [Services -> Record] /\ home' \subseteq Services
      BY <1>1, <1>3, <1>4 DEF TypeOK
    <2>3. clients' = NoFile \/ clients' \in [Services -> SUBSET Urls]
      BY <1>1, <1>4 DEF TypeOK
    <2> QED
      BY <1>1, <1>4, <2>1, <2>2, <2>3 DEF TypeOK
  <1>9. Typed' /\ Left' \subseteq Left /\ S' = S /\ job' = job
    BY <1>1, <1>8, AdvanceTyped DEF Inv, Typed
  <1>10. Housed'
    BY <1>1, <1>3 DEF Inv, Housed
  <1>11. RemoveInv' /\ ResetInv'
    BY <1>5, <1>9 DEF RemoveInv, ResetInv, Removes, Updates
  <1>12. UpdateInv'
    <2> SUFFICES ASSUME job.kind \in Updates PROVE Installed(S)' /\ Left' \subseteq ConfigureSteps(S)'
      BY <1>9 DEF UpdateInv
    <2>1. Left \subseteq ConfigureSteps(S) /\ Installed(S)
      BY DEF Inv, UpdateInv
    <2>2. Installed(S)'
      BY <1>2, <1>7, <1>9, <2>1 DEF Installed
    <2>3. home \subseteq home'
      BY <1>1
    <2> QED
      BY <1>9, <2>1, <2>2, <2>3, UpdateStays
  <1>13. AddInv'
    <2> SUFFICES ASSUME job.kind = "add" PROVE AddInv'
      BY <1>9 DEF AddInv
    <2>1. CASE S \in Native
      <3>1. Left' \subseteq NativeSteps(S)
        BY <1>9, <2>1 DEF Inv, AddInv
      <3> QED
        BY <1>6, <1>9, <2>1, <3>1, NativeStays DEF AddInv
    <2>2. CASE S \notin Native
      <3>1. Left' \subseteq WireSteps(S) /\ quadlet[S].present
        BY <1>1, <1>5, <2>2 DEF WritesRecord, Left, Updates
      <3>2. Left' \subseteq WireSteps(S)'
        BY <1>6, <1>7, <1>9, <3>1, WireStays
      <3>3. Installed(S)'
        BY <1>1, <1>5, <1>9, <3>1 DEF Installed
      <3> QED
        BY <1>9, <2>2, <3>2, <3>3 DEF AddInv, Wires
    <2> QED
      BY <2>1, <2>2
  <1>14. SourceInv'
    <2> SUFFICES ASSUME Sound(Store)', Dash \in sources', Installed(Dash)', job.kind # "reset"
                 PROVE  Installed(Store)'
      BY <1>5, <1>9 DEF SourceInv, Removes, Updates
    <2>1. Sound(Store) /\ Dash \in sources
      BY <1>1 DEF Sound
    <2>2. S = Dash => Installed(Dash)
      BY <1>5, <2>1, ProvidersApart DEF Providers, WritesRecord, Unrecorded
    <2>3. Installed(Dash)
      BY <1>7, <2>2, ProvidersApart
    <2>4. Installed(Store)
      BY <1>5, <2>1, <2>3 DEF Inv, SourceInv, Removes, Updates
    <2> QED
      BY <1>7, <2>4, ProvidersApart
  <1>15. KeptInv'
    <2> SUFFICES ASSUME job.kind \in {"add", "cleanup"} PROVE KeptInv'
      BY <1>9 DEF KeptInv
    <2>1. job.kind = "add"
      BY <1>5 DEF Updates
    <2>2. S = Store => (Installed(Dash)' <=> Installed(Dash))
      BY <1>7, ProvidersApart
    <2>3. \A t \in Services \ {S} : record'[t] = record[t]
      BY <1>1, <1>4, <1>5 DEF TypeOK
    <2> QED
      BY <1>1, <1>6, <2>1, <2>2, <2>3, KeptStays
  <1> QED
    BY <1>9, <1>10, <1>11, <1>12, <1>13, <1>14, <1>15 DEF Inv

LEMMA NotNoFile == ASSUME NEW X, NEW f \in [Services -> X] PROVE f # NoFile
  BY ProvidersApart DEF NoFile

LEMMA SharedStep == ASSUME Inv, WriteShared PROVE Inv'
  <1> DEFINE x == Head(plan)
  <1>1. /\ plan # << >> /\ x.op \in {"caddyfile", "clients", "snippet", "target", "source"}
        /\ Next1 /\ plan' = Tail(plan)
        /\ caddyfile' = IF x.op = "caddyfile" THEN x.val ELSE caddyfile
        /\ clients' = IF x.op = "clients" THEN x.val ELSE clients
        /\ snippet' = IF x.op = "snippet" THEN x.val ELSE snippet
        /\ targets' = IF x.op = "target" THEN {t \in targets : t # x.of} \cup {t \in {x.of} : x.val}
                      ELSE targets
        /\ sources' = IF x.op = "source" THEN {d \in {x.of} : x.val} ELSE sources
        /\ UNCHANGED <<offered, prefs, job, before, doubled, home, record, recorded, quadlet,
                       listed, running, cut, stranded, robbed>>
    BY DEF WriteShared, At, Of, Val, Next1
  <1>2. x \in AllSteps /\ StepTyped(x) /\ S \in Services
    BY <1>1, HeadIs, StepsTyped
  <1>3. /\ x.op = "caddyfile" => x.val \in [Services -> Urls] /\ x.val # NoFile
        /\ x.op = "clients" => x.val \in [Services -> SUBSET Urls] /\ x.val # NoFile
        /\ x.op = "snippet" => x.val = TRUE
        /\ x.op = "target" => x.of \in Metrics /\ (x.val = TRUE \/ x.val = FALSE)
        /\ x.op = "source" => x.of = Dash /\ (x.val = TRUE \/ x.val = FALSE)
    BY <1>1, <1>2, NotNoFile DEF StepTyped, Orders
  <1>4. TypeOK
    BY DEF Inv, Typed
  <1>5. \/ job.kind = "add" /\ S \in Native /\ x \in NativeSteps(S) /\ x.op = "caddyfile"
        \/ job.kind = "add" /\ S \notin Native /\ Wires /\ x \in WireSteps(S)
        \/ job.kind \in Removes /\ x \in RemoveSteps(S)
        \/ job.kind \in Updates /\ x \in ConfigureSteps(S) /\ x.op \in {"caddyfile", "clients"}
    <2>1. job.kind # "reset"
      BY <1>1, HeadIs DEF ResetSteps
    <2>2. ASSUME job.kind = "add"
          PROVE  \/ S \in Native /\ x \in NativeSteps(S) /\ x.op = "caddyfile"
                 \/ S \notin Native /\ Wires /\ x \in WireSteps(S)
      <3>1. CASE S \in Native
        BY <1>1, <2>2, <3>1, HeadIs DEF NativeSteps, OwnStep, OwnRecord, OwnQuadlet
      <3>2. CASE S \notin Native
        <4>1. ~WritesBoth /\ ~WritesRecord
          BY <1>1 DEF WritesBoth, WritesRecord, OwnQuadlet, OwnRecord
        <4>2. Wires
          BY <2>2, <3>2, <4>1 DEF Inv, AddInv
        <4> QED
          BY <1>1, <3>2, <4>2, PlanIs DEF Wires, Inv
      <3> QED
        BY <3>1, <3>2
    <2>3. ASSUME job.kind \in Updates PROVE x \in ConfigureSteps(S) /\ x.op \in {"caddyfile", "clients"}
      BY <1>1, <2>3, HeadIs DEF ConfigureSteps
    <2> QED
      BY <1>1, <2>1, <2>2, <2>3, HeadIs
  <1>6. Homed(x) /\ (job.kind \notin Updates => Keeps(x, S))
    BY <1>5 DEF NativeSteps, WireSteps, RemoveSteps, ConfigureSteps
  <1>7. x.op = "target" => \/ job.kind = "add" /\ Installed(S) /\ S = Store
                           \/ job.kind = "add" /\ Store \in home /\ x.of = S
                           \/ job.kind \in Removes /\ S # Store /\ x.of = S /\ x.val = FALSE
    BY <1>5 DEF WireSteps, RemoveSteps, Wires
  <1>8. x.op = "source" =>
          \/ job.kind = "add" /\ x.val = TRUE /\ S = Dash /\ Installed(Dash) /\ Installed(Store)
          \/ job.kind = "add" /\ x.val = TRUE /\ S = Store /\ Installed(Dash) /\ Installed(Store)
          \/ job.kind \in Removes /\ x.val = FALSE /\ S = Store /\ Installed(Dash)
    BY <1>5 DEF WireSteps, RemoveSteps, Wires
  <1>9. /\ Left = {x} \cup ToSet(Tail(plan)) /\ Left' = ToSet(Tail(plan))
    BY <1>1, PlanIs DEF Inv, Left
  <1> HIDE DEF x
  <1>10. job.kind \notin Updates => Unmoved
    <2> SUFFICES ASSUME Keeps(x, S) PROVE Unmoved
      BY <1>6
    <2>1. \A t \in Services \ {S, Idp} : RouteOf(t)' = RouteOf(t)
      BY <1>1, <1>3 DEF Keeps, RouteOf
    <2>2. \A t \in Services \ {S} : ClientOf(t)' = ClientOf(t)
      BY <1>1, <1>3 DEF Keeps, ClientOf
    <2> QED
      BY <1>1, <2>1, <2>2 DEF Unmoved
  <1>11. \A t \in Services : Installed(t)' <=> Installed(t)
    BY <1>1 DEF Installed
  <1>12. TypeOK'
    <2>1. /\ caddyfile' = NoFile \/ caddyfile' \in [Services -> Urls]
          /\ clients' = NoFile \/ clients' \in [Services -> SUBSET Urls]
          /\ snippet' \in BOOLEAN
      BY <1>1, <1>3, <1>4 DEF TypeOK
    <2>2. targets' \subseteq Metrics /\ sources' \subseteq {Dash}
      BY <1>1, <1>3, <1>4 DEF TypeOK
    <2> QED
      BY <1>1, <1>4, <2>1, <2>2 DEF TypeOK
  <1>13. Typed' /\ Left' \subseteq Left /\ S' = S /\ job' = job
    BY <1>1, <1>12, AdvanceTyped DEF Inv, Typed
  <1>14. Housed'
    <2>1. caddyfile' # NoFile => Proxy \in home
      BY <1>1, <1>6 DEF Homed, Inv, Housed
    <2>2. clients' # NoFile => Idp \in home
      BY <1>1, <1>6 DEF Homed, Inv, Housed
    <2>3. recorded \subseteq home
      BY <1>4 DEF TypeOK
    <2>4. targets' # {} => Store \in home
      <3>1. CASE x.op = "target"
        BY <1>1, <1>7, <2>3, <3>1 DEF Inv, Housed, Installed
      <3>2. CASE x.op # "target"
        BY <1>1, <3>2 DEF Inv, Housed
      <3> QED
        BY <3>1, <3>2
    <2>5. sources' # {} => Dash \in home
      BY <1>1, <1>8, <2>3 DEF Inv, Housed, Installed
    <2> QED
      BY <1>1, <2>1, <2>2, <2>4, <2>5 DEF Inv, Housed
  <1>15. RemoveInv'
    <2> SUFFICES ASSUME job.kind \in Removes PROVE RemoveInv'
      BY <1>13 DEF RemoveInv
    <2>1. S = Store /\ Installed(Dash) => Installed(Dash)'
      BY <1>11, ProvidersApart
    <2>2. x.op \notin Finals /\ x.op # "takedown"
      BY <1>1 DEF Finals
    <2>3. Unmoved
      BY <1>10 DEF Removes, Updates
    <2> QED
      BY <1>1, <1>13, <2>1, <2>2, <2>3, RemoveAdvances DEF x
  <1>16. ResetInv'
    BY <1>5, <1>13 DEF ResetInv, Removes, Updates
  <1>17. UpdateInv'
    BY <1>1, <1>2, <1>11, <1>13, UpdateAdvances
  <1>18. AddInv'
    <2> SUFFICES ASSUME job.kind = "add" PROVE AddInv'
      BY <1>13 DEF AddInv
    <2>1. S \in Native \/ Wires
      BY <1>5 DEF Removes, Updates
    <2>2. Unmoved
      BY <1>10 DEF Updates
    <2> QED
      BY <1>11, <1>13, <2>1, <2>2, WiringAdvances
  <1>19. x.op # "source" => (DropsSource <=> DropsSource')
    BY <1>9 DEF DropsSource, Step
  <1>20. SourceInv'
    <2> SUFFICES ASSUME Sound(Store)', Dash \in sources', Installed(Dash)', job.kind # "reset"
                 PROVE  IF job.kind \in Removes /\ S = Store THEN DropsSource'
                        ELSE Installed(Store)'
      BY <1>13 DEF SourceInv
    <2>1. Sound(Store) /\ Installed(Dash)
      BY <1>1, <1>11, ProvidersApart DEF Sound
    <2>2. CASE x.op = "source"
      <3>1. job.kind = "add" /\ Installed(Store)
        BY <1>1, <1>8, <2>2
      <3> QED
        BY <1>11, <3>1, ProvidersApart DEF Removes
    <2>3. CASE x.op # "source"
      <3>1. Dash \in sources
        BY <1>1, <2>3
      <3> QED
        BY <1>11, <1>19, <2>1, <2>3, <3>1, ProvidersApart DEF Inv, SourceInv
    <2> QED
      BY <2>2, <2>3
  <1>21. KeptInv'
    <2> SUFFICES ASSUME job.kind \in {"add", "cleanup"} PROVE KeptInv'
      BY <1>13 DEF KeptInv
    <2>1. Unmoved
      BY <1>10 DEF Updates
    <2>2. S # Store => targets' \ {S} = targets \ {S}
      BY <1>1, <1>7
    <2>3. CASE x.op # "source"
      <3>1. S = Store => (Installed(Dash)' <=> Installed(Dash))
        BY <1>11, ProvidersApart
      <3> QED
        BY <1>1, <1>13, <1>19, <2>1, <2>2, <2>3, <3>1, KeptStays
    <2>4. CASE x.op = "source"
      <3>1. SourcesKept /\ sources \subseteq {Dash}
        BY <1>4 DEF Inv, KeptInv, TypeOK
      <3>2. CASE S = Dash
        <4>1. sources' \ {S} = sources \ {S}
          BY <1>1, <1>3, <2>4, <3>1, <3>2
        <4> QED
          BY <1>1, <1>13, <2>1, <2>2, <3>1, <3>2, <4>1, KeptWith, ProvidersApart DEF SourcesKept
      <3>3. CASE S = Store /\ job.kind = "add"
        <4>1. Installed(Dash)' /\ Installed(Dash)
          BY <1>8, <1>11, <2>4, <3>3, ProvidersApart
        <4>2. SourcesKept'
          BY <1>1, <1>13, <3>1, <3>3, <4>1 DEF SourcesKept, Sound
        <4> QED
          BY <1>1, <1>13, <2>1, <2>2, <4>2, KeptWith
      <3>4. CASE S = Store /\ job.kind = "cleanup"
        <4>1. Installed(Dash) /\ sources' = {}
          BY <1>1, <1>8, <2>4, <3>4
        <4>2. SourcesKept'
          BY <1>1, <1>13, <3>1, <3>4, <4>1 DEF SourcesKept, Sound
        <4> QED
          BY <1>1, <1>13, <2>1, <2>2, <4>2, KeptWith
      <3> QED
        BY <1>8, <2>4, <3>2, <3>3, <3>4
    <2> QED
      BY <2>3, <2>4
  <1> QED
    BY <1>13, <1>14, <1>15, <1>16, <1>17, <1>18, <1>20, <1>21 DEF Inv

\* A step that moves nothing the invariant speaks of but its own plan.
LEMMA QuietStep ==
    ASSUME Inv, plan # << >>, Next1, Head(plan).op \in {"manifest", "start", "restart"},
           Typed', Housed', Unmoved,
           UNCHANGED <<home, record, recorded, quadlet, targets, sources, cut, robbed, before>>
    PROVE  Inv'
  <1> DEFINE x == Head(plan)
  <1>1. x.op \in {"manifest", "start", "restart"} /\ plan' = Tail(plan) /\ job' = job
    BY DEF Next1
  <1>2. Left = {x} \cup ToSet(Tail(plan)) /\ Left' = ToSet(Tail(plan)) /\ Left' \subseteq Left
    BY <1>1, PlanIs DEF Inv, Left
  <1>3. job.kind # "reset"
    BY HeadIs DEF ResetSteps
  <1>4. job.kind = "add" => S \in Native \/ Wires
    BY DEF Inv, AddInv, WritesBoth, WritesRecord, OwnQuadlet, OwnRecord
  <1>5. x.op \notin Finals /\ x.op # "takedown"
    BY <1>1 DEF Finals
  <1> HIDE DEF x
  <1>6. S' = S /\ \A t \in Services : Installed(t)' <=> Installed(t)
    BY <1>1 DEF Installed, S
  <1>7. S \in Services
    BY DEF Inv, Typed, S
  <1>8. RemoveInv'
    <2> SUFFICES ASSUME job.kind \in Removes PROVE RemoveInv'
      BY <1>1 DEF RemoveInv
    <2>1. S = Store /\ Installed(Dash) => Installed(Dash)'
      BY <1>6, ProvidersApart
    <2> QED
      BY <1>1, <1>5, <2>1, RemoveAdvances DEF x
  <1>9. ResetInv'
    BY <1>1, <1>3 DEF ResetInv
  <1>10. UpdateInv'
    BY <1>1, <1>2, <1>6, <1>7, UpdateAdvances
  <1>11. AddInv'
    <2> SUFFICES ASSUME job.kind = "add" PROVE AddInv'
      BY <1>1 DEF AddInv
    <2> QED
      BY <1>1, <1>2, <1>4, <1>6, WiringAdvances
  <1>12. DropsSource <=> DropsSource'
    BY <1>1, <1>2 DEF DropsSource, Step
  <1>13. SourceInv'
    BY <1>1, <1>6, <1>12, ProvidersApart DEF Inv, SourceInv, Sound
  <1>14. KeptInv'
    <2>1. S = Store => (Installed(Dash)' <=> Installed(Dash))
      BY <1>6, ProvidersApart
    <2> QED
      BY <1>1, <1>12, <2>1, KeptStays
  <1> QED
    BY <1>8, <1>9, <1>10, <1>11, <1>13, <1>14 DEF Inv

LEMMA ManifestStep == ASSUME Inv, WriteManifest PROVE Inv'
  <1> DEFINE x == Head(plan)
  <1>1. /\ plan # << >> /\ x.op = "manifest" /\ Next1
        /\ listed' = [listed EXCEPT ![x.of] = x.val]
        /\ UNCHANGED <<offered, before, doubled, home, record, recorded, quadlet, caddyfile, clients,
                       snippet, targets, sources, running, cut, stranded, robbed>>
    BY DEF WriteManifest, At, Of, Val, Next1
  <1>2. StepTyped(x)
    BY <1>1, HeadIs, StepsTyped
  <1>3. x.of \in Services /\ x.val \in SUBSET (Files \X Services) /\ Listable(x.val, x.of)
    BY <1>1, <1>2 DEF StepTyped, Orders, Manifests
  <1>4. TypeOK /\ \A s \in Services : Listable(listed[s], s)
    BY DEF Inv, Typed
  <1> HIDE DEF x
  <1>5. listed' \in [Services -> SUBSET (Files \X Services)] /\ \A s \in Services : Listable(listed'[s], s)
    BY <1>1, <1>3, <1>4, FilesTyped
  <1>6. TypeOK'
    BY <1>1, <1>4, <1>5 DEF TypeOK
  <1>7. Typed'
    BY <1>1, <1>5, <1>6, AdvanceTyped
  <1>8. Housed'
    BY <1>1 DEF Inv, Housed
  <1>9. Unmoved
    BY <1>1 DEF Unmoved, RouteOf, ClientOf
  <1> QED
    BY <1>1, <1>7, <1>8, <1>9, QuietStep DEF x

LEMMA RoutesAreNone == NoRoutes \in [Services -> Urls] /\ \A t \in Services : NoRoutes[t] = "none"
  BY DEF NoRoutes, Urls

LEMMA StartStep == ASSUME Inv, Start PROVE Inv'
  <1> DEFINE x == Head(plan)
  <1>1. /\ plan # << >> /\ x.op \in {"manifest", "start", "restart"} /\ Next1 /\ Startable(x.of)
        /\ running' = [running EXCEPT ![x.of] = quadlet[x.of]]
        /\ caddyfile' = IF x.of = Proxy /\ caddyfile = NoFile THEN NoRoutes ELSE caddyfile
        /\ stranded' = stranded \ {x.of}
        /\ UNCHANGED <<offered, before, doubled, home, record, recorded, quadlet, clients,
                       snippet, targets, sources, listed, cut, robbed>>
    BY DEF Start, At, Of, Val, Next1
  <1>2. x.of \in Services
    BY <1>1, HeadIs, StepsTyped
  <1>3. TypeOK /\ \A s \in Services : Listable(listed[s], s)
    BY DEF Inv, Typed
  <1> HIDE DEF x
  <1>4. caddyfile' = NoFile \/ caddyfile' \in [Services -> Urls]
    BY <1>1, <1>3, RoutesAreNone DEF TypeOK
  <1>5. running' \in [Services -> Networks] /\ stranded' \subseteq Services
    BY <1>1, <1>2, <1>3 DEF TypeOK
  <1>6. TypeOK'
    BY <1>1, <1>3, <1>4, <1>5 DEF TypeOK
  <1>7. Typed'
    BY <1>1, <1>3, <1>6, AdvanceTyped
  <1>8. Housed'
    <2>1. caddyfile' # NoFile => Proxy \in home
      BY <1>1, ProvidersApart DEF Inv, Housed, Startable, Providers
    <2> QED
      BY <1>1, <2>1 DEF Inv, Housed
  <1>9. Unmoved
    <2>1. \A t \in Services : RouteOf(t)' = RouteOf(t)
      BY <1>1, RoutesAreNone, NotNoFile DEF RouteOf
    <2> QED
      BY <1>1, <2>1 DEF Unmoved, ClientOf
  <1> QED
    BY <1>1, <1>7, <1>8, <1>9, QuietStep DEF x

LEMMA TakeDownStep == ASSUME Inv, TakeDown PROVE Inv'
  <1> DEFINE x == Head(plan)
  <1>1. /\ plan # << >> /\ x.op = "takedown" /\ Next1 /\ plan' = Tail(plan) /\ job' = job
        /\ running' = [running EXCEPT ![x.of] = Off]
        /\ quadlet' = [quadlet EXCEPT ![x.of] = NoQuadlet]
        /\ stranded' = (stranded \cup {t \in Services : x.of \in quadlet[t].networks}) \ {x.of}
        /\ UNCHANGED <<offered, before, doubled, home, record, recorded, caddyfile, clients,
                       snippet, targets, sources, listed, cut, robbed>>
    BY DEF TakeDown, At, Of, Val, Next1
  <1>2. x \in AllSteps /\ x.of \in Services /\ S \in Services
    BY <1>1, HeadIs, StepsTyped
  <1>3. TypeOK /\ \A s \in Services : Listable(listed[s], s)
    BY DEF Inv, Typed
  <1>4. (job.kind \in Removes /\ x.of = S) \/ job.kind = "reset"
    <2>1. job.kind # "add"
      BY <1>1, HeadIs DEF NativeSteps, OwnStep, OwnQuadlet, OwnRecord, WireSteps, Files
    <2>2. job.kind \notin Updates
      BY <1>1, HeadIs DEF ConfigureSteps
    <2>3. job.kind \in Removes => x.of = S
      BY <1>1, HeadIs DEF RemoveSteps
    <2> QED
      BY <1>1, <2>1, <2>2, <2>3, HeadIs
  <1>5. Left = {x} \cup ToSet(Tail(plan)) /\ Left' = ToSet(Tail(plan)) /\ Left' \subseteq Left
    BY <1>1, PlanIs DEF Inv, Left
  <1> HIDE DEF x
  <1>6. /\ quadlet' \in [Services -> Networks] /\ running' \in [Services -> Networks]
        /\ stranded' \subseteq Services
    BY <1>1, <1>2, <1>3 DEF TypeOK, NoQuadlet, Off, Networks
  <1>7. /\ ~quadlet'[x.of].present
        /\ \A t \in Services : t # x.of => quadlet'[t] = quadlet[t]
    BY <1>1, <1>2, <1>3 DEF TypeOK, NoQuadlet
  <1>8. TypeOK'
    BY <1>1, <1>3, <1>6 DEF TypeOK
  <1>9. Typed' /\ S' = S
    BY <1>1, <1>3, <1>8, AdvanceTyped
  <1>10. Housed'
    BY <1>1, <1>7 DEF Inv, Housed
  <1>11. Unmoved
    BY <1>1 DEF Unmoved, RouteOf, ClientOf
  <1>12. /\ \A t \in Services : Installed(t)' => Installed(t)
         /\ \A t \in Services : t # x.of /\ Installed(t) => Installed(t)'
    BY <1>1, <1>7 DEF Installed
  <1>13. RemoveInv'
    <2> SUFFICES ASSUME job.kind \in Removes PROVE RemoveInv'
      BY <1>1 DEF RemoveInv
    <2>1. x.of = S
      BY <1>4 DEF Removes
    <2>2. S = Store /\ Installed(Dash) => Installed(Dash)'
      BY <1>12, <2>1, ProvidersApart
    <2>3. ~quadlet'[S].present /\ x.op \notin Finals
      BY <1>1, <1>7, <2>1 DEF Finals
    <2> QED
      BY <1>1, <1>11, <2>2, <2>3, RemoveAdvances DEF x
  <1>14. ResetInv'
    <2> SUFFICES ASSUME job.kind = "reset" PROVE ResetInv'
      BY <1>1 DEF ResetInv
    <2>1. /\ Left \subseteq ResetSteps /\ EndsWith(plan, {"wipe"}) /\ plan \in Seq(AllSteps)
          /\ \A t \in Services \ Native : quadlet[t].present => Step("takedown", t, {}) \in Left
      BY DEF Inv, ResetInv, Typed
    <2>2. EndsWith(plan', {"wipe"}) /\ plan' # << >>
      BY <1>1, <2>1, EndsTail DEF x
    <2>3. ASSUME NEW t \in Services \ Native, quadlet'[t].present PROVE Step("takedown", t, {}) \in Left'
      <3>1. t # x.of /\ quadlet[t].present
        BY <1>7, <2>3
      <3>2. Step("takedown", t, {}) \in Left /\ Step("takedown", t, {}) # x
        BY <2>1, <3>1 DEF Step
      <3> QED
        BY <1>5, <3>2
    <2>4. Left' \subseteq ResetSteps'
      BY <1>5, <2>1 DEF ResetSteps
    <2> QED
      BY <2>2, <2>3, <2>4 DEF ResetInv
  <1>15. UpdateInv' /\ AddInv'
    BY <1>1, <1>4 DEF UpdateInv, AddInv, Removes, Updates
  <1>16. DropsSource <=> DropsSource'
    BY <1>1, <1>5 DEF DropsSource, Step
  <1>17. SourceInv'
    <2> SUFFICES ASSUME Sound(Store)', Dash \in sources', Installed(Dash)', job.kind # "reset"
                 PROVE  IF job.kind \in Removes /\ S = Store THEN DropsSource'
                        ELSE Installed(Store)'
      BY <1>1, <1>9 DEF SourceInv
    <2>1. Sound(Store) /\ Installed(Dash) /\ Dash \in sources
      BY <1>1, <1>12, ProvidersApart DEF Sound
    <2>2. IF job.kind \in Removes /\ S = Store THEN DropsSource ELSE Installed(Store)
      BY <2>1 DEF Inv, SourceInv
    <2> QED
      BY <1>4, <1>12, <1>16, <2>2, ProvidersApart
  <1>18. KeptInv'
    <2> SUFFICES ASSUME job.kind \in {"add", "cleanup"} PROVE KeptInv'
      BY <1>1 DEF KeptInv
    <2>1. S = Store => (Installed(Dash)' <=> Installed(Dash))
      BY <1>4, <1>12, ProvidersApart
    <2> QED
      BY <1>1, <1>11, <1>16, <2>1, KeptStays
  <1> QED
    BY <1>9, <1>10, <1>13, <1>14, <1>15, <1>17, <1>18 DEF Inv

LEMMA DropStep == ASSUME Inv, DropFile PROVE Inv'
  <1> DEFINE x == Head(plan)
             file == x.val[1]
             t == x.val[2]
  <1>1. /\ plan # << >> /\ x.op = "drop" /\ Next1 /\ plan' = Tail(plan) /\ job' = job
        /\ quadlet' = IF file = "quadlet" THEN [quadlet EXCEPT ![t] = NoQuadlet] ELSE quadlet
        /\ caddyfile' = IF file = "caddyfile" THEN NoFile ELSE caddyfile
        /\ clients' = IF file = "clients" THEN NoFile ELSE clients
        /\ snippet' = (snippet /\ file # "snippet")
        /\ targets' = IF file = "target" THEN targets \ {t} ELSE targets
        /\ sources' = IF file = "source" THEN {} ELSE sources
        /\ robbed' = robbed \cup {t}
             \cup (IF file = "clients" THEN {s \in Services : clients # NoFile /\ clients[s] # {}}
                   ELSE {})
        /\ stranded' = IF file = "quadlet"
                       THEN stranded \cup {s \in Services : t \in quadlet[s].networks}
                       ELSE stranded
        /\ UNCHANGED <<offered, before, doubled, home, record, recorded, listed, running, cut>>
    BY DEF DropFile, At, Val, Next1
  <1>2. x \in AllSteps /\ StepTyped(x) /\ S \in Services
    BY <1>1, HeadIs, StepsTyped
  <1>3. x.val \in Files \X Services
    BY <1>1, <1>2 DEF StepTyped, Orders
  <1>4. t \in Services /\ x.val = <<file, t>>
    BY <1>3
  <1>5. TypeOK /\ \A s \in Services : Listable(listed[s], s)
    BY DEF Inv, Typed
  <1>6. job.kind \in Updates /\ (file = "quadlet" => t # S)
    <2>1. job.kind # "add"
      BY <1>1, HeadIs DEF NativeSteps, OwnStep, OwnQuadlet, OwnRecord, WireSteps, Files
    <2>2. job.kind \notin Removes /\ job.kind # "reset"
      BY <1>1, HeadIs DEF RemoveSteps, ResetSteps, Finals
    <2>3. job.kind \in Updates => x \in ConfigureSteps(S)
      BY <1>1, HeadIs
    <2> QED
      BY <1>1, <1>4, <2>1, <2>2, <2>3, HeadIs DEF ConfigureSteps
  <1> HIDE DEF x, file, t
  <1>7. \A s \in Services : quadlet'[s] = quadlet[s] \/ (s = t /\ file = "quadlet" /\ ~quadlet'[s].present)
    BY <1>1, <1>4, <1>5 DEF TypeOK, NoQuadlet
  <1>8. TypeOK'
    <2>1. quadlet' \in [Services -> Networks]
      BY <1>1, <1>4, <1>5 DEF TypeOK, Networks, NoQuadlet
    <2>2. /\ caddyfile' = NoFile \/ caddyfile' \in [Services -> Urls]
          /\ clients' = NoFile \/ clients' \in [Services -> SUBSET Urls]
          /\ snippet' \in BOOLEAN
      BY <1>1, <1>5 DEF TypeOK
    <2>3. targets' \subseteq Metrics /\ sources' \subseteq {Dash}
      BY <1>1, <1>5 DEF TypeOK
    <2>4. robbed' \subseteq Services /\ stranded' \subseteq Services
      BY <1>1, <1>4, <1>5 DEF TypeOK
    <2> QED
      BY <1>1, <1>5, <2>1, <2>2, <2>3, <2>4 DEF TypeOK
  <1>9. Typed' /\ S' = S /\ Left' \subseteq Left
    BY <1>1, <1>5, <1>8, AdvanceTyped
  <1>10. Housed'
    BY <1>1, <1>7 DEF Inv, Housed
  <1>11. /\ \A s \in Services : Installed(s)' => Installed(s)
         /\ \A s \in Services : Installed(s) /\ (s # t \/ file # "quadlet") => Installed(s)'
    BY <1>1, <1>7 DEF Installed
  <1>12. RemoveInv' /\ ResetInv' /\ AddInv' /\ KeptInv'
    BY <1>1, <1>6 DEF RemoveInv, ResetInv, AddInv, KeptInv, Removes, Updates
  <1>13. UpdateInv'
    BY <1>1, <1>2, <1>6, <1>9, <1>11, UpdateAdvances
  <1>14. SourceInv'
    <2> SUFFICES ASSUME Sound(Store)', Dash \in sources', Installed(Dash)' PROVE Installed(Store)'
      BY <1>1, <1>6 DEF SourceInv, Removes, Updates
    <2>1. Sound(Store) /\ Installed(Dash) /\ Dash \in sources /\ Store # t
      BY <1>1, <1>4, <1>11, ProvidersApart DEF Sound
    <2>2. Installed(Store)
      BY <1>6, <2>1 DEF Inv, SourceInv, Removes, Updates
    <2> QED
      BY <1>11, <2>1, <2>2, ProvidersApart
  <1> QED
    BY <1>9, <1>10, <1>12, <1>13, <1>14 DEF Inv

LEMMA ClearHomeStep == ASSUME Inv, ClearHome PROVE Inv'
  <1> DEFINE x == Head(plan)
             keep == x.op = "preserve"
             data(file) == keep /\ ~\E f \in listed[x.of] : f[1] = file
  <1>1. /\ plan # << >> /\ x.op \in Finals /\ Next1 /\ plan' = Tail(plan) /\ job' = job
        /\ home' = IF keep THEN home ELSE home \ {x.of}
        /\ recorded' = IF keep /\ x.of \in Native THEN recorded ELSE recorded \ {x.of}
        /\ record' = IF keep /\ x.of \in Native THEN record ELSE [record EXCEPT ![x.of] = Nothing]
        /\ caddyfile' = IF x.of = Proxy THEN NoFile ELSE caddyfile
        /\ snippet' = (snippet /\ x.of # Proxy)
        /\ clients' = IF x.of = Idp THEN NoFile ELSE clients
        /\ targets' = IF x.of = Store /\ ~data("target") THEN {} ELSE targets
        /\ sources' = IF x.of = Dash /\ ~data("source") THEN {} ELSE sources
        /\ listed' = [listed EXCEPT ![x.of] = {}]
        /\ UNCHANGED <<offered, before, doubled, quadlet, running, cut, stranded, robbed>>
    BY DEF ClearHome, At, Of, Next1, Finals
  <1>2. x \in AllSteps /\ S \in Services
    BY <1>1, HeadIs, StepsTyped
  <1>3. job.kind \in Removes /\ x.of = S
    <2>1. job.kind # "add" /\ job.kind \notin Updates /\ job.kind # "reset"
      BY <1>1, HeadIs DEF NativeSteps, OwnStep, OwnQuadlet, OwnRecord, WireSteps, ConfigureSteps,
                          ResetSteps, Files, Finals
    <2>2. job.kind \in Removes => x.of = S
      BY <1>1, HeadIs DEF RemoveSteps
    <2> QED
      BY <1>1, <2>1, <2>2, HeadIs
  <1>4. TypeOK /\ \A s \in Services : Listable(listed[s], s)
    BY DEF Inv, Typed
  <1>5. /\ Left = {x} \cup ToSet(Tail(plan)) /\ Left' = ToSet(Tail(plan)) /\ plan \in Seq(AllSteps)
        /\ EndsWith(plan, Finals)
        /\ job.kind # "remove" => x.op # "preserve"
        /\ ~quadlet[S].present \/ (S \in Native /\ job.kind # "cleanup")
    <2>1. /\ EndsWith(plan, Finals)
          /\ job.kind # "remove" => \A y \in Left : y.op # "preserve"
          /\ \/ ~quadlet[S].present
             \/ plan # << >> /\ x = Step("takedown", S, {})
             \/ S \in Native /\ job.kind # "cleanup"
      BY <1>3 DEF Inv, RemoveInv
    <2>2. x # Step("takedown", S, {})
      BY <1>1 DEF Step, Finals
    <2>3. Left = {x} \cup ToSet(Tail(plan)) /\ plan \in Seq(AllSteps)
      BY <1>1, PlanIs DEF Inv, Typed
    <2> QED
      BY <1>1, <2>1, <2>2, <2>3 DEF Left
  <1>6. plan' = << >> /\ EndsWith(plan', Finals)
    BY <1>1, <1>5, EndsTail
  <1>7. Left' = {} /\ Left = {x}
    BY <1>1, <1>5, <1>6, EmptyIs
  <1> HIDE DEF x, keep, data
  <1>8. keep => ~data("target") \/ home' = home
    BY <1>1
  <1>9. /\ home' \subseteq home /\ recorded' \subseteq recorded /\ recorded' \subseteq home'
        /\ \A t \in Services \ {S} : /\ t \in home' <=> t \in home
                                     /\ t \in recorded' <=> t \in recorded
                                     /\ record'[t] = record[t]
        /\ ~keep => S \notin home'
    BY <1>1, <1>3, <1>4 DEF TypeOK
  <1>10. TypeOK'
    <2>1. Nothing \in Record
      BY DEF Nothing, Record, Urls
    <2>2. record' \in [Services -> Record]
      BY <1>1, <1>4, <2>1 DEF TypeOK
    <2>3. listed' \in [Services -> SUBSET (Files \X Services)]
      BY <1>1, <1>4, FilesTyped
    <2>4. /\ caddyfile' = NoFile \/ caddyfile' \in [Services -> Urls]
          /\ clients' = NoFile \/ clients' \in [Services -> SUBSET Urls]
          /\ snippet' \in BOOLEAN
      BY <1>1, <1>4 DEF TypeOK
    <2>5. targets' \subseteq Metrics /\ sources' \subseteq {Dash} /\ home' \subseteq Services
      BY <1>1, <1>4 DEF TypeOK
    <2> QED
      BY <1>1, <1>4, <1>9, <2>2, <2>3, <2>4, <2>5 DEF TypeOK
  <1>11. Typed' /\ S' = S
    <2>1. \A s \in Services : Listable(listed'[s], s)
      BY <1>1, <1>4, FilesTyped DEF Listable
    <2> QED
      BY <1>1, <1>10, <2>1, AdvanceTyped
  <1>12. Housed'
    <2>1. \A t \in Services \ Native : quadlet'[t].present => t \in home'
      BY <1>1, <1>5, <1>9 DEF Inv, Housed
    <2>2. caddyfile' # NoFile => Proxy \in home'
      BY <1>1, <1>3, <1>9, ProvidersApart DEF Inv, Housed
    <2>3. clients' # NoFile => Idp \in home'
      BY <1>1, <1>3, <1>9, ProvidersApart DEF Inv, Housed
    <2>4. targets' # {} => Store \in home'
      BY <1>1, <1>3, <1>9, ProvidersApart DEF Inv, Housed, data
    <2>5. sources' # {} => Dash \in home'
      BY <1>1, <1>3, <1>9, ProvidersApart DEF Inv, Housed, data
    <2> QED
      BY <2>1, <2>2, <2>3, <2>4, <2>5 DEF Housed
  <1>13. RemoveInv'
    <2>1. job.kind # "remove" => S \notin home'
      BY <1>5, <1>9 DEF keep
    <2> QED
      BY <1>1, <1>5, <1>6, <1>7, <1>11, <2>1 DEF RemoveInv
  <1>14. ResetInv' /\ UpdateInv' /\ AddInv'
    BY <1>1, <1>3 DEF ResetInv, UpdateInv, AddInv, Removes, Updates
  <1>15. /\ \A t \in Services : Installed(t)' => Installed(t)
         /\ \A t \in Services \ {S} : Installed(t)' <=> Installed(t)
    BY <1>1, <1>9 DEF Installed
  <1>16. ~DropsSource
    BY <1>1, <1>7 DEF DropsSource, Step, Finals
  <1>17. SourceInv'
    <2> SUFFICES ASSUME Sound(Store)', Dash \in sources', Installed(Dash)'
                 PROVE  S # Store /\ Installed(Store)'
      BY <1>11 DEF SourceInv
    <2>1. Sound(Store) /\ Installed(Dash) /\ Dash \in sources
      BY <1>1, <1>15, ProvidersApart DEF Sound
    <2>2. IF S = Store THEN DropsSource ELSE Installed(Store)
      BY <1>3, <2>1 DEF Inv, SourceInv, Removes
    <2> QED
      BY <1>15, <1>16, <2>2, ProvidersApart
  <1>18. KeptInv'
    <2> SUFFICES ASSUME job.kind = "cleanup" PROVE KeptInv'
      BY <1>1, <1>3 DEF KeptInv, Removes
    <2>1. BeforeTyped /\ RoutesKept /\ ClientsKept /\ RecordsKept /\ ProvidersNew /\ TargetsKept /\ SourcesKept
      BY DEF Inv, KeptInv
    <2>2. RoutesKept' /\ ClientsKept'
      BY <1>1, <1>3, <1>11, <2>1 DEF RoutesKept, ClientsKept, ProvidersNew, RouteOf, ClientOf
    <2>3. RecordsKept' /\ BeforeTyped' /\ ProvidersNew'
      BY <1>1, <1>9, <1>11, <2>1 DEF RecordsKept, BeforeTyped, ProvidersNew
    <2>4. TargetsKept'
      BY <1>1, <1>3, <1>11, <2>1 DEF TargetsKept
    <2>5. SourcesKept'
      <3>1. CASE S = Store
        <4>1. sources' = sources
          BY <1>1, <1>3, <3>1, ProvidersApart
        <4>2. Installed(Dash)' => Installed(Dash)
          BY <1>15, ProvidersApart
        <4> QED
          BY <1>1, <1>11, <1>16, <2>1, <3>1, <4>1, <4>2 DEF SourcesKept, Sound
      <3>2. CASE S # Store
        <4>1. sources' \ {S} = sources \ {S}
          BY <1>1, <1>3, <1>4 DEF TypeOK
        <4> QED
          BY <1>1, <1>11, <2>1, <3>2, <4>1 DEF SourcesKept
      <3> QED
        BY <3>1, <3>2
    <2> QED
      BY <2>2, <2>3, <2>4, <2>5 DEF KeptInv
  <1> QED
    BY <1>11, <1>12, <1>13, <1>14, <1>17, <1>18 DEF Inv

LEMMA WipeStep == ASSUME Inv, Wipe PROVE Inv'
  <1>1. /\ plan # << >> /\ Head(plan).op = "wipe" /\ Next1 /\ plan' = Tail(plan) /\ job' = job
        /\ home' = {} /\ recorded' = {} /\ record' = [s \in Services |-> Nothing]
        /\ caddyfile' = NoFile /\ clients' = NoFile /\ snippet' = FALSE
        /\ targets' = {} /\ sources' = {} /\ listed' = [s \in Services |-> {}]
        /\ UNCHANGED <<offered, before, doubled, quadlet, running, cut, stranded, robbed>>
    BY DEF Wipe, At, Next1
  <1>2. TypeOK
    BY DEF Inv, Typed
  <1>3. job.kind = "reset"
    <2>1. job.kind # "add" /\ job.kind \notin Updates /\ job.kind \notin Removes
      BY <1>1, HeadIs DEF NativeSteps, OwnStep, OwnQuadlet, OwnRecord, WireSteps, ConfigureSteps,
                          RemoveSteps, Files, Finals
    <2> QED
      BY <1>1, <2>1, HeadIs
  <1>4. /\ EndsWith(plan, {"wipe"}) /\ plan \in Seq(AllSteps)
        /\ \A t \in Services \ Native : quadlet[t].present => Step("takedown", t, {}) \in Left
    BY <1>3 DEF Inv, ResetInv, Typed
  <1>5. plan' = << >> /\ EndsWith(plan', {"wipe"})
    BY <1>1, <1>4, EndsTail
  <1>6. Left' = {} /\ Left = {Head(plan)}
    <2>1. Left = {Head(plan)} \cup ToSet(Tail(plan))
      BY <1>1, PlanIs DEF Inv
    <2> QED
      BY <1>1, <1>5, <2>1, EmptyIs DEF Left
  <1>7. \A t \in Services \ Native : ~quadlet[t].present
    <2> DEFINE y == Head(plan)
    <2>1. y.op # "takedown" /\ Left = {y}
      BY <1>1, <1>6
    <2> HIDE DEF y
    <2>2. \A t \in Services : Step("takedown", t, {}).op = "takedown"
      BY DEF Step
    <2> QED
      BY <1>4, <2>1, <2>2
  <1>8. TypeOK'
    <2>1. Nothing \in Record
      BY DEF Nothing, Record, Urls
    <2> QED
      BY <1>1, <1>2, <2>1 DEF TypeOK
  <1>9. Typed'
    BY <1>1, <1>8, AdvanceTyped DEF Listable
  <1>10. Housed'
    BY <1>1, <1>7 DEF Housed
  <1>11. RemoveInv' /\ UpdateInv' /\ AddInv' /\ SourceInv' /\ KeptInv'
    BY <1>1, <1>3 DEF RemoveInv, UpdateInv, AddInv, SourceInv, KeptInv, Removes, Updates
  <1>12. ResetInv'
    BY <1>1, <1>5, <1>6, <1>7 DEF ResetInv
  <1> QED
    BY <1>9, <1>10, <1>11, <1>12 DEF Inv

(***************************************************************************)
(* Each command begins with a plan of its kind.                            *)
(***************************************************************************)
LEMMA TwoFirst ==
    ASSUME NEW X, NEW p \in Seq(X), NEW q \in Seq(X), Len(p) = Len(q) + 2,
           \A i \in 1 .. Len(q) : p[i + 2] = q[i]
    PROVE  /\ p # << >> /\ Head(p) = p[1]
           /\ Tail(p) # << >> /\ Head(Tail(p)) = p[2] /\ Tail(Tail(p)) = q
  <1> DEFINE t == Tail(p)
             u == Tail(t)
  <1>1. Len(q) \in Nat
    OBVIOUS
  <1>2. /\ p # << >> /\ Head(p) = p[1] /\ t \in Seq(X) /\ Len(t) = Len(q) + 1 /\ t[1] = p[2]
        /\ \A i \in 1 .. Len(q) : t[i + 1] = q[i]
    BY <1>1
  <1> HIDE DEF t
  <1>3. /\ t # << >> /\ Head(t) = p[2] /\ u \in Seq(X) /\ Len(u) = Len(q)
        /\ \A i \in 1 .. Len(q) : u[i] = q[i]
    BY <1>1, <1>2
  <1> HIDE DEF u
  <1>4. u = q
    BY <1>3
  <1> QED
    BY <1>2, <1>3, <1>4 DEF t, u

\* The files stay as they are while a command begins or ends.
LEMMA SameFiles ==
    ASSUME UNCHANGED files, NEW s, S' = s
    PROVE  /\ \A t : Installed(t)' <=> Installed(t)
           /\ NativeSteps(S)' = NativeSteps(s) /\ WireSteps(S)' = WireSteps(s)
           /\ RemoveSteps(S)' = RemoveSteps(s) /\ ConfigureSteps(S)' = ConfigureSteps(s)
           /\ \A t : RouteOf(t)' = RouteOf(t) /\ ClientOf(t)' = ClientOf(t)
           /\ Housed <=> Housed'
  <1>1. UNCHANGED <<home, record, recorded, quadlet, caddyfile, clients, targets, sources>>
    BY DEF files
  <1>2. \A t : Installed(t)' <=> Installed(t)
    BY <1>1 DEF Installed
  <1>3. \A t : RouteOf(t)' = RouteOf(t) /\ ClientOf(t)' = ClientOf(t)
    BY <1>1 DEF RouteOf, ClientOf
  <1>4. \A x : Homed(x)' <=> Homed(x)
    BY <1>1 DEF Homed
  <1>5. \A x : Keeps(x, S)' <=> Keeps(x, s)
    BY <1>3 DEF Keeps
  <1>6. NativeSteps(S)' = NativeSteps(s)
    BY <1>4, <1>5 DEF NativeSteps, OwnRecord, OwnQuadlet
  <1>7. WireSteps(S)' = WireSteps(s)
    BY <1>1, <1>2, <1>4, <1>5 DEF WireSteps
  <1>8. RemoveSteps(S)' = RemoveSteps(s)
    BY <1>2, <1>4, <1>5 DEF RemoveSteps
  <1>9. ConfigureSteps(S)' = ConfigureSteps(s)
    BY <1>4 DEF ConfigureSteps
  <1>10. Housed <=> Housed'
    BY <1>1 DEF Housed
  <1> QED
    BY <1>2, <1>3, <1>6, <1>7, <1>8, <1>9, <1>10

\* What leaves the files alone and keeps the types.
Framed == UNCHANGED <<offered, files, running, stranded>>

LEMMA FramedTyped ==
    ASSUME Inv, Framed, cut' \subseteq Services, robbed' \subseteq Services, doubled' \subseteq Services
    PROVE  TypeOK' /\ \A s \in Services : Listable(listed'[s], s)
  BY DEF Inv, Typed, TypeOK, Framed, files

LEMMA Begins ==
    ASSUME Inv, Framed, UNCHANGED <<cut, robbed>>,
           NEW kind \in {"add", "reset"} \cup Removes \cup Updates, NEW s \in Services,
           NEW r \in Record, NEW p \in Seq(AllSteps), Begin(kind, s, r, p),
           prefs' \in [auth : BOOLEAN, smtp : BOOLEAN]
    PROVE  /\ Typed' /\ Housed' /\ S' = s /\ Left' = ToSet(p) /\ plan' = p /\ job'.kind = kind
           /\ UNCHANGED files
  <1>1. job' = [kind |-> kind, service |-> s, request |-> r] /\ plan' = p
    BY DEF Begin
  <1>2. cut \subseteq Services /\ robbed \subseteq Services /\ doubled \subseteq Services
    BY DEF Inv, Typed, TypeOK
  <1>3. doubled' \subseteq Services
    BY <1>2 DEF Begin
  <1>4. TypeOK' /\ \A t \in Services : Listable(listed'[t], t)
    BY <1>2, <1>3, FramedTyped
  <1>5. S' = s /\ Left' = ToSet(p) /\ job'.kind = kind /\ UNCHANGED files
    BY <1>1 DEF S, Left, Framed
  <1>6. kind # "none"
    BY DEF Removes, Updates
  <1>7. Typed'
    BY <1>1, <1>4, <1>6 DEF Typed, Idle
  <1>8. Housed'
    BY <1>5, SameFiles DEF Inv
  <1> QED
    BY <1>1, <1>5, <1>7, <1>8

LEMMA SourceAtRest ==
    ASSUME Inv, plan = << >>, Sound(Store), Dash \in sources, Installed(Dash), job.kind # "reset"
    PROVE  Installed(Store)
  <1>1. ~DropsSource
    BY EmptyIs DEF DropsSource, Left
  <1> QED
    BY <1>1 DEF Inv, SourceInv

LEMMA AddBegins ==
    ASSUME Inv, plan = << >>, job.kind # "reset", NEW s \in Services, NEW r \in Record, s \notin home,
           CanAdd(s, r), PlanAdd(s, r), Framed, UNCHANGED <<cut, robbed>>
    PROVE  Inv'
  <1>1. TypeOK /\ Housed /\ recorded \subseteq home
    BY DEF Inv, Typed, TypeOK
  <1>2. /\ AddPlan(s, r) \in Seq(AllSteps)
        /\ s \in Native => ToSet(AddPlan(s, r)) \subseteq NativeSteps(s)
        /\ s \notin Native => LET p == AddPlan(s, r) IN
             /\ p # << >> /\ OwnQuadlet(Head(p), s)
             /\ Tail(p) # << >> /\ OwnRecord(Head(Tail(p)), s)
             /\ ToSet(Tail(Tail(p))) \subseteq WireSteps(s)
    <2>1. CASE s \in Native
      <3> DEFINE p == AddPlan(s, r)
      <3>1. p \in Seq(NativeSteps(s))
        BY <1>1, <2>1, NativeAddIs
      <3>2. NativeSteps(s) \subseteq AllSteps
        BY DEF NativeSteps
      <3> HIDE DEF p
      <3>3. p \in Seq(AllSteps) /\ ToSet(p) \subseteq NativeSteps(s)
        BY <3>1, <3>2, SeqMono DEF ToSet
      <3> QED
        BY <2>1, <3>3 DEF p
    <2>2. CASE s \notin Native
      <3> DEFINE a == Step("quadlet", s, ExtraNetworks(s, r))
                 b == Step("record", s, r)
                 own == <<a, b>>
                 p == AddPlan(s, r)
      <3>1. a \in AllSteps /\ b \in AllSteps /\ \E q \in Seq(WireSteps(s)) : p = own \o q
        BY <1>1, <2>2, PodmanAddIs
      <3>2. OwnQuadlet(a, s) /\ OwnRecord(b, s)
        BY DEF OwnQuadlet, OwnRecord, Step
      <3> HIDE DEF a, b, own, p
      <3>3. PICK q \in Seq(WireSteps(s)) : p = own \o q
        BY <3>1
      <3>4. q \in Seq(AllSteps) /\ ToSet(q) \subseteq WireSteps(s)
        <4>1. WireSteps(s) \subseteq AllSteps
          BY DEF WireSteps
        <4> QED
          BY <3>3, <4>1, SeqMono DEF ToSet
      <3>5. /\ p \in Seq(AllSteps) /\ p # << >> /\ Head(p) = a
            /\ Tail(p) # << >> /\ Head(Tail(p)) = b /\ Tail(Tail(p)) = q
        <4>1. /\ p \in Seq(AllSteps) /\ Len(p) = Len(q) + 2 /\ p[1] = a /\ p[2] = b
              /\ \A i \in 1 .. Len(q) : p[i + 2] = q[i]
          BY <3>1, <3>3, <3>4 DEF own
        <4> QED
          BY <3>4, <4>1, TwoFirst
      <3> QED
        BY <2>2, <3>2, <3>4, <3>5 DEF p
    <2> QED
      BY <2>1, <2>2
  <1>3. prefs' \in [auth : BOOLEAN, smtp : BOOLEAN]
    BY DEF PlanAdd, Inv, Typed
  <1> DEFINE p == AddPlan(s, r)
  <1>4. Begin("add", s, r, p) /\ before' = OthersWiring(s)
    BY DEF PlanAdd
  <1> HIDE DEF p
  <1>5. /\ Typed' /\ Housed' /\ S' = s /\ Left' = ToSet(p) /\ plan' = p /\ job'.kind = "add"
        /\ UNCHANGED files
    BY <1>2, <1>3, <1>4, Begins DEF p
  <1>6. UNCHANGED <<home, record, recorded, quadlet, caddyfile, clients, targets, sources>>
    BY <1>5 DEF files
  <1>7. RemoveInv' /\ ResetInv' /\ UpdateInv'
    BY <1>5 DEF RemoveInv, ResetInv, UpdateInv, Removes, Updates
  <1>8. AddInv'
    <2>1. CASE s \in Native
      <3>1. Left' \subseteq NativeSteps(S)'
        BY <1>2, <1>5, <2>1, SameFiles DEF p
      <3> QED
        BY <1>5, <2>1, <3>1 DEF AddInv
    <2>2. CASE s \notin Native
      <3>1. Unrecorded'
        BY <1>1, <1>5, <1>6 DEF Unrecorded, Housed
      <3>2. /\ plan' # << >> /\ OwnQuadlet(Head(plan'), s)
            /\ Tail(plan') # << >> /\ OwnRecord(Head(Tail(plan')), s)
            /\ ToSet(Tail(Tail(plan'))) \subseteq WireSteps(S)'
        BY <1>2, <1>5, <2>2, SameFiles DEF p
      <3>3. WritesBoth'
        BY <1>5, <3>1, <3>2 DEF WritesBoth, OwnQuadlet, OwnRecord
      <3> QED
        BY <1>5, <2>2, <3>3 DEF AddInv
    <2> QED
      BY <2>1, <2>2
  <1>9. SourceInv'
    <2>1. Sound(Store)' => Sound(Store)
      BY DEF Sound
    <2> QED
      BY <1>5, <1>6, <2>1, SameFiles, SourceAtRest, ProvidersApart DEF SourceInv, Removes
  <1>10. KeptInv'
    <2>1. /\ \A t \in Services : RouteOf(t) \in Urls /\ ClientOf(t) \subseteq Urls /\ record[t] \in Record
          /\ targets \subseteq Services /\ sources \subseteq {Dash}
      BY <1>1, FilesTyped, WiringConstants DEF RouteOf, ClientOf, Urls
    <2>2. OthersWiring(s) =
            [routes |-> [t \in Services \ {s, Idp} |-> RouteOf(t)],
             clients |-> [t \in Services \ {s} |-> ClientOf(t)],
             targets |-> targets \ {s},
             sources |-> sources \ {s},
             records |-> [t \in Services \ {s} |-> record[t]]]
      BY DEF OthersWiring
    <2>3. BeforeTyped'
      BY <1>4, <1>5, <2>1, <2>2 DEF BeforeTyped
    <2>4. RoutesKept' /\ ClientsKept' /\ RecordsKept'
      BY <1>4, <1>5, <1>6, <2>2, SameFiles DEF RoutesKept, ClientsKept, RecordsKept
    <2>5. ProvidersNew'
      BY <1>1, <1>4, <1>5, <2>2 DEF ProvidersNew, RouteOf, ClientOf, Housed
    <2>6. TargetsKept'
      BY <1>1, <1>4, <1>5, <1>6, <2>2 DEF TargetsKept, Housed
    <2>7. SourcesKept'
      <3>1. CASE s # Store
        BY <1>4, <1>5, <1>6, <2>2, <3>1 DEF SourcesKept
      <3>2. CASE s = Store
        <4>1. ~Installed(Store)
          BY <1>1, <3>2 DEF Installed
        <4>2. before'.sources = sources
          BY <1>4, <2>1, <2>2, <3>2, ProvidersApart
        <4>3. Sound(Store) /\ Installed(Dash) => sources = {}
          BY <2>1, <4>1, SourceAtRest
        <4>4. (Sound(Store)' <=> Sound(Store)) /\ (Installed(Dash)' <=> Installed(Dash))
          BY <1>5, SameFiles DEF Sound
        <4> QED
          BY <1>5, <1>6, <3>2, <4>2, <4>3, <4>4 DEF SourcesKept
      <3> QED
        BY <3>1, <3>2
    <2> QED
      BY <2>3, <2>4, <2>5, <2>6, <2>7 DEF KeptInv
  <1> QED
    BY <1>5, <1>7, <1>8, <1>9, <1>10 DEF Inv

LEMMA RemovalBegins ==
    ASSUME Inv, NEW kind \in {"remove", "recover"}, NEW s \in Services, NEW r \in Record, NEW p,
           NEW last \in Finals, Removal(p, s, last), kind = "recover" => last = "purge",
           Begin(kind, s, r, p), Framed, UNCHANGED <<cut, robbed, prefs>>, Idle,
           ~quadlet[s].present \/ Head(p) = Step("takedown", s, {}) \/ s \in Native,
           s = Store /\ Installed(Dash) /\ Dash \in sources /\ Installed(s)
             => Step("source", Dash, FALSE) \in ToSet(p)
    PROVE  Inv'
  <1>1. p \in Seq(AllSteps) /\ ToSet(p) \subseteq RemoveSteps(s) /\ p # << >> /\ EndsWith(p, Finals)
    <2>1. RemoveSteps(s) \subseteq AllSteps
      BY DEF RemoveSteps
    <2>2. p \in Seq(RemoveSteps(s)) /\ p # << >> /\ EndsWith(p, Finals)
      BY DEF Removal
    <2> QED
      BY <2>1, <2>2, SeqMono DEF ToSet
  <1>2. prefs' \in [auth : BOOLEAN, smtp : BOOLEAN]
    BY DEF Inv, Typed
  <1>3. kind \in {"add", "reset"} \cup Removes \cup Updates /\ kind \in Removes /\ kind # "cleanup"
    BY DEF Removes
  <1>4. /\ Typed' /\ Housed' /\ S' = s /\ Left' = ToSet(p) /\ plan' = p /\ job'.kind = kind
        /\ UNCHANGED files
    BY <1>1, <1>2, <1>3, Begins
  <1>5. quadlet' = quadlet /\ sources' = sources
    BY <1>4 DEF files
  <1>6. RemoveInv'
    <2>1. Left' \subseteq RemoveSteps(S)' /\ EndsWith(plan', Finals)
      BY <1>1, <1>4, SameFiles
    <2>2. job'.kind # "remove" => \A x \in Left' : x.op # "preserve"
      BY <1>4 DEF Removal
    <2>3. \/ ~quadlet'[s].present
          \/ plan' # << >> /\ Head(plan') = Step("takedown", s, {})
          \/ s \in Native /\ job'.kind # "cleanup"
      BY <1>1, <1>3, <1>4, <1>5
    <2> QED
      BY <1>1, <1>4, <2>1, <2>2, <2>3 DEF RemoveInv
  <1>7. ResetInv' /\ UpdateInv' /\ AddInv' /\ KeptInv'
    BY <1>4 DEF ResetInv, UpdateInv, AddInv, KeptInv, Updates
  <1>8. SourceInv'
    <2>1. Sound(Store)' => Sound(Store)
      BY DEF Sound
    <2>2. plan = << >> /\ job.kind # "reset"
      BY DEF Inv, Typed, Idle
    <2>3. Sound(Store) /\ Dash \in sources /\ Installed(Dash) => Installed(Store)
      BY <2>2, SourceAtRest
    <2>4. (Installed(Dash)' <=> Installed(Dash)) /\ (Installed(Store)' <=> Installed(Store))
      BY <1>4, SameFiles
    <2> QED
      BY <1>3, <1>4, <1>5, <2>1, <2>3, <2>4 DEF SourceInv, DropsSource
  <1> QED
    BY <1>4, <1>6, <1>7, <1>8 DEF Inv

LEMMA UpdateBegins ==
    ASSUME Inv, NEW kind \in Updates, NEW s \in Services, NEW r \in Record,
           NEW p \in Seq(ConfigureSteps(s)), Installed(s),
           Begin(kind, s, r, p), Framed, UNCHANGED <<cut, robbed, prefs>>, Idle
    PROVE  Inv'
  <1>1. p \in Seq(AllSteps) /\ ToSet(p) \subseteq ConfigureSteps(s)
    <2>1. ConfigureSteps(s) \subseteq AllSteps
      BY DEF ConfigureSteps
    <2> QED
      BY <2>1, SeqMono DEF ToSet
  <1>2. prefs' \in [auth : BOOLEAN, smtp : BOOLEAN]
    BY DEF Inv, Typed
  <1>3. kind \in {"add", "reset"} \cup Removes \cup Updates
    OBVIOUS
  <1>4. /\ Typed' /\ Housed' /\ S' = s /\ Left' = ToSet(p) /\ plan' = p /\ job'.kind = kind
        /\ UNCHANGED files
    BY <1>1, <1>2, <1>3, Begins
  <1>5. RemoveInv' /\ ResetInv' /\ AddInv' /\ KeptInv'
    BY <1>4 DEF RemoveInv, ResetInv, AddInv, KeptInv, Updates, Removes
  <1>6. UpdateInv'
    BY <1>1, <1>4, SameFiles DEF UpdateInv
  <1>7. SourceInv'
    <2>1. Sound(Store)' => Sound(Store)
      BY DEF Sound
    <2>2. plan = << >> /\ job.kind # "reset"
      BY DEF Inv, Typed, Idle
    <2>3. Sound(Store) /\ Dash \in sources /\ Installed(Dash) => Installed(Store)
      BY <2>2, SourceAtRest
    <2>4. (Installed(Dash)' <=> Installed(Dash)) /\ (Installed(Store)' <=> Installed(Store))
      BY <1>4, SameFiles
    <2>5. sources' = sources
      BY <1>4 DEF files
    <2> QED
      BY <1>4, <2>1, <2>3, <2>4, <2>5 DEF SourceInv, Removes, Updates
  <1> QED
    BY <1>4, <1>5, <1>6, <1>7 DEF Inv

LEMMA InitInv == WiringConstants /\ Init => Inv
  <1> SUFFICES ASSUME Init PROVE Inv
    OBVIOUS
  <1>1. /\ offered \in Scenes /\ home = {} /\ recorded = {}
        /\ record = [s \in Services |-> Nothing]
        /\ quadlet = [s \in Services |-> NoQuadlet] /\ running = [s \in Services |-> NoQuadlet]
        /\ caddyfile = NoFile /\ clients = NoFile /\ snippet = FALSE
        /\ targets = {} /\ sources = {} /\ listed = [s \in Services |-> {}]
        /\ prefs = [auth |-> FALSE, smtp |-> FALSE] /\ job = NoJob /\ plan = << >>
        /\ cut = {} /\ stranded = {} /\ robbed = {} /\ doubled = {}
    BY DEF Init, Off
  <1>2. Nothing \in Record /\ NoQuadlet \in Networks /\ ~NoQuadlet.present
    BY DEF Nothing, Record, Urls, NoQuadlet, Networks
  <1>3. TypeOK
    BY <1>1, <1>2 DEF TypeOK
  <1>4. job.kind = "none" /\ job.service \in Services /\ job.request \in Record
    BY <1>1, <1>2, ProvidersApart DEF NoJob
  <1>5. Typed
    BY <1>1, <1>2, <1>3, <1>4, EmptyIs, ProvidersApart DEF Typed, NoJob, Listable
  <1>6. Housed
    BY <1>1, <1>2 DEF Housed
  <1>7. RemoveInv /\ ResetInv /\ UpdateInv /\ AddInv /\ SourceInv /\ KeptInv
    BY <1>1, <1>4 DEF RemoveInv, ResetInv, UpdateInv, AddInv, SourceInv, KeptInv, Removes, Updates
  <1> QED
    BY <1>5, <1>6, <1>7 DEF Inv

LEMMA OfferedIs ==
    ASSUME Inv, NEW s \in offered
    PROVE  s \in Services /\ \A r \in Requests[s] : r \in Record
  BY WiringConstants DEF Inv, Typed, TypeOK

LEMMA CommandKeeps == ASSUME Inv, Command PROVE Inv'
  <1>1. TypeOK /\ Housed /\ \A s \in Services : Listable(listed[s], s)
    BY DEF Inv, Typed
  <1>2. Idle => plan = << >> /\ job.kind # "reset"
    BY DEF Inv, Typed, Idle
  <1>3. ASSUME BeginReset PROVE Inv'
    <2>1. Idle /\ Begin("reset", Proxy, Nothing, ResetPlan) /\ Framed /\ UNCHANGED <<cut, robbed, prefs>>
      BY <1>3 DEF BeginReset, Framed, history
    <2>2. /\ ResetPlan \in Seq(ResetSteps) /\ ResetPlan # << >> /\ EndsWith(ResetPlan, {"wipe"})
          /\ \A t \in Services \ Native : quadlet[t].present => Step("takedown", t, {}) \in ToSet(ResetPlan)
      BY ResetIs
    <2> DEFINE p == ResetPlan
    <2> HIDE DEF p
    <2>3. p \in Seq(AllSteps) /\ ToSet(p) \subseteq ResetSteps
      <3>1. ResetSteps \subseteq AllSteps
        BY DEF ResetSteps
      <3> QED
        BY <2>2, <3>1, SeqMono DEF ToSet, p
    <2>4. Nothing \in Record /\ Proxy \in Services
      BY ProvidersApart DEF Nothing, Record, Urls
    <2>5. prefs' \in [auth : BOOLEAN, smtp : BOOLEAN]
      BY <2>1 DEF Inv, Typed
    <2>6. /\ Typed' /\ Housed' /\ Left' = ToSet(p) /\ plan' = p /\ job'.kind = "reset"
          /\ UNCHANGED files
      BY <2>1, <2>3, <2>4, <2>5, Begins DEF p
    <2>7. ResetInv'
      <3>1. quadlet' = quadlet
        BY <2>6 DEF files
      <3> QED
        BY <2>2, <2>3, <2>6, <3>1 DEF ResetInv, ResetSteps, p
    <2>8. RemoveInv' /\ UpdateInv' /\ AddInv' /\ SourceInv' /\ KeptInv'
      BY <2>6 DEF RemoveInv, UpdateInv, AddInv, SourceInv, KeptInv, Removes, Updates
    <2> QED
      BY <2>6, <2>7, <2>8 DEF Inv
  <1>4. ASSUME NEW s \in offered, NEW r \in Requests[s], BeginAdd(s, r) PROVE Inv'
    <2>1. s \in Services /\ r \in Record
      BY <1>4, OfferedIs
    <2>2. /\ Idle /\ s \notin home /\ CanAdd(s, r) /\ PlanAdd(s, r) /\ Framed
          /\ UNCHANGED <<cut, robbed>>
      BY <1>4 DEF BeginAdd, Framed, Leftover
    <2> QED
      BY <1>2, <2>1, <2>2, AddBegins
  <1>5. ASSUME NEW s \in offered, NEW r \in Requests[s], RecoverAdd(s, r) PROVE Inv'
    <2>1. s \in Services /\ r \in Record
      BY <1>5, OfferedIs
    <2>2. /\ Idle /\ ~Installed(s) /\ Begin("recover", s, r, OrphanPurge(s)) /\ Framed
          /\ UNCHANGED <<cut, robbed, prefs>>
      BY <1>5 DEF RecoverAdd, Framed, history
    <2>3. /\ Removal(OrphanPurge(s), s, "purge")
          /\ ~quadlet[s].present \/ Head(OrphanPurge(s)) = Step("takedown", s, {}) \/ s \in Native
      BY <2>1, OrphanIs
    <2>4. "purge" \in Finals /\ "recover" \in {"remove", "recover"}
      BY DEF Finals
    <2> QED
      BY <2>1, <2>2, <2>3, <2>4, RemovalBegins
  <1>6. ASSUME NEW s \in offered, BeginPurge(s) PROVE Inv'
    <2>1. s \in Services /\ Nothing \in Record
      BY <1>6, OfferedIs DEF Nothing, Record, Urls
    <2>2. /\ Idle /\ ~Installed(s) /\ Begin("remove", s, Nothing, OrphanPurge(s)) /\ Framed
          /\ UNCHANGED <<cut, robbed, prefs>>
      BY <1>6 DEF BeginPurge, Framed, history
    <2>3. /\ Removal(OrphanPurge(s), s, "purge")
          /\ ~quadlet[s].present \/ Head(OrphanPurge(s)) = Step("takedown", s, {}) \/ s \in Native
      BY <2>1, OrphanIs
    <2>4. "purge" \in Finals /\ "remove" \in {"remove", "recover"}
      BY DEF Finals
    <2> QED
      BY <2>1, <2>2, <2>3, <2>4, RemovalBegins
  <1>7. ASSUME NEW s \in offered, NEW last \in {"purge", "preserve"}, BeginRemove(s, last) PROVE Inv'
    <2>1. s \in Services /\ Nothing \in Record /\ last \in Finals
      BY <1>7, OfferedIs DEF Nothing, Record, Urls, Finals
    <2>2. /\ Idle /\ Begin("remove", s, Nothing, RemovePlan(s, last)) /\ Framed
          /\ UNCHANGED <<cut, robbed, prefs>>
      BY <1>7 DEF BeginRemove, Framed, history
    <2>3. /\ Removal(RemovePlan(s, last), s, last)
          /\ Head(RemovePlan(s, last)) = Step("takedown", s, {})
          /\ s = Store /\ Installed(Dash) /\ Dash \in sources
               => Step("source", Dash, FALSE) \in ToSet(RemovePlan(s, last))
      BY <1>1, <2>1, RemoveIs
    <2>4. "remove" \in {"remove", "recover"} /\ "remove" # "recover"
      OBVIOUS
    <2> QED
      BY <2>1, <2>2, <2>3, <2>4, RemovalBegins
  <1>8. ASSUME NEW s \in offered, NEW r \in Requests[s], BeginConfigure(s, r) PROVE Inv'
    <2>1. s \in Services /\ r \in Record
      BY <1>8, OfferedIs
    <2>2. /\ Idle /\ Begin("configure", s, r, ConfigurePlan(s, r)) /\ Framed
          /\ UNCHANGED <<cut, robbed, prefs>> /\ Plannable(s, r) /\ Installed(s)
          /\ r.auth /\ (~record[s].auth \/ record[s].url # r.url) => Registrable(r)
      BY <1>8 DEF BeginConfigure, Framed, history
    <2>3. ConfigurePlan(s, r) \in Seq(ConfigureSteps(s))
      BY <1>1, <2>1, <2>2, ConfigureIs, PlannedIs DEF Planned, Led
    <2>4. "configure" \in Updates
      BY DEF Updates
    <2> QED
      BY <2>1, <2>2, <2>3, <2>4, UpdateBegins
  <1>9. ASSUME NEW s \in offered, BeginUpgrade(s) PROVE Inv'
    <2>1. s \in Services
      BY <1>9, OfferedIs
    <2>2. /\ Idle /\ Begin("upgrade", s, record[s], UpgradePlan(s)) /\ Framed
          /\ UNCHANGED <<cut, robbed, prefs>> /\ Plannable(s, record[s]) /\ Installed(s)
      BY <1>9 DEF BeginUpgrade, Framed, history
    <2>3. UpgradePlan(s) \in Seq(ConfigureSteps(s)) /\ record[s] \in Record
      BY <1>1, <2>1, <2>2, UpgradeIs, PlannedIs, FilesTyped DEF Planned, Led
    <2>4. "upgrade" \in Updates
      BY DEF Updates
    <2> QED
      BY <2>1, <2>2, <2>3, <2>4, UpdateBegins
  <1> QED
    BY <1>3, <1>4, <1>5, <1>6, <1>7, <1>8, <1>9 DEF Command

\* Between commands only what is true of the files has to hold.
LEMMA Rests ==
    ASSUME Inv, UNCHANGED <<offered, files>>, TypeOK', job' = NoJob, plan' = << >>,
           prefs' \in [auth : BOOLEAN, smtp : BOOLEAN],
           Sound(Store)' /\ Dash \in sources /\ Installed(Dash) => Installed(Store)
    PROVE  Inv'
  <1>1. job'.kind = "none" /\ job'.service \in Services /\ job'.request \in Record
    BY ProvidersApart DEF NoJob, Nothing, Record, Urls
  <1>2. /\ \A s \in Services : Listable(listed'[s], s)
        /\ listed' = listed /\ sources' = sources
    BY DEF Inv, Typed, files
  <1>3. Typed'
    BY <1>1, <1>2, EmptyIs DEF Typed, NoJob
  <1>4. Housed'
    BY SameFiles DEF Inv
  <1>5. RemoveInv' /\ ResetInv' /\ UpdateInv' /\ AddInv' /\ KeptInv'
    BY <1>1 DEF RemoveInv, ResetInv, UpdateInv, AddInv, KeptInv, Removes, Updates
  <1>6. SourceInv'
    <2>1. \A t : Installed(t)' <=> Installed(t)
      BY SameFiles
    <2> QED
      BY <1>1, <1>2, <2>1 DEF SourceInv, Removes
  <1> QED
    BY <1>3, <1>4, <1>5, <1>6 DEF Inv

LEMMA RetryKeeps == ASSUME Inv, RetryAdd PROVE Inv'
  <1>1. /\ job.kind = "recover" /\ plan = << >> /\ Framed /\ UNCHANGED <<cut, robbed>>
        /\ S \in Services /\ job.request \in Record
    BY DEF RetryAdd, Framed, S, Inv, Typed
  <1>2. S \notin home
    BY <1>1 DEF Inv, RemoveInv, Removes
  <1>3. CASE CanAdd(S, job.request) /\ PlanAdd(S, job.request)
    BY <1>1, <1>2, <1>3, AddBegins
  <1>4. CASE job' = NoJob /\ UNCHANGED <<plan, prefs, before, doubled>>
    <2>1. TypeOK'
      BY <1>1, <1>4, FramedTyped DEF Inv, Typed, TypeOK
    <2>2. Sound(Store)' => Sound(Store)
      BY <1>1 DEF Sound
    <2>3. UNCHANGED <<offered, files>> /\ prefs' \in [auth : BOOLEAN, smtp : BOOLEAN] /\ plan' = << >>
      BY <1>1, <1>4 DEF Framed, Inv, Typed
    <2> QED
      BY <1>1, <1>4, <2>1, <2>2, <2>3, SourceAtRest, Rests
  <1> QED
    BY <1>3, <1>4 DEF RetryAdd, S

LEMMA FinishKeeps == ASSUME Inv, Finish PROVE Inv'
  <1> DEFINE removed == job.kind \in {"remove", "cleanup"}
  <1>1. /\ job.kind # "reset" /\ plan = << >> /\ plan' = << >> /\ job' = NoJob /\ Framed
        /\ prefs' = [auth |-> prefs.auth /\ ~(removed /\ S = Idp),
                     smtp |-> prefs.smtp \/ (job.kind = "add" /\ S = Relay)]
        /\ cut' = IF removed /\ Clean(S) THEN cut \ {S} ELSE cut
        /\ robbed' = IF removed /\ Clean(S) THEN robbed \ {S} ELSE robbed
        /\ doubled' = IF removed /\ Clean(S) THEN doubled \ {S} ELSE doubled
    BY DEF Finish, Framed, S
  <1>2. cut' \subseteq Services /\ robbed' \subseteq Services /\ doubled' \subseteq Services
    BY <1>1 DEF Inv, Typed, TypeOK
  <1>3. TypeOK'
    BY <1>1, <1>2, FramedTyped
  <1>4. prefs' \in [auth : BOOLEAN, smtp : BOOLEAN]
    BY <1>1 DEF Inv, Typed
  <1> HIDE DEF removed
  <1>5. Sound(Store)' /\ Dash \in sources => Sound(Store)
    BY <1>1 DEF Sound, Clean
  <1>6. UNCHANGED <<offered, files>>
    BY <1>1 DEF Framed
  <1> QED
    BY <1>1, <1>3, <1>4, <1>5, <1>6, SourceAtRest, Rests

LEMMA ResetKeeps == ASSUME Inv, FinalizeReset PROVE Inv'
  <1>1. /\ job.kind = "reset" /\ plan = << >> /\ plan' = << >> /\ job' = NoJob /\ Framed
        /\ prefs' = [auth |-> FALSE, smtp |-> FALSE]
        /\ cut' = {} /\ robbed' = {} /\ doubled' = {}
    BY DEF FinalizeReset, Framed
  <1>2. TypeOK'
    BY <1>1, FramedTyped
  <1>3. sources = {}
    BY <1>1 DEF Inv, ResetInv
  <1>4. UNCHANGED <<offered, files>> /\ prefs' \in [auth : BOOLEAN, smtp : BOOLEAN]
    BY <1>1 DEF Framed
  <1> QED
    BY <1>1, <1>2, <1>3, <1>4, Rests

LEMMA CutKeeps == ASSUME Inv, CutShort PROVE Inv'
  <1>1. /\ job' = NoJob /\ plan' = << >> /\ Framed /\ UNCHANGED <<prefs, robbed, doubled>>
        /\ cut' = cut \cup (IF job.kind = "reset" THEN Services ELSE {S})
    BY DEF CutShort, Framed, S
  <1>2. S \in Services
    BY DEF Inv, Typed, S
  <1>3. TypeOK'
    BY <1>1, <1>2, FramedTyped DEF Inv, Typed, TypeOK
  <1>4. Sound(Store)' => Sound(Store) /\ S # Store /\ job.kind # "reset"
    BY <1>1, ProvidersApart DEF Sound
  <1>5. Sound(Store)' /\ Dash \in sources /\ Installed(Dash) => Installed(Store)
    BY <1>4 DEF Inv, SourceInv
  <1>6. UNCHANGED <<offered, files>> /\ prefs' \in [auth : BOOLEAN, smtp : BOOLEAN]
    BY <1>1 DEF Framed, Inv, Typed
  <1> QED
    BY <1>1, <1>3, <1>5, <1>6, Rests

LEMMA FailKeeps == ASSUME Inv, AddFails PROVE Inv'
  <1> DEFINE p == RemovePlan(S, "purge")
  <1>1. /\ job.kind = "add" /\ S \in recorded /\ job' = [job EXCEPT !.kind = "cleanup"] /\ plan' = p
        /\ UNCHANGED <<offered, files, running, prefs, history, doubled>>
    BY DEF AddFails, S
  <1>2. TypeOK /\ Housed /\ S \in Services /\ "purge" \in Finals
    BY DEF Inv, Typed, S, Finals
  <1>3. /\ Removal(p, S, "purge") /\ Head(p) = Step("takedown", S, {})
        /\ S = Store /\ Installed(Dash) /\ Dash \in sources => Step("source", Dash, FALSE) \in ToSet(p)
    BY <1>2, RemoveIs
  <1> HIDE DEF p
  <1>4. p \in Seq(AllSteps) /\ ToSet(p) \subseteq RemoveSteps(S) /\ p # << >> /\ EndsWith(p, Finals)
    <2>1. RemoveSteps(S) \subseteq AllSteps
      BY DEF RemoveSteps
    <2>2. p \in Seq(RemoveSteps(S)) /\ p # << >> /\ EndsWith(p, Finals)
      BY <1>3 DEF Removal
    <2> QED
      BY <2>1, <2>2, SeqMono DEF ToSet
  <1>5. /\ job'.kind = "cleanup" /\ S' = S /\ Left' = ToSet(p)
        /\ job' \in [kind : {"none", "add", "reset"} \cup Removes \cup Updates,
                     service : Services, request : Record]
    BY <1>1 DEF Inv, Typed, S, Left, Removes
  <1>6. /\ UNCHANGED <<cut, robbed, before, record, targets, sources>> /\ UNCHANGED files /\ Framed
        /\ UNCHANGED <<prefs, doubled, listed>>
    BY <1>1 DEF history, files, Framed
  <1>7. Typed'
    <2>1. TypeOK'
      BY <1>6, FramedTyped DEF Inv, Typed, TypeOK
    <2> QED
      BY <1>1, <1>4, <1>5, <1>6, <2>1 DEF Inv, Typed, Idle
  <1>8. Housed'
    BY <1>2, <1>5, <1>6, SameFiles
  <1>9. RemoveInv'
    <2>1. Left' \subseteq RemoveSteps(S)'
      BY <1>4, <1>5, <1>6, SameFiles
    <2>2. \A x \in Left' : x.op # "preserve"
      BY <1>3, <1>5 DEF Removal
    <2> QED
      BY <1>1, <1>3, <1>4, <1>5, <2>1, <2>2 DEF RemoveInv
  <1>10. ResetInv' /\ UpdateInv' /\ AddInv'
    BY <1>5 DEF ResetInv, UpdateInv, AddInv, Updates
  <1>11. S = Store /\ Installed(Dash) /\ Dash \in sources => DropsSource'
    BY <1>3, <1>5 DEF DropsSource
  <1>12. SourceInv'
    <2>1. Sound(Store) /\ Dash \in sources /\ Installed(Dash) => Installed(Store)
      BY <1>1 DEF Inv, SourceInv, Removes
    <2>2. \A t : Installed(t)' <=> Installed(t)
      BY <1>5, <1>6, SameFiles
    <2> QED
      BY <1>5, <1>6, <1>11, <2>1, <2>2 DEF SourceInv, Sound
  <1>13. KeptInv'
    <2>1. SourcesKept /\ sources \subseteq {Dash} /\ BeforeTyped
      BY <1>1, <1>2 DEF Inv, KeptInv, TypeOK
    <2>2. SourcesKept'
      <3>1. CASE S # Store
        BY <1>5, <1>6, <2>1, <3>1 DEF SourcesKept
      <3>2. CASE S = Store
        <4>1. Sound(Store)' => Sound(Store)
          BY <1>6 DEF Sound
        <4>2. Installed(Dash)' <=> Installed(Dash)
          BY <1>5, <1>6, SameFiles
        <4>3. ASSUME Sound(Store), sources # before.sources
              PROVE  DropsSource'
          <5>1. Installed(Dash) /\ before.sources = {}
            BY <1>1, <2>1, <3>2, <4>3 DEF SourcesKept
          <5>2. Dash \in sources
            BY <2>1, <4>3, <5>1
          <5> QED
            BY <1>11, <3>2, <5>1, <5>2
        <4> QED
          BY <1>5, <1>6, <2>1, <3>2, <4>1, <4>2, <4>3 DEF SourcesKept
      <3> QED
        BY <3>1, <3>2
    <2>3. \A t : RouteOf(t)' = RouteOf(t) /\ ClientOf(t)' = ClientOf(t)
      BY <1>5, <1>6, SameFiles
    <2>4. BeforeTyped /\ RoutesKept /\ ClientsKept /\ RecordsKept /\ ProvidersNew /\ TargetsKept
      BY <1>1 DEF Inv, KeptInv
    <2>5. RoutesKept' /\ ClientsKept' /\ RecordsKept'
      BY <1>5, <1>6, <2>3, <2>4 DEF RoutesKept, ClientsKept, RecordsKept
    <2>6. BeforeTyped' /\ ProvidersNew' /\ TargetsKept'
      BY <1>5, <1>6, <2>4 DEF BeforeTyped, ProvidersNew, TargetsKept
    <2> QED
      BY <2>2, <2>5, <2>6 DEF KeptInv
  <1> QED
    BY <1>7, <1>8, <1>9, <1>10, <1>12, <1>13 DEF Inv

LEMMA RebootKeeps == ASSUME Inv, Reboot PROVE Inv'
  <1>1. /\ Idle
        /\ running' = [s \in Services |-> IF Startable(s) THEN quadlet[s] ELSE Off]
        /\ caddyfile' = IF Startable(Proxy) /\ caddyfile = NoFile THEN NoRoutes ELSE caddyfile
        /\ UNCHANGED <<offered, home, record, recorded, quadlet, clients, snippet, targets,
                       sources, listed, prefs, job, plan, cut, stranded, robbed, before, doubled>>
    BY DEF Reboot, history
  <1>2. TypeOK /\ \A s \in Services : Listable(listed[s], s)
    BY DEF Inv, Typed
  <1>3. TypeOK'
    <2>1. running' \in [Services -> Networks]
      BY <1>1, <1>2 DEF TypeOK, Off, NoQuadlet, Networks
    <2>2. caddyfile' = NoFile \/ caddyfile' \in [Services -> Urls]
      BY <1>1, <1>2, RoutesAreNone DEF TypeOK
    <2> QED
      BY <1>1, <1>2, <2>1, <2>2 DEF TypeOK
  <1>4. Typed'
    BY <1>1, <1>2, <1>3 DEF Inv, Typed, Idle
  <1>5. Housed'
    <2>1. caddyfile' # NoFile => Proxy \in home
      BY <1>1, ProvidersApart DEF Inv, Housed, Startable, Providers
    <2> QED
      BY <1>1, <2>1 DEF Inv, Housed
  <1>6. RemoveInv' /\ ResetInv' /\ UpdateInv' /\ AddInv' /\ KeptInv'
    BY <1>1 DEF RemoveInv, ResetInv, UpdateInv, AddInv, KeptInv, Removes, Updates, Idle
  <1>7. SourceInv'
    BY <1>1 DEF Inv, SourceInv, Sound, Installed, Idle, Removes, S
  <1> QED
    BY <1>4, <1>5, <1>6, <1>7 DEF Inv

LEMMA StutterKeeps == ASSUME Inv, UNCHANGED vars PROVE Inv'
  <1>1. /\ UNCHANGED <<offered, home, record, recorded, quadlet, caddyfile, clients, snippet, targets,
                       sources, listed, running, prefs, job, plan, cut, stranded, robbed, before, doubled>>
        /\ UNCHANGED files
    BY DEF vars, files, history
  <1>2. TypeOK'
    BY <1>1, FramedTyped DEF Framed, Inv, Typed, TypeOK
  <1>3. S' = S /\ Left' = Left
    BY <1>1 DEF S, Left
  <1>4. Typed'
    BY <1>1, <1>2 DEF Inv, Typed, Idle
  <1>5. Housed'
    BY <1>1, <1>3, SameFiles DEF Inv
  <1>6. /\ RemoveSteps(S)' = RemoveSteps(S) /\ WireSteps(S)' = WireSteps(S)
        /\ NativeSteps(S)' = NativeSteps(S) /\ ConfigureSteps(S)' = ConfigureSteps(S)
        /\ \A t : Installed(t)' <=> Installed(t)
        /\ \A t : RouteOf(t)' = RouteOf(t) /\ ClientOf(t)' = ClientOf(t)
    BY <1>1, <1>3, SameFiles
  <1>7. RemoveInv' /\ ResetInv' /\ UpdateInv'
    BY <1>1, <1>3, <1>6 DEF Inv, RemoveInv, ResetInv, UpdateInv, ResetSteps
  <1>8. AddInv'
    BY <1>1, <1>3, <1>6 DEF Inv, AddInv, WritesBoth, WritesRecord, Wires, Unrecorded, OwnQuadlet, OwnRecord
  <1>9. SourceInv'
    BY <1>1, <1>3, <1>6 DEF Inv, SourceInv, Sound, DropsSource
  <1>10. KeptInv'
    BY <1>1, <1>3, <1>6 DEF Inv, KeptInv, BeforeTyped, RoutesKept, ClientsKept, RecordsKept,
                            ProvidersNew, TargetsKept, SourcesKept, Sound, DropsSource
  <1> QED
    BY <1>4, <1>5, <1>7, <1>8, <1>9, <1>10 DEF Inv

LEMMA NextKeeps == Inv /\ [Next]_vars => Inv'
  <1>1. ASSUME Inv, Execute PROVE Inv'
    BY <1>1, QuadletStep, RecordStep, SharedStep, ManifestStep, StartStep, TakeDownStep, DropStep,
       ClearHomeStep, WipeStep DEF Execute
  <1> QED
    BY <1>1, CommandKeeps, RetryKeeps, FinishKeeps, ResetKeeps, FailKeeps, CutKeeps, RebootKeeps,
       StutterKeeps DEF Next

LEMMA Invariant == Spec => []Inv
  BY InitInv, NextKeeps, WiringConstants, PTL DEF Spec

(***************************************************************************)
(* What the invariant says.                                                *)
(***************************************************************************)

\* The files of the host keep the shape the commands expect of them, whatever
\* was killed or failed between their steps.
THEOREM TypeCorrect == Spec => []TypeOK
  <1>1. Inv => TypeOK
    BY DEF Inv, Typed
  <1> QED
    BY <1>1, Invariant, PTL

LEMMA CleanedUp == Inv => FailedAddUndone
  <1> SUFFICES ASSUME Inv, job.kind = "cleanup", plan = << >>, Sound(S)
               PROVE  OthersWiring(S) = before /\ ~Leftover(S)
    BY DEF FailedAddUndone, S
  <1>1. S \notin home /\ ~quadlet[S].present
    BY DEF Inv, RemoveInv, Removes
  <1>2. /\ BeforeTyped /\ RoutesKept /\ ClientsKept /\ RecordsKept
        /\ TargetsKept /\ SourcesKept
    BY DEF Inv, KeptInv
  <1>3. targets \ {S} = before.targets
    BY <1>1, <1>2 DEF TargetsKept, Inv, Housed
  <1>4. sources \ {S} = before.sources
    <2>1. CASE S # Store
      BY <1>2, <2>1 DEF SourcesKept
    <2>2. CASE S = Store
      <3>1. ~DropsSource
        BY EmptyIs DEF DropsSource, Left
      <3>2. sources = before.sources
        BY <1>2, <2>2, <3>1 DEF SourcesKept
      <3>3. sources \subseteq {Dash} /\ Dash # Store
        BY ProvidersApart DEF Inv, Typed, TypeOK
      <3> QED
        BY <2>2, <3>2, <3>3
    <2> QED
      BY <2>1, <2>2
  <1>5. /\ [t \in Services \ {S, Idp} |-> RouteOf(t)] = before.routes
        /\ [t \in Services \ {S} |-> ClientOf(t)] = before.clients
        /\ [t \in Services \ {S} |-> record[t]] = before.records
    BY <1>2 DEF BeforeTyped, RoutesKept, ClientsKept, RecordsKept
  <1>6. OthersWiring(S) = before
    BY <1>2, <1>3, <1>4, <1>5 DEF OthersWiring, BeforeTyped
  <1> QED
    BY <1>1, <1>6 DEF Leftover

\* An add that fails after its record is written, and that is cleaned up,
\* leaves nothing of itself and leaves the routes, clients, targets,
\* datasources and records of every other service as it found them.
THEOREM AddsUndone == Spec => []FailedAddUndone
  BY CleanedUp, Invariant, PTL

(***************************************************************************)
(* What is scraped, and what a plan has yet to have scraped, of the        *)
(* service of the command and of the others.                               *)
(***************************************************************************)
Removing(t) == job.kind \in Removes /\ t = S
Adding(t) == job.kind = "add" /\ t = S
Arriving(t) == Installed(t) \/ Adding(t)

\* The store's targets and the dashboard's datasource, there or yet to come.
Scraped(t) == t \in targets \/ Step("target", t, TRUE) \in Left
ReadsStore == Dash \in sources \/ Step("source", Dash, TRUE) \in Left
JoinsStore == Store \in quadlet[Dash].networks
              \/ \E x \in Left : OwnQuadlet(x, Dash) /\ Store \in x.val

Wanted(t) == Arriving(t) /\ Sound(t) /\ ~Removing(t)
Scraping ==
    Wanted(Store) => /\ \A t \in Metrics \ (Native \cup {Store}) : Wanted(t) => Scraped(t)
                     /\ Wanted(Dash) => ReadsStore /\ JoinsStore

\* No step takes a target or the store's network from who is to keep it, and
\* none writes the unit of a proxy that is not there.
StepsInv ==
    \A x \in Left :
      /\ x.op = "target" /\ job.kind = "add" => x.val = TRUE
      /\ OwnQuadlet(x, Dash) => /\ S \in {Dash, Store}
                                /\ Arriving(Store) /\ Sound(Store) => Store \in x.val
      /\ OwnQuadlet(x, Proxy) /\ job.kind \in Updates => Installed(Proxy) \/ ~Sound(Proxy)

WipedInv == job.kind = "reset" /\ plan = << >> => recorded = {}

ScrapeInv == Scraping /\ StepsInv /\ WipedInv

(***************************************************************************)
(* What an add takes from nobody, and what it does for the store.          *)
(***************************************************************************)
AddSteps(s, r) ==
    {x \in AllSteps : /\ x.op \notin {"record", "manifest"}
                      /\ x.op = "target" => x.val = TRUE
                      /\ OwnQuadlet(x, Dash) => s = Store /\ Store \in x.val
                      /\ x.op = "quadlet" /\ x.of \in Consumers =>
                           s \in Joinable /\ x.val = quadlet[x.of].networks \cup {s}
                      /\ Owned(x, s, r)}

LEMMA SharedAdds == ASSUME NEW s, NEW r PROVE SharedSteps(s, r) \subseteq AddSteps(s, r)
  BY ProvidersApart DEF SharedSteps, AddSteps, OwnQuadlet, Consumers, Providers

LEMMA JoinAdds ==
    ASSUME TypeOK, NEW r, NEW s \in Joinable, NEW t \in Services, t = Dash => s = Store
    PROVE  JoinSteps(t, s) \in Seq(AddSteps(s, r))
  <1> DEFINE x == Step("quadlet", t, quadlet[t].networks \cup {s})
             z == Step("restart", t, {})
  <1>1. x \in AllSteps /\ z \in AllSteps
    BY StepsMade, FilesTyped, ProvidersApart DEF Orders, Joinable
  <1>2. x \in AddSteps(s, r) /\ z \in AddSteps(s, r)
    BY <1>1 DEF AddSteps, Step, OwnQuadlet, Owned
  <1> HIDE DEF x, z
  <1>3. <<x, z>> \in Seq(AddSteps(s, r))
    BY <1>2
  <1> QED
    BY <1>3 DEF JoinSteps, When, x, z

LEMMA RetroJoinsAdds ==
    ASSUME TypeOK, NEW r, NEW s \in Services
    PROVE  RetroJoins(s) \in Seq(AddSteps(s, r))
  <1> DEFINE A == {t \in Services \ Providers :
                     /\ Installed(t)
                     /\ \/ s = Proxy /\ Routed(record[t])
                        \/ s = Relay /\ record[t].smtp}
             f == [t \in A |-> JoinSteps(t, s)]
             seqs == [i \in 1 .. Cardinality(A) |-> JoinSteps(SetToSeq(A)[i], s)]
  <1>1. IsFiniteSet(A)
    BY WiringConstants, FS_Subset
  <1>2. RetroJoins(s) = FlattenSeq(seqs)
    BY DEF RetroJoins, ForEach
  <1>3. f \in [A -> Seq(AddSteps(s, r))]
    BY JoinAdds DEF Providers, Joinable
  <1> HIDE DEF A
  <1>4. seqs = [i \in 1 .. Cardinality(A) |-> f[SetToSeq(A)[i]]]
    BY <1>1, ListIs
  <1> HIDE DEF f, seqs
  <1> QED
    BY <1>1, <1>2, <1>3, <1>4, EachIs

\* The consumer's steps are in the plan if the store is installed.
LEMMA ConsumerAdds ==
    ASSUME TypeOK, NEW r, NEW s \in Services
    PROVE  /\ ConsumerSteps(s) \in Seq(AddSteps(s, r))
           /\ Installed(Store) /\ s \in Metrics => Step("target", s, TRUE) \in ToSet(ConsumerSteps(s))
           /\ Installed(Store) /\ s = Dash => Step("source", Dash, TRUE) \in ToSet(ConsumerSteps(s))
  <1> DEFINE a == Step("target", s, TRUE)
             b == Step("source", s, TRUE)
             p == When(Installed(Store) /\ s \in Metrics, << a >>)
             q == When(Installed(Store) /\ s = Dash, << b >>)
  <1>1. s \in Metrics => a \in AddSteps(s, r)
    BY StepsMade DEF AddSteps, Step, OwnQuadlet, Owned
  <1>2. s = Dash => b \in AddSteps(s, r)
    BY StepsMade DEF AddSteps, Step, OwnQuadlet, Owned
  <1>3. ConsumerSteps(s) = p \o q
    BY DEF ConsumerSteps
  <1> HIDE DEF a, b
  <1>4. p \in Seq(AddSteps(s, r)) /\ (Installed(Store) /\ s \in Metrics => a \in ToSet(p))
    <2>1. CASE Installed(Store) /\ s \in Metrics
      <3>1. p = <<a>>
        BY <2>1 DEF When
      <3> QED
        BY <1>1, <2>1, <3>1, SingleIs
    <2>2. CASE ~(Installed(Store) /\ s \in Metrics)
      BY <2>2, None, Zenon DEF When
    <2> QED
      BY <2>1, <2>2
  <1>5. q \in Seq(AddSteps(s, r)) /\ (Installed(Store) /\ s = Dash => b \in ToSet(q))
    <2>1. CASE Installed(Store) /\ s = Dash
      <3>1. q = <<b>>
        BY <2>1 DEF When
      <3> QED
        BY <1>2, <2>1, <3>1, SingleIs
    <2>2. CASE ~(Installed(Store) /\ s = Dash)
      BY <2>2, None, Zenon DEF When
    <2> QED
      BY <2>1, <2>2
  <1> HIDE DEF p, q
  <1>6. p \o q \in Seq(AddSteps(s, r)) /\ ToSet(p \o q) = ToSet(p) \cup ToSet(q)
    BY <1>4, <1>5, Concatenated
  <1> QED
    BY <1>3, <1>4, <1>5, <1>6 DEF a, b

\* The parts of the store's plan, and whom they concern.
Others(s) == {t \in Metrics \ {s} : Installed(t)}
TargetSteps(t) == << Step("target", t, TRUE) >> \o When(t \notin HostNet, JoinSteps(t, Store))
EachTarget(s) ==
    FlattenSeq([i \in 1 .. Cardinality(Others(s)) |-> TargetSteps(SetToSeq(Others(s))[i])])
DashSteps ==
    << Step("source", Dash, TRUE) >> \o JoinSteps(Dash, Store)
    \o When(Store \in quadlet[Dash].networks, << Step("restart", Dash, {}) >>)

LEMMA TargetAdds ==
    ASSUME TypeOK, NEW r, NEW s \in Services, s = Store, NEW t \in Metrics
    PROVE  TargetSteps(t) \in Seq(AddSteps(s, r)) /\ Step("target", t, TRUE) \in ToSet(TargetSteps(t))
  <1> DEFINE a == Step("target", t, TRUE)
             one == << a >>
             two == When(t \notin HostNet, JoinSteps(t, Store))
  <1>1. t \in Services
    BY WiringConstants
  <1>2. a \in AddSteps(s, r)
    BY <1>1, StepsMade DEF AddSteps, Step, OwnQuadlet, Owned
  <1>4. two \in Seq(AddSteps(s, r))
    <2>1. JoinSteps(t, Store) \in Seq(AddSteps(s, r))
      BY <1>1, JoinAdds DEF Joinable
    <2> QED
      BY <2>1, None, Zenon DEF When
  <1>5. TargetSteps(t) = one \o two
    BY DEF TargetSteps
  <1> HIDE DEF a
  <1>3. one \in Seq(AddSteps(s, r)) /\ ToSet(one) = {a}
    BY <1>2, SingleIs
  <1> HIDE DEF one, two
  <1>6. one \o two \in Seq(AddSteps(s, r)) /\ ToSet(one \o two) = ToSet(one) \cup ToSet(two)
    BY <1>3, <1>4, Concatenated
  <1> QED
    BY <1>3, <1>5, <1>6 DEF a

LEMMA EachTargetAdds ==
    ASSUME TypeOK, NEW r, NEW s \in Services, s = Store
    PROVE  /\ EachTarget(s) \in Seq(AddSteps(s, r))
           /\ \A t \in Others(s) : Step("target", t, TRUE) \in ToSet(EachTarget(s))
  <1> DEFINE A == Others(s)
             a(t) == Step("target", t, TRUE)
             f == [t \in A |-> TargetSteps(t)]
             each == FlattenSeq([i \in 1 .. Cardinality(A) |-> f[SetToSeq(A)[i]]])
  <1>1. IsFiniteSet(A) /\ A \subseteq Metrics
    BY WiringConstants, FS_Subset DEF Others
  <1>2. f \in [A -> Seq(AddSteps(s, r))] /\ \A t \in A : a(t) \in ToSet(f[t])
    BY <1>1, TargetAdds
  <1>3. EachTarget(s) = each
    <2>1. EachTarget(s) = FlattenSeq([i \in 1 .. Cardinality(A) |-> TargetSteps(SetToSeq(A)[i])])
      BY DEF EachTarget
    <2> HIDE DEF A
    <2>2. [i \in 1 .. Cardinality(A) |-> TargetSteps(SetToSeq(A)[i])]
            = [i \in 1 .. Cardinality(A) |-> f[SetToSeq(A)[i]]]
      BY <1>1, ListIs
    <2> QED
      BY <2>1, <2>2
  <1> HIDE DEF A, f, a
  <1>4. each \in Seq(AddSteps(s, r)) /\ ToSet(each) = UNION {ToSet(f[t]) : t \in A}
    BY <1>1, <1>2, EachIs
  <1> HIDE DEF each
  <1>5. \A t \in A : a(t) \in ToSet(each)
    BY <1>2, <1>4
  <1> QED
    BY <1>3, <1>4, <1>5 DEF A, a

LEMMA DashAdds ==
    ASSUME TypeOK, NEW r, NEW s \in Services, s = Store
    PROVE  /\ DashSteps \in Seq(AddSteps(s, r)) /\ Step("source", Dash, TRUE) \in ToSet(DashSteps)
           /\ \/ Store \in quadlet[Dash].networks
              \/ \E x \in ToSet(DashSteps) : OwnQuadlet(x, Dash) /\ Store \in x.val
  <1> DEFINE a == Step("source", Dash, TRUE)
             dash == << a >>
             join == JoinSteps(Dash, Store)
             again == When(Store \in quadlet[Dash].networks, << Step("restart", Dash, {}) >>)
  <1>1. a \in AddSteps(s, r) /\ Step("restart", Dash, {}) \in AddSteps(s, r)
    BY StepsMade, ProvidersApart DEF AddSteps, Step, OwnQuadlet, Owned, Orders
  <1>3. again \in Seq(AddSteps(s, r))
    BY <1>1, One, None, Zenon DEF When
  <1>4. join \in Seq(AddSteps(s, r))
    BY JoinAdds, ProvidersApart DEF Joinable
  <1>5. \/ Store \in quadlet[Dash].networks
        \/ \E x \in ToSet(join) : OwnQuadlet(x, Dash) /\ Store \in x.val
    <2> DEFINE x == Step("quadlet", Dash, quadlet[Dash].networks \cup {Store})
               z == Step("restart", Dash, {})
    <2>1. CASE Store \notin quadlet[Dash].networks
      <3>1. join = <<x, z>>
        <4>1. Dash \notin Native /\ Store \notin quadlet[Dash].networks
          BY <2>1, ProvidersApart DEF Providers
        <4> QED
          BY <4>1 DEF JoinSteps, When
      <3>2. OwnQuadlet(x, Dash) /\ Store \in x.val
        BY DEF OwnQuadlet, Step
      <3> HIDE DEF x, z, join
      <3>3. x \in ToSet(join)
        BY <3>1 DEF ToSet
      <3> QED
        BY <3>2, <3>3
    <2> QED
      BY <2>1
  <1>6. DashSteps = dash \o join \o again
    BY DEF DashSteps
  <1> HIDE DEF a
  <1>2. dash \in Seq(AddSteps(s, r)) /\ ToSet(dash) = {a}
    BY <1>1, SingleIs
  <1> HIDE DEF dash, join, again
  <1>7. dash \o join \in Seq(AddSteps(s, r)) /\ ToSet(dash \o join) = ToSet(dash) \cup ToSet(join)
    BY <1>2, <1>4, Concatenated
  <1> DEFINE pair == dash \o join
  <1>8. pair \in Seq(AddSteps(s, r)) /\ ToSet(pair) = ToSet(dash) \cup ToSet(join)
    BY <1>7
  <1>9. DashSteps = pair \o again
    BY <1>6
  <1> HIDE DEF pair
  <1>10. pair \o again \in Seq(AddSteps(s, r)) /\ ToSet(pair \o again) = ToSet(pair) \cup ToSet(again)
    BY <1>3, <1>8, Concatenated
  <1> QED
    BY <1>2, <1>5, <1>8, <1>9, <1>10 DEF a

\* The store's plan scrapes whoever is installed, and the dashboard joins it.
LEMMA RetroMetricsAdds ==
    ASSUME TypeOK, NEW r, NEW s \in Services
    PROVE  /\ RetroMetrics(s) \in Seq(AddSteps(s, r))
           /\ s = Store => \A t \in Metrics \ {Store} :
                Installed(t) => Step("target", t, TRUE) \in ToSet(RetroMetrics(s))
           /\ s = Store /\ Installed(Dash) =>
                /\ Step("source", Dash, TRUE) \in ToSet(RetroMetrics(s))
                /\ \/ Store \in quadlet[Dash].networks
                   \/ \E x \in ToSet(RetroMetrics(s)) : OwnQuadlet(x, Dash) /\ Store \in x.val
  <1>1. CASE s = Store
    <2> DEFINE each == EachTarget(s)
               dash == When(Installed(Dash), DashSteps)
    <2>1. /\ each \in Seq(AddSteps(s, r))
          /\ \A t \in Metrics \ {Store} : Installed(t) => Step("target", t, TRUE) \in ToSet(each)
      BY <1>1, EachTargetAdds DEF Others
    <2>2. dash \in Seq(AddSteps(s, r)) /\ (Installed(Dash) => dash = DashSteps)
      BY <1>1, DashAdds, None, Zenon DEF When
    <2>3. RetroMetrics(s) = each \o dash
      BY <1>1 DEF RetroMetrics, ForEach, When, EachTarget, TargetSteps, Others, DashSteps
    <2> HIDE DEF each, dash
    <2>4. each \o dash \in Seq(AddSteps(s, r)) /\ ToSet(each \o dash) = ToSet(each) \cup ToSet(dash)
      BY <2>1, <2>2, Concatenated
    <2> QED
      BY <1>1, <2>1, <2>2, <2>3, <2>4, DashAdds
  <1>2. CASE s # Store
    BY <1>2, None, Zenon DEF RetroMetrics, When
  <1> QED
    BY <1>1, <1>2

\* What the steps p do for the store, as s is added.
Scrapes(p, s) ==
    /\ Installed(Store) /\ s \in Metrics \ Native => Step("target", s, TRUE) \in p
    /\ Installed(Store) /\ s = Dash =>
         Step("source", Dash, TRUE) \in p /\ \E x \in p : OwnQuadlet(x, Dash) /\ Store \in x.val
    /\ s = Store =>
         /\ \A t \in Metrics \ {Store} : Installed(t) => Step("target", t, TRUE) \in p
         /\ Installed(Dash) =>
              /\ Step("source", Dash, TRUE) \in p
              /\ \/ Store \in quadlet[Dash].networks
                 \/ \E x \in p : OwnQuadlet(x, Dash) /\ Store \in x.val

\* A step of the add of s harms nobody who is scraped.
Harmless(x, s) ==
    /\ x.op = "target" => x.val = TRUE
    /\ OwnQuadlet(x, Dash) => s \in {Dash, Store} /\ (s = Store \/ Installed(Store) => Store \in x.val)

LEMMA WiringAdds ==
    ASSUME TypeOK, Housed, NEW s \in Services, NEW r \in Record, Routable(s, r), Registrable(r)
    PROVE  LET w == WiringSteps(s, r) IN
           /\ w \in Seq(AddSteps(s, r))
           /\ ToSet(ConsumerSteps(s)) \cup ToSet(RetroJoins(s)) \cup ToSet(RetroMetrics(s)) \subseteq ToSet(w)
  <1> DEFINE p1 == When(r.auth, RegisterSteps(s, r.url))
             p2 == RouteSteps(s, r)
             p3 == RetroJoins(s)
             p4 == ConsumerSteps(s)
             p5 == RetroMetrics(s)
             p6 == When(s = Proxy, << Step("snippet", Proxy, TRUE) >>)
  <1>1. p1 \in Seq(AddSteps(s, r))
    <2>1. r.auth => RegisterSteps(s, r.url) \in Seq(SharedSteps(s, r))
      BY RegisterIs DEF Record, Registrable, Routable
    <2>2. r.auth => RegisterSteps(s, r.url) \in Seq(AddSteps(s, r))
      BY <2>1, SharedAdds, SeqMono
    <2> QED
      BY <2>2 DEF When
  <1>2. p2 \in Seq(AddSteps(s, r))
    BY RouteIs, SharedAdds, SeqMono
  <1>3. p3 \in Seq(AddSteps(s, r)) /\ p4 \in Seq(AddSteps(s, r)) /\ p5 \in Seq(AddSteps(s, r))
    BY RetroJoinsAdds, ConsumerAdds, RetroMetricsAdds
  <1>4. p6 \in Seq(AddSteps(s, r))
    <2>1. Step("snippet", Proxy, TRUE) \in AddSteps(s, r)
      BY StepsMade DEF AddSteps, Step, OwnQuadlet, Owned
    <2> QED
      BY <2>1, One, None, Zenon DEF When
  <1>5. WiringSteps(s, r) = p1 \o p2 \o p3 \o p4 \o p5 \o p6
    BY DEF WiringSteps
  <1> HIDE DEF p1, p2, p3, p4, p5, p6
  <1>6. p1 \o p2 \in Seq(AddSteps(s, r))
    BY <1>1, <1>2, Chained
  <1> DEFINE q2 == p1 \o p2
             q3 == q2 \o p3
             q4 == q3 \o p4
             q5 == q4 \o p5
             q6 == q5 \o p6
  <1>7. q2 \in Seq(AddSteps(s, r)) /\ WiringSteps(s, r) = q6
    BY <1>5, <1>6
  <1> HIDE DEF q2
  <1>8. q3 \in Seq(AddSteps(s, r)) /\ ToSet(q3) = ToSet(q2) \cup ToSet(p3)
    BY <1>3, <1>7, Concatenated
  <1> HIDE DEF q3
  <1>9. q4 \in Seq(AddSteps(s, r)) /\ ToSet(q4) = ToSet(q3) \cup ToSet(p4)
    BY <1>3, <1>8, Concatenated
  <1> HIDE DEF q4
  <1>10. q5 \in Seq(AddSteps(s, r)) /\ ToSet(q5) = ToSet(q4) \cup ToSet(p5)
    BY <1>3, <1>9, Concatenated
  <1> HIDE DEF q5
  <1>11. q6 \in Seq(AddSteps(s, r)) /\ ToSet(q6) = ToSet(q5) \cup ToSet(p6)
    BY <1>4, <1>10, Concatenated
  <1>12. ToSet(p4) \cup ToSet(p3) \cup ToSet(p5) \subseteq ToSet(q6)
    BY <1>8, <1>9, <1>10, <1>11
  <1> QED
    BY <1>7, <1>11, <1>12 DEF p3, p4, p5

\* The steps of an add: its own files, the wiring, the manifest and the start.
LEMMA PodmanParts ==
    ASSUME TypeOK, Housed, NEW s \in Services \ Native, NEW r \in Record, CanAdd(s, r)
    PROVE  LET w == WiringSteps(s, r) IN
           /\ w \in Seq(AddSteps(s, r))
           /\ ToSet(ConsumerSteps(s)) \cup ToSet(RetroJoins(s)) \cup ToSet(RetroMetrics(s)) \subseteq ToSet(w)
           /\ Step("quadlet", s, ExtraNetworks(s, r)) \in AllSteps /\ Step("record", s, r) \in AllSteps
           /\ Step("manifest", s, Written(w, s)) \in AllSteps /\ Step("start", s, {}) \in AllSteps
           /\ ToSet(AddPlan(s, r)) = {Step("quadlet", s, ExtraNetworks(s, r)), Step("record", s, r)}
                \cup ToSet(w) \cup {Step("manifest", s, Written(w, s)), Step("start", s, {})}
  <1> DEFINE w == WiringSteps(s, r)
             m == Step("manifest", s, Written(w, s))
             z == Step("start", s, {})
             a == Step("quadlet", s, ExtraNetworks(s, r))
             b == Step("record", s, r)
             own == <<a, b>>
             end == <<m, z>>
  <1>1. /\ w \in Seq(AddSteps(s, r))
        /\ ToSet(ConsumerSteps(s)) \cup ToSet(RetroJoins(s)) \cup ToSet(RetroMetrics(s)) \subseteq ToSet(w)
    BY WiringAdds DEF CanAdd, Plannable
  <1>2. AddSteps(s, r) \subseteq AllSteps
    BY DEF AddSteps
  <1>3. Written(w, s) \in Manifests(s)
    <2> HIDE DEF w
    <2> QED
      BY <1>1, <1>2, SeqMono, WrittenIs
  <1>4. ExtraNetworks(s, r) \subseteq Services
    BY ProvidersApart DEF ExtraNetworks
  <1>5. a \in AllSteps /\ b \in AllSteps /\ m \in AllSteps /\ z \in AllSteps
    BY <1>3, <1>4, StepsMade DEF Orders
  <1>6. AddPlan(s, r) = own \o w \o end
    BY DEF AddPlan, PodmanAdd, OwnFiles, Settled
  <1> HIDE DEF w, a, b, m, z
  <1>7. own \in Seq(AllSteps) /\ ToSet(own) = {a, b} /\ end \in Seq(AllSteps) /\ ToSet(end) = {m, z}
    BY <1>5, PairIs
  <1>8. w \in Seq(AllSteps)
    BY <1>1, <1>2, SeqMono
  <1> DEFINE front == own \o w
  <1> HIDE DEF own, end
  <1>9. front \in Seq(AllSteps) /\ ToSet(front) = ToSet(own) \cup ToSet(w)
    BY <1>7, <1>8, Concatenated
  <1>10. AddPlan(s, r) = front \o end
    BY <1>6
  <1> HIDE DEF front
  <1>11. ToSet(front \o end) = ToSet(front) \cup ToSet(end)
    BY <1>7, <1>9, Concatenated
  <1>12. ToSet(AddPlan(s, r)) = {a, b} \cup ToSet(w) \cup {m, z}
    BY <1>7, <1>9, <1>10, <1>11
  <1> QED
    BY <1>1, <1>5, <1>12 DEF w, a, b, m, z

LEMMA PodmanAdds ==
    ASSUME TypeOK, Housed, NEW s \in Services \ Native, NEW r \in Record, CanAdd(s, r)
    PROVE  Scrapes(ToSet(AddPlan(s, r)), s) /\ \A x \in ToSet(AddPlan(s, r)) : Harmless(x, s)
  <1> DEFINE w == WiringSteps(s, r)
             m == Step("manifest", s, Written(w, s))
             z == Step("start", s, {})
             a == Step("quadlet", s, ExtraNetworks(s, r))
             b == Step("record", s, r)
  <1>1. /\ w \in Seq(AddSteps(s, r))
        /\ ToSet(ConsumerSteps(s)) \subseteq ToSet(w) /\ ToSet(RetroMetrics(s)) \subseteq ToSet(w)
        /\ ToSet(AddPlan(s, r)) = {a, b} \cup ToSet(w) \cup {m, z}
    BY PodmanParts
  <1>2. s = Dash /\ Installed(Store) => Store \in ExtraNetworks(s, r)
    BY ProvidersApart DEF ExtraNetworks, Bridged
  <1>3. Harmless(a, s) /\ (s = Dash => OwnQuadlet(a, Dash) /\ a.val = ExtraNetworks(s, r))
    BY <1>2, ProvidersApart DEF Harmless, OwnQuadlet, Step
  <1>4. Harmless(b, s) /\ Harmless(z, s) /\ Harmless(m, s)
    BY DEF Harmless, OwnQuadlet, Step
  <1>5. \A x \in AddSteps(s, r) : Harmless(x, s)
    BY DEF AddSteps, Harmless
  <1>6. \A x \in ToSet(w) : x \in AddSteps(s, r)
    BY <1>1, ElementOfSeq, LenProperties DEF ToSet
  <1>7. Scrapes(ToSet(w) \cup {a}, s)
    BY <1>1, <1>2, <1>3, ConsumerAdds, RetroMetricsAdds DEF Scrapes
  <1> HIDE DEF w, a, b, m, z
  <1>8. \A x \in ToSet(AddPlan(s, r)) : Harmless(x, s)
    BY <1>1, <1>3, <1>4, <1>5, <1>6
  <1>9. Scrapes(ToSet(AddPlan(s, r)), s)
    BY <1>1, <1>7 DEF Scrapes
  <1> QED
    BY <1>8, <1>9

LEMMA NativeAdds ==
    ASSUME TypeOK, Housed, NEW s \in Native, NEW r \in Record, CanAdd(s, r)
    PROVE  Scrapes(ToSet(AddPlan(s, r)), s) /\ \A x \in ToSet(AddPlan(s, r)) : Harmless(x, s)
  <1>1. s \notin Providers
    BY ProvidersApart
  <1>2. Scrapes(ToSet(AddPlan(s, r)), s)
    BY <1>1 DEF Scrapes, Providers
  <1>3. \A x \in NativeSteps(s) : Harmless(x, s)
    BY <1>1 DEF NativeSteps, Harmless, OwnRecord, OwnQuadlet, Providers
  <1>4. AddPlan(s, r) \in Seq(NativeSteps(s))
    BY NativeAddIs
  <1>5. \A x \in ToSet(AddPlan(s, r)) : x \in NativeSteps(s)
    BY <1>4, ElementOfSeq, LenProperties DEF ToSet
  <1> QED
    BY <1>2, <1>3, <1>5

(***************************************************************************)
(* The steps keep it.                                                      *)
(***************************************************************************)
LEMMA LeftIs ==
    ASSUME Inv, NEW x \in Left
    PROVE  /\ job.kind \in {"add", "reset"} \cup Removes \cup Updates
           /\ job.kind = "add" => \/ S \in Native /\ x \in NativeSteps(S)
                                  \/ OwnQuadlet(x, S) \/ OwnRecord(x, S) \/ x \in WireSteps(S)
           /\ job.kind \in Removes => x \in RemoveSteps(S)
           /\ job.kind \in Updates => x \in ConfigureSteps(S)
           /\ job.kind = "reset" => x \in ResetSteps
           /\ x \in AllSteps
  <1>1. plan # << >>
    BY EmptyIs DEF Left
  <1>2. Typed /\ plan \in Seq(AllSteps)
    BY DEF Inv, Typed
  <1>3. Left = {Head(plan)} \cup ToSet(Tail(plan)) /\ Left \subseteq AllSteps /\ Tail(plan) \in Seq(AllSteps)
    BY <1>1, <1>2, PlanIs
  <1>4. Tail(plan) # << >> => ToSet(Tail(plan)) = {Head(Tail(plan))} \cup ToSet(Tail(Tail(plan)))
    BY <1>3, TailIs
  <1>5. job.kind = "add" => \/ S \in Native /\ x \in NativeSteps(S)
                            \/ OwnQuadlet(x, S) \/ OwnRecord(x, S) \/ x \in WireSteps(S)
    BY <1>3, <1>4 DEF Inv, AddInv, WritesBoth, WritesRecord, Wires
  <1>6. job.kind \in {"add", "reset"} \cup Removes \cup Updates
    BY <1>1, HeadIs
  <1> QED
    BY <1>3, <1>5, <1>6 DEF Inv, RemoveInv, UpdateInv, ResetInv

\* Who a step that scrapes is about.
LEMMA AheadIs ==
    ASSUME Inv
    PROVE  /\ \A t : Step("target", t, TRUE) \in Left => job.kind = "add" /\ (t = S \/ S = Store)
           /\ Step("source", Dash, TRUE) \in Left => job.kind = "add" /\ S \in {Dash, Store}
           /\ \A x \in Left : OwnQuadlet(x, Dash) => job.kind \in {"add"} \cup Updates
  <1>1. ASSUME NEW t, Step("target", t, TRUE) \in Left
        PROVE  job.kind = "add" /\ (t = S \/ S = Store)
    <2> DEFINE x == Step("target", t, TRUE)
    <2>1. x.op = "target" /\ x.of = t /\ x.val = TRUE
      BY DEF Step
    <2> HIDE DEF x
    <2>2. x \in Left
      BY <1>1 DEF x
    <2> QED
      BY <2>1, <2>2, LeftIs DEF NativeSteps, OwnQuadlet, OwnRecord, WireSteps, RemoveSteps, ConfigureSteps,
           ResetSteps, Finals
  <1>2. ASSUME Step("source", Dash, TRUE) \in Left
        PROVE  job.kind = "add" /\ S \in {Dash, Store}
    <2> DEFINE x == Step("source", Dash, TRUE)
    <2>1. x.op = "source" /\ x.val = TRUE
      BY DEF Step
    <2> HIDE DEF x
    <2>2. x \in Left
      BY <1>2 DEF x
    <2> QED
      BY <2>1, <2>2, LeftIs DEF NativeSteps, OwnQuadlet, OwnRecord, WireSteps, RemoveSteps, ConfigureSteps,
           ResetSteps, Finals
  <1>3. ASSUME NEW x \in Left, OwnQuadlet(x, Dash) PROVE job.kind \in {"add"} \cup Updates
    BY <1>3, LeftIs DEF OwnQuadlet, RemoveSteps, ResetSteps, Finals
  <1> QED
    BY <1>1, <1>2, <1>3

\* What a step has to keep.
LEMMA StepScrapes ==
    ASSUME Inv, ScrapeInv, plan # << >>, plan' = Tail(plan), job' = job, cut' = cut, robbed \subseteq robbed',
           \A t \in Services : Sound(t)' /\ Installed(t)' => Arriving(t),
           \A t \in Metrics : Wanted(t)' /\ Wanted(Store)' /\ t \in targets => t \in targets',
           Head(plan).op = "target" /\ Head(plan).val = TRUE => Head(plan).of \in targets',
           Wanted(Dash)' /\ Wanted(Store)' /\ Dash \in sources => Dash \in sources',
           Head(plan).op = "source" /\ Head(plan).val = TRUE => Dash \in sources',
           Wanted(Dash)' /\ Wanted(Store)' /\ Store \in quadlet[Dash].networks
             => Store \in quadlet'[Dash].networks,
           OwnQuadlet(Head(plan), Dash) => quadlet'[Dash].networks = Head(plan).val,
           job.kind \in Updates /\ Installed(Proxy) /\ Sound(Proxy)' => Installed(Proxy)'
    PROVE  Scraping' /\ StepsInv'
  <1>1. Left = {Head(plan)} \cup Left' /\ S' = S
    <2>1. Typed
      BY DEF Inv
    <2> QED
      BY <2>1, PlanIs DEF Left, S
  <1>2. \A t \in Services : Sound(t)' => Sound(t)
    BY DEF Sound
  <1>3. \A t \in Services : Removing(t)' <=> Removing(t)
    BY <1>1 DEF Removing
  <1>4. \A t \in Services : Sound(t)' /\ Arriving(t)' => Arriving(t)
    BY <1>1 DEF Arriving, Adding
  <1>5. \A t \in Services : Wanted(t)' => Wanted(t)
    BY <1>2, <1>3, <1>4 DEF Wanted
  <1>6. Store \in Services /\ Dash \in Services /\ Proxy \in Services /\ Metrics \subseteq Services
    BY ProvidersApart, WiringConstants
  <1>7. ASSUME Wanted(Store)', NEW t \in Metrics \ (Native \cup {Store}), Wanted(t)' PROVE Scraped(t)'
    <2>1. Scraped(t)
      BY <1>5, <1>6, <1>7 DEF ScrapeInv, Scraping
    <2>2. CASE t \in targets
      BY <1>7, <2>2 DEF Scraped
    <2>3. CASE Step("target", t, TRUE) \in Left'
      BY <2>3 DEF Scraped
    <2>4. CASE Step("target", t, TRUE) = Head(plan)
      <3>1. Head(plan).op = "target" /\ Head(plan).of = t /\ Head(plan).val = TRUE
        BY <2>4 DEF Step
      <3> QED
        BY <3>1 DEF Scraped
    <2> QED
      BY <1>1, <2>1, <2>2, <2>3, <2>4 DEF Scraped
  <1>8. ASSUME Wanted(Store)', Wanted(Dash)' PROVE ReadsStore'
    <2>1. ReadsStore
      BY <1>5, <1>6, <1>8 DEF ScrapeInv, Scraping
    <2>2. CASE Dash \in sources
      BY <1>8, <2>2 DEF ReadsStore
    <2>3. CASE Step("source", Dash, TRUE) \in Left'
      BY <2>3 DEF ReadsStore
    <2>4. CASE Step("source", Dash, TRUE) = Head(plan)
      <3>1. Head(plan).op = "source" /\ Head(plan).val = TRUE
        BY <2>4 DEF Step
      <3> QED
        BY <3>1 DEF ReadsStore
    <2> QED
      BY <1>1, <2>1, <2>2, <2>3, <2>4 DEF ReadsStore
  <1>9. ASSUME Wanted(Store)', Wanted(Dash)' PROVE JoinsStore'
    <2>1. JoinsStore
      BY <1>5, <1>6, <1>9 DEF ScrapeInv, Scraping
    <2>2. CASE Store \in quadlet[Dash].networks
      BY <1>9, <2>2 DEF JoinsStore
    <2>3. ASSUME NEW x \in Left, OwnQuadlet(x, Dash), Store \in x.val PROVE JoinsStore'
      BY <1>1, <2>3 DEF JoinsStore
    <2> QED
      BY <2>1, <2>2, <2>3 DEF JoinsStore
  <1>10. StepsInv'
    <2>1. ASSUME NEW x \in Left'
          PROVE  /\ x.op = "target" /\ job.kind = "add" => x.val = TRUE
                 /\ OwnQuadlet(x, Dash) => S \in {Dash, Store}
                 /\ OwnQuadlet(x, Dash) /\ Arriving(Store) /\ Sound(Store) => Store \in x.val
                 /\ OwnQuadlet(x, Proxy) /\ job.kind \in Updates => Installed(Proxy) \/ ~Sound(Proxy)
      BY <1>1 DEF ScrapeInv, StepsInv
    <2> QED
      BY <1>1, <1>2, <1>4, <1>6, <2>1 DEF StepsInv, OwnQuadlet
  <1> QED
    BY <1>7, <1>8, <1>9, <1>10 DEF Scraping

LEMMA QuadletScrapes == ASSUME Inv, ScrapeInv, WriteQuadlet PROVE Scraping' /\ StepsInv'
  <1> DEFINE x == Head(plan)
  <1>1. /\ plan # << >> /\ x.op = "quadlet" /\ plan' = Tail(plan)
        /\ quadlet' = [quadlet EXCEPT ![x.of] = Joining(x.val)]
        /\ UNCHANGED <<job, recorded, targets, sources, cut, robbed>>
    BY DEF WriteQuadlet, At, Of, Val, Next1
  <1>2. x \in Left /\ x.of \in Services
    BY <1>1, HeadIs, StepsTyped, PlanIs DEF Inv
  <1>3. quadlet \in [Services -> Networks]
    BY FilesTyped DEF Inv, Typed
  <1>4. (x.of = S /\ job.kind = "add") \/ Installed(x.of) \/ ~Sound(x.of)
    <2>1. CASE job.kind = "add"
      BY <1>1, <2>1, HeadIs DEF NativeSteps, OwnStep, OwnQuadlet, OwnRecord, WireSteps
    <2>2. CASE job.kind \in Updates
      BY <1>1, <1>2, <2>2, HeadIs
         DEF ConfigureSteps, ScrapeInv, StepsInv, OwnQuadlet, Inv, UpdateInv
    <2>3. CASE job.kind \in Removes
      BY <1>1, <2>3, HeadIs DEF RemoveSteps, Finals
    <2>4. CASE job.kind = "reset"
      BY <1>1, <2>4, HeadIs DEF ResetSteps
    <2> QED
      BY <1>1, <2>1, <2>2, <2>3, <2>4, HeadIs
  <1> HIDE DEF x
  <1>5. /\ \A t \in Services : t # x.of => quadlet'[t] = quadlet[t]
        /\ quadlet'[x.of].present /\ quadlet'[x.of].networks = x.val
    BY <1>1, <1>2, <1>3 DEF Joining
  <1>6. \A t \in Services : Sound(t)' /\ Installed(t)' => Arriving(t)
    BY <1>1, <1>4, <1>5 DEF Installed, Arriving, Adding, Sound
  <1>7. OwnQuadlet(x, Dash) => quadlet'[Dash].networks = x.val
    BY <1>5 DEF OwnQuadlet
  <1>8. Installed(Proxy) => Installed(Proxy)'
    BY <1>1, <1>5, ProvidersApart DEF Installed
  <1>9. Wanted(Dash)' /\ Wanted(Store)' /\ Store \in quadlet[Dash].networks
          => Store \in quadlet'[Dash].networks
    <2>1. CASE x.of # Dash
      BY <1>5, <2>1, ProvidersApart
    <2>2. CASE x.of = Dash
      <3>1. Wanted(Store)' => Arriving(Store) /\ Sound(Store)
        BY <1>1, <1>6, ProvidersApart DEF Wanted, Arriving, Adding, Sound, S
      <3>2. OwnQuadlet(x, Dash)
        BY <1>1, <2>2 DEF OwnQuadlet
      <3> QED
        BY <1>2, <1>7, <3>1, <3>2 DEF ScrapeInv, StepsInv
    <2> QED
      BY <2>1, <2>2
  <1> QED
    BY <1>1, <1>6, <1>7, <1>8, <1>9, StepScrapes DEF x

LEMMA RecordScrapes == ASSUME Inv, ScrapeInv, WriteRecord PROVE Scraping' /\ StepsInv'
  <1> DEFINE x == Head(plan)
  <1>1. /\ plan # << >> /\ x.op = "record" /\ plan' = Tail(plan)
        /\ recorded' = recorded \cup {x.of}
        /\ UNCHANGED <<job, quadlet, targets, sources, cut, robbed>>
    BY DEF WriteRecord, At, Of, Val, Next1
  <1>2. x.of = S /\ (job.kind = "add" \/ Installed(S))
    <2>1. CASE job.kind = "add"
      BY <1>1, <2>1, HeadIs DEF NativeSteps, OwnStep, OwnQuadlet, OwnRecord, WireSteps, Files
    <2>2. CASE job.kind \in Updates
      BY <1>1, <2>2, HeadIs DEF ConfigureSteps, Inv, UpdateInv
    <2>3. CASE job.kind \in Removes
      BY <1>1, <2>3, HeadIs DEF RemoveSteps, Finals
    <2>4. CASE job.kind = "reset"
      BY <1>1, <2>4, HeadIs DEF ResetSteps
    <2> QED
      BY <1>1, <2>1, <2>2, <2>3, <2>4, HeadIs
  <1>3. x.op # "target" /\ x.op # "source" /\ ~OwnQuadlet(x, Dash)
    BY <1>1 DEF OwnQuadlet
  <1> HIDE DEF x
  <1>4. \A t \in Services : Sound(t)' /\ Installed(t)' => Arriving(t)
    BY <1>1, <1>2 DEF Installed, Arriving, Adding
  <1>5. Installed(Proxy) => Installed(Proxy)'
    BY <1>1 DEF Installed
  <1> QED
    BY <1>1, <1>3, <1>4, <1>5, StepScrapes DEF x

LEMMA SharedScrapes == ASSUME Inv, ScrapeInv, WriteShared PROVE Scraping' /\ StepsInv'
  <1> DEFINE x == Head(plan)
  <1>1. /\ plan # << >> /\ plan' = Tail(plan)
        /\ x.op \in {"caddyfile", "clients", "snippet", "target", "source"}
        /\ targets' = IF x.op = "target" THEN {t \in targets : t # x.of} \cup {t \in {x.of} : x.val}
                      ELSE targets
        /\ sources' = IF x.op = "source" THEN {d \in {x.of} : x.val} ELSE sources
        /\ UNCHANGED <<job, quadlet, recorded, cut, robbed>>
    BY DEF WriteShared, At, Of, Val, Next1
  <1>2. x \in Left /\ x \in AllSteps /\ StepTyped(x)
    BY <1>1, HeadIs, StepsTyped, PlanIs DEF Inv
  <1>3. x.op = "source" => x.of = Dash /\ (x.val = TRUE \/ x.val = FALSE)
    BY <1>2 DEF StepTyped, Orders
  <1>4. x.op = "target" => x.val = TRUE \/ x.val = FALSE
    BY <1>2 DEF StepTyped, Orders
  <1>5. x.op = "target" /\ x.val = FALSE => Removing(x.of)
    <2>1. CASE job.kind = "add"
      BY <1>2, <2>1 DEF ScrapeInv, StepsInv
    <2>2. CASE job.kind \in Updates
      BY <1>1, <2>2, HeadIs DEF ConfigureSteps
    <2>3. CASE job.kind \in Removes
      BY <1>1, <2>3, HeadIs DEF RemoveSteps, Removing
    <2>4. CASE job.kind = "reset"
      BY <1>1, <2>4, HeadIs DEF ResetSteps
    <2> QED
      BY <1>1, <2>1, <2>2, <2>3, <2>4, HeadIs
  <1>6. x.op = "source" /\ x.val = FALSE => Removing(Store)
    <2>1. CASE job.kind = "add"
      BY <1>1, <2>1, HeadIs DEF NativeSteps, OwnStep, OwnQuadlet, OwnRecord, WireSteps
    <2>2. CASE job.kind \in Updates
      BY <1>1, <2>2, HeadIs DEF ConfigureSteps
    <2>3. CASE job.kind \in Removes
      BY <1>1, <2>3, HeadIs DEF RemoveSteps, Removing
    <2>4. CASE job.kind = "reset"
      BY <1>1, <2>4, HeadIs DEF ResetSteps
    <2> QED
      BY <1>1, <2>1, <2>2, <2>3, <2>4, HeadIs
  <1>7. ~OwnQuadlet(x, Dash)
    BY <1>1 DEF OwnQuadlet
  <1> HIDE DEF x
  <1>8. \A t : (Removing(t)' <=> Removing(t)) /\ (Installed(t)' <=> Installed(t))
    BY <1>1 DEF Removing, S, Installed
  <1>9. \A t \in Services : Sound(t)' /\ Installed(t)' => Arriving(t)
    BY <1>8 DEF Arriving
  <1>10. \A t \in Metrics : Wanted(t)' /\ Wanted(Store)' /\ t \in targets => t \in targets'
    BY <1>1, <1>4, <1>5, <1>8 DEF Wanted
  <1>11. x.op = "target" /\ x.val = TRUE => x.of \in targets'
    BY <1>1
  <1>12. Wanted(Dash)' /\ Wanted(Store)' /\ Dash \in sources => Dash \in sources'
    BY <1>1, <1>3, <1>6, <1>8 DEF Wanted
  <1>13. x.op = "source" /\ x.val = TRUE => Dash \in sources'
    BY <1>1, <1>3
  <1> QED
    BY <1>1, <1>7, <1>8, <1>9, <1>10, <1>11, <1>12, <1>13, StepScrapes DEF x

LEMMA QuietScrapes ==
    ASSUME Inv, ScrapeInv, plan # << >>, plan' = Tail(plan),
           Head(plan).op \in {"manifest", "start", "restart"},
           UNCHANGED <<job, recorded, quadlet, targets, sources, cut, robbed>>
    PROVE  Scraping' /\ StepsInv'
  <1>1. \A t : Installed(t)' <=> Installed(t)
    BY DEF Installed
  <1>2. \A t \in Services : Sound(t)' /\ Installed(t)' => Arriving(t)
    BY <1>1 DEF Arriving
  <1>3. ~OwnQuadlet(Head(plan), Dash) /\ Head(plan).op # "target" /\ Head(plan).op # "source"
    BY DEF OwnQuadlet
  <1> QED
    BY <1>1, <1>2, <1>3, StepScrapes

LEMMA ManifestScrapes == ASSUME Inv, ScrapeInv, WriteManifest PROVE Scraping' /\ StepsInv'
  BY QuietScrapes DEF WriteManifest, At, Next1

LEMMA StartScrapes == ASSUME Inv, ScrapeInv, Start PROVE Scraping' /\ StepsInv'
  BY QuietScrapes DEF Start, At, Next1

LEMMA TakeDownScrapes == ASSUME Inv, ScrapeInv, TakeDown PROVE ScrapeInv'
  <1> DEFINE x == Head(plan)
  <1>1. /\ plan # << >> /\ x.op = "takedown" /\ plan' = Tail(plan)
        /\ quadlet' = [quadlet EXCEPT ![x.of] = NoQuadlet]
        /\ UNCHANGED <<job, recorded, targets, sources, cut, robbed>>
    BY DEF TakeDown, At, Of, Val, Next1
  <1>2. x.of \in Services
    BY <1>1, HeadIs, StepsTyped
  <1>3. quadlet \in [Services -> Networks]
    BY FilesTyped DEF Inv, Typed
  <1>4. job.kind \notin {"add"} \cup Updates
    BY <1>1, HeadIs DEF NativeSteps, OwnStep, OwnQuadlet, OwnRecord, WireSteps, Files, ConfigureSteps
  <1>5. x.op # "target" /\ x.op # "source" /\ ~OwnQuadlet(x, Dash)
    BY <1>1 DEF OwnQuadlet
  <1>6. job.kind = "reset" => plan' # << >>
    <2> SUFFICES ASSUME job.kind = "reset" PROVE plan' # << >>
      OBVIOUS
    <2>1. EndsWith(plan, {"wipe"}) /\ plan \in Seq(AllSteps)
      BY DEF Inv, ResetInv, Typed
    <2> QED
      BY <1>1, <2>1, EndsTail
  <1> HIDE DEF x
  <1>7. /\ \A t \in Services : t # x.of => quadlet'[t] = quadlet[t]
        /\ ~quadlet'[x.of].present
    BY <1>1, <1>2, <1>3 DEF NoQuadlet
  <1>8. \A t \in Services : Installed(t)' => Installed(t) /\ quadlet'[t] = quadlet[t]
    BY <1>1, <1>7 DEF Installed
  <1>9. \A t \in Services : Sound(t)' /\ Installed(t)' => Arriving(t)
    BY <1>8 DEF Arriving
  <1>10. Wanted(Dash)' => quadlet'[Dash] = quadlet[Dash]
    BY <1>1, <1>4, <1>8, ProvidersApart DEF Wanted, Arriving, Adding
  <1>11. Scraping' /\ StepsInv'
    BY <1>1, <1>4, <1>5, <1>9, <1>10, StepScrapes DEF x
  <1> QED
    BY <1>1, <1>6, <1>11 DEF ScrapeInv, WipedInv

LEMMA DropScrapes == ASSUME Inv, ScrapeInv, DropFile PROVE Scraping' /\ StepsInv'
  <1> DEFINE x == Head(plan)
  <1>1. /\ plan # << >> /\ x.op = "drop" /\ plan' = Tail(plan)
        /\ quadlet' = IF x.val[1] = "quadlet" THEN [quadlet EXCEPT ![x.val[2]] = NoQuadlet] ELSE quadlet
        /\ targets' = IF x.val[1] = "target" THEN targets \ {x.val[2]} ELSE targets
        /\ sources' = IF x.val[1] = "source" THEN {} ELSE sources
        /\ robbed \cup {x.val[2]} \subseteq robbed'
        /\ UNCHANGED <<job, recorded, cut>>
    BY DEF DropFile, At, Of, Val, Next1
  <1>2. x \in AllSteps /\ StepTyped(x)
    BY <1>1, HeadIs, StepsTyped
  <1>3. x.val \in Files \X Services
    BY <1>1, <1>2 DEF StepTyped, Orders
  <1>4. quadlet \in [Services -> Networks]
    BY FilesTyped DEF Inv, Typed
  <1>5. OfDash(x.val)
    <2>1. job.kind \in Updates
      BY <1>1, HeadIs DEF NativeSteps, OwnStep, OwnQuadlet, OwnRecord, WireSteps, Files, RemoveSteps,
           Finals, ResetSteps
    <2> QED
      BY <1>1, <2>1, HeadIs DEF ConfigureSteps
  <1>6. x.op # "target" /\ x.op # "source" /\ ~OwnQuadlet(x, Dash)
    BY <1>1 DEF OwnQuadlet
  <1> HIDE DEF x
  <1>7. \A t \in Services : Sound(t)' => t # x.val[2]
    BY <1>1 DEF Sound
  <1>8. \A t \in Services : t # x.val[2] => quadlet'[t] = quadlet[t]
    BY <1>1, <1>3, <1>4
  <1>9. \A t \in Services : Sound(t)' => (Installed(t)' <=> Installed(t)) /\ quadlet'[t] = quadlet[t]
    BY <1>1, <1>7, <1>8 DEF Installed
  <1>10. \A t \in Services : Sound(t)' /\ Installed(t)' => Arriving(t)
    BY <1>9 DEF Arriving
  <1>11. Wanted(Dash)' => quadlet'[Dash] = quadlet[Dash] /\ sources' = sources
    BY <1>1, <1>5, <1>7, <1>9, ProvidersApart DEF Wanted, OfDash
  <1>12. \A t \in Metrics : Wanted(t)' /\ t \in targets => t \in targets'
    BY <1>1, <1>7, WiringConstants DEF Wanted
  <1>13. Installed(Proxy) /\ Sound(Proxy)' => Installed(Proxy)'
    BY <1>9, ProvidersApart
  <1> QED
    BY <1>1, <1>6, <1>10, <1>11, <1>12, <1>13, StepScrapes DEF x

LEMMA ClearScrapes == ASSUME Inv, ScrapeInv, ClearHome PROVE Scraping' /\ StepsInv'
  <1> DEFINE x == Head(plan)
  <1>1. /\ plan # << >> /\ x.op \in Finals /\ plan' = Tail(plan)
        /\ recorded' \subseteq recorded
        /\ x.of # Store => targets' = targets
        /\ x.of # Dash => sources' = sources
        /\ UNCHANGED <<job, quadlet, cut, robbed>>
    BY DEF ClearHome, At, Of, Val, Next1, Finals
  <1>2. job.kind \in Removes /\ x.of = S
    <2>1. job.kind \notin {"add", "reset"} \cup Updates
      BY <1>1, HeadIs DEF NativeSteps, OwnStep, OwnQuadlet, OwnRecord, WireSteps, Files, ConfigureSteps,
           ResetSteps, Finals
    <2>2. job.kind \in Removes
      BY <1>1, <2>1, HeadIs
    <2> QED
      BY <1>1, <2>2, HeadIs DEF RemoveSteps, Finals
  <1>3. x.op # "target" /\ x.op # "source" /\ ~OwnQuadlet(x, Dash)
    BY <1>1 DEF OwnQuadlet, Finals
  <1>4. job.kind \notin Updates
    BY <1>2 DEF Removes, Updates
  <1> HIDE DEF x
  <1>5. \A t : Wanted(t)' => t # x.of
    BY <1>1, <1>2 DEF Wanted, Removing, S
  <1>6. \A t \in Services : Sound(t)' /\ Installed(t)' => Arriving(t)
    BY <1>1 DEF Arriving, Installed
  <1> QED
    BY <1>1, <1>3, <1>4, <1>5, <1>6, StepScrapes DEF x

LEMMA WipeScrapes == ASSUME Inv, ScrapeInv, Wipe PROVE ScrapeInv'
  <1> DEFINE x == Head(plan)
  <1>1. /\ plan # << >> /\ x.op = "wipe" /\ plan' = Tail(plan) /\ recorded' = {}
        /\ UNCHANGED <<job, quadlet, cut, robbed>>
    BY DEF Wipe, At, Of, Val, Next1
  <1>2. job.kind \notin {"add"} \cup Updates
    BY <1>1, HeadIs DEF NativeSteps, OwnStep, OwnQuadlet, OwnRecord, WireSteps, Files, ConfigureSteps
  <1>3. x.op # "target" /\ x.op # "source" /\ ~OwnQuadlet(x, Dash)
    BY <1>1 DEF OwnQuadlet
  <1> HIDE DEF x
  <1>4. \A t : ~Installed(t)' /\ ~Wanted(t)'
    BY <1>1, <1>2 DEF Installed, Wanted, Arriving, Adding
  <1>5. Scraping' /\ StepsInv'
    BY <1>1, <1>2, <1>3, <1>4, StepScrapes DEF x
  <1> QED
    BY <1>1, <1>5 DEF ScrapeInv, WipedInv

LEMMA ExecuteScrapes == ASSUME Inv, ScrapeInv, Execute PROVE ScrapeInv'
  <1>1. ASSUME Scraping' /\ StepsInv', plan # << >>, job' = job, Head(plan).op \notin {"takedown", "wipe"}
        PROVE  ScrapeInv'
    <2>1. job.kind # "reset"
      BY <1>1, HeadIs DEF ResetSteps
    <2> QED
      BY <1>1, <2>1 DEF ScrapeInv, WipedInv
  <1>2. CASE WriteQuadlet
    BY <1>1, <1>2, QuadletScrapes DEF WriteQuadlet, At, Next1
  <1>3. CASE WriteRecord
    BY <1>1, <1>3, RecordScrapes DEF WriteRecord, At, Next1
  <1>4. CASE WriteShared
    BY <1>1, <1>4, SharedScrapes DEF WriteShared, Next1
  <1>5. CASE WriteManifest
    BY <1>1, <1>5, ManifestScrapes DEF WriteManifest, At, Next1
  <1>6. CASE Start
    BY <1>1, <1>6, StartScrapes DEF Start, At, Next1
  <1>7. CASE DropFile
    BY <1>1, <1>7, DropScrapes DEF DropFile, At, Next1
  <1>8. CASE ClearHome
    BY <1>1, <1>8, ClearScrapes DEF ClearHome, At, Next1
  <1> QED
    BY <1>2, <1>3, <1>4, <1>5, <1>6, <1>7, <1>8, TakeDownScrapes, WipeScrapes DEF Execute

(***************************************************************************)
(* Between the steps of two plans.                                         *)
(***************************************************************************)
LEMMA AtRest ==
    ASSUME ScrapeInv, plan = << >>, Wanted(Store)
    PROVE  /\ \A t \in Metrics \ (Native \cup {Store}) : Wanted(t) => t \in targets
           /\ Wanted(Dash) => Dash \in sources /\ Store \in quadlet[Dash].networks
  <1>1. Left = {}
    BY EmptyIs DEF Left
  <1> QED
    BY <1>1 DEF ScrapeInv, Scraping, Scraped, ReadsStore, JoinsStore

\* Whom the store is to scrape, none of them native.
LEMMA Scrapable == (Metrics \ Native) \cup {Store, Dash} \subseteq Services \ Native
  BY ProvidersApart, WiringConstants DEF Providers

LEMMA RestScrapes ==
    ASSUME ScrapeInv, plan = << >>, UNCHANGED <<quadlet, targets, sources>>,
           \A t \in Services \ Native : Wanted(t)' => Wanted(t)
    PROVE  Scraping'
  BY AtRest, Scrapable DEF Scraping, Scraped, ReadsStore, JoinsStore

\* The steps that are dropped were about the service of the command.
LEMMA AbandonScrapes ==
    ASSUME Inv, ScrapeInv, UNCHANGED <<quadlet, targets, sources>>,
           \A t \in Services \ Native : Wanted(t)' => Wanted(t) /\ t # S
    PROVE  Scraping'
  <1>1. ASSUME Wanted(Store)' PROVE Wanted(Store) /\ Store # S
    BY <1>1, Scrapable
  <1>2. ASSUME Wanted(Store)', NEW t \in Metrics \ (Native \cup {Store}), Wanted(t)' PROVE t \in targets
    <2>1. Wanted(t) /\ t # S
      BY <1>2, Scrapable
    <2> QED
      BY <1>1, <1>2, <2>1, AheadIs DEF ScrapeInv, Scraping, Scraped
  <1>3. ASSUME Wanted(Store)', Wanted(Dash)' PROVE Dash \in sources /\ Store \in quadlet[Dash].networks
    <2>1. Wanted(Dash) /\ Dash # S
      BY <1>3, Scrapable
    <2>2. ReadsStore /\ JoinsStore
      BY <1>1, <1>3, <2>1 DEF ScrapeInv, Scraping
    <2>3. Dash \in sources
      BY <1>1, <1>3, <2>1, <2>2, AheadIs DEF ReadsStore
    <2>4. Store \in quadlet[Dash].networks
      BY <1>1, <1>3, <2>1, <2>2 DEF JoinsStore, ScrapeInv, StepsInv
    <2> QED
      BY <2>3, <2>4
  <1> QED
    BY <1>2, <1>3 DEF Scraping, Scraped, ReadsStore, JoinsStore

(***************************************************************************)
(* The commands begin and end.                                             *)
(***************************************************************************)

\* A plan that writes no unit file, or none at all.
LEMMA NoUnits ==
    ASSUME job'.kind # "add", \A x \in Left' : x.op # "quadlet"
    PROVE  StepsInv'
  BY DEF StepsInv, OwnQuadlet

LEMMA AddScrapes ==
    ASSUME Inv, ScrapeInv, plan = << >>, job.kind # "reset", NEW s \in Services, NEW r \in Record,
           job.kind \in Removes => S = s, CanAdd(s, r), PlanAdd(s, r), Framed, UNCHANGED <<cut, robbed>>
    PROVE  ScrapeInv'
  <1> DEFINE p == AddPlan(s, r)
  <1>1. job'.kind = "add" /\ S' = s /\ Left' = ToSet(p)
    BY DEF PlanAdd, Begin, S, Left
  <1>2. UNCHANGED <<quadlet, recorded, targets, sources>>
    BY DEF Framed, files
  <1>3. Scrapes(ToSet(p), s) /\ \A x \in ToSet(p) : Harmless(x, s)
    <2>1. TypeOK /\ Housed
      BY DEF Inv, Typed
    <2> QED
      BY <2>1, PodmanAdds, NativeAdds
  <1> HIDE DEF p
  <1>4. \A t : (Installed(t)' <=> Installed(t)) /\ (Sound(t)' <=> Sound(t))
    BY <1>2 DEF Installed, Sound
  <1>5. \A t : /\ Wanted(t)' => Sound(t) /\ (Installed(t) \/ t = s)
               /\ Wanted(t)' /\ t # s => Wanted(t)
    BY <1>1, <1>4 DEF Wanted, Arriving, Adding, Removing
  <1>6. CASE s = Store
    <2>1. \A t \in Metrics \ (Native \cup {Store}) : Wanted(t)' => Scraped(t)'
      BY <1>1, <1>3, <1>5, <1>6 DEF Scrapes, Scraped
    <2>2. ASSUME Wanted(Dash)' PROVE ReadsStore' /\ JoinsStore'
      <3>1. Installed(Dash)
        BY <1>5, <1>6, <2>2, ProvidersApart
      <3> QED
        BY <1>1, <1>2, <1>3, <1>6, <3>1 DEF Scrapes, ReadsStore, JoinsStore
    <2> QED
      BY <1>1, <1>3, <1>6, <2>1, <2>2
         DEF ScrapeInv, Scraping, StepsInv, WipedInv, Harmless, Updates
  <1>7. CASE s # Store
    <2> SUFFICES Scraping' /\ StepsInv'
      BY <1>1 DEF ScrapeInv, WipedInv
    <2>1. Wanted(Store)' => Wanted(Store) /\ Installed(Store)
      BY <1>5, <1>7
    <2>2. ASSUME Wanted(Store)', NEW t \in Metrics \ (Native \cup {Store}), Wanted(t)' PROVE Scraped(t)'
      <3>1. CASE t = s
        BY <1>1, <1>3, <2>1, <2>2, <3>1 DEF Scrapes, Scraped
      <3>2. CASE t # s
        BY <1>2, <1>5, <2>1, <2>2, <3>2, AtRest DEF Scraped
      <3> QED
        BY <3>1, <3>2
    <2>3. ASSUME Wanted(Store)', Wanted(Dash)' PROVE ReadsStore' /\ JoinsStore'
      <3>1. CASE Dash = s
        BY <1>1, <1>3, <2>1, <2>3, <3>1 DEF Scrapes, ReadsStore, JoinsStore
      <3>2. CASE Dash # s
        BY <1>2, <1>5, <2>1, <2>3, <3>2, AtRest DEF ReadsStore, JoinsStore
      <3> QED
        BY <3>1, <3>2
    <2>4. Arriving(Store)' => Installed(Store)
      BY <1>1, <1>4, <1>7 DEF Arriving, Adding
    <2>5. StepsInv'
      BY <1>1, <1>3, <2>4 DEF StepsInv, Harmless, Updates
    <2> QED
      BY <2>2, <2>3, <2>5 DEF Scraping
  <1> QED
    BY <1>6, <1>7

LEMMA RemovalScrapes ==
    ASSUME Inv, ScrapeInv, Idle, NEW s \in Services, NEW r, NEW p, NEW last \in Finals,
           Removal(p, s, last), NEW kind \in {"remove", "recover"}, Begin(kind, s, r, p),
           Framed, UNCHANGED <<cut, robbed>>
    PROVE  ScrapeInv'
  <1>1. job'.kind = kind /\ Left' = ToSet(p)
    BY DEF Begin, Left
  <1>2. plan = << >> /\ UNCHANGED <<quadlet, recorded, targets, sources>>
    BY DEF Inv, Typed, Framed, files
  <1>3. \A t : Wanted(t)' => Wanted(t)
    BY <1>1, <1>2 DEF Wanted, Arriving, Adding, Removing, Removes, Idle, Installed, Sound
  <1>4. \A x \in Left' : x.op # "quadlet"
    BY <1>1 DEF Removal, RemoveSteps, Finals, ToSet
  <1>5. StepsInv' /\ WipedInv'
    BY <1>1, <1>4, NoUnits DEF WipedInv
  <1> QED
    BY <1>2, <1>3, <1>5, RestScrapes DEF ScrapeInv

LEMMA UpdateScrapes ==
    ASSUME Inv, ScrapeInv, Idle, NEW s \in Services, NEW r, NEW p \in Seq(PlannedSteps(s, r)), Installed(s),
           NEW kind \in Updates, Begin(kind, s, r, p), Framed, UNCHANGED <<cut, robbed>>
    PROVE  ScrapeInv'
  <1>1. job'.kind = kind /\ S' = s /\ Left' = ToSet(p) /\ kind # "add" /\ kind # "reset" /\ kind \notin Removes
    BY DEF Begin, S, Left, Updates, Removes
  <1>2. plan = << >> /\ UNCHANGED <<quadlet, recorded, targets, sources>>
    BY DEF Inv, Typed, Framed, files
  <1>3. \A t : (Installed(t)' <=> Installed(t)) /\ (Arriving(t)' => Installed(t))
    BY <1>1, <1>2 DEF Installed, Arriving, Adding
  <1>4. \A t : Wanted(t)' => Wanted(t)
    BY <1>3 DEF Wanted, Arriving, Removing, Removes, Idle, Sound
  <1>5. \A x \in Left' : x \in PlannedSteps(s, r)
    BY <1>1 DEF ToSet
  <1>6. StepsInv'
    BY <1>1, <1>3, <1>5, ProvidersApart DEF StepsInv, PlannedSteps, ConfigureSteps, OwnQuadlet
  <1> QED
    BY <1>1, <1>2, <1>4, <1>6, RestScrapes DEF ScrapeInv, WipedInv

LEMMA CommandScrapes == ASSUME Inv, ScrapeInv, Command PROVE ScrapeInv'
  <1>1. TypeOK /\ Housed /\ \A s \in Services : Listable(listed[s], s)
    BY DEF Inv, Typed
  <1>2. Idle => plan = << >> /\ job.kind # "reset" /\ job.kind \notin Removes
    BY DEF Inv, Typed, Idle, Removes
  <1>3. ASSUME BeginReset PROVE ScrapeInv'
    <2>1. /\ Idle /\ job'.kind = "reset" /\ plan' = ResetPlan
          /\ UNCHANGED <<quadlet, recorded, targets, sources, cut, robbed>>
      BY <1>3 DEF BeginReset, Begin, files, history
    <2>2. ResetPlan # << >> /\ \A x \in ToSet(ResetPlan) : x.op # "quadlet"
      BY ResetIs DEF ResetSteps, ToSet
    <2>3. \A t : Wanted(t)' => Wanted(t)
      BY <1>2, <2>1 DEF Wanted, Arriving, Adding, Removing, Installed, Sound
    <2>4. Scraping' /\ StepsInv' /\ WipedInv'
      BY <1>2, <2>1, <2>2, <2>3, RestScrapes, NoUnits DEF WipedInv, Left
    <2> QED
      BY <2>4 DEF ScrapeInv
  <1>4. ASSUME NEW s \in offered, NEW r \in Requests[s], BeginAdd(s, r) PROVE ScrapeInv'
    <2>1. s \in Services /\ r \in Record
      BY <1>4, OfferedIs
    <2>2. Idle /\ CanAdd(s, r) /\ PlanAdd(s, r) /\ Framed /\ UNCHANGED <<cut, robbed>>
      BY <1>4 DEF BeginAdd, Framed
    <2> QED
      BY <1>2, <2>1, <2>2, AddScrapes
  <1>5. ASSUME NEW s \in offered, NEW r \in Requests[s], RecoverAdd(s, r) PROVE ScrapeInv'
    <2>1. s \in Services /\ "purge" \in Finals
      BY <1>5, OfferedIs DEF Finals
    <2>2. /\ Idle /\ ~Installed(s) /\ Begin("recover", s, r, OrphanPurge(s)) /\ Framed
          /\ UNCHANGED <<cut, robbed>>
      BY <1>5 DEF RecoverAdd, Framed, history
    <2>3. Removal(OrphanPurge(s), s, "purge")
      BY <2>1, OrphanIs
    <2> QED
      BY <2>1, <2>2, <2>3, RemovalScrapes
  <1>6. ASSUME NEW s \in offered, BeginPurge(s) PROVE ScrapeInv'
    <2>1. s \in Services /\ "purge" \in Finals
      BY <1>6, OfferedIs DEF Finals
    <2>2. /\ Idle /\ ~Installed(s) /\ Begin("remove", s, Nothing, OrphanPurge(s)) /\ Framed
          /\ UNCHANGED <<cut, robbed>>
      BY <1>6 DEF BeginPurge, Framed, history
    <2>3. Removal(OrphanPurge(s), s, "purge")
      BY <2>1, OrphanIs
    <2> QED
      BY <2>1, <2>2, <2>3, RemovalScrapes
  <1>7. ASSUME NEW s \in offered, NEW last \in {"purge", "preserve"}, BeginRemove(s, last)
        PROVE  ScrapeInv'
    <2>1. s \in Services /\ last \in Finals
      BY <1>7, OfferedIs DEF Finals
    <2>2. /\ Idle /\ Begin("remove", s, Nothing, RemovePlan(s, last)) /\ Framed
          /\ UNCHANGED <<cut, robbed>>
      BY <1>7 DEF BeginRemove, Framed, history
    <2>3. Removal(RemovePlan(s, last), s, last)
      BY <1>1, <2>1, RemoveIs
    <2> QED
      BY <2>1, <2>2, <2>3, RemovalScrapes
  <1>8. ASSUME NEW s \in offered, NEW r \in Requests[s], BeginConfigure(s, r) PROVE ScrapeInv'
    <2>1. s \in Services /\ r \in Record /\ "configure" \in Updates
      BY <1>8, OfferedIs DEF Updates
    <2>2. /\ Idle /\ Begin("configure", s, r, ConfigurePlan(s, r)) /\ Framed
          /\ UNCHANGED <<cut, robbed>> /\ Plannable(s, r) /\ Installed(s)
          /\ r.auth /\ (~record[s].auth \/ record[s].url # r.url) => Registrable(r)
      BY <1>8 DEF BeginConfigure, Framed, history
    <2>3. ConfigurePlan(s, r) \in Seq(PlannedSteps(s, r))
      BY <1>1, <2>1, <2>2, ConfigureIs DEF Planned, Led
    <2> QED
      BY <2>1, <2>2, <2>3, UpdateScrapes
  <1>9. ASSUME NEW s \in offered, BeginUpgrade(s) PROVE ScrapeInv'
    <2>1. s \in Services /\ "upgrade" \in Updates
      BY <1>9, OfferedIs DEF Updates
    <2>2. /\ Idle /\ Begin("upgrade", s, record[s], UpgradePlan(s)) /\ Framed
          /\ UNCHANGED <<cut, robbed>> /\ Plannable(s, record[s]) /\ Installed(s)
      BY <1>9 DEF BeginUpgrade, Framed, history
    <2>3. UpgradePlan(s) \in Seq(PlannedSteps(s, record[s]))
      BY <1>1, <2>1, <2>2, UpgradeIs DEF Planned, Led
    <2> QED
      BY <2>1, <2>2, <2>3, UpdateScrapes
  <1> QED
    BY <1>3, <1>4, <1>5, <1>6, <1>7, <1>8, <1>9 DEF Command

\* With no command left there are no steps left.
LEMMA NoneLeft ==
    ASSUME job' = NoJob, plan' = << >>
    PROVE  StepsInv' /\ WipedInv' /\ \A t : Wanted(t)' <=> Installed(t)' /\ Sound(t)'
  <1>1. job'.kind = "none" /\ Left' = {}
    BY EmptyIs DEF NoJob, Left
  <1> QED
    BY <1>1 DEF StepsInv, WipedInv, Wanted, Arriving, Adding, Removing, Removes

LEMMA RetryScrapes == ASSUME Inv, ScrapeInv, RetryAdd PROVE ScrapeInv'
  <1>1. /\ job.kind = "recover" /\ plan = << >> /\ Framed /\ UNCHANGED <<cut, robbed>>
        /\ S \in Services /\ job.request \in Record
    BY DEF RetryAdd, Framed, S, Inv, Typed
  <1>2. S \notin home
    BY <1>1 DEF Inv, RemoveInv, Removes
  <1>3. CASE CanAdd(S, job.request) /\ PlanAdd(S, job.request)
    BY <1>1, <1>3, AddScrapes
  <1>4. CASE job' = NoJob /\ plan' = plan
    <2>1. UNCHANGED <<quadlet, recorded, targets, sources>> /\ ~Installed(S)
      BY <1>1, <1>2 DEF Framed, files, Installed, Inv, Typed, TypeOK
    <2>2. \A t : Wanted(t)' => Wanted(t)
      BY <1>1, <1>4, <2>1, NoneLeft DEF Wanted, Arriving, Removing, Installed, Sound
    <2> QED
      BY <1>1, <1>4, <2>1, <2>2, RestScrapes, NoneLeft DEF ScrapeInv
  <1> QED
    BY <1>3, <1>4 DEF RetryAdd, S

LEMMA FinishScrapes == ASSUME Inv, ScrapeInv, Finish PROVE ScrapeInv'
  <1>1. /\ plan = << >> /\ plan' = << >> /\ job' = NoJob
        /\ UNCHANGED <<quadlet, recorded, targets, sources>>
        /\ \A t : Sound(t)' /\ ~Sound(t) => job.kind \in Removes /\ t = S
    BY DEF Finish, files, Sound, S, Removes
  <1>2. job.kind \in Removes => ~quadlet[S].present \/ S \in Native
    BY <1>1 DEF Inv, RemoveInv
  <1>3. \A t \in Services \ Native : Wanted(t)' => Wanted(t)
    BY <1>1, <1>2, NoneLeft DEF Wanted, Arriving, Removing, Installed
  <1> QED
    BY <1>1, <1>3, RestScrapes, NoneLeft DEF ScrapeInv

LEMMA ResetScrapes == ASSUME Inv, ScrapeInv, FinalizeReset PROVE ScrapeInv'
  <1>1. job.kind = "reset" /\ plan = << >> /\ plan' = << >> /\ job' = NoJob /\ recorded' = recorded
    BY DEF FinalizeReset, files
  <1>2. \A t : ~Wanted(t)'
    BY <1>1, NoneLeft DEF ScrapeInv, WipedInv, Installed
  <1> QED
    BY <1>1, <1>2, NoneLeft DEF ScrapeInv, Scraping

LEMMA CutScrapes == ASSUME Inv, ScrapeInv, CutShort PROVE ScrapeInv'
  <1>1. /\ job' = NoJob /\ plan' = << >> /\ UNCHANGED <<quadlet, recorded, targets, sources, robbed>>
        /\ cut' = cut \cup (IF job.kind = "reset" THEN Services ELSE {S})
    BY DEF CutShort, files, S
  <1>2. S \in Services
    BY DEF Inv, Typed, S
  <1>3. \A t \in Services : Wanted(t)' => Wanted(t) /\ t # S
    BY <1>1, <1>2, NoneLeft DEF Wanted, Arriving, Removing, Installed, Sound
  <1> QED
    BY <1>1, <1>3, AbandonScrapes, NoneLeft DEF ScrapeInv

LEMMA FailScrapes == ASSUME Inv, ScrapeInv, AddFails PROVE ScrapeInv'
  <1>1. /\ job.kind = "add" /\ job' = [job EXCEPT !.kind = "cleanup"] /\ plan' = RemovePlan(S, "purge")
        /\ UNCHANGED <<quadlet, recorded, targets, sources, cut, robbed>>
    BY DEF AddFails, S, files, history
  <1>2. job'.kind = "cleanup" /\ S' = S
    BY <1>1 DEF Inv, Typed, S
  <1>3. \A t : Wanted(t)' => Wanted(t) /\ t # S
    BY <1>1, <1>2 DEF Wanted, Arriving, Adding, Removing, Removes, Installed, Sound
  <1>4. \A x \in Left' : x.op # "quadlet"
    <2>1. Removal(RemovePlan(S, "purge"), S, "purge")
      BY RemoveIs DEF Inv, Typed, S, Finals
    <2> QED
      BY <1>1, <2>1 DEF Removal, RemoveSteps, Finals, ToSet, Left
  <1> QED
    BY <1>1, <1>2, <1>3, <1>4, AbandonScrapes, NoUnits DEF ScrapeInv, WipedInv

LEMMA SameScrapes ==
    ASSUME ScrapeInv, UNCHANGED <<job, plan, quadlet, recorded, targets, sources, cut, robbed>>
    PROVE  ScrapeInv'
  <1>1. S' = S /\ Left' = Left
    BY DEF S, Left
  <1>2. /\ \A t : (Installed(t)' <=> Installed(t)) /\ (Sound(t)' <=> Sound(t))
        /\ \A t : (Removing(t)' <=> Removing(t)) /\ (Adding(t)' <=> Adding(t))
    BY <1>1 DEF Installed, Sound, Removing, Adding
  <1>3. \A t : (Arriving(t)' <=> Arriving(t)) /\ (Wanted(t)' <=> Wanted(t))
    BY <1>2 DEF Arriving, Wanted
  <1>4. (\A t : Scraped(t)' <=> Scraped(t)) /\ (ReadsStore' <=> ReadsStore) /\ (JoinsStore' <=> JoinsStore)
    BY <1>1 DEF Scraped, ReadsStore, JoinsStore, OwnQuadlet
  <1>5. Scraping'
    BY <1>3, <1>4 DEF ScrapeInv, Scraping
  <1>6. StepsInv' /\ WipedInv'
    BY <1>1, <1>2, <1>3 DEF ScrapeInv, StepsInv, WipedInv, OwnQuadlet
  <1> QED
    BY <1>5, <1>6 DEF ScrapeInv

LEMMA InitScrapes == Init => ScrapeInv
  <1> SUFFICES ASSUME Init PROVE ScrapeInv
    OBVIOUS
  <1>1. recorded = {} /\ job.kind = "none" /\ Left = {}
    BY EmptyIs DEF Init, NoJob, Left
  <1>2. \A t : ~Wanted(t)
    BY <1>1 DEF Wanted, Arriving, Installed, Adding
  <1> QED
    BY <1>1, <1>2 DEF ScrapeInv, Scraping, StepsInv, WipedInv

LEMMA NextScrapes == Inv /\ ScrapeInv /\ [Next]_vars => ScrapeInv'
  <1>1. ASSUME ScrapeInv, Reboot PROVE ScrapeInv'
    BY <1>1, SameScrapes DEF Reboot, history
  <1>2. ASSUME ScrapeInv, UNCHANGED vars PROVE ScrapeInv'
    BY <1>2, SameScrapes DEF vars, files, history
  <1> QED
    BY <1>1, <1>2, CommandScrapes, RetryScrapes, ExecuteScrapes, FinishScrapes, ResetScrapes,
       FailScrapes, CutScrapes DEF Next

LEMMA IdleScrapes == Inv /\ ScrapeInv => MetricsWired
  <1> SUFFICES ASSUME Inv, ScrapeInv, Idle PROVE MetricsWired
    BY DEF MetricsWired
  <1>1. plan = << >>
    BY DEF Inv, Typed
  <1>2. \A t : Wanted(t) <=> Installed(t) /\ Sound(t)
    BY DEF Idle, Wanted, Arriving, Adding, Removing, Removes
  <1> QED
    BY <1>1, <1>2, AtRest DEF MetricsWired

\* Between commands the store scrapes every installed service with metrics and
\* the dashboard reads the store and is on its network, in whatever order they
\* were added, configured, upgraded or removed, and whatever failed on the way,
\* but for the services a command was cut short on or took a file from.
THEOREM MetricsAlwaysWired == Spec => []MetricsWired
  <1>1. Spec => [](Inv /\ ScrapeInv)
    BY InitInv, NextKeeps, InitScrapes, NextScrapes, WiringConstants, PTL DEF Spec
  <1> QED
    BY <1>1, IdleScrapes, PTL

(***************************************************************************)
(* What networks a consumer is on, and what its container runs on.         *)
(***************************************************************************)
Starts == {"start", "restart"}

\* The record a service is to have when the plan is done.
Due(s) == IF s = S /\ job.kind \in {"add"} \cup Updates THEN job.request ELSE record[s]
Uses(s, p) == \/ p = Proxy /\ Routed(Due(s))
              \/ p = Relay /\ Due(s).smtp
              \/ p = Store /\ Bridged(s)

Joined ==
    \A s \in Consumers, p \in Joinable :
        Wanted(s) /\ Wanted(p) /\ Uses(s, p) =>
            p \in quadlet[s].networks \/ \E x \in Left : OwnQuadlet(x, s) /\ p \in x.val

Named ==
    \A s \in Consumers :
        /\ quadlet[s].networks \subseteq Providers
        /\ s \notin stranded => \A n \in quadlet[s].networks : quadlet[n].present

\* A container is started on what its unit file says now or will say, but for
\* those who joined a provider that is excused or about to be taken down.
Restarts(s) == \E x \in Left : x.op \in Starts /\ x.of = s
Fresh ==
    \A s \in Consumers \ stranded : Wanted(s) =>
        \/ running[s] = quadlet[s]
        \/ Restarts(s) /\ (s = S \/ S \in quadlet[s].networks)
        \/ \E n \in quadlet[s].networks : ~Sound(n)
        \/ job.kind = "cleanup" /\ S \in quadlet[s].networks /\ Step("takedown", S, {}) \in Left

Units ==
    \A x \in Left, s \in Consumers : OwnQuadlet(x, s) =>
        /\ Sound(s) => \A p \in Joinable : Arriving(p) /\ Sound(p) /\ Uses(s, p) => p \in x.val
        /\ job.kind = "add" /\ s # S => x.val = quadlet[s].networks \cup {S}
        /\ s = S => \A n \in x.val : quadlet[n].present
        /\ x.val \subseteq Providers
First == job.kind \in Updates /\ S \in Consumers /\ plan # << >> =>
            \A x \in ToSet(Tail(plan)) : ~OwnQuadlet(x, S)

\* Each unit file a plan writes is followed by a start of its service.
Restarted(p) ==
    \A i \in DOMAIN p : p[i].op = "quadlet" /\ p[i].of \in Consumers =>
        \E j \in DOMAIN p : i < j /\ p[j].op \in Starts /\ p[j].of = p[i].of

Recording ==
    job.kind \in {"add"} \cup Updates =>
        /\ record[S] = job.request \/ Step("record", S, job.request) \in Left
        /\ \A x \in Left : OwnRecord(x, S) => x.val = job.request

JoinInv == Joined /\ Named /\ Fresh /\ Units /\ First /\ Restarted(plan) /\ Recording

\* The same, but for s, whose start is yet to come.
RestartedBut(p, s) ==
    \A i \in DOMAIN p : p[i].op = "quadlet" /\ p[i].of \in Consumers /\ p[i].of # s =>
        \E j \in DOMAIN p : i < j /\ p[j].op \in Starts /\ p[j].of = p[i].of

LEMMA RestartedChained ==
    ASSUME NEW X, NEW p \in Seq(X), NEW q \in Seq(X), NEW s, RestartedBut(p, s), RestartedBut(q, s)
    PROVE  RestartedBut(p \o q, s)
  <1> DEFINE w == p \o q
             Fine(i) == \E j \in DOMAIN w : i < j /\ w[j].op \in Starts /\ w[j].of = w[i].of
  <1>1. /\ Len(p) \in Nat /\ Len(q) \in Nat
        /\ DOMAIN p = 1 .. Len(p) /\ DOMAIN q = 1 .. Len(q) /\ DOMAIN w = 1 .. Len(p) + Len(q)
        /\ \A i \in 1 .. Len(p) : w[i] = p[i]
        /\ \A i \in 1 .. Len(q) : w[i + Len(p)] = q[i]
    BY ConcatProperties, LenProperties
  <1> HIDE DEF w
  <1>2. \A i \in DOMAIN p : i \in DOMAIN w /\ w[i] = p[i]
    BY <1>1
  <1>3. \A i \in DOMAIN q : i + Len(p) \in DOMAIN w /\ w[i + Len(p)] = q[i]
    BY <1>1
  <1>4. \A i \in DOMAIN w : i \notin DOMAIN p => i - Len(p) \in DOMAIN q /\ i = (i - Len(p)) + Len(p)
    BY <1>1
  <1>5. \A i, j \in DOMAIN q : i < j => i + Len(p) < j + Len(p)
    BY <1>1
  <1>6. ASSUME NEW i \in DOMAIN w, w[i].op = "quadlet", w[i].of \in Consumers, w[i].of # s
        PROVE  Fine(i)
    <2>1. CASE i \in DOMAIN p
      <3>1. PICK j \in DOMAIN p : i < j /\ p[j].op \in Starts /\ p[j].of = p[i].of
        BY <1>2, <1>6, <2>1 DEF RestartedBut
      <3> QED
        BY <1>2, <2>1, <3>1
    <2>2. CASE i \notin DOMAIN p
      <3> DEFINE k == i - Len(p)
      <3>1. k \in DOMAIN q /\ i = k + Len(p) /\ w[i] = q[k]
        BY <1>3, <1>4, <2>2
      <3> HIDE DEF k
      <3>2. PICK j \in DOMAIN q : k < j /\ q[j].op \in Starts /\ q[j].of = q[k].of
        BY <1>6, <3>1 DEF RestartedBut
      <3>3. i < j + Len(p) /\ j + Len(p) \in DOMAIN w /\ w[j + Len(p)] = q[j]
        BY <1>3, <1>5, <3>1, <3>2
      <3> QED
        BY <3>1, <3>2, <3>3
    <2> QED
      BY <2>1, <2>2
  <1> QED
    BY <1>6 DEF RestartedBut, w

LEMMA RestartedLast ==
    ASSUME NEW X, NEW p \in Seq(X), NEW z \in X, RestartedBut(p, z.of), z.op \in Starts
    PROVE  Restarted(p \o <<z>>)
  <1> DEFINE w == p \o <<z>>
  <1>1. /\ Len(p) \in Nat /\ DOMAIN p = 1 .. Len(p) /\ DOMAIN w = 1 .. Len(p) + 1
        /\ \A i \in 1 .. Len(p) : w[i] = p[i]
        /\ w[Len(p) + 1] = z
    OBVIOUS
  <1> HIDE DEF w
  <1>2. \A i \in DOMAIN w : i = Len(p) + 1 \/ (i \in DOMAIN p /\ w[i] = p[i] /\ i < Len(p) + 1)
    BY <1>1
  <1>3. Len(p) + 1 \in DOMAIN w /\ \A j \in DOMAIN p : j \in DOMAIN w /\ w[j] = p[j]
    BY <1>1
  <1>4. z.op # "quadlet"
    BY DEF Starts
  <1>5. ASSUME NEW i \in DOMAIN w, w[i].op = "quadlet", w[i].of \in Consumers
        PROVE  \E j \in DOMAIN w : i < j /\ w[j].op \in Starts /\ w[j].of = w[i].of
    <2>1. i \in DOMAIN p /\ w[i] = p[i] /\ i < Len(p) + 1
      BY <1>1, <1>2, <1>4, <1>5
    <2>2. CASE w[i].of = z.of
      BY <1>1, <1>3, <2>1, <2>2
    <2>3. CASE w[i].of # z.of
      <3>1. PICK j \in DOMAIN p : i < j /\ p[j].op \in Starts /\ p[j].of = p[i].of
        BY <1>5, <2>1, <2>3 DEF RestartedBut
      <3> QED
        BY <1>3, <2>1, <3>1
    <2> QED
      BY <2>2, <2>3
  <1> QED
    BY <1>5 DEF Restarted, w

LEMMA RestartedTail ==
    ASSUME NEW X, NEW p \in Seq(X), p # << >>, Restarted(p)
    PROVE  /\ Restarted(Tail(p))
           /\ Head(p).op = "quadlet" /\ Head(p).of \in Consumers =>
                \E x \in ToSet(Tail(p)) : x.op \in Starts /\ x.of = Head(p).of
  <1> DEFINE w == Tail(p)
  <1>1. /\ Head(p) = p[1] /\ Len(p) \in Nat \ {0} /\ DOMAIN p = 1 .. Len(p)
        /\ DOMAIN w = 1 .. Len(p) - 1
        /\ \A i \in DOMAIN w : w[i] = p[i + 1] /\ i + 1 \in DOMAIN p
    BY TailIs
  <1> HIDE DEF w
  <1>2. \A j \in DOMAIN p : 1 < j => j - 1 \in DOMAIN w /\ w[j - 1] = p[j]
    BY <1>1
  <1>3. ASSUME NEW i \in DOMAIN w, w[i].op = "quadlet", w[i].of \in Consumers
        PROVE  \E j \in DOMAIN w : i < j /\ w[j].op \in Starts /\ w[j].of = w[i].of
    <2>1. PICK j \in DOMAIN p : i + 1 < j /\ p[j].op \in Starts /\ p[j].of = p[i + 1].of
      BY <1>1, <1>3 DEF Restarted
    <2>2. j - 1 \in DOMAIN w /\ w[j - 1] = p[j] /\ i < j - 1
      BY <1>1, <1>2, <2>1
    <2> QED
      BY <1>1, <2>1, <2>2
  <1>4. ASSUME Head(p).op = "quadlet", Head(p).of \in Consumers
        PROVE  \E x \in ToSet(w) : x.op \in Starts /\ x.of = Head(p).of
    <2>1. 1 \in DOMAIN p
      BY <1>1
    <2>2. PICK j \in DOMAIN p : 1 < j /\ p[j].op \in Starts /\ p[j].of = p[1].of
      BY <1>1, <1>4, <2>1 DEF Restarted
    <2>3. p[j] \in ToSet(w)
      BY <1>2, <2>2 DEF ToSet
    <2> QED
      BY <1>1, <2>2, <2>3
  <1> QED
    BY <1>3, <1>4 DEF Restarted, w

\* A plan that writes no unit file of another consumer.
LEMMA RestartedNone ==
    ASSUME NEW p, NEW s, \A x \in ToSet(p) : x.op = "quadlet" => x.of \notin Consumers \ {s}
    PROVE  RestartedBut(p, s)
  BY DEF RestartedBut, ToSet

LEMMA NoneToRestart ==
    ASSUME NEW p, \A x \in ToSet(p) : x.op = "quadlet" => x.of \notin Consumers
    PROVE  Restarted(p)
  BY DEF Restarted, ToSet

\* Concatenation and what it preserves.
LEMMA FlattenKept ==
    ASSUME NEW X, NEW Q, Q \subseteq Seq(X), << >> \in Q, \A p, q \in Q : p \o q \in Q,
           NEW N \in Nat, NEW seqs \in [1 .. N -> Q]
    PROVE  FlattenSeq(seqs) \in Q
  <1>1. Len(seqs) = N /\ seqs \in Seq(Q)
    BY SMT
  <1>2. CASE N = 0
    <2>1. FlattenSeq(seqs) = seqs /\ seqs = << >>
      BY <1>1, <1>2, EmptySeq DEF FlattenSeq
    <2> QED
      BY <2>1
  <1>3. CASE N # 0
    <2> DEFINE f == CHOOSE g : g = [i \in 1 .. N |-> IF i = 1 THEN seqs[i]
                                                     ELSE g[i - 1] \o seqs[i]]
    <2>1. f = [i \in 1 .. N |-> IF i = 1 THEN seqs[i] ELSE f[i - 1] \o seqs[i]]
      BY FlattenExists
    <2>2. FlattenSeq(seqs) = f[N]
      BY <1>1, <1>3, Zenon DEF FlattenSeq
    <2> HIDE DEF f
    <2> DEFINE Bad == {k \in 1 .. N : f[k] \notin Q}
    <2>3. SUFFICES ASSUME Bad # {} PROVE FALSE
      <3>1. N \in 1 .. N
        BY <1>3
      <3>2. Bad = {} => f[N] \in Q
        BY <3>1
      <3> QED
        BY <2>2, <3>2
    <2>4. PICK k \in Bad : \A j \in Bad : k <= j
      <3>1. Bad \subseteq Nat
        OBVIOUS
      <3> HIDE DEF Bad
      <3> QED
        BY <2>3, <3>1, LeastExists
    <2>5. k \in 1 .. N /\ seqs[k] \in Q
      OBVIOUS
    <2>6. k # 1
      BY <2>1, <2>5
    <2>7. k - 1 \in 1 .. N /\ ~(k <= k - 1)
      BY <2>5, <2>6
    <2>8. f[k - 1] \in Q
      BY <2>4, <2>7
    <2>9. f[k] = f[k - 1] \o seqs[k]
      BY <2>1, <2>5, <2>6
    <2> QED
      BY <2>5, <2>8, <2>9
  <1> QED
    BY <1>2, <1>3

LEMMA EachKept ==
    ASSUME NEW X, NEW Q, Q \subseteq Seq(X), << >> \in Q, \A p, q \in Q : p \o q \in Q,
           NEW A, IsFiniteSet(A), NEW f \in [A -> Q]
    PROVE  FlattenSeq([i \in 1 .. Cardinality(A) |-> f[SetToSeq(A)[i]]]) \in Q
  <1> DEFINE n == Cardinality(A)
             at == SetToSeq(A)
             seqs == [i \in 1 .. n |-> f[at[i]]]
  <1>1. n \in Nat /\ at \in [1 .. n -> A]
    BY ListIs
  <1> HIDE DEF n, at
  <1>2. seqs \in [1 .. n -> Q]
    BY <1>1
  <1> HIDE DEF seqs
  <1>3. FlattenSeq(seqs) \in Q
    BY <1>1, <1>2, FlattenKept
  <1> QED
    BY <1>3 DEF seqs, n, at

(***************************************************************************)
(* The plan of an add: whom it connects, and that it restarts them.        *)
(***************************************************************************)
Kept(s) == {p \in Seq(AllSteps) : RestartedBut(p, s)}

LEMMA KeptIs ==
    ASSUME NEW s
    PROVE  Kept(s) \subseteq Seq(AllSteps) /\ << >> \in Kept(s) /\ \A p, q \in Kept(s) : p \o q \in Kept(s)
  <1>1. << >> \in Seq(AllSteps) /\ RestartedBut(<< >>, s)
    BY EmptyIs, RestartedNone
  <1>2. ASSUME NEW p \in Kept(s), NEW q \in Kept(s) PROVE p \o q \in Kept(s)
    BY RestartedChained, Chained DEF Kept
  <1> QED
    BY <1>1, <1>2 DEF Kept

LEMMA KeptEach ==
    ASSUME NEW s, NEW A, IsFiniteSet(A), NEW f \in [A -> Kept(s)]
    PROVE  FlattenSeq([i \in 1 .. Cardinality(A) |-> f[SetToSeq(A)[i]]]) \in Kept(s)
  <1> DEFINE Q == Kept(s)
  <1>1. Q \subseteq Seq(AllSteps) /\ << >> \in Q /\ \A p, q \in Q : p \o q \in Q
    BY KeptIs
  <1>2. f \in [A -> Q]
    OBVIOUS
  <1> HIDE DEF Q
  <1>3. FlattenSeq([i \in 1 .. Cardinality(A) |-> f[SetToSeq(A)[i]]]) \in Q
    BY <1>1, <1>2, EachKept
  <1> QED
    BY <1>3 DEF Q

LEMMA PlainKept ==
    ASSUME NEW s, NEW p \in Seq(AllSteps), \A x \in ToSet(p) : x.op = "quadlet" => x.of \notin Consumers \ {s}
    PROVE  p \in Kept(s)
  BY RestartedNone DEF Kept

LEMMA SharedKept ==
    ASSUME NEW s, NEW u, NEW r, NEW p \in Seq(SharedSteps(u, r))
    PROVE  p \in Kept(s)
  <1>1. SharedSteps(u, r) \subseteq AllSteps /\ ToSet(p) \subseteq SharedSteps(u, r)
    BY DEF SharedSteps, ToSet
  <1>2. p \in Seq(AllSteps)
    BY <1>1, SeqMono
  <1> QED
    BY <1>1, <1>2, PlainKept DEF SharedSteps, Consumers, Providers

\* Either t names n already, or the steps make it.
Connects(p, t, n) == n \in quadlet[t].networks \/ \E x \in p : OwnQuadlet(x, t) /\ n \in x.val

LEMMA JoinKept ==
    ASSUME TypeOK, NEW s, NEW t \in Services, NEW n \in Services
    PROVE  /\ JoinSteps(t, n) \in Kept(s)
           /\ t \notin Native => Connects(ToSet(JoinSteps(t, n)), t, n)
  <1> DEFINE x == Step("quadlet", t, quadlet[t].networks \cup {n})
             z == Step("restart", t, {})
             p == <<x, z>>
  <1>1. x \in AllSteps /\ z \in AllSteps
    BY StepsMade, FilesTyped DEF Orders
  <1>2. OwnQuadlet(x, t) /\ n \in x.val /\ z.op \in Starts /\ z.op # "quadlet" /\ z.of = t
    BY DEF OwnQuadlet, Step, Starts
  <1>3. JoinSteps(t, n) = When(t \notin Native /\ n \notin quadlet[t].networks, p)
    BY DEF JoinSteps
  <1> HIDE DEF x, z
  <1>4. p \in Seq(AllSteps) /\ ToSet(p) = {x, z} /\ DOMAIN p = 1 .. 2 /\ p[1] = x /\ p[2] = z
    BY <1>1, PairIs
  <1> HIDE DEF p
  <1>5. RestartedBut(p, s)
    <2>1. \A i \in DOMAIN p : i = 1 \/ p[i] = z
      BY <1>4
    <2>2. 2 \in DOMAIN p /\ 1 < 2
      BY <1>4
    <2> QED
      BY <1>2, <1>4, <2>1, <2>2 DEF RestartedBut, OwnQuadlet
  <1>6. p \in Kept(s)
    BY <1>4, <1>5 DEF Kept
  <1> QED
    BY <1>2, <1>3, <1>4, <1>6, KeptIs DEF When, Connects

Wants(t, s) == (s = Proxy /\ Routed(record[t])) \/ (s = Relay /\ record[t].smtp)

LEMMA RetroJoinsKept ==
    ASSUME TypeOK, NEW u, NEW s \in Services
    PROVE  /\ RetroJoins(s) \in Kept(u)
           /\ \A t \in Consumers : Installed(t) /\ Wants(t, s) => Connects(ToSet(RetroJoins(s)), t, s)
  <1> DEFINE A == {t \in Services \ Providers :
                     /\ Installed(t)
                     /\ \/ s = Proxy /\ Routed(record[t])
                        \/ s = Relay /\ record[t].smtp}
             f == [t \in A |-> JoinSteps(t, s)]
             seqs == [i \in 1 .. Cardinality(A) |-> JoinSteps(SetToSeq(A)[i], s)]
             each == FlattenSeq([i \in 1 .. Cardinality(A) |-> f[SetToSeq(A)[i]]])
  <1>1. IsFiniteSet(A)
    BY WiringConstants, FS_Subset
  <1>2. RetroJoins(s) = FlattenSeq(seqs)
    BY DEF RetroJoins, ForEach
  <1>3. f \in [A -> Kept(u)] /\ \A t \in A \ Native : Connects(ToSet(f[t]), t, s)
    BY JoinKept
  <1>4. \A t \in Consumers : Installed(t) /\ Wants(t, s) => t \in A \ Native
    BY DEF Wants, Consumers
  <1> HIDE DEF A
  <1>5. seqs = [i \in 1 .. Cardinality(A) |-> f[SetToSeq(A)[i]]]
    BY <1>1, ListIs
  <1> HIDE DEF f, seqs
  <1>6. f \in [A -> Seq(AllSteps)]
    BY <1>3, KeptIs
  <1>7. each \in Seq(AllSteps) /\ ToSet(each) = UNION {ToSet(f[t]) : t \in A}
    BY <1>1, <1>6, EachIs
  <1>8. each \in Kept(u)
    BY <1>1, <1>3, KeptEach
  <1>9. RetroJoins(s) = each
    BY <1>2, <1>5
  <1> HIDE DEF each
  <1>10. \A t \in A \ Native : Connects(ToSet(each), t, s)
    BY <1>3, <1>7 DEF Connects
  <1> QED
    BY <1>4, <1>8, <1>9, <1>10

LEMMA OneKept ==
    ASSUME NEW s, NEW a \in AllSteps, a.op # "quadlet"
    PROVE  <<a>> \in Kept(s)
  <1> DEFINE one == <<a>>
  <1>1. one \in Seq(AllSteps) /\ ToSet(one) = {a}
    BY SingleIs
  <1> HIDE DEF one
  <1>2. one \in Kept(s)
    BY <1>1, PlainKept
  <1> QED
    BY <1>2 DEF one

LEMMA ConsumerKept ==
    ASSUME TypeOK, NEW s \in Services, NEW u
    PROVE  ConsumerSteps(s) \in Kept(u)
  <1> DEFINE a == Step("target", s, TRUE)
             b == Step("source", s, TRUE)
             p == When(Installed(Store) /\ s \in Metrics, << a >>)
             q == When(Installed(Store) /\ s = Dash, << b >>)
  <1>1. s \in Metrics => a \in AllSteps
    BY StepsMade
  <1>2. s = Dash => b \in AllSteps
    BY StepsMade
  <1>3. ConsumerSteps(s) = p \o q /\ a.op # "quadlet" /\ b.op # "quadlet"
    BY DEF ConsumerSteps, Step
  <1> HIDE DEF a, b
  <1>4. s \in Metrics => <<a>> \in Kept(u)
    BY <1>1, <1>3, OneKept
  <1>5. s = Dash => <<b>> \in Kept(u)
    BY <1>2, <1>3, OneKept
  <1>6. p \in Kept(u) /\ q \in Kept(u)
    BY <1>4, <1>5, KeptIs DEF When
  <1> HIDE DEF p, q
  <1> QED
    BY <1>3, <1>6, KeptIs

LEMMA TargetKept ==
    ASSUME TypeOK, NEW s, NEW t \in Metrics
    PROVE  /\ TargetSteps(t) \in Kept(s)
           /\ t \notin HostNet \cup Native => Connects(ToSet(TargetSteps(t)), t, Store)
  <1> DEFINE a == Step("target", t, TRUE)
             one == << a >>
             two == When(t \notin HostNet, JoinSteps(t, Store))
  <1>1. t \in Services /\ Store \in Services
    BY WiringConstants, ProvidersApart
  <1>2. a \in AllSteps /\ a.op # "quadlet"
    BY StepsMade DEF Step
  <1>3. TargetSteps(t) = one \o two
    BY DEF TargetSteps
  <1>4. two \in Kept(s) /\ (t \notin HostNet \cup Native => Connects(ToSet(two), t, Store))
    BY <1>1, JoinKept, KeptIs DEF When
  <1> HIDE DEF a
  <1>5. one \in Kept(s)
    BY <1>2, OneKept
  <1> HIDE DEF one, two
  <1>6. one \in Seq(AllSteps) /\ two \in Seq(AllSteps) /\ one \o two \in Kept(s)
    BY <1>4, <1>5, KeptIs
  <1>7. ToSet(one \o two) = ToSet(one) \cup ToSet(two)
    BY <1>6, Concatenated
  <1> QED
    BY <1>3, <1>4, <1>6, <1>7 DEF Connects

LEMMA EachTargetKept ==
    ASSUME TypeOK, NEW u, NEW s
    PROVE  /\ EachTarget(s) \in Kept(u)
           /\ \A t \in Others(s) \ (HostNet \cup Native) : Connects(ToSet(EachTarget(s)), t, Store)
  <1> DEFINE A == Others(s)
             f == [t \in A |-> TargetSteps(t)]
             each == FlattenSeq([i \in 1 .. Cardinality(A) |-> f[SetToSeq(A)[i]]])
  <1>1. IsFiniteSet(A) /\ A \subseteq Metrics
    BY WiringConstants, FS_Subset DEF Others
  <1>2. f \in [A -> Kept(u)] /\ \A t \in A \ (HostNet \cup Native) : Connects(ToSet(f[t]), t, Store)
    BY <1>1, TargetKept
  <1>3. EachTarget(s) = each
    <2>1. EachTarget(s) = FlattenSeq([i \in 1 .. Cardinality(A) |-> TargetSteps(SetToSeq(A)[i])])
      BY DEF EachTarget
    <2> HIDE DEF A
    <2>2. [i \in 1 .. Cardinality(A) |-> TargetSteps(SetToSeq(A)[i])]
            = [i \in 1 .. Cardinality(A) |-> f[SetToSeq(A)[i]]]
      BY <1>1, ListIs
    <2> QED
      BY <2>1, <2>2
  <1> HIDE DEF A, f
  <1>4. f \in [A -> Seq(AllSteps)]
    BY <1>2, KeptIs
  <1>5. each \in Seq(AllSteps) /\ ToSet(each) = UNION {ToSet(f[t]) : t \in A}
    BY <1>1, <1>4, EachIs
  <1>6. each \in Kept(u)
    BY <1>1, <1>2, KeptEach
  <1> HIDE DEF each
  <1>7. \A t \in A \ (HostNet \cup Native) : Connects(ToSet(each), t, Store)
    BY <1>2, <1>5 DEF Connects
  <1> QED
    BY <1>3, <1>6, <1>7 DEF A

LEMMA DashKept ==
    ASSUME TypeOK, NEW u
    PROVE  DashSteps \in Kept(u)
  <1> DEFINE a == Step("source", Dash, TRUE)
             b == Step("restart", Dash, {})
             dash == << a >>
             join == JoinSteps(Dash, Store)
             again == When(Store \in quadlet[Dash].networks, << b >>)
  <1>1. a \in AllSteps /\ b \in AllSteps /\ a.op # "quadlet" /\ b.op # "quadlet"
    BY StepsMade, ProvidersApart DEF Step, Orders
  <1>2. DashSteps = dash \o join \o again
    BY DEF DashSteps
  <1> HIDE DEF a, b
  <1>3. dash \in Kept(u) /\ <<b>> \in Kept(u)
    BY <1>1, OneKept
  <1>4. again \in Kept(u) /\ join \in Kept(u)
    BY <1>3, KeptIs, JoinKept, ProvidersApart DEF When
  <1> HIDE DEF dash, join, again
  <1>5. dash \o join \in Kept(u)
    BY <1>3, <1>4, KeptIs
  <1> QED
    BY <1>2, <1>4, <1>5, KeptIs

LEMMA RetroMetricsKept ==
    ASSUME TypeOK, NEW u, NEW s
    PROVE  /\ RetroMetrics(s) \in Kept(u)
           /\ s = Store => \A t \in Metrics \ (HostNet \cup Native \cup {Store}) :
                Installed(t) => Connects(ToSet(RetroMetrics(s)), t, Store)
  <1>1. CASE s = Store
    <2> DEFINE each == EachTarget(s)
               dash == When(Installed(Dash), DashSteps)
    <2>1. /\ each \in Kept(u)
          /\ \A t \in Metrics \ (HostNet \cup Native \cup {Store}) :
               Installed(t) => Connects(ToSet(each), t, Store)
      BY <1>1, EachTargetKept DEF Others
    <2>2. dash \in Kept(u)
      BY DashKept, KeptIs DEF When
    <2>3. RetroMetrics(s) = each \o dash
      BY <1>1 DEF RetroMetrics, ForEach, When, EachTarget, TargetSteps, Others, DashSteps
    <2> HIDE DEF each, dash
    <2>4. each \in Seq(AllSteps) /\ dash \in Seq(AllSteps) /\ each \o dash \in Kept(u)
      BY <2>1, <2>2, KeptIs
    <2>5. ToSet(each \o dash) = ToSet(each) \cup ToSet(dash)
      BY <2>4, Concatenated
    <2> QED
      BY <2>1, <2>3, <2>4, <2>5 DEF Connects
  <1>2. CASE s # Store
    BY <1>2, KeptIs DEF RetroMetrics, When
  <1> QED
    BY <1>1, <1>2

LEMMA WiringKept ==
    ASSUME TypeOK, Housed, NEW u, NEW s \in Services, NEW r \in Record, ~Installed(s),
           Routable(s, r), Registrable(r)
    PROVE  WiringSteps(s, r) \in Kept(u)
  <1> DEFINE p1 == When(r.auth, RegisterSteps(s, r.url))
             p2 == RouteSteps(s, r)
             p3 == RetroJoins(s)
             p4 == ConsumerSteps(s)
             p5 == RetroMetrics(s)
             p6 == When(s = Proxy, << Step("snippet", Proxy, TRUE) >>)
  <1>1. p1 \in Kept(u)
    <2>1. r.auth => RegisterSteps(s, r.url) \in Seq(SharedSteps(s, r))
      BY RegisterIs DEF Record, Registrable, Routable
    <2> QED
      BY <2>1, SharedKept, KeptIs DEF When
  <1>2. p2 \in Kept(u)
    BY RouteIs, SharedKept
  <1>3. p3 \in Kept(u) /\ p4 \in Kept(u) /\ p5 \in Kept(u)
    BY RetroJoinsKept, ConsumerKept, RetroMetricsKept
  <1>4. p6 \in Kept(u)
    <2> DEFINE a == Step("snippet", Proxy, TRUE)
    <2>1. a \in AllSteps /\ a.op # "quadlet"
      BY StepsMade DEF Step
    <2> HIDE DEF a
    <2>2. <<a>> \in Kept(u)
      BY <2>1, OneKept
    <2> QED
      BY <2>2, KeptIs DEF When, a
  <1>5. WiringSteps(s, r) = p1 \o p2 \o p3 \o p4 \o p5 \o p6
    BY DEF WiringSteps
  <1> HIDE DEF p1, p2, p3, p4, p5, p6
  <1>6. p1 \o p2 \in Kept(u)
    BY <1>1, <1>2, KeptIs
  <1>7. p1 \o p2 \o p3 \in Kept(u)
    BY <1>3, <1>6, KeptIs
  <1>8. p1 \o p2 \o p3 \o p4 \in Kept(u)
    BY <1>3, <1>7, KeptIs
  <1>9. p1 \o p2 \o p3 \o p4 \o p5 \in Kept(u)
    BY <1>3, <1>8, KeptIs
  <1> QED
    BY <1>4, <1>5, <1>9, KeptIs

LEMMA TwoOnes == ASSUME NEW X, NEW a \in X, NEW b \in X PROVE <<a, b>> = <<a>> \o <<b>>
  <1> DEFINE p == <<a>>
             q == <<b>>
             w == p \o q
  <1>1. p \in Seq(X) /\ q \in Seq(X) /\ Len(p) = 1 /\ Len(q) = 1 /\ p[1] = a /\ q[1] = b
    OBVIOUS
  <1> HIDE DEF p, q
  <1>2. w \in Seq(X) /\ Len(w) = 2 /\ w[1] = a /\ w[2] = b
    BY <1>1, ConcatProperties
  <1> HIDE DEF w
  <1>3. w = <<a, b>>
    BY <1>2
  <1> QED
    BY <1>3 DEF w, p, q

\* The plan of an add starts the service last, and each service it joins.
LEMMA AddStarts ==
    ASSUME TypeOK, Housed, NEW s \in Services, NEW r \in Record, ~Installed(s), CanAdd(s, r)
    PROVE  Restarted(AddPlan(s, r))
  <1>1. CASE s \in Native
    <2>1. AddPlan(s, r) \in Seq(NativeSteps(s))
      BY <1>1, NativeAddIs
    <2>2. \A x \in ToSet(AddPlan(s, r)) : x \in NativeSteps(s)
      BY <2>1, ElementOfSeq, LenProperties DEF ToSet
    <2> QED
      BY <1>1, <2>2, NoneToRestart DEF NativeSteps, OwnQuadlet, OwnRecord, Consumers
  <1>2. CASE s \notin Native
    <2> DEFINE w == WiringSteps(s, r)
               m == Step("manifest", s, Written(w, s))
               z == Step("start", s, {})
               a == Step("quadlet", s, ExtraNetworks(s, r))
               b == Step("record", s, r)
               own == <<a, b>>
               mid == <<m>>
               end == <<z>>
    <2>1. /\ a \in AllSteps /\ b \in AllSteps /\ m \in AllSteps /\ z \in AllSteps
          /\ w \in Kept(s)
      BY <1>2, PodmanParts, WiringKept DEF CanAdd, Plannable
    <2>2. /\ z.of = s /\ z.op \in Starts /\ m.op # "quadlet" /\ b.op # "quadlet" /\ a.of = s
      BY DEF Step, Starts
    <2>3. AddPlan(s, r) = own \o w \o <<m, z>>
      BY <1>2 DEF AddPlan, PodmanAdd, OwnFiles, Settled
    <2> HIDE DEF w, a, b, m, z
    <2>4. own \in Kept(s)
      <3>1. own \in Seq(AllSteps) /\ ToSet(own) = {a, b}
        BY <2>1, PairIs
      <3> HIDE DEF own
      <3> QED
        BY <2>2, <3>1, PlainKept
    <2>5. mid \in Kept(s)
      BY <2>1, <2>2, OneKept
    <2>6. end \in Seq(AllSteps) /\ <<m, z>> = mid \o end
      <3>1. <<m, z>> = mid \o end
        BY <2>1, TwoOnes
      <3> QED
        BY <2>1, <3>1, One, Zenon
    <2> HIDE DEF own, mid, end
    <2> DEFINE front == own \o w
               p == front \o mid
    <2>7. front \in Kept(s)
      BY <2>1, <2>4, KeptIs
    <2>8. AddPlan(s, r) = front \o (mid \o end)
      BY <2>3, <2>6
    <2> HIDE DEF front
    <2>9. p \in Kept(s) /\ front \in Seq(AllSteps) /\ mid \in Seq(AllSteps)
      BY <2>5, <2>7, KeptIs
    <2>10. AddPlan(s, r) = p \o end
      BY <2>6, <2>8, <2>9, ConcatAssociative
    <2> HIDE DEF p
    <2>11. p \in Seq(AllSteps) /\ RestartedBut(p, s)
      BY <2>9 DEF Kept
    <2>12. Restarted(p \o <<z>>)
      BY <2>1, <2>2, <2>11, RestartedLast
    <2> QED
      BY <2>10, <2>12 DEF end
  <1> QED
    BY <1>1, <1>2

(***************************************************************************)
(* What a plan says of consumers.                                          *)
(***************************************************************************)
Needs(t, r, p) == \/ p = Proxy /\ Routed(r)
                  \/ p = Relay /\ r.smtp
                  \/ p = Store /\ Bridged(t)

LEMMA UsesIs == ASSUME NEW t, NEW p PROVE Uses(t, p) <=> Needs(t, Due(t), p)
  BY DEF Uses, Needs

LEMMA ExtraIs ==
    ASSUME NEW s \in Services, NEW r
    PROVE  /\ ExtraNetworks(s, r) \subseteq Providers
           /\ \A n \in ExtraNetworks(s, r) : Installed(n)
           /\ s \in Consumers => \A p \in Joinable :
                Installed(p) /\ Needs(s, r, p) => p \in ExtraNetworks(s, r)
  <1>1. ASSUME s \in Consumers, NEW p \in Joinable, Installed(p), Needs(s, r, p)
        PROVE  p \in ExtraNetworks(s, r)
    <2>1. s \notin Providers
      BY <1>1 DEF Consumers
    <2>2. Routed(r) => r.url # "none"
      BY DEF Routed, Hosts
    <2> QED
      BY <1>1, <2>1, <2>2, ProvidersApart DEF Needs, Joinable, ExtraNetworks, Providers
  <1> QED
    BY <1>1 DEF ExtraNetworks, Providers

LEMMA AddIs ==
    ASSUME TypeOK, Housed, NEW s \in Services, NEW r \in Record, ~Installed(s), CanAdd(s, r)
    PROVE  LET p == ToSet(AddPlan(s, r)) IN
           /\ \A t \in Consumers : Installed(t) /\ s \in Joinable /\ Needs(t, record[t], s) => Connects(p, t, s)
           /\ s \in Consumers => /\ Step("quadlet", s, ExtraNetworks(s, r)) \in p
                                 /\ Step("start", s, {}) \in p
           /\ \A x \in p : x.op = "quadlet" /\ x.of \in Consumers =>
                \/ x.of = s /\ x.val = ExtraNetworks(s, r)
                \/ /\ x.of # s /\ Installed(x.of) /\ s \in Joinable
                   /\ x.val = quadlet[x.of].networks \cup {s}
           /\ Step("record", s, r) \in p /\ \A x \in p : OwnRecord(x, s) => x.val = r
  <1> DEFINE p == ToSet(AddPlan(s, r))
  <1>1. CASE s \in Native
    <2>1. /\ AddPlan(s, r) \in Seq(NativeSteps(s))
          /\ Step("record", s, r) \in p /\ \A x \in p : OwnRecord(x, s) => x.val = r
      BY <1>1, NativeAddIs DEF OwnRecord
    <2>2. \A x \in p : x \in NativeSteps(s)
      BY <2>1, ElementOfSeq, LenProperties DEF ToSet
    <2>3. s \notin Joinable /\ s \notin Consumers
      BY <1>1, ProvidersApart DEF Joinable, Consumers, Providers
    <2>4. \A x \in p : x.op = "quadlet" => x.of \notin Consumers
      BY <2>2, <2>3 DEF NativeSteps, OwnQuadlet, OwnRecord
    <2> QED
      BY <2>1, <2>3, <2>4
  <1>2. CASE s \notin Native
    <2> DEFINE w == WiringSteps(s, r)
               m == Step("manifest", s, Written(w, s))
               z == Step("start", s, {})
               a == Step("quadlet", s, ExtraNetworks(s, r))
               b == Step("record", s, r)
    <2>1. /\ ToSet(RetroJoins(s)) \subseteq ToSet(w) /\ ToSet(RetroMetrics(s)) \subseteq ToSet(w)
          /\ w \in Seq(AddSteps(s, r)) /\ p = {a, b} \cup ToSet(w) \cup {m, z}
      BY <1>2, PodmanParts
    <2>2. w \in Seq(WireSteps(s))
      BY <1>2, WiringIs DEF CanAdd, Plannable
    <2>3. \A x \in ToSet(w) : x \in AddSteps(s, r) /\ x \in WireSteps(s)
      BY <2>1, <2>2, ElementOfSeq, LenProperties DEF ToSet
    <2>4. ASSUME NEW t \in Consumers, Installed(t), s \in Joinable, Needs(t, record[t], s)
          PROVE  Connects(p, t, s)
      <3>1. t \in Services \ Providers /\ t # Store
        BY DEF Consumers, Providers
      <3>2. CASE s = Store
        <4>1. t \in Metrics \ (HostNet \cup Native \cup {Store})
          BY <2>4, <3>1, <3>2, ProvidersApart DEF Needs, Bridged, Consumers, Providers
        <4>2. Connects(ToSet(RetroMetrics(s)), t, s)
          BY <2>4, <3>2, <4>1, RetroMetricsKept
        <4> QED
          BY <2>1, <4>2 DEF Connects
      <3>3. CASE s # Store
        <4>1. Wants(t, s)
          BY <2>4, <3>3 DEF Needs, Wants
        <4>3. Connects(ToSet(RetroJoins(s)), t, s)
          BY <2>4, <3>1, <4>1, RetroJoinsKept
        <4> QED
          BY <2>1, <4>3 DEF Connects
      <3> QED
        BY <3>2, <3>3
    <2>5. a.op = "quadlet" /\ a.of = s /\ a.val = ExtraNetworks(s, r)
      BY DEF Step
    <2>6. b.op = "record" /\ b.of = s /\ b.val = r
      BY DEF Step
    <2>7. m.op = "manifest" /\ z.op = "start"
      BY DEF Step
    <2>8. \A x \in ToSet(w) : x.op = "quadlet" /\ x.of \in Consumers =>
                /\ x.of # s /\ Installed(x.of) /\ s \in Joinable
                /\ x.val = quadlet[x.of].networks \cup {s}
      BY <2>3 DEF AddSteps, WireSteps
    <2>9. \A x \in ToSet(w) : x.op # "record"
      BY <2>3 DEF AddSteps
    <2> HIDE DEF w, m, z, a, b
    <2>10. \A x \in p : x.op = "quadlet" /\ x.of \in Consumers =>
                \/ x.of = s /\ x.val = ExtraNetworks(s, r)
                \/ /\ x.of # s /\ Installed(x.of) /\ s \in Joinable
                   /\ x.val = quadlet[x.of].networks \cup {s}
      BY <2>1, <2>5, <2>6, <2>7, <2>8
    <2>11. \A x \in p : OwnRecord(x, s) => x.val = r
      BY <2>1, <2>5, <2>6, <2>7, <2>9 DEF OwnRecord
    <2>12. a \in p /\ b \in p /\ z \in p
      BY <2>1
    <2> QED
      BY <2>4, <2>10, <2>11, <2>12 DEF a, b, z
  <1> QED
    BY <1>1, <1>2

\* After its first step an update writes no unit file of a consumer, and its
\* last step restarts the service.
LEMMA LedTail ==
    ASSUME NEW s, NEW r, NEW p \in Led(s, r), p # << >>
    PROVE  \A x \in ToSet(Tail(p)) : x.op = "quadlet" => x.of \notin Consumers
  <1>1. p \in Seq(PlannedSteps(s, r))
    BY DEF Led
  <1>2. /\ DOMAIN Tail(p) = 1 .. Len(p) - 1 /\ Len(p) \in Nat
        /\ \A i \in DOMAIN Tail(p) : Tail(p)[i] = p[i + 1] /\ i + 1 \in DOMAIN p
    BY <1>1, TailIs
  <1>3. ASSUME NEW i \in DOMAIN Tail(p), Tail(p)[i].op = "quadlet" PROVE Tail(p)[i].of \notin Consumers
    BY <1>2, <1>3 DEF Led
  <1> QED
    BY <1>3 DEF ToSet

LEMMA UpdateStarts ==
    ASSUME NEW s \in Services, NEW r, NEW q \in Planned(s, r)
    PROVE  Restarted(q \o <<Step("restart", s, {})>>)
  <1> DEFINE z == Step("restart", s, {})
  <1>1. z \in AllSteps /\ z.of = s /\ z.op \in Starts
    BY StepsMade DEF Step, Orders, Starts
  <1> HIDE DEF z
  <1>2. q \in Seq(PlannedSteps(s, r))
    BY DEF Planned, Led
  <1>3. \A x \in PlannedSteps(s, r) : x \in AllSteps /\ (x.op = "quadlet" => x.of \notin Consumers \ {s})
    BY DEF PlannedSteps, ConfigureSteps, Consumers, Providers
  <1>4. q \in Seq(AllSteps)
    BY <1>2, <1>3, SeqMono
  <1>5. \A x \in ToSet(q) : x \in PlannedSteps(s, r)
    BY <1>2, ElementOfSeq, LenProperties DEF ToSet
  <1>6. RestartedBut(q, s)
    BY <1>3, <1>5, RestartedNone
  <1>7. Restarted(q \o <<z>>)
    BY <1>1, <1>4, <1>6, RestartedLast
  <1> QED
    BY <1>7 DEF z

(***************************************************************************)
(* The steps keep it.                                                      *)
(***************************************************************************)
LEMMA UnitKinds ==
    ASSUME Inv, NEW x \in Left, NEW s \in Consumers, OwnQuadlet(x, s)
    PROVE  job.kind = "add" \/ (job.kind \in Updates /\ s = S)
  <1>1. s # Proxy
    BY DEF Consumers, Providers
  <1> QED
    BY <1>1, LeftIs DEF OwnQuadlet, RemoveSteps, ResetSteps, ConfigureSteps, Finals

\* What a step has to keep, but for what runs.
LEMMA StepJoins ==
    ASSUME Inv, JoinInv, plan # << >>, plan' = Tail(plan), job' = job, cut' = cut, robbed \subseteq robbed',
           \A t \in Services : Sound(t)' /\ Installed(t)' => Arriving(t),
           \A s \in Consumers : Due(s)' = Due(s) \/ (job.kind \notin {"add"} \cup Updates /\ ~Wanted(s)'),
           \A s \in Consumers : Wanted(s)' \/ job.kind = "add" =>
               quadlet'[s] = quadlet[s] \/ OwnQuadlet(Head(plan), s),
           \A s \in Consumers : OwnQuadlet(Head(plan), s) => quadlet'[s] = Joining(Head(plan).val),
           job.kind = "add" => \A n \in Services : quadlet[n].present => quadlet'[n].present,
           job.kind \in {"add"} \cup Updates =>
               record'[S] = IF OwnRecord(Head(plan), S) THEN Head(plan).val ELSE record[S]
    PROVE  Joined' /\ Units' /\ First' /\ Restarted(plan)' /\ Recording'
  <1> DEFINE h == Head(plan)
  <1>1. Left = {h} \cup Left' /\ S' = S /\ plan \in Seq(AllSteps)
    <2>1. Typed /\ plan \in Seq(AllSteps)
      BY DEF Inv, Typed
    <2> QED
      BY <2>1, PlanIs DEF Left, S
  <1>2. \A t \in Services : Sound(t)' => Sound(t)
    BY DEF Sound
  <1>3. \A t \in Services : Removing(t)' <=> Removing(t)
    BY <1>1 DEF Removing
  <1>4. \A t \in Services : Sound(t)' /\ Arriving(t)' => Arriving(t)
    BY <1>1 DEF Arriving, Adding
  <1>5. \A t \in Services : Wanted(t)' => Wanted(t)
    BY <1>2, <1>3, <1>4 DEF Wanted
  <1>6. Consumers \subseteq Services /\ Joinable \subseteq Services
    BY ProvidersApart DEF Consumers, Joinable
  <1>7. \A s \in Consumers, p \in Joinable :
          Due(s)' = Due(s) => (Uses(s, p)' <=> Uses(s, p))
    <2> SUFFICES ASSUME NEW s \in Consumers, NEW p \in Joinable, Due(s)' = Due(s)
                 PROVE  Uses(s, p)' <=> Uses(s, p)
      OBVIOUS
    <2>1. Uses(s, p) <=> Needs(s, Due(s), p)
      BY UsesIs
    <2>2. Uses(s, p)' <=> Needs(s, Due(s)', p)
      BY DEF Uses, Needs
    <2> QED
      BY <2>1, <2>2
  <1> HIDE DEF h
  <1>8. Joined'
    <2>1. ASSUME NEW s \in Consumers, NEW p \in Joinable, Wanted(s)', Wanted(p)', Uses(s, p)'
          PROVE  p \in quadlet'[s].networks \/ \E x \in Left' : OwnQuadlet(x, s) /\ p \in x.val
      <3>1. Wanted(s) /\ Wanted(p) /\ Uses(s, p)
        BY <1>5, <1>6, <1>7, <2>1
      <3>2. CASE OwnQuadlet(h, s)
        <4>1. p \in h.val
          BY <1>1, <3>1, <3>2 DEF JoinInv, Units, Wanted
        <4> QED
          BY <3>2, <4>1 DEF Joining, h
      <3>3. CASE ~OwnQuadlet(h, s)
        <4>1. quadlet'[s] = quadlet[s]
          BY <2>1, <3>3 DEF h
        <4>2. p \in quadlet[s].networks \/ \E x \in Left : OwnQuadlet(x, s) /\ p \in x.val
          BY <3>1 DEF JoinInv, Joined
        <4> QED
          BY <1>1, <3>3, <4>1, <4>2
      <3> QED
        BY <3>2, <3>3
    <2> QED
      BY <2>1 DEF Joined, OwnQuadlet
  <1>9. Units'
    <2>1. ASSUME NEW x \in Left', NEW s \in Consumers, OwnQuadlet(x, s)
          PROVE  /\ Sound(s)' => \A p \in Joinable : Arriving(p)' /\ Sound(p)' /\ Uses(s, p)' => p \in x.val
                 /\ job.kind = "add" /\ s # S => x.val = quadlet'[s].networks \cup {S}
                 /\ s = S => \A n \in x.val : quadlet'[n].present
                 /\ x.val \subseteq Providers
      <3>1. x \in Left
        BY <1>1, <2>1
      <3>2. job.kind = "add" \/ (job.kind \in Updates /\ s = S)
        BY <2>1, <3>1, UnitKinds
      <3>3. /\ Sound(s) => \A p \in Joinable : Arriving(p) /\ Sound(p) /\ Uses(s, p) => p \in x.val
            /\ job.kind = "add" /\ s # S => x.val = quadlet[s].networks \cup {S}
            /\ s = S => \A n \in x.val : quadlet[n].present
            /\ x.val \subseteq Providers
        BY <2>1, <3>1 DEF JoinInv, Units
      <3>4. job.kind # "add" => FALSE
        <4>1. x \in ToSet(Tail(plan))
          BY <2>1 DEF Left
        <4> QED
          BY <2>1, <3>2, <4>1 DEF JoinInv, First
      <3>5. Due(s)' = Due(s)
        BY <3>4
      <3>6. ASSUME s # S PROVE x.val = quadlet'[s].networks \cup {S}
        <4>1. CASE OwnQuadlet(h, s)
          <5>1. h.val = quadlet[s].networks \cup {S}
            BY <1>1, <3>4, <3>6, <4>1 DEF JoinInv, Units
          <5>2. quadlet'[s].networks = h.val
            BY <4>1 DEF Joining, h
          <5> QED
            BY <3>3, <3>4, <3>6, <5>1, <5>2
        <4>2. CASE ~OwnQuadlet(h, s)
          BY <3>3, <3>4, <3>6, <4>2 DEF h
        <4> QED
          BY <4>1, <4>2
      <3>7. ASSUME s = S, NEW n \in x.val PROVE quadlet'[n].present
        BY <3>3, <3>4, <3>7, ProvidersApart DEF Providers
      <3> QED
        BY <1>2, <1>4, <1>6, <1>7, <3>3, <3>5, <3>6, <3>7
    <2> QED
      BY <1>1, <2>1 DEF Units, OwnQuadlet
  <1>10. First'
    <2>1. Tail(plan) # << >> => ToSet(Tail(Tail(plan))) \subseteq ToSet(Tail(plan))
      <3> DEFINE q == Tail(plan)
      <3>1. q \in Seq(AllSteps)
        BY <1>1, TailIs
      <3> HIDE DEF q
      <3>2. q # << >> => ToSet(Tail(q)) \subseteq ToSet(q)
        BY <3>1, TailIs
      <3> QED
        BY <3>2 DEF q
    <2> QED
      BY <1>1, <2>1 DEF JoinInv, First, OwnQuadlet
  <1>11. Restarted(plan)'
    <2>1. Restarted(Tail(plan))
      BY <1>1, RestartedTail DEF JoinInv
    <2> QED
      BY <2>1 DEF Restarted
  <1>12. Recording'
    <2> SUFFICES ASSUME job.kind \in {"add"} \cup Updates
                 PROVE  /\ record'[S] = job.request \/ Step("record", S, job.request) \in Left'
                        /\ \A x \in Left' : OwnRecord(x, S) => x.val = job.request
      BY <1>1 DEF Recording, OwnRecord
    <2>1. /\ record[S] = job.request \/ Step("record", S, job.request) \in Left
          /\ \A x \in Left : OwnRecord(x, S) => x.val = job.request
      BY DEF JoinInv, Recording
    <2>2. OwnRecord(h, S) => h.val = job.request
      BY <1>1, <2>1
    <2>3. Step("record", S, job.request) = h => OwnRecord(h, S)
      BY DEF OwnRecord, Step
    <2> QED
      BY <1>1, <2>1, <2>2, <2>3 DEF h
  <1> QED
    BY <1>8, <1>9, <1>10, <1>11, <1>12

\* What runs, after a step: as before, on the unit file as it is, or on one
\* that has just been written.
LEMMA StepFresh ==
    ASSUME Inv, JoinInv, plan # << >>, plan' = Tail(plan), job' = job, cut' = cut, robbed \subseteq robbed',
           \A t \in Services : Sound(t)' /\ Installed(t)' => Arriving(t),
           \A s \in Consumers \ stranded' : Wanted(s)' =>
               \/ running'[s] = quadlet'[s]
               \/ OwnQuadlet(Head(plan), s) /\ quadlet'[s] = Joining(Head(plan).val)
               \/ /\ s \notin stranded /\ running'[s] = running[s] /\ quadlet'[s] = quadlet[s]
                  /\ Head(plan).op \in Starts => Head(plan).of # s
                  /\ Head(plan).op = "takedown" => Head(plan).of \notin quadlet[s].networks
    PROVE  Fresh'
  <1> DEFINE h == Head(plan)
  <1>1. Left = {h} \cup Left' /\ S' = S /\ plan \in Seq(AllSteps) /\ Left' = ToSet(Tail(plan))
    <2>1. Typed /\ plan \in Seq(AllSteps)
      BY DEF Inv, Typed
    <2> QED
      BY <2>1, PlanIs DEF Left, S
  <1>2. \A t \in Services : Sound(t)' => Sound(t)
    BY DEF Sound
  <1>3. \A t \in Services : Wanted(t)' => Wanted(t)
    BY <1>1, <1>2 DEF Wanted, Removing, Arriving, Adding
  <1>4. \A n : ~Sound(n) => ~Sound(n)'
    BY DEF Sound
  <1>5. ASSUME NEW s \in Consumers \ stranded', Wanted(s)'
        PROVE  \/ running'[s] = quadlet'[s]
               \/ (\E x \in Left' : x.op \in Starts /\ x.of = s) /\ (s = S \/ S \in quadlet'[s].networks)
               \/ \E n \in quadlet'[s].networks : ~Sound(n)'
               \/ job.kind = "cleanup" /\ S \in quadlet'[s].networks /\ Step("takedown", S, {}) \in Left'
    <2> HIDE DEF h
    <2>1. CASE OwnQuadlet(h, s) /\ quadlet'[s] = Joining(h.val)
      <3>1. \E x \in Left' : x.op \in Starts /\ x.of = s
        <4>1. Head(plan).op = "quadlet" /\ Head(plan).of = s
          BY <2>1 DEF OwnQuadlet, h
        <4> QED
          BY <1>1, <1>5, <4>1, RestartedTail DEF JoinInv
      <3>2. job.kind = "add" \/ (job.kind \in Updates /\ s = S)
        BY <1>1, <1>5, <2>1, UnitKinds
      <3>3. s = S \/ S \in h.val
        BY <1>1, <1>5, <2>1, <3>2 DEF JoinInv, Units
      <3>4. quadlet'[s].networks = h.val
        BY <2>1 DEF Joining
      <3> QED
        BY <3>1, <3>3, <3>4
    <2>2. CASE /\ s \notin stranded /\ running'[s] = running[s] /\ quadlet'[s] = quadlet[s]
               /\ h.op \in Starts => h.of # s
               /\ h.op = "takedown" => h.of \notin quadlet[s].networks
      <3>1. Wanted(s) /\ s \in Consumers \ stranded
        BY <1>3, <1>5, <2>2 DEF Consumers
      <3>2. \/ running[s] = quadlet[s]
            \/ Restarts(s) /\ (s = S \/ S \in quadlet[s].networks)
            \/ \E n \in quadlet[s].networks : ~Sound(n)
            \/ job.kind = "cleanup" /\ S \in quadlet[s].networks /\ Step("takedown", S, {}) \in Left
        BY <3>1 DEF JoinInv, Fresh
      <3>3. Restarts(s) => \E x \in Left' : x.op \in Starts /\ x.of = s
        BY <1>1, <2>2 DEF Restarts
      <3>4. Step("takedown", S, {}) = h => S \notin quadlet[s].networks
        BY <2>2 DEF Step
      <3> QED
        BY <1>1, <1>4, <2>2, <3>2, <3>3, <3>4
    <2> QED
      BY <1>5, <2>1, <2>2 DEF h
  <1>6. \A s : Restarts(s)' <=> \E x \in Left' : x.op \in Starts /\ x.of = s
    BY DEF Restarts
  <1> QED
    BY <1>1, <1>5, <1>6 DEF Fresh

LEMMA SameNamed ==
    ASSUME Named, UNCHANGED <<quadlet, stranded>>
    PROVE  Named'
  BY DEF Named

LEMMA SameDue ==
    ASSUME job' = job, record' = record
    PROVE  \A s : Due(s)' = Due(s)
  BY DEF Due, S

LEMMA PlainJoins ==
    ASSUME Inv, JoinInv, plan # << >>, plan' = Tail(plan),
           Head(plan).op \notin Starts \cup {"quadlet", "record", "takedown"},
           UNCHANGED <<job, record, recorded, quadlet, running, cut, stranded, robbed>>
    PROVE  JoinInv'
  <1>1. \A t : Installed(t)' <=> Installed(t)
    BY DEF Installed
  <1>2. \A t \in Services : Sound(t)' /\ Installed(t)' => Arriving(t)
    BY <1>1 DEF Arriving
  <1>3. \A s : ~OwnQuadlet(Head(plan), s) /\ ~OwnRecord(Head(plan), s)
    BY DEF OwnQuadlet, OwnRecord
  <1>4. Joined' /\ Units' /\ First' /\ Restarted(plan)' /\ Recording'
    BY <1>2, <1>3, SameDue, StepJoins
  <1>5. Fresh'
    BY <1>2, StepFresh
  <1>6. Named'
    BY SameNamed DEF JoinInv
  <1> QED
    BY <1>4, <1>5, <1>6 DEF JoinInv

LEMMA SharedJoins == ASSUME Inv, JoinInv, WriteShared PROVE JoinInv'
  BY PlainJoins DEF WriteShared, Next1, Starts

LEMMA ManifestJoins == ASSUME Inv, JoinInv, WriteManifest PROVE JoinInv'
  BY PlainJoins DEF WriteManifest, At, Next1, Starts

LEMMA RecordJoins == ASSUME Inv, JoinInv, WriteRecord PROVE JoinInv'
  <1> DEFINE x == Head(plan)
  <1>1. /\ plan # << >> /\ x.op = "record" /\ plan' = Tail(plan)
        /\ recorded' = recorded \cup {x.of} /\ record' = [record EXCEPT ![x.of] = x.val]
        /\ UNCHANGED <<job, quadlet, running, cut, stranded, robbed>>
    BY DEF WriteRecord, At, Of, Val, Next1
  <1>2. x.of = S /\ S \in Services /\ (job.kind = "add" \/ (job.kind \in Updates /\ Installed(S)))
    <2>1. CASE job.kind = "add"
      BY <1>1, <2>1, HeadIs DEF NativeSteps, OwnStep, OwnQuadlet, OwnRecord, WireSteps, Files
    <2>2. CASE job.kind \in Updates
      BY <1>1, <2>2, HeadIs DEF ConfigureSteps, Inv, UpdateInv
    <2>3. CASE job.kind \in Removes
      BY <1>1, <2>3, HeadIs DEF RemoveSteps, Finals
    <2>4. CASE job.kind = "reset"
      BY <1>1, <2>4, HeadIs DEF ResetSteps
    <2> QED
      BY <1>1, <2>1, <2>2, <2>3, <2>4, HeadIs
  <1>3. record \in [Services -> Record]
    BY FilesTyped DEF Inv, Typed
  <1>4. (\A s : ~OwnQuadlet(x, s)) /\ OwnRecord(x, S) /\ x.op \notin Starts /\ x.op # "takedown"
    BY <1>1, <1>2 DEF OwnQuadlet, OwnRecord, Starts
  <1> HIDE DEF x
  <1>5. \A t \in Services : Sound(t)' /\ Installed(t)' => Arriving(t)
    BY <1>1, <1>2 DEF Installed, Arriving, Adding
  <1>6. record'[S] = x.val /\ \A s \in Services : s # S => record'[s] = record[s]
    BY <1>1, <1>2, <1>3
  <1>7. \A s \in Consumers : Due(s)' = Due(s)
    BY <1>1, <1>2, <1>6 DEF Due, S, Consumers
  <1>8. Joined' /\ Units' /\ First' /\ Restarted(plan)' /\ Recording'
    BY <1>1, <1>4, <1>5, <1>6, <1>7, StepJoins DEF x
  <1>9. Fresh'
    BY <1>1, <1>4, <1>5, StepFresh DEF x
  <1>10. Named'
    BY <1>1, SameNamed DEF JoinInv
  <1> QED
    BY <1>8, <1>9, <1>10 DEF JoinInv

LEMMA QuadletJoins == ASSUME Inv, ScrapeInv, JoinInv, WriteQuadlet PROVE JoinInv'
  <1> DEFINE x == Head(plan)
  <1>1. /\ plan # << >> /\ x.op = "quadlet" /\ plan' = Tail(plan)
        /\ quadlet' = [quadlet EXCEPT ![x.of] = Joining(x.val)]
        /\ UNCHANGED <<job, record, recorded, running, cut, stranded, robbed>>
    BY DEF WriteQuadlet, At, Of, Val, Next1
  <1>2. x \in Left /\ x.of \in Services /\ S \in Services
    BY <1>1, HeadIs, StepsTyped, PlanIs DEF Inv
  <1>3. quadlet \in [Services -> Networks]
    BY FilesTyped DEF Inv, Typed
  <1>4. (x.of = S /\ job.kind = "add") \/ Installed(x.of) \/ ~Sound(x.of)
    <2>1. CASE job.kind = "add"
      BY <1>1, <2>1, HeadIs DEF NativeSteps, OwnStep, OwnQuadlet, OwnRecord, WireSteps
    <2>2. CASE job.kind \in Updates
      BY <1>1, <1>2, <2>2, HeadIs
         DEF ConfigureSteps, ScrapeInv, StepsInv, OwnQuadlet, Inv, UpdateInv
    <2>3. CASE job.kind \in Removes
      BY <1>1, <2>3, HeadIs DEF RemoveSteps, Finals
    <2>4. CASE job.kind = "reset"
      BY <1>1, <2>4, HeadIs DEF ResetSteps
    <2> QED
      BY <1>1, <2>1, <2>2, <2>3, <2>4, HeadIs
  <1>5. job.kind = "add" /\ x.of # S /\ S \in Providers => Installed(S)
    BY <1>1, HeadIs, ProvidersApart DEF NativeSteps, OwnStep, OwnQuadlet, OwnRecord, Providers
  <1>6. (\A s : OwnQuadlet(x, s) <=> x.of = s) /\ (\A s : ~OwnRecord(x, s)) /\ x.op \notin Starts /\ x.op # "takedown"
    BY <1>1 DEF OwnQuadlet, OwnRecord, Starts
  <1>7. \A s \in Consumers : x.of = s => job.kind = "add" \/ (job.kind \in Updates /\ s = S)
    BY <1>2, <1>6, UnitKinds
  <1> HIDE DEF x
  <1>8. /\ \A t \in Services : t # x.of => quadlet'[t] = quadlet[t]
        /\ quadlet'[x.of] = Joining(x.val) /\ quadlet'[x.of].present /\ quadlet'[x.of].networks = x.val
    BY <1>1, <1>2, <1>3 DEF Joining
  <1>9. \A t \in Services : quadlet[t].present => quadlet'[t].present
    BY <1>8
  <1>10. \A t \in Services : Sound(t)' /\ Installed(t)' => Arriving(t)
    BY <1>1, <1>4, <1>8 DEF Installed, Arriving, Adding, Sound
  <1>11. Consumers \subseteq Services /\ Providers \subseteq Services
    BY ProvidersApart DEF Consumers, Providers
  <1>12. Joined' /\ Units' /\ First' /\ Restarted(plan)' /\ Recording'
    <2>1. \A s : Due(s)' = Due(s)
      BY <1>1, SameDue
    <2>2. \A s \in Consumers : quadlet'[s] = quadlet[s] \/ OwnQuadlet(x, s)
      BY <1>6, <1>8, <1>11
    <2>3. \A s \in Consumers : OwnQuadlet(x, s) => quadlet'[s] = Joining(x.val)
      BY <1>6, <1>8
    <2> QED
      BY <1>1, <1>6, <1>9, <1>10, <2>1, <2>2, <2>3, StepJoins DEF x
  <1>13. Fresh'
    <2>1. \A s \in Consumers \ stranded' :
             \/ OwnQuadlet(x, s) /\ quadlet'[s] = Joining(x.val)
             \/ /\ s \notin stranded /\ running'[s] = running[s] /\ quadlet'[s] = quadlet[s]
                /\ x.op \in Starts => x.of # s
                /\ x.op = "takedown" => x.of \notin quadlet[s].networks
      BY <1>1, <1>6, <1>8, <1>11
    <2> QED
      BY <1>1, <1>10, <2>1, StepFresh DEF x
  <1>14. Named'
    <2>1. ASSUME NEW s \in Consumers
          PROVE  /\ quadlet'[s].networks \subseteq Providers
                 /\ s \notin stranded => \A n \in quadlet'[s].networks : quadlet'[n].present
      <3>1. /\ quadlet[s].networks \subseteq Providers
            /\ s \notin stranded => \A n \in quadlet[s].networks : quadlet[n].present
        BY DEF JoinInv, Named
      <3>2. CASE x.of # s
        BY <1>8, <1>9, <1>11, <3>1, <3>2
      <3>3. CASE x.of = s
        <4>1. /\ job.kind = "add" /\ s # S => x.val = quadlet[s].networks \cup {S}
              /\ s = S => \A n \in x.val : quadlet[n].present
              /\ x.val \subseteq Providers
          BY <1>2, <1>6, <3>3 DEF JoinInv, Units
        <4>2. s # S => Installed(S)
          BY <1>5, <1>7, <3>3, <4>1
        <4> QED
          BY <1>8, <1>9, <1>11, <3>1, <3>3, <4>1, <4>2, <1>7 DEF Installed
      <3> QED
        BY <3>2, <3>3
    <2> QED
      BY <1>1, <2>1 DEF Named
  <1> QED
    BY <1>12, <1>13, <1>14 DEF JoinInv

LEMMA StartJoins == ASSUME Inv, JoinInv, Start PROVE JoinInv'
  <1> DEFINE x == Head(plan)
  <1>1. /\ plan # << >> /\ x.op \in Starts /\ plan' = Tail(plan) /\ Startable(x.of)
        /\ running' = [running EXCEPT ![x.of] = quadlet[x.of]] /\ stranded' = stranded \ {x.of}
        /\ UNCHANGED <<job, record, recorded, quadlet, cut, robbed>>
    BY DEF Start, At, Of, Next1, Starts
  <1>2. running \in [Services -> Networks]
    BY DEF Inv, Typed, TypeOK
  <1>3. \A t \in Services : Sound(t)' /\ Installed(t)' => Arriving(t)
    BY <1>1 DEF Installed, Arriving
  <1>4. (\A s : ~OwnQuadlet(x, s) /\ ~OwnRecord(x, s)) /\ x.op # "takedown"
    BY <1>1 DEF OwnQuadlet, OwnRecord, Starts
  <1> HIDE DEF x
  <1>5. Joined' /\ Units' /\ First' /\ Restarted(plan)' /\ Recording'
    <2>1. \A s : Due(s)' = Due(s)
      BY <1>1, SameDue
    <2> QED
      BY <1>1, <1>3, <1>4, <2>1, StepJoins DEF x
  <1>6. Fresh'
    <2>1. ASSUME NEW s \in Consumers \ stranded'
          PROVE  \/ running'[s] = quadlet'[s]
                 \/ s \notin stranded /\ running'[s] = running[s] /\ x.of # s
      <3>1. s \in Services
        BY DEF Consumers
      <3> QED
        BY <1>1, <1>2, <2>1, <3>1
    <2> QED
      BY <1>1, <1>3, <1>4, <2>1, StepFresh DEF x
  <1>7. Named'
    BY <1>1 DEF JoinInv, Named, Startable
  <1> QED
    BY <1>5, <1>6, <1>7 DEF JoinInv

LEMMA TakeDownJoins == ASSUME Inv, JoinInv, TakeDown PROVE JoinInv'
  <1> DEFINE x == Head(plan)
  <1>1. /\ plan # << >> /\ x.op = "takedown" /\ plan' = Tail(plan)
        /\ quadlet' = [quadlet EXCEPT ![x.of] = NoQuadlet] /\ running' = [running EXCEPT ![x.of] = Off]
        /\ stranded' = (stranded \cup {t \in Services : x.of \in quadlet[t].networks}) \ {x.of}
        /\ UNCHANGED <<job, record, recorded, cut, robbed>>
    BY DEF TakeDown, At, Of, Val, Next1
  <1>2. x.of \in Services
    BY <1>1, HeadIs, StepsTyped
  <1>3. quadlet \in [Services -> Networks] /\ running \in [Services -> Networks]
    BY DEF Inv, Typed, TypeOK
  <1>4. job.kind \notin {"add"} \cup Updates
    BY <1>1, HeadIs DEF NativeSteps, OwnStep, OwnQuadlet, OwnRecord, WireSteps, Files, ConfigureSteps
  <1>5. (\A s : ~OwnQuadlet(x, s) /\ ~OwnRecord(x, s)) /\ x.op \notin Starts
    BY <1>1 DEF OwnQuadlet, OwnRecord, Starts
  <1> HIDE DEF x
  <1>6. /\ \A t \in Services : t # x.of => quadlet'[t] = quadlet[t] /\ running'[t] = running[t]
        /\ ~quadlet'[x.of].present /\ quadlet'[x.of].networks = {}
    BY <1>1, <1>2, <1>3 DEF NoQuadlet
  <1>7. \A t \in Services : Installed(t)' => Installed(t) /\ t # x.of
    BY <1>1, <1>6 DEF Installed
  <1>8. \A t \in Services : Wanted(t)' => t # x.of
    BY <1>1, <1>4, <1>7 DEF Wanted, Arriving, Adding
  <1>9. Consumers \subseteq Services /\ Providers \subseteq Services
    BY ProvidersApart DEF Consumers, Providers
  <1>10. \A t \in Services : Sound(t)' /\ Installed(t)' => Arriving(t)
    BY <1>7 DEF Arriving
  <1>11. Joined' /\ Units' /\ First' /\ Restarted(plan)' /\ Recording'
    <2>1. \A s : Due(s)' = Due(s)
      BY <1>1, SameDue
    <2>2. \A s \in Consumers : Wanted(s)' => quadlet'[s] = quadlet[s]
      BY <1>6, <1>8, <1>9
    <2> QED
      BY <1>1, <1>4, <1>5, <1>10, <2>1, <2>2, StepJoins DEF x
  <1>12. Fresh'
    <2>1. \A s \in Consumers \ stranded' : Wanted(s)' =>
             /\ s \notin stranded /\ running'[s] = running[s] /\ quadlet'[s] = quadlet[s]
             /\ x.of \notin quadlet[s].networks
      BY <1>1, <1>6, <1>8, <1>9
    <2> QED
      BY <1>1, <1>5, <1>10, <2>1, StepFresh DEF x
  <1>13. Named'
    <2>1. ASSUME NEW s \in Consumers
          PROVE  /\ quadlet'[s].networks \subseteq Providers
                 /\ s \notin stranded' => \A n \in quadlet'[s].networks : quadlet'[n].present
      <3>1. /\ quadlet[s].networks \subseteq Providers
            /\ s \notin stranded => \A n \in quadlet[s].networks : quadlet[n].present
        BY DEF JoinInv, Named
      <3>2. CASE x.of = s
        BY <1>6, <3>2
      <3>3. CASE x.of # s
        <4>1. quadlet'[s] = quadlet[s] /\ s \in Services
          BY <1>6, <1>9, <3>3
        <4>2. s \notin stranded' => s \notin stranded /\ x.of \notin quadlet[s].networks
          BY <1>1, <3>3, <4>1
        <4> QED
          BY <1>6, <1>9, <3>1, <4>1, <4>2
      <3> QED
        BY <3>2, <3>3
    <2> QED
      BY <2>1 DEF Named
  <1> QED
    BY <1>11, <1>12, <1>13 DEF JoinInv

LEMMA DropJoins == ASSUME Inv, JoinInv, DropFile PROVE JoinInv'
  <1> DEFINE x == Head(plan) t == Head(plan).val[2]
  <1>1. /\ plan # << >> /\ x.op = "drop" /\ plan' = Tail(plan)
        /\ \/ quadlet' = quadlet /\ stranded' = stranded
           \/ /\ quadlet' = [quadlet EXCEPT ![t] = NoQuadlet]
              /\ stranded' = stranded \cup {s \in Services : t \in quadlet[s].networks}
        /\ robbed \cup {t} \subseteq robbed'
        /\ UNCHANGED <<job, record, recorded, running, cut>>
    BY DEF DropFile, At, Of, Val, Next1
  <1>2. x \in AllSteps /\ StepTyped(x)
    BY <1>1, HeadIs, StepsTyped
  <1>3. t \in Services
    <2>1. x.val \in Files \X Services
      BY <1>1, <1>2 DEF StepTyped, Orders
    <2> QED
      BY <2>1
  <1>4. quadlet \in [Services -> Networks]
    BY FilesTyped DEF Inv, Typed
  <1>5. job.kind \in Updates /\ job.kind # "add"
    BY <1>1, HeadIs DEF NativeSteps, OwnStep, OwnQuadlet, OwnRecord, WireSteps, Files, RemoveSteps,
         Finals, ResetSteps, Updates
  <1>6. (\A s : ~OwnQuadlet(x, s) /\ ~OwnRecord(x, s)) /\ x.op \notin Starts /\ x.op # "takedown"
    BY <1>1 DEF OwnQuadlet, OwnRecord, Starts
  <1> HIDE DEF x, t
  <1>7. /\ \A s \in Services : s # t => quadlet'[s] = quadlet[s]
        /\ quadlet' = quadlet \/ quadlet'[t].networks = {}
    BY <1>1, <1>3, <1>4 DEF NoQuadlet
  <1>8. \A s : Wanted(s)' => s # t
    BY <1>1 DEF Wanted, Sound
  <1>9. \A s \in Services : Sound(s)' /\ Installed(s)' => Arriving(s)
    BY <1>1, <1>7 DEF Installed, Arriving, Sound
  <1>10. Consumers \subseteq Services /\ Providers \subseteq Services
    BY ProvidersApart DEF Consumers, Providers
  <1>11. Joined' /\ Units' /\ First' /\ Restarted(plan)' /\ Recording'
    <2>1. \A s : Due(s)' = Due(s)
      BY <1>1, SameDue
    <2>2. \A s \in Consumers : Wanted(s)' => quadlet'[s] = quadlet[s]
      BY <1>7, <1>8, <1>10
    <2> QED
      BY <1>1, <1>5, <1>6, <1>9, <2>1, <2>2, StepJoins DEF x
  <1>12. Fresh'
    <2>1. \A s \in Consumers \ stranded' : Wanted(s)' =>
             s \notin stranded /\ running'[s] = running[s] /\ quadlet'[s] = quadlet[s]
      BY <1>1, <1>7, <1>8, <1>10
    <2> QED
      BY <1>1, <1>6, <1>9, <2>1, StepFresh DEF x
  <1>13. Named'
    <2>1. ASSUME NEW s \in Consumers
          PROVE  /\ quadlet'[s].networks \subseteq Providers
                 /\ s \notin stranded' => \A n \in quadlet'[s].networks : quadlet'[n].present
      <3>1. /\ quadlet[s].networks \subseteq Providers
            /\ s \notin stranded => \A n \in quadlet[s].networks : quadlet[n].present
        BY DEF JoinInv, Named
      <3>2. CASE quadlet' = quadlet
        BY <1>1, <3>1, <3>2
      <3>3. CASE quadlet' # quadlet /\ s = t
        BY <1>7, <3>3
      <3>4. CASE quadlet' # quadlet /\ s # t
        <4>1. quadlet'[s] = quadlet[s] /\ s \in Services
          BY <1>7, <1>10, <3>4
        <4>2. s \notin stranded' => s \notin stranded /\ t \notin quadlet[s].networks
          BY <1>1, <3>4, <4>1
        <4> QED
          BY <1>7, <1>10, <3>1, <4>1, <4>2
      <3> QED
        BY <3>2, <3>3, <3>4
    <2> QED
      BY <2>1 DEF Named
  <1> QED
    BY <1>11, <1>12, <1>13 DEF JoinInv

LEMMA ClearJoins == ASSUME Inv, JoinInv, ClearHome PROVE JoinInv'
  <1> DEFINE x == Head(plan)
  <1>1. /\ plan # << >> /\ x.op \in Finals /\ plan' = Tail(plan)
        /\ recorded' \subseteq recorded
        /\ record' = record \/ record' = [record EXCEPT ![x.of] = Nothing]
        /\ UNCHANGED <<job, quadlet, running, cut, stranded, robbed>>
    BY DEF ClearHome, At, Of, Val, Next1, Finals
  <1>2. job.kind \in Removes /\ x.of = S
    <2>1. job.kind \notin {"add", "reset"} \cup Updates
      BY <1>1, HeadIs DEF NativeSteps, OwnStep, OwnQuadlet, OwnRecord, WireSteps, Files, ConfigureSteps,
           ResetSteps, Finals
    <2>2. job.kind \in Removes
      BY <1>1, <2>1, HeadIs
    <2> QED
      BY <1>1, <2>2, HeadIs DEF RemoveSteps, Finals
  <1>3. job.kind \notin {"add"} \cup Updates
    BY <1>2 DEF Removes, Updates
  <1>4. (\A s : ~OwnQuadlet(x, s) /\ ~OwnRecord(x, s)) /\ x.op \notin Starts /\ x.op # "takedown"
    BY <1>1 DEF OwnQuadlet, OwnRecord, Starts, Finals
  <1>5. record \in [Services -> Record]
    BY FilesTyped DEF Inv, Typed
  <1> HIDE DEF x
  <1>6. \A t \in Services : Sound(t)' /\ Installed(t)' => Arriving(t)
    BY <1>1 DEF Arriving, Installed
  <1>7. \A s \in Consumers : Due(s)' = Due(s) \/ ~Wanted(s)'
    <2>1. \A s \in Services : s # S => record'[s] = record[s]
      BY <1>1, <1>2, <1>5
    <2>2. ~Wanted(S)'
      BY <1>1, <1>2 DEF Wanted, Removing, S
    <2>3. \A s \in Services : s # S => Due(s)' = Due(s)
      BY <1>1, <2>1 DEF Due, S
    <2> QED
      BY <1>1, <2>2, <2>3 DEF Consumers, S
  <1>8. Joined' /\ Units' /\ First' /\ Restarted(plan)' /\ Recording'
    BY <1>1, <1>3, <1>4, <1>6, <1>7, StepJoins DEF x
  <1>9. Fresh'
    BY <1>1, <1>4, <1>6, StepFresh DEF x
  <1>10. Named'
    BY <1>1, SameNamed DEF JoinInv
  <1> QED
    BY <1>8, <1>9, <1>10 DEF JoinInv

LEMMA WipeJoins == ASSUME Inv, JoinInv, Wipe PROVE JoinInv'
  <1> DEFINE x == Head(plan)
  <1>1. /\ plan # << >> /\ x.op = "wipe" /\ plan' = Tail(plan) /\ recorded' = {}
        /\ UNCHANGED <<job, quadlet, running, cut, stranded, robbed>>
    BY DEF Wipe, At, Of, Val, Next1
  <1>2. job.kind \notin {"add"} \cup Updates
    BY <1>1, HeadIs DEF NativeSteps, OwnStep, OwnQuadlet, OwnRecord, WireSteps, Files, ConfigureSteps
  <1>3. (\A s : ~OwnQuadlet(x, s) /\ ~OwnRecord(x, s)) /\ x.op \notin Starts /\ x.op # "takedown"
    BY <1>1 DEF OwnQuadlet, OwnRecord, Starts
  <1> HIDE DEF x
  <1>4. \A t : ~Installed(t)' /\ ~Wanted(t)'
    BY <1>1, <1>2 DEF Installed, Wanted, Arriving, Adding
  <1>5. Joined' /\ Units' /\ First' /\ Restarted(plan)' /\ Recording'
    BY <1>1, <1>2, <1>3, <1>4, StepJoins DEF x
  <1>6. Fresh'
    BY <1>4 DEF Fresh
  <1>7. Named'
    BY <1>1, SameNamed DEF JoinInv
  <1> QED
    BY <1>5, <1>6, <1>7 DEF JoinInv

LEMMA ExecuteJoins == ASSUME Inv, ScrapeInv, JoinInv, Execute PROVE JoinInv'
  BY QuadletJoins, RecordJoins, SharedJoins, ManifestJoins, StartJoins, TakeDownJoins, DropJoins,
     ClearJoins, WipeJoins DEF Execute

(***************************************************************************)
(* The commands begin and end.                                             *)
(***************************************************************************)

\* With no steps left, consumers are joined, and run on what they name.
LEMMA RestJoined ==
    ASSUME JoinInv, plan = << >>
    PROVE  /\ Left = {}
           /\ \A s \in Consumers, p \in Joinable :
                Wanted(s) /\ Wanted(p) /\ Uses(s, p) => p \in quadlet[s].networks
           /\ \A s \in Consumers \ stranded : Wanted(s) =>
                running[s] = quadlet[s] \/ \E n \in quadlet[s].networks : ~Sound(n)
  <1>1. Left = {}
    BY EmptyIs DEF Left
  <1>2. \A s : ~Restarts(s)
    BY <1>1 DEF Restarts
  <1> QED
    BY <1>1, <1>2 DEF JoinInv, Joined, Fresh

\* Who joins, and what is joined: none of them native.
LEMMA Apart ==
    /\ Consumers \subseteq Services \ Native /\ Joinable \subseteq Services \ Native
    /\ Joinable \subseteq Providers /\ Consumers \cap Providers = {}
  BY ProvidersApart DEF Consumers, Joinable, Providers

\* A command that writes no unit file begins, or one ends.
LEMMA RestJoins ==
    ASSUME JoinInv, plan = << >>, UNCHANGED <<quadlet, running, stranded>>,
           job'.kind \notin {"add"} \cup Updates, \A x \in Left' : x.op # "quadlet",
           \A t \in Services \ Native : Wanted(t)' => Wanted(t),
           \A s \in Consumers : Wanted(s)' => Due(s)' = Due(s),
           \A s \in Consumers \ stranded : \A n \in quadlet[s].networks :
               Wanted(s)' /\ ~Sound(n) => ~Sound(n)'
    PROVE  JoinInv'
  <1>1. Joined'
    <2>1. ASSUME NEW s \in Consumers, NEW p \in Joinable, Wanted(s)', Wanted(p)', Uses(s, p)'
          PROVE  p \in quadlet[s].networks
      <3>1. Wanted(s) /\ Wanted(p) /\ Due(s)' = Due(s)
        BY <2>1, Apart
      <3>2. Uses(s, p)
        BY <2>1, <3>1 DEF Uses
      <3> QED
        BY <3>1, <3>2, RestJoined
    <2> QED
      BY <2>1 DEF Joined
  <1>2. Named'
    BY SameNamed DEF JoinInv
  <1>3. Fresh'
    <2>1. ASSUME NEW s \in Consumers \ stranded, Wanted(s)'
          PROVE  running[s] = quadlet[s] \/ \E n \in quadlet[s].networks : ~Sound(n)'
      <3>1. Wanted(s)
        BY <2>1, Apart
      <3> QED
        BY <2>1, <3>1, RestJoined
    <2> QED
      BY <2>1 DEF Fresh
  <1>4. Units' /\ First' /\ Recording'
    BY DEF Units, First, Recording, OwnQuadlet
  <1>5. Restarted(plan)'
    <2>1. Restarted(plan')
      BY NoneToRestart DEF Left
    <2> QED
      BY <2>1 DEF Restarted
  <1> QED
    BY <1>1, <1>2, <1>3, <1>4, <1>5 DEF JoinInv

\* The steps that are dropped were about the service of the command.
LEMMA AbandonJoins ==
    ASSUME Inv, JoinInv, UNCHANGED <<record, quadlet, running, stranded>>,
           job'.kind \notin {"add"} \cup Updates, \A x \in Left' : x.op # "quadlet",
           cut \subseteq cut', robbed' = robbed,
           \A t \in Services \ Native : Wanted(t)' => Wanted(t) /\ t # S,
           \/ S \in cut'
           \/ /\ job.kind # "cleanup" /\ job'.kind = "cleanup" /\ S' = S
              /\ Step("takedown", S, {}) \in Left'
    PROVE  JoinInv'
  <1>1. Joined'
    <2>1. ASSUME NEW s \in Consumers, NEW p \in Joinable, Wanted(s)', Wanted(p)', Uses(s, p)'
          PROVE  p \in quadlet[s].networks
      <3>1. Wanted(s) /\ Wanted(p) /\ s # S /\ p # S
        BY <2>1, Apart
      <3>2. Due(s)' = record[s] /\ Due(s) = record[s]
        BY <3>1 DEF Due
      <3>3. Uses(s, p)
        BY <2>1, <3>2 DEF Uses
      <3>4. CASE p \in quadlet[s].networks
        BY <3>4
      <3>5. ASSUME NEW x \in Left, OwnQuadlet(x, s), p \in x.val
            PROVE  p \in quadlet[s].networks
        <4>1. job.kind = "add"
          BY <3>1, <3>5, UnitKinds
        <4>2. x.val = quadlet[s].networks \cup {S}
          BY <3>1, <3>5, <4>1 DEF JoinInv, Units
        <4> QED
          BY <3>1, <3>5, <4>2
      <3> QED
        BY <3>1, <3>3, <3>5 DEF JoinInv, Joined
    <2> QED
      BY <2>1 DEF Joined
  <1>2. Named'
    BY SameNamed DEF JoinInv
  <1>3. Fresh'
    <2>1. ASSUME NEW s \in Consumers \ stranded, Wanted(s)'
          PROVE  \/ running[s] = quadlet[s]
                 \/ \E n \in quadlet[s].networks : ~Sound(n)'
                 \/ job'.kind = "cleanup" /\ S' \in quadlet[s].networks /\ Step("takedown", S', {}) \in Left'
      <3>1. Wanted(s) /\ s # S
        BY <2>1, Apart
      <3>2. \/ running[s] = quadlet[s]
            \/ S \in quadlet[s].networks /\ (job.kind = "cleanup" \/ Restarts(s))
            \/ \E n \in quadlet[s].networks : ~Sound(n)
        BY <3>1 DEF JoinInv, Fresh
      <3>3. \A n : ~Sound(n) => ~Sound(n)'
        BY DEF Sound
      <3>4. CASE S \in quadlet[s].networks
        <4>1. CASE S \in cut'
          BY <3>4, <4>1 DEF Sound
        <4>2. CASE job'.kind = "cleanup" /\ S' = S /\ Step("takedown", S, {}) \in Left'
          <5>1. S' \in quadlet[s].networks /\ Step("takedown", S', {}) \in Left'
            BY <3>4, <4>2
          <5> QED
            BY <4>2, <5>1
        <4> QED
          BY <4>1, <4>2
      <3> QED
        BY <3>2, <3>3, <3>4
    <2> QED
      BY <2>1 DEF Fresh
  <1>4. Units' /\ First' /\ Recording'
    BY DEF Units, First, Recording, OwnQuadlet
  <1>5. Restarted(plan)'
    <2>1. Restarted(plan')
      BY NoneToRestart DEF Left
    <2> QED
      BY <2>1 DEF Restarted
  <1> QED
    BY <1>1, <1>2, <1>3, <1>4, <1>5 DEF JoinInv

LEMMA RemovalJoins ==
    ASSUME Inv, JoinInv, Idle, NEW s \in Services, NEW r, NEW p, NEW last \in Finals,
           Removal(p, s, last), NEW kind \in {"remove", "recover"}, Begin(kind, s, r, p),
           Framed, UNCHANGED <<cut, robbed>>
    PROVE  JoinInv'
  <1>1. job'.kind = kind /\ Left' = ToSet(p) /\ kind \notin {"add"} \cup Updates
    BY DEF Begin, Left, Updates
  <1>2. plan = << >> /\ UNCHANGED <<quadlet, recorded, record, running, stranded>>
    BY DEF Inv, Typed, Framed, files
  <1>3. \A t : Wanted(t)' => Wanted(t)
    BY <1>1, <1>2 DEF Wanted, Arriving, Adding, Removing, Removes, Idle, Installed, Sound
  <1>4. \A x \in Left' : x.op # "quadlet"
    BY <1>1 DEF Removal, RemoveSteps, Finals, ToSet
  <1>5. \A t : Due(t)' = Due(t)
    BY <1>1, <1>2 DEF Due, Idle, Updates
  <1>6. \A n : ~Sound(n) => ~Sound(n)'
    BY DEF Sound
  <1> QED
    BY <1>1, <1>2, <1>3, <1>4, <1>5, <1>6, RestJoins

LEMMA AddJoins ==
    ASSUME Inv, JoinInv, plan = << >>, job.kind \in {"none", "recover"}, NEW s \in Services, NEW r \in Record,
           job.kind = "recover" => S = s, s \notin home, CanAdd(s, r), PlanAdd(s, r), Framed,
           UNCHANGED <<cut, robbed>>
    PROVE  JoinInv'
  <1> DEFINE p == AddPlan(s, r)
  <1>1. job'.kind = "add" /\ S' = s /\ job'.request = r /\ plan' = p /\ Left' = ToSet(p)
    BY DEF PlanAdd, Begin, S, Left
  <1>2. UNCHANGED <<quadlet, recorded, record, running, stranded>>
    BY DEF Framed, files
  <1>3. TypeOK /\ Housed /\ ~Installed(s)
    BY DEF Inv, Typed, TypeOK, Installed
  <1>4. /\ \A t \in Consumers : Installed(t) /\ s \in Joinable /\ Needs(t, record[t], s) => Connects(ToSet(p), t, s)
        /\ s \in Consumers => /\ Step("quadlet", s, ExtraNetworks(s, r)) \in ToSet(p)
                              /\ Step("start", s, {}) \in ToSet(p)
        /\ \A x \in ToSet(p) : x.op = "quadlet" /\ x.of \in Consumers =>
             \/ x.of = s /\ x.val = ExtraNetworks(s, r)
             \/ /\ x.of # s /\ Installed(x.of) /\ s \in Joinable
                /\ x.val = quadlet[x.of].networks \cup {s}
        /\ Step("record", s, r) \in ToSet(p) /\ \A x \in ToSet(p) : OwnRecord(x, s) => x.val = r
    BY <1>3, AddIs
  <1>5. Restarted(p)
    BY <1>3, AddStarts
  <1>6. /\ ExtraNetworks(s, r) \subseteq Providers
        /\ \A n \in ExtraNetworks(s, r) : Installed(n)
        /\ s \in Consumers => \A n \in Joinable : Installed(n) /\ Needs(s, r, n) => n \in ExtraNetworks(s, r)
    BY ExtraIs
  <1> DEFINE own == Step("quadlet", s, ExtraNetworks(s, r))
             rec == Step("record", s, r)
             st == Step("start", s, {})
  <1>7. OwnQuadlet(own, s) /\ own.val = ExtraNetworks(s, r) /\ st.op \in Starts /\ st.of = s
    BY DEF OwnQuadlet, Step, Starts
  <1> HIDE DEF p, own, st, rec
  <1>8. \A t : (Installed(t)' <=> Installed(t)) /\ (Sound(t)' <=> Sound(t))
    BY <1>2 DEF Installed, Sound
  <1>9. \A t : /\ Arriving(t)' /\ t # s => Installed(t)
               /\ Wanted(t)' => Sound(t)
               /\ t # s /\ Installed(t) /\ Sound(t) => Wanted(t)
    BY <1>1, <1>8 DEF Wanted, Arriving, Adding, Removing, Removes
  <1>10. \A t : /\ t # s => Due(t)' = record[t] /\ Due(t) = record[t]
                /\ Due(s)' = r
    BY <1>1, <1>2 DEF Due, Updates
  <1>11. \A t, n : /\ t # s => (Uses(t, n)' <=> Needs(t, record[t], n)) /\ (Uses(t, n) <=> Needs(t, record[t], n))
                   /\ Uses(s, n)' <=> Needs(s, r, n)
    <2>1. ASSUME NEW t, NEW n PROVE (Uses(t, n) <=> Needs(t, Due(t), n)) /\ (Uses(t, n)' <=> Needs(t, Due(t)', n))
      BY DEF Uses, Needs
    <2> QED
      BY <1>10, <2>1
  <1>12. \A t \in Consumers, n \in Joinable :
           t # s /\ n # s /\ Installed(t) /\ Sound(t) /\ Installed(n) /\ Sound(n) /\ Needs(t, record[t], n)
             => n \in quadlet[t].networks
    BY <1>9, <1>11, RestJoined
  <1>13. \A t : Wanted(t)' => Arriving(t)' /\ Sound(t)
    BY <1>9 DEF Wanted
  <1>14. Joined'
    <2>1. ASSUME NEW t \in Consumers, NEW n \in Joinable, Wanted(t)', Wanted(n)', Uses(t, n)'
          PROVE  n \in quadlet[t].networks \/ \E x \in ToSet(p) : OwnQuadlet(x, t) /\ n \in x.val
      <3>1. n # t
        BY Apart
      <3>2. CASE t = s
        <4>1. Installed(n) /\ Needs(s, r, n)
          BY <1>9, <1>11, <1>13, <2>1, <3>1, <3>2
        <4>2. own \in ToSet(p)
          BY <1>4, <3>2 DEF own
        <4> QED
          BY <1>6, <1>7, <3>2, <4>1, <4>2
      <3>3. CASE t # s /\ n = s
        <4>1. Connects(ToSet(p), t, s)
          BY <1>4, <1>9, <1>11, <1>13, <2>1, <3>3
        <4> QED
          BY <3>3, <4>1 DEF Connects
      <3>4. CASE t # s /\ n # s
        BY <1>9, <1>11, <1>12, <1>13, <2>1, <3>4
      <3> QED
        BY <3>2, <3>3, <3>4
    <2> QED
      BY <1>1, <1>2, <2>1 DEF Joined, OwnQuadlet
  <1>15. Named'
    BY <1>2, SameNamed DEF JoinInv
  <1>16. Fresh'
    <2>1. ASSUME NEW t \in Consumers \ stranded, Wanted(t)'
          PROVE  \/ running[t] = quadlet[t]
                 \/ (\E x \in ToSet(p) : x.op \in Starts /\ x.of = t) /\ t = s
                 \/ \E n \in quadlet[t].networks : ~Sound(n)
      <3>1. CASE t = s
        BY <1>4, <1>7, <3>1 DEF st
      <3>2. CASE t # s
        <4>1. Wanted(t)
          BY <1>9, <1>13, <2>1, <3>2
        <4> QED
          BY <4>1, RestJoined
      <3> QED
        BY <3>1, <3>2
    <2> QED
      BY <1>1, <1>2, <1>8, <2>1 DEF Fresh, Restarts
  <1>17. Units'
    <2>1. ASSUME NEW x \in ToSet(p), NEW t \in Consumers, OwnQuadlet(x, t)
          PROVE  /\ Sound(t) => \A n \in Joinable : Arriving(n)' /\ Sound(n) /\ Uses(t, n)' => n \in x.val
                 /\ t # s => x.val = quadlet[t].networks \cup {s}
                 /\ t = s => \A n \in x.val : quadlet[n].present
                 /\ x.val \subseteq Providers
      <3>1. x.op = "quadlet" /\ x.of = t
        BY <2>1 DEF OwnQuadlet
      <3>2. CASE t = s
        <4>1. x.val = ExtraNetworks(s, r)
          BY <1>4, <3>1, <3>2
        <4>2. \A n \in Joinable : Arriving(n)' /\ Uses(t, n)' => n \in x.val
          BY <1>6, <1>9, <1>11, <3>2, <4>1, Apart
        <4> QED
          BY <1>6, <3>2, <4>1, <4>2 DEF Installed
      <3>3. CASE t # s
        <4>1. Installed(t) /\ s \in Joinable /\ x.val = quadlet[t].networks \cup {s}
          BY <1>4, <3>1, <3>3
        <4>2. ASSUME Sound(t), NEW n \in Joinable, Arriving(n)', Sound(n), Uses(t, n)' PROVE n \in x.val
          BY <1>9, <1>11, <1>12, <3>3, <4>1, <4>2
        <4>3. quadlet[t].networks \subseteq Providers
          BY DEF JoinInv, Named
        <4> QED
          BY <3>3, <4>1, <4>2, <4>3, Apart
      <3> QED
        BY <3>2, <3>3
    <2> QED
      BY <1>1, <1>2, <1>8, <2>1 DEF Units, OwnQuadlet
  <1>18. First' /\ Restarted(plan)'
    <2>1. Restarted(plan')
      BY <1>1, <1>5
    <2> QED
      BY <1>1, <2>1 DEF First, Restarted, Updates
  <1>19. Recording'
    BY <1>1, <1>4 DEF Recording, OwnRecord
  <1> QED
    BY <1>14, <1>15, <1>16, <1>17, <1>18, <1>19 DEF JoinInv

LEMMA UpdateJoins ==
    ASSUME Inv, JoinInv, Idle, NEW s \in Services, NEW r \in Record, NEW q \in Planned(s, r), NEW p,
           p = q \o <<Step("restart", s, {})>>, p \in Planned(s, r), Installed(s),
           NEW kind \in Updates, Begin(kind, s, r, p), Framed, UNCHANGED <<cut, robbed>>
    PROVE  JoinInv'
  <1>1. /\ job'.kind = kind /\ S' = s /\ job'.request = r /\ plan' = p /\ Left' = ToSet(p)
        /\ kind # "add" /\ kind # "reset" /\ kind \notin Removes
    BY DEF Begin, S, Left, Updates, Removes
  <1>2. plan = << >> /\ UNCHANGED <<quadlet, recorded, record, running, stranded>>
    BY DEF Inv, Typed, Framed, files
  <1>3. p \in Led(s, r) /\ p \in Seq(PlannedSteps(s, r)) /\ Renders(ToSet(p), s, r)
    BY DEF Planned, Led
  <1>4. \A x \in ToSet(p) : x \in PlannedSteps(s, r)
    BY <1>3 DEF ToSet
  <1>5. Restarted(p)
    BY UpdateStarts
  <1> DEFINE st == Step("restart", s, {})
  <1>6. st \in ToSet(p) /\ st.op \in Starts /\ st.of = s
    <2>1. st.op \in Starts /\ st.of = s
      BY DEF Step, Starts
    <2>2. st \in AllSteps
      BY StepsMade DEF Orders
    <2>3. q \in Seq(AllSteps)
      <3>1. PlannedSteps(s, r) \subseteq AllSteps
        BY DEF PlannedSteps, ConfigureSteps
      <3> QED
        BY <3>1, SeqMono DEF Planned, Led
    <2> HIDE DEF st
    <2>4. st \in ToSet(q \o <<st>>)
      BY <2>2, <2>3, Appended
    <2> QED
      BY <2>1, <2>4 DEF st
  <1> HIDE DEF st
  <1>7. /\ ExtraNetworks(s, r) \subseteq Providers
        /\ \A n \in ExtraNetworks(s, r) : Installed(n)
        /\ s \in Consumers => \A n \in Joinable : Installed(n) /\ Needs(s, r, n) => n \in ExtraNetworks(s, r)
    BY ExtraIs
  <1>8. \A t : (Installed(t)' <=> Installed(t)) /\ (Sound(t)' <=> Sound(t)) /\ (Arriving(t)' => Installed(t))
    BY <1>1, <1>2 DEF Installed, Sound, Arriving, Adding
  <1>9. \A t : Wanted(t)' => Wanted(t) /\ Installed(t)
    BY <1>8 DEF Wanted, Arriving, Removing, Removes, Idle
  <1>10. \A t : t # s => Due(t)' = record[t] /\ Due(t) = record[t]
    BY <1>1, <1>2 DEF Due, Updates, Idle
  <1>11. Due(s)' = r
    BY <1>1 DEF Due
  <1>12. \A t, n : (t # s => (Uses(t, n)' <=> Uses(t, n))) /\ (Uses(s, n)' <=> Needs(s, r, n))
    <2>1. ASSUME NEW t, NEW n PROVE (Uses(t, n) <=> Needs(t, Due(t), n)) /\ (Uses(t, n)' <=> Needs(t, Due(t)', n))
      BY DEF Uses, Needs
    <2> QED
      BY <1>10, <1>11, <2>1
  <1>13. Joined'
    <2>1. ASSUME NEW t \in Consumers, NEW n \in Joinable, Wanted(t)', Wanted(n)', Uses(t, n)'
          PROVE  n \in quadlet[t].networks \/ \E x \in ToSet(p) : OwnQuadlet(x, t) /\ n \in x.val
      <3>1. CASE t = s
        <4>1. n \in ExtraNetworks(s, r)
          BY <1>7, <1>9, <1>12, <2>1, <3>1
        <4> DEFINE own == Step("quadlet", s, ExtraNetworks(s, r))
        <4>2. OwnQuadlet(own, s) /\ own.val = ExtraNetworks(s, r)
          BY DEF OwnQuadlet, Step
        <4>3. quadlet[s].networks # ExtraNetworks(s, r) => own \in ToSet(p)
          BY <1>3 DEF Renders
        <4> HIDE DEF own
        <4> QED
          BY <3>1, <4>1, <4>2, <4>3
      <3>2. CASE t # s
        BY <1>2, <1>9, <1>12, <2>1, <3>2, RestJoined
      <3> QED
        BY <3>1, <3>2
    <2> QED
      BY <1>1, <1>2, <2>1 DEF Joined, OwnQuadlet
  <1>14. Named'
    BY <1>2, SameNamed DEF JoinInv
  <1>15. Fresh'
    <2>1. ASSUME NEW t \in Consumers \ stranded, Wanted(t)'
          PROVE  \/ running[t] = quadlet[t]
                 \/ (\E x \in ToSet(p) : x.op \in Starts /\ x.of = t) /\ t = s
                 \/ \E n \in quadlet[t].networks : ~Sound(n)
      BY <1>2, <1>6, <1>9, <2>1, RestJoined
    <2> QED
      BY <1>1, <1>2, <1>8, <2>1 DEF Fresh, Restarts
  <1>16. Units'
    <2>1. ASSUME NEW x \in ToSet(p), NEW t \in Consumers, OwnQuadlet(x, t)
          PROVE  t = s /\ x.val = ExtraNetworks(s, r)
      <3>1. x.op = "quadlet" /\ x.of = t /\ t # Proxy
        BY <2>1 DEF OwnQuadlet, Consumers, Providers
      <3> QED
        BY <1>4, <2>1, <3>1 DEF PlannedSteps, ConfigureSteps
    <2>2. ASSUME NEW x \in ToSet(p), NEW t \in Consumers, OwnQuadlet(x, t)
          PROVE  /\ \A n \in Joinable : Arriving(n)' /\ Uses(t, n)' => n \in x.val
                 /\ \A n \in x.val : quadlet[n].present
                 /\ x.val \subseteq Providers
      BY <1>7, <1>8, <1>12, <2>1, <2>2 DEF Installed
    <2> QED
      BY <1>1, <1>2, <2>1, <2>2 DEF Units, OwnQuadlet
  <1>17. First' /\ Restarted(plan)'
    <2>1. Restarted(plan')
      BY <1>1, <1>5
    <2>2. p # << >> => \A x \in ToSet(Tail(p)) : x.op = "quadlet" => x.of \notin Consumers
      BY <1>3, LedTail
    <2> QED
      BY <1>1, <2>1, <2>2 DEF First, Restarted, OwnQuadlet
  <1>18. Recording'
    <2>1. record[s] = r \/ Step("record", s, r) \in ToSet(p)
      BY <1>3 DEF Renders
    <2>2. \A x \in ToSet(p) : OwnRecord(x, s) => x.val = r
      BY <1>4 DEF PlannedSteps, OwnRecord
    <2> QED
      BY <1>1, <1>2, <2>1, <2>2 DEF Recording, OwnRecord
  <1> QED
    BY <1>13, <1>14, <1>15, <1>16, <1>17, <1>18 DEF JoinInv

LEMMA CommandJoins == ASSUME Inv, JoinInv, Command PROVE JoinInv'
  <1>1. TypeOK /\ Housed /\ \A s \in Services : Listable(listed[s], s)
    BY DEF Inv, Typed
  <1>2. Idle => plan = << >> /\ job.kind = "none" /\ job.kind # "reset" /\ job.kind \notin Removes
    BY DEF Inv, Typed, Idle, Removes
  <1>3. ASSUME BeginReset PROVE JoinInv'
    <2>1. /\ Idle /\ job'.kind = "reset" /\ plan' = ResetPlan
          /\ UNCHANGED <<quadlet, recorded, record, running, stranded, cut, robbed>>
      BY <1>3 DEF BeginReset, Begin, files, history
    <2>2. \A x \in ToSet(ResetPlan) : x.op # "quadlet"
      BY ResetIs DEF ResetSteps, ToSet
    <2>3. \A t : Wanted(t)' => Wanted(t)
      BY <1>2, <2>1 DEF Wanted, Arriving, Adding, Removing, Installed, Sound
    <2>4. \A t : Due(t)' = Due(t)
      BY <1>2, <2>1 DEF Due, Updates
    <2>5. job'.kind \notin {"add"} \cup Updates
      BY <2>1 DEF Updates
    <2>6. \A n : ~Sound(n) => ~Sound(n)'
      BY <2>1 DEF Sound
    <2>7. \A x \in Left' : x.op # "quadlet"
      BY <2>1, <2>2 DEF Left
    <2> QED
      BY <1>2, <2>1, <2>3, <2>4, <2>5, <2>6, <2>7, RestJoins
  <1>4. ASSUME NEW s \in offered, NEW r \in Requests[s], BeginAdd(s, r) PROVE JoinInv'
    <2>1. s \in Services /\ r \in Record
      BY <1>4, OfferedIs
    <2>2. Idle /\ s \notin home /\ CanAdd(s, r) /\ PlanAdd(s, r) /\ Framed /\ UNCHANGED <<cut, robbed>>
      BY <1>4 DEF BeginAdd, Framed, Leftover
    <2> QED
      BY <1>2, <2>1, <2>2, AddJoins
  <1>5. ASSUME NEW s \in offered, NEW r \in Requests[s], RecoverAdd(s, r) PROVE JoinInv'
    <2>1. s \in Services /\ "purge" \in Finals
      BY <1>5, OfferedIs DEF Finals
    <2>2. /\ Idle /\ ~Installed(s) /\ Begin("recover", s, r, OrphanPurge(s)) /\ Framed
          /\ UNCHANGED <<cut, robbed>>
      BY <1>5 DEF RecoverAdd, Framed, history
    <2>3. Removal(OrphanPurge(s), s, "purge")
      BY <2>1, OrphanIs
    <2> QED
      BY <2>1, <2>2, <2>3, RemovalJoins
  <1>6. ASSUME NEW s \in offered, BeginPurge(s) PROVE JoinInv'
    <2>1. s \in Services /\ "purge" \in Finals
      BY <1>6, OfferedIs DEF Finals
    <2>2. /\ Idle /\ ~Installed(s) /\ Begin("remove", s, Nothing, OrphanPurge(s)) /\ Framed
          /\ UNCHANGED <<cut, robbed>>
      BY <1>6 DEF BeginPurge, Framed, history
    <2>3. Removal(OrphanPurge(s), s, "purge")
      BY <2>1, OrphanIs
    <2> QED
      BY <2>1, <2>2, <2>3, RemovalJoins
  <1>7. ASSUME NEW s \in offered, NEW last \in {"purge", "preserve"}, BeginRemove(s, last)
        PROVE  JoinInv'
    <2>1. s \in Services /\ last \in Finals
      BY <1>7, OfferedIs DEF Finals
    <2>2. /\ Idle /\ Begin("remove", s, Nothing, RemovePlan(s, last)) /\ Framed
          /\ UNCHANGED <<cut, robbed>>
      BY <1>7 DEF BeginRemove, Framed, history
    <2>3. Removal(RemovePlan(s, last), s, last)
      BY <1>1, <2>1, RemoveIs
    <2> QED
      BY <2>1, <2>2, <2>3, RemovalJoins
  <1>8. ASSUME NEW s \in offered, NEW r \in Requests[s], BeginConfigure(s, r) PROVE JoinInv'
    <2>1. s \in Services /\ r \in Record /\ "configure" \in Updates
      BY <1>8, OfferedIs DEF Updates
    <2>2. /\ Idle /\ Begin("configure", s, r, ConfigurePlan(s, r)) /\ Framed
          /\ UNCHANGED <<cut, robbed>> /\ Plannable(s, r) /\ Installed(s)
          /\ r.auth /\ (~record[s].auth \/ record[s].url # r.url) => Registrable(r)
      BY <1>8 DEF BeginConfigure, Framed, history
    <2>3. /\ ConfigurePlan(s, r) \in Planned(s, r)
          /\ \E q \in Planned(s, r) : ConfigurePlan(s, r) = q \o <<Step("restart", s, {})>>
      BY <1>1, <2>1, <2>2, ConfigureIs
    <2> QED
      BY <2>1, <2>2, <2>3, UpdateJoins
  <1>9. ASSUME NEW s \in offered, BeginUpgrade(s) PROVE JoinInv'
    <2>1. s \in Services /\ "upgrade" \in Updates
      BY <1>9, OfferedIs DEF Updates
    <2>2. /\ Idle /\ Begin("upgrade", s, record[s], UpgradePlan(s)) /\ Framed
          /\ UNCHANGED <<cut, robbed>> /\ Plannable(s, record[s]) /\ Installed(s)
      BY <1>9 DEF BeginUpgrade, Framed, history
    <2>3. /\ UpgradePlan(s) \in Planned(s, record[s])
          /\ \E q \in Planned(s, record[s]) : UpgradePlan(s) = q \o <<Step("restart", s, {})>>
      BY <1>1, <2>1, <2>2, UpgradeIs
    <2>4. record[s] \in Record
      BY <1>1, <2>1, FilesTyped
    <2> QED
      BY <2>1, <2>2, <2>3, <2>4, UpdateJoins
  <1> QED
    BY <1>3, <1>4, <1>5, <1>6, <1>7, <1>8, <1>9 DEF Command

\* With no command left, what is due is what is recorded.
LEMMA NoneDue ==
    ASSUME job' = NoJob, plan' = << >>
    PROVE  /\ job'.kind \notin {"add"} \cup Updates /\ Left' = {}
           /\ \A t : (Due(t)' = record'[t]) /\ (Wanted(t)' <=> Installed(t)' /\ Sound(t)')
  <1>1. job'.kind = "none" /\ Left' = {}
    BY EmptyIs DEF NoJob, Left
  <1> QED
    BY <1>1 DEF Due, Updates, Wanted, Arriving, Adding, Removing, Removes

LEMMA RetryJoins == ASSUME Inv, JoinInv, RetryAdd PROVE JoinInv'
  <1>1. /\ job.kind = "recover" /\ plan = << >> /\ Framed /\ UNCHANGED <<cut, robbed>>
        /\ S \in Services /\ job.request \in Record
    BY DEF RetryAdd, Framed, S, Inv, Typed
  <1>2. S \notin home
    BY <1>1 DEF Inv, RemoveInv, Removes
  <1>3. CASE CanAdd(S, job.request) /\ PlanAdd(S, job.request)
    BY <1>1, <1>2, <1>3, AddJoins
  <1>4. CASE job' = NoJob /\ plan' = plan
    <2>1. UNCHANGED <<quadlet, recorded, record, running, stranded>> /\ ~Installed(S)
      BY <1>1, <1>2 DEF Framed, files, Installed, Inv, Typed, TypeOK
    <2>2. \A t : Wanted(t)' => Wanted(t)
      BY <1>1, <1>4, <2>1, NoneDue DEF Wanted, Arriving, Removing, Installed, Sound
    <2>3. \A t : Due(t)' = Due(t)
      BY <1>1, <1>4, <2>1, NoneDue DEF Due, Updates
    <2>4. \A n : ~Sound(n) => ~Sound(n)'
      BY <1>1 DEF Sound
    <2> QED
      BY <1>1, <1>4, <2>1, <2>2, <2>3, <2>4, NoneDue, RestJoins
  <1> QED
    BY <1>3, <1>4 DEF RetryAdd, S

LEMMA FinishJoins == ASSUME Inv, JoinInv, Finish PROVE JoinInv'
  <1>1. /\ plan = << >> /\ plan' = << >> /\ job' = NoJob
        /\ UNCHANGED <<quadlet, recorded, record, running, stranded>>
        /\ \A t : Sound(t)' /\ ~Sound(t) => job.kind \in Removes /\ t = S
    BY DEF Finish, files, Sound, S, Removes
  <1>2. job.kind \in Removes => ~quadlet[S].present \/ S \in Native
    BY <1>1 DEF Inv, RemoveInv
  <1>3. \A t \in Services \ Native : Wanted(t)' => Wanted(t)
    BY <1>1, <1>2, NoneDue DEF Wanted, Arriving, Removing, Installed
  <1>4. \A s \in Consumers : Due(s)' = Due(s)
    <2>1. Left = {}
      BY <1>1, RestJoined
    <2>2. job.kind \in {"add"} \cup Updates => record[S] = job.request
      BY <2>1 DEF JoinInv, Recording
    <2>3. \A s \in Consumers : Due(s) = record[s]
      BY <2>2 DEF Due
    <2> QED
      BY <1>1, <2>3, NoneDue
  <1>5. ASSUME NEW s \in Consumers \ stranded, NEW n \in quadlet[s].networks, ~Sound(n)
        PROVE  ~Sound(n)'
    <2>1. n \in Providers /\ quadlet[n].present
      BY <1>5 DEF JoinInv, Named
    <2>2. n \notin Native
      BY <2>1, ProvidersApart
    <2> QED
      BY <1>1, <1>2, <1>5, <2>1, <2>2
  <1> QED
    BY <1>1, <1>3, <1>4, <1>5, NoneDue, RestJoins

LEMMA ResetJoins == ASSUME Inv, ScrapeInv, JoinInv, FinalizeReset PROVE JoinInv'
  <1>1. /\ job.kind = "reset" /\ plan = << >> /\ plan' = << >> /\ job' = NoJob
        /\ UNCHANGED <<quadlet, running, stranded, recorded>>
    BY DEF FinalizeReset, files
  <1>2. \A t : ~Wanted(t)'
    BY <1>1, NoneDue DEF ScrapeInv, WipedInv, Installed
  <1> QED
    BY <1>1, <1>2, NoneDue, RestJoins

LEMMA CutJoins == ASSUME Inv, JoinInv, CutShort PROVE JoinInv'
  <1>1. /\ job' = NoJob /\ plan' = << >>
        /\ UNCHANGED <<quadlet, record, recorded, running, stranded, robbed>>
        /\ cut' = cut \cup (IF job.kind = "reset" THEN Services ELSE {S})
    BY DEF CutShort, files, S
  <1>2. S \in Services
    BY DEF Inv, Typed, S
  <1>3. \A t \in Services : Wanted(t)' => Wanted(t) /\ t # S
    BY <1>1, <1>2, NoneDue DEF Wanted, Arriving, Removing, Installed, Sound
  <1> QED
    BY <1>1, <1>2, <1>3, AbandonJoins, NoneDue

LEMMA FailJoins == ASSUME Inv, JoinInv, AddFails PROVE JoinInv'
  <1>1. /\ job.kind = "add" /\ job' = [job EXCEPT !.kind = "cleanup"] /\ plan' = RemovePlan(S, "purge")
        /\ UNCHANGED <<quadlet, record, recorded, running, stranded, cut, robbed>>
    BY DEF AddFails, S, files, history
  <1>2. job'.kind = "cleanup" /\ S' = S
    BY <1>1 DEF Inv, Typed, S
  <1>3. \A t : Wanted(t)' => Wanted(t) /\ t # S
    BY <1>1, <1>2 DEF Wanted, Arriving, Adding, Removing, Removes, Installed, Sound
  <1>4. /\ \A x \in Left' : x.op # "quadlet"
        /\ Step("takedown", S, {}) \in Left'
    <2> DEFINE p == RemovePlan(S, "purge") down == Step("takedown", S, {})
    <2>1. Removal(p, S, "purge") /\ Head(p) = down
      BY RemoveIs DEF Inv, Typed, S, Finals
    <2> HIDE DEF p, down
    <2>2. p \in Seq(RemoveSteps(S)) /\ p # << >>
      BY <2>1 DEF Removal
    <2>3. down \in ToSet(p) /\ \A x \in ToSet(p) : x.op # "quadlet"
      BY <2>1, <2>2, TailIs DEF RemoveSteps, Finals, ToSet
    <2> QED
      BY <1>1, <2>3 DEF Left, p, down
  <1>5. job'.kind \notin {"add"} \cup Updates
    BY <1>2 DEF Updates
  <1> QED
    BY <1>1, <1>2, <1>3, <1>4, <1>5, AbandonJoins

\* But for what runs, the wiring of consumers is as it was.
LEMMA SameJoins ==
    ASSUME JoinInv, UNCHANGED <<job, plan, quadlet, record, recorded, stranded, cut, robbed>>, Fresh'
    PROVE  JoinInv'
  <1>1. S' = S /\ Left' = Left
    BY DEF S, Left
  <1>2. /\ \A t : (Installed(t)' <=> Installed(t)) /\ (Sound(t)' <=> Sound(t))
        /\ \A t : (Removing(t)' <=> Removing(t)) /\ (Adding(t)' <=> Adding(t))
    BY <1>1 DEF Installed, Sound, Removing, Adding
  <1>3. \A t : (Arriving(t)' <=> Arriving(t)) /\ (Wanted(t)' <=> Wanted(t))
    BY <1>2 DEF Arriving, Wanted
  <1>4. \A t, n : Uses(t, n)' <=> Uses(t, n)
    <2>1. \A t : Due(t)' = Due(t)
      BY SameDue
    <2> QED
      BY <2>1 DEF Uses
  <1>5. Joined'
    BY <1>1, <1>3, <1>4 DEF JoinInv, Joined, OwnQuadlet
  <1>6. Named'
    BY SameNamed DEF JoinInv
  <1>7. Units'
    BY <1>1, <1>2, <1>3, <1>4 DEF JoinInv, Units, OwnQuadlet
  <1>8. First' /\ Restarted(plan)' /\ Recording'
    BY <1>1 DEF JoinInv, First, Restarted, Recording, OwnQuadlet, OwnRecord
  <1> QED
    BY <1>5, <1>6, <1>7, <1>8 DEF JoinInv

LEMMA RebootJoins == ASSUME Inv, JoinInv, Reboot PROVE JoinInv'
  <1>1. /\ Idle /\ running' = [s \in Services |-> IF Startable(s) THEN quadlet[s] ELSE Off]
        /\ UNCHANGED <<job, plan, quadlet, record, recorded, stranded, cut, robbed>>
    BY DEF Reboot, history
  <1>2. ASSUME NEW s \in Consumers \ stranded, Wanted(s)' PROVE running'[s] = quadlet'[s]
    <2>1. Installed(s)
      BY <1>1, <1>2 DEF Idle, Wanted, Arriving, Adding, Installed
    <2>2. Startable(s)
      BY <1>2, <2>1 DEF Startable, Installed, JoinInv, Named
    <2> QED
      BY <1>1, <2>2, Apart
  <1>3. Fresh'
    BY <1>1, <1>2 DEF Fresh
  <1> QED
    BY <1>1, <1>3, SameJoins

LEMMA StutterJoins == ASSUME JoinInv, UNCHANGED vars PROVE JoinInv'
  <1>1. UNCHANGED <<job, plan, quadlet, running, record, recorded, stranded, cut, robbed>>
    BY DEF vars, files, history
  <1>2. S' = S /\ Left' = Left
    BY <1>1 DEF S, Left
  <1>3. \A t : (Sound(t)' <=> Sound(t)) /\ (Wanted(t)' <=> Wanted(t)) /\ (Restarts(t)' <=> Restarts(t))
    BY <1>1, <1>2 DEF Sound, Wanted, Arriving, Installed, Adding, Removing, Restarts
  <1>4. Fresh'
    BY <1>1, <1>2, <1>3 DEF JoinInv, Fresh
  <1> QED
    BY <1>1, <1>4, SameJoins

LEMMA InitJoins == Init => JoinInv
  <1> SUFFICES ASSUME Init PROVE JoinInv
    OBVIOUS
  <1>1. /\ recorded = {} /\ job.kind = "none" /\ plan = << >> /\ Left = {}
        /\ quadlet = [s \in Services |-> NoQuadlet]
    BY EmptyIs DEF Init, NoJob, Left
  <1>2. \A t : ~Wanted(t)
    BY <1>1 DEF Wanted, Arriving, Installed, Adding
  <1>3. \A s \in Consumers : quadlet[s].networks = {}
    BY <1>1, Apart DEF NoQuadlet
  <1>4. Joined /\ Named /\ Fresh /\ Units
    BY <1>1, <1>2, <1>3 DEF Joined, Named, Fresh, Units
  <1>5. First /\ Recording
    BY <1>1 DEF First, Recording, Updates
  <1>6. Restarted(plan)
    BY <1>1, NoneToRestart DEF Left
  <1> QED
    BY <1>4, <1>5, <1>6 DEF JoinInv

LEMMA NextJoins == Inv /\ ScrapeInv /\ JoinInv /\ [Next]_vars => JoinInv'
  BY CommandJoins, RetryJoins, ExecuteJoins, FinishJoins, ResetJoins, FailJoins, CutJoins,
     RebootJoins, StutterJoins DEF Next

LEMMA IdleJoins == Inv /\ JoinInv => ConsumersJoined
  <1> SUFFICES ASSUME Inv, JoinInv, Idle, NEW s \in Services \ Providers,
                      Installed(s), Sound(s), s \notin Native
               PROVE  /\ \A p \in {Proxy, Relay, Store} : Installed(p) /\ Sound(p)
                            /\ ((p = Proxy /\ Routed(record[s])) \/ (p = Relay /\ record[s].smtp)
                              \/ (p = Store /\ Bridged(s))) => p \in quadlet[s].networks
                      /\ s \notin stranded =>
                            Startable(s) /\ (running[s] = quadlet[s] \/ \E p \in Providers : ~Sound(p))
    BY DEF ConsumersJoined
  <1>1. plan = << >> /\ s \in Consumers
    BY DEF Inv, Typed, Consumers
  <1>2. \A t : Installed(t) /\ Sound(t) => Wanted(t)
    BY DEF Idle, Wanted, Arriving, Adding, Removing, Removes
  <1>3. Due(s) = record[s]
    BY DEF Due, Idle, Updates
  <1>4. ASSUME NEW p \in Joinable, Installed(p), Sound(p), Needs(s, record[s], p)
        PROVE  p \in quadlet[s].networks
    <2>1. Uses(s, p)
      BY <1>3, <1>4, UsesIs
    <2> QED
      BY <1>1, <1>2, <1>4, <2>1, RestJoined
  <1>5. quadlet[s].networks \subseteq Providers
    BY <1>1 DEF JoinInv, Named
  <1>6. ASSUME s \notin stranded
        PROVE  Startable(s) /\ (running[s] = quadlet[s] \/ \E p \in Providers : ~Sound(p))
    <2>1. Startable(s)
      BY <1>1, <1>6 DEF Startable, Installed, JoinInv, Named
    <2> QED
      BY <1>1, <1>2, <1>5, <1>6, <2>1, RestJoined
  <1> QED
    BY <1>4, <1>6 DEF Needs, Joinable

\* Between commands a routed, mailing or scraped service is on the network of
\* the installed proxy, relay or store, its container runs on the networks its
\* unit file names, and every one of those is of a service that is there, in
\* whatever order they were added, configured, upgraded or removed, but for
\* services that a command was cut short on, that lost a file to another's
\* re-render, or whose network was taken down under them.
THEOREM ConsumersAlwaysJoined == Spec => []ConsumersJoined
  <1>1. Spec => [](Inv /\ ScrapeInv /\ JoinInv)
    BY InitInv, NextKeeps, InitScrapes, NextScrapes, InitJoins, NextJoins, WiringConstants, PTL DEF Spec
  <1> QED
    BY <1>1, IdleJoins, PTL

(***************************************************************************)
(* What points at a service that is there, and what a plan will point at   *)
(* one: at the others, which nobody changes, and at the service of the     *)
(* command, as it is asked for.                                            *)
(***************************************************************************)
RouteFile == <<"caddyfile", Proxy>>
Unrouted == Native \cup {Idp} \cup doubled

\* A route v or the redirects v of the service t are in order.
RightRoute(t, v) ==
    v # "none" => /\ Installed(t) /\ record[t].url = v /\ v \in Hosts
                  /\ RouteFile \in listed[t]
RightClient(t, v) == v # {} => t \notin Native /\ Installed(t) /\ record[t].auth

RoutesRight(t) ==
    /\ RightRoute(t, RouteOf(t))
    /\ \A x \in Left : x.op = "caddyfile" => RightRoute(t, x.val[t])
ClientsRight(t) ==
    /\ RightClient(t, ClientOf(t))
    /\ \A x \in Left : x.op = "clients" => RightClient(t, x.val[t])
OthersRight ==
    job.kind # "reset" => \A t \in Services : (Idle \/ t # S) /\ Sound(t) =>
        /\ t \notin Unrouted => RoutesRight(t)
        /\ ClientsRight(t)
        /\ t \in targets \ Native /\ Arriving(Store) => Installed(t)

\* The manifest lists the Caddyfile, so that the next render drops the route.
Lists == /\ \A x \in Left : x.op = "manifest" => RouteFile \in x.val
         /\ RouteFile \in listed[S] \/ \E x \in Left : x.op = "manifest"
OwnRoute(v) == v = "none" \/ (~Removing(S) /\ v = job.request.url /\ v \in Hosts /\ Lists)
OwnClient(v) == v = {} \/ (~Removing(S) /\ job.request.auth /\ S \notin Native)
Reroutes(x) == x.op = "caddyfile" \/ (x.op = "drop" /\ x.val = RouteFile)

OwnRoutes ==
    /\ \A x \in Left : x.op = "caddyfile" => OwnRoute(x.val[S])
    /\ OwnRoute(RouteOf(S)) \/ (~Adding(S) /\ \E x \in Left : Reroutes(x))
OwnClients ==
    /\ \A x \in Left : x.op = "clients" => OwnClient(x.val[S])
    /\ \/ OwnClient(ClientOf(S))
       \/ ~Adding(S) /\ \E x \in Left : x.op = "clients"
       \/ Removing(S) /\ S = Idp /\ plan # << >>
OwnTarget ==
    Removing(S) /\ S \in targets \ Native /\ Installed(Store) /\ S # Store => Step("target", S, FALSE) \in Left
OwnRight ==
    ~Idle /\ job.kind # "reset" /\ Sound(S) =>
        (S \notin Unrouted => OwnRoutes) /\ OwnClients /\ OwnTarget

\* The proxy has no route to itself.
NoOwnRoute == RouteOf(Proxy) = "none" /\ \A x \in Left : x.op = "caddyfile" => x.val[Proxy] = "none"

\* [auth] names a provider that is installed, but while a command is about it.
Exempt == S = Idp /\ job.kind \in {"add", "remove", "cleanup"}
AuthInv ==
    /\ Sound(Idp) /\ job.kind # "reset" /\ ~Exempt => (prefs.auth <=> Installed(Idp))
    /\ S = Idp /\ job.kind = "add" => prefs.auth
    /\ job.kind = "recover" => ~Installed(S)
WipedAll == job.kind = "reset" /\ plan = << >> => caddyfile = NoFile /\ clients = NoFile /\ recorded = {}

StaleInv == OthersRight /\ OwnRight /\ NoOwnRoute /\ AuthInv /\ WipedAll

(***************************************************************************)
(* What a step has to keep.                                                *)
(***************************************************************************)
LEMMA StepsLeft ==
    ASSUME Inv, plan # << >>, plan' = Tail(plan), job' = job
    PROVE  /\ Left = {Head(plan)} \cup Left' /\ S' = S /\ S \in Services /\ ~Idle
           /\ \A t : (Removing(t)' <=> Removing(t)) /\ (Adding(t)' <=> Adding(t))
           /\ Removing(S) /\ plan' = << >> => Head(plan).op \in Finals
  <1>1. Typed /\ plan \in Seq(AllSteps)
    BY DEF Inv, Typed
  <1>2. Left = {Head(plan)} \cup Left' /\ S' = S /\ S \in Services /\ ~Idle
    BY <1>1, PlanIs DEF Left, S, Typed
  <1>3. \A t : (Removing(t)' <=> Removing(t)) /\ (Adding(t)' <=> Adding(t))
    BY <1>2 DEF Removing, Adding
  <1>4. ASSUME Removing(S), plan' = << >> PROVE Head(plan).op \in Finals
    <2>1. EndsWith(plan, Finals)
      BY <1>4 DEF Inv, RemoveInv, Removing
    <2> QED
      BY <1>1, <1>4, <2>1, EndsTail
  <1> QED
    BY <1>2, <1>3, <1>4

\* The others stay as they are.
OthersStay ==
    \A t \in Services \ {S} : Sound(t)' =>
        (Installed(t) => Installed(t)') /\ record'[t] = record[t] /\ listed'[t] = listed[t]
\* What the step x does to routes, clients, targets and the manifest.
RoutesBy(x) ==
    \A t \in Services : \/ RouteOf(t)' = RouteOf(t) /\ ~Reroutes(x)
                        \/ RouteOf(t)' = "none"
                        \/ x.op = "caddyfile" /\ RouteOf(t)' = x.val[t]
ClientsBy(x) ==
    /\ \A t \in Services : \/ ClientOf(t)' = ClientOf(t) /\ x.op # "clients"
                           \/ ClientOf(t)' = {}
                           \/ x.op = "clients" /\ ClientOf(t)' = x.val[t]
    /\ x.op \in Finals /\ S = Idp => ClientOf(Idp)' = {}
TargetsBy(x) ==
    \A t \in targets' : \/ t \in targets /\ x # Step("target", t, FALSE)
                        \/ x = Step("target", t, TRUE)
ListedBy(x) == ~Removing(S) => listed'[S] = IF x.op = "manifest" THEN x.val ELSE listed[S]
\* An update may write the unit file of a proxy that was taken away meanwhile.
Rewritten(t) == t = Proxy /\ job.kind \in Updates
Steps(x) ==
    /\ OthersStay /\ RoutesBy(x) /\ ClientsBy(x) /\ TargetsBy(x) /\ ListedBy(x)
    /\ \A t \in Services : Installed(t)' => Arriving(t) \/ Rewritten(t)

LEMMA StepOthers ==
    ASSUME Inv, OthersRight, plan # << >>, plan' = Tail(plan), job' = job, cut' = cut, robbed \subseteq robbed',
           doubled' = doubled, Steps(Head(plan))
    PROVE  OthersRight'
  <1> DEFINE h == Head(plan)
  <1>1. Left = {h} \cup Left' /\ S' = S /\ S \in Services /\ ~Idle /\ ~Idle'
    BY StepsLeft DEF Idle
  <1>2. \A t : Sound(t)' => Sound(t)
    BY DEF Sound
  <1> SUFFICES ASSUME job.kind # "reset", NEW t \in Services, t # S, Sound(t)'
               PROVE  /\ t \notin Unrouted' => RoutesRight(t)'
                      /\ ClientsRight(t)'
                      /\ t \in targets' \ Native /\ Arriving(Store)' => Installed(t)'
    BY <1>1 DEF OthersRight
  <1>3. /\ t \notin Unrouted => RoutesRight(t)
        /\ ClientsRight(t)
        /\ t \in targets \ Native /\ Arriving(Store) => Installed(t)
    BY <1>1, <1>2 DEF OthersRight
  <1>4. (Installed(t) => Installed(t)') /\ record'[t] = record[t] /\ listed'[t] = listed[t]
    BY DEF Steps, OthersStay
  <1>5. ASSUME t \notin Unrouted PROVE RoutesRight(t)'
    <2>1. RightRoute(t, RouteOf(t)) /\ \A x \in Left : x.op = "caddyfile" => RightRoute(t, x.val[t])
      BY <1>3, <1>5 DEF RoutesRight
    <2>2. RightRoute(t, RouteOf(t)') \/ RouteOf(t)' = "none"
      BY <1>1, <2>1 DEF Steps, RoutesBy
    <2>3. RightRoute(t, RouteOf(t)')
      BY <2>2 DEF RightRoute
    <2>4. \A x \in Left' : x.op = "caddyfile" => RightRoute(t, x.val[t])
      BY <1>1, <2>1
    <2> QED
      BY <1>4, <2>3, <2>4 DEF RoutesRight, RightRoute, RouteFile
  <1>6. ClientsRight(t)'
    <2>1. RightClient(t, ClientOf(t)) /\ \A x \in Left : x.op = "clients" => RightClient(t, x.val[t])
      BY <1>3 DEF ClientsRight
    <2>2. RightClient(t, ClientOf(t)') \/ ClientOf(t)' = {}
      BY <1>1, <2>1 DEF Steps, ClientsBy
    <2>3. RightClient(t, ClientOf(t)')
      BY <2>2 DEF RightClient
    <2>4. \A x \in Left' : x.op = "clients" => RightClient(t, x.val[t])
      BY <1>1, <2>1
    <2> QED
      BY <1>4, <2>3, <2>4 DEF ClientsRight, RightClient
  <1>7. ASSUME t \in targets' \ Native, Arriving(Store)' PROVE Installed(t)'
    <2>1. Arriving(Store)
      BY <1>1, <1>7, StepsLeft, ProvidersApart DEF Arriving, Steps, Rewritten
    <2>2. CASE t \in targets
      BY <1>3, <1>4, <1>7, <2>1, <2>2
    <2>3. CASE h = Step("target", t, TRUE)
      <3>1. h.op = "target" /\ h.of = t /\ h.val = TRUE
        BY <2>3 DEF Step
      <3> HIDE DEF h
      <3>2. h \in Left
        BY <1>1
      <3>3. h \in WireSteps(S)
        BY <3>1, <3>2, LeftIs DEF NativeSteps, OwnQuadlet, OwnRecord, RemoveSteps, ConfigureSteps,
             ResetSteps, Finals
      <3> QED
        BY <1>4, <3>1, <3>3 DEF WireSteps
    <2> QED
      BY <1>7, <2>2, <2>3 DEF Steps, TargetsBy
  <1> QED
    BY <1>5, <1>6, <1>7 DEF Unrouted

LEMMA StepOwn ==
    ASSUME Inv, OwnRight, plan # << >>, plan' = Tail(plan), job' = job, cut' = cut, robbed \subseteq robbed',
           doubled' = doubled, Steps(Head(plan))
    PROVE  OwnRight'
  <1> DEFINE h == Head(plan)
  <1>1. Left = {h} \cup Left' /\ S' = S /\ S \in Services /\ ~Idle /\ ~Idle'
    BY StepsLeft DEF Idle
  <1>2. \A t : (Removing(t)' <=> Removing(t)) /\ (Adding(t)' <=> Adding(t))
    BY StepsLeft
  <1>3. Removing(S) /\ plan' = << >> => h.op \in Finals
    BY StepsLeft
  <1> SUFFICES ASSUME job.kind # "reset", Sound(S)'
               PROVE  (S \notin Unrouted' => OwnRoutes') /\ OwnClients' /\ OwnTarget'
    BY <1>1 DEF OwnRight
  <1>4. (S \notin Unrouted => OwnRoutes) /\ OwnClients /\ OwnTarget
    BY <1>1 DEF OwnRight, Sound
  <1>5. RoutesBy(h) /\ ClientsBy(h) /\ TargetsBy(h) /\ ListedBy(h)
    BY DEF Steps
  <1>6. h.op = "manifest" => h \in Left
    BY <1>1
  <1> HIDE DEF h
  <1>7. ~Removing(S) /\ Lists => Lists'
    BY <1>1, <1>5 DEF Lists, ListedBy
  <1>8. \A v : OwnRoute(v) => OwnRoute(v)'
    BY <1>1, <1>2, <1>7 DEF OwnRoute
  <1>9. \A v : OwnClient(v) => OwnClient(v)'
    BY <1>1, <1>2 DEF OwnClient
  <1>10. ASSUME S \notin Unrouted PROVE OwnRoutes'
    <2>1. /\ \A x \in Left : x.op = "caddyfile" => OwnRoute(x.val[S])
          /\ OwnRoute(RouteOf(S)) \/ (~Adding(S) /\ \E x \in Left : Reroutes(x))
      BY <1>4, <1>10 DEF OwnRoutes
    <2>2. \A x \in Left' : x.op = "caddyfile" => OwnRoute(x.val[S])'
      BY <1>1, <1>8, <2>1
    <2>3. \/ RouteOf(S)' = RouteOf(S) /\ ~Reroutes(h)
          \/ RouteOf(S)' = "none"
          \/ h.op = "caddyfile" /\ RouteOf(S)' = h.val[S]
      BY <1>1, <1>5 DEF RoutesBy
    <2>5. OwnRoute(RouteOf(S)') \/ (~Adding(S) /\ \E x \in Left' : Reroutes(x)) \/ RouteOf(S)' = "none"
      BY <1>1, <2>1, <2>3
    <2>6. \/ RouteOf(S)' = "none"
          \/ ~Removing(S)' /\ RouteOf(S)' = job'.request.url /\ RouteOf(S)' \in Hosts /\ Lists'
          \/ ~Adding(S) /\ \E x \in Left' : Reroutes(x)
      BY <1>1, <1>2, <1>7, <2>5 DEF OwnRoute
    <2> QED
      BY <1>1, <1>2, <2>2, <2>6 DEF OwnRoutes, OwnRoute, Reroutes
  <1>11. OwnClients'
    <2>1. \A x \in Left' : x.op = "clients" => OwnClient(x.val[S])'
      BY <1>1, <1>4, <1>9 DEF OwnClients
    <2>2. \/ ClientOf(S)' = ClientOf(S) /\ h.op # "clients"
          \/ ClientOf(S)' = {}
          \/ h.op = "clients" /\ ClientOf(S)' = h.val[S]
      BY <1>1, <1>5 DEF ClientsBy
    <2>3. Removing(S) /\ S = Idp => plan' # << >> \/ ClientOf(S)' = {}
      BY <1>1, <1>3, <1>5 DEF ClientsBy
    <2>4. \/ OwnClient(ClientOf(S)') \/ ClientOf(S)' = {}
          \/ ~Adding(S) /\ \E x \in Left' : x.op = "clients"
          \/ Removing(S) /\ S = Idp /\ plan' # << >>
      BY <1>1, <1>4, <2>2, <2>3 DEF OwnClients
    <2>5. \/ ClientOf(S)' = {} \/ (~Removing(S)' /\ job'.request.auth /\ S \notin Native)
          \/ ~Adding(S) /\ \E x \in Left' : x.op = "clients"
          \/ Removing(S) /\ S = Idp /\ plan' # << >>
      BY <1>1, <1>2, <2>4 DEF OwnClient
    <2> QED
      BY <1>1, <1>2, <2>1, <2>5 DEF OwnClients, OwnClient
  <1>12. OwnTarget'
    <2> SUFFICES ASSUME Removing(S), S \in targets' \ Native, Installed(Store)', S # Store
                 PROVE  Step("target", S, FALSE) \in Left'
      BY <1>1, <1>2 DEF OwnTarget
    <2>1. Installed(Store)
      BY <1>1, ProvidersApart DEF Steps, Arriving, Adding, Removing, Removes, Rewritten, h
    <2>2. h # Step("target", S, TRUE)
      <3>1. h \in RemoveSteps(S)
        BY HeadIs DEF Removing, h
      <3> QED
        BY <3>1 DEF RemoveSteps, Step
    <2> QED
      BY <1>1, <1>4, <1>5, <2>1, <2>2 DEF TargetsBy, OwnTarget
  <1> QED
    BY <1>1, <1>10, <1>11, <1>12 DEF Unrouted

\* A step that does what Steps says keeps all of it.
LEMMA StepStale ==
    ASSUME Inv, Inv', StaleInv, plan # << >>, plan' = Tail(plan), job' = job, job.kind # "reset",
           cut' = cut, robbed \subseteq robbed', doubled' = doubled, prefs' = prefs, Steps(Head(plan))
    PROVE  StaleInv'
  <1> DEFINE h == Head(plan)
  <1>1. Left = {h} \cup Left' /\ S' = S /\ S \in Services /\ ~Idle /\ ~Idle'
    BY StepsLeft DEF Idle
  <1>2. OthersRight' /\ OwnRight'
    BY StepOthers, StepOwn DEF StaleInv
  <1>3. NoOwnRoute'
    <2>1. RouteOf(Proxy) = "none" /\ \A x \in Left : x.op = "caddyfile" => x.val[Proxy] = "none"
      BY DEF StaleInv, NoOwnRoute
    <2>2. RouteOf(Proxy)' = "none"
      BY <1>1, <2>1, ProvidersApart DEF Steps, RoutesBy
    <2> QED
      BY <1>1, <2>1, <2>2 DEF NoOwnRoute
  <1>4. \A t \in Services : Installed(t)' => Installed(t) \/ (job.kind = "add" /\ t = S) \/ Rewritten(t)
    BY DEF Steps, Arriving, Adding
  <1>5. AuthInv'
    <2>1. /\ Sound(Idp) /\ ~Exempt => (prefs.auth <=> Installed(Idp))
          /\ S = Idp /\ job.kind = "add" => prefs.auth
          /\ job.kind = "recover" => ~Installed(S)
      BY DEF StaleInv, AuthInv
    <2>2. ASSUME Sound(Idp)', ~Exempt' PROVE prefs'.auth <=> Installed(Idp)'
      <3>1. Sound(Idp) /\ ~Exempt /\ Idp \in Services
        BY <1>1, <2>2, ProvidersApart DEF Sound, Exempt
      <3>2. CASE S # Idp
        <4>1. Installed(Idp)' <=> Installed(Idp)
          BY <1>1, <1>4, <2>2, <3>1, <3>2, ProvidersApart DEF Steps, OthersStay, Rewritten
        <4> QED
          BY <2>1, <3>1, <4>1
      <3>3. CASE S = Idp /\ job.kind \in Updates
        BY <1>1, <2>1, <3>1, <3>3 DEF Inv, UpdateInv
      <3>4. CASE S = Idp /\ job.kind \notin Updates
        <4>1. job.kind = "recover"
          BY <1>1, <3>1, <3>4, HeadIs DEF Exempt, Removes
        <4> QED
          BY <1>1, <1>4, <2>1, <3>1, <3>4, <4>1 DEF Rewritten, Updates
      <3> QED
        BY <3>2, <3>3, <3>4
    <2>3. job.kind = "recover" => ~Installed(S)'
      BY <1>1, <1>4, <2>1 DEF Rewritten, Updates
    <2> QED
      BY <1>1, <2>1, <2>2, <2>3 DEF AuthInv
  <1>6. WipedAll'
    BY DEF WipedAll
  <1> QED
    BY <1>2, <1>3, <1>5, <1>6 DEF StaleInv

(***************************************************************************)
(* Each step does what it may.                                             *)
(***************************************************************************)
\* A step that leaves the files of others alone.
LEMMA PlainSteps ==
    ASSUME NEW x, x.op \notin {"caddyfile", "drop", "clients", "target", "manifest"} \cup Finals, OthersStay,
           UNCHANGED <<caddyfile, targets, listed>>, clients' = clients \/ \A t \in Services : ClientOf(t)' = {},
           \A t \in Services : Installed(t)' => Arriving(t) \/ Rewritten(t)
    PROVE  Steps(x)
  <1>1. RoutesBy(x)
    BY DEF RoutesBy, Reroutes, RouteOf
  <1>2. ClientsBy(x)
    BY DEF ClientsBy, ClientOf
  <1>3. TargetsBy(x) /\ ListedBy(x)
    BY DEF TargetsBy, ListedBy, Step
  <1> QED
    BY <1>1, <1>2, <1>3 DEF Steps

LEMMA QuadletBy == ASSUME Inv, WriteQuadlet PROVE Steps(Head(plan))
  <1> DEFINE x == Head(plan)
  <1>1. /\ plan # << >> /\ x.op = "quadlet"
        /\ quadlet' = [quadlet EXCEPT ![x.of] = Joining(x.val)]
        /\ UNCHANGED <<record, recorded, caddyfile, clients, targets, listed, cut, robbed>>
    BY DEF WriteQuadlet, At, Of, Val
  <1>2. x.of \in Services /\ quadlet \in [Services -> Networks]
    BY <1>1, HeadIs, StepsTyped, FilesTyped DEF Inv, Typed
  <1>3. x.of \in recorded => Arriving(x.of) \/ Rewritten(x.of)
    <2>1. CASE job.kind = "add"
      BY <1>1, <2>1, HeadIs DEF NativeSteps, OwnRecord, OwnQuadlet, OwnStep, WireSteps, Arriving, Adding
    <2>2. CASE job.kind \in Updates
      <3>1. Installed(S) /\ x.of \in {S, Proxy}
        BY <1>1, <2>2, HeadIs DEF Inv, UpdateInv, ConfigureSteps
      <3> QED
        BY <2>2, <3>1 DEF Arriving, Rewritten
    <2>3. CASE job.kind \in Removes \cup {"reset"}
      BY <1>1, <2>3, HeadIs DEF RemoveSteps, ResetSteps, Finals
    <2> QED
      BY <1>1, <2>1, <2>2, <2>3, HeadIs
  <1> HIDE DEF x
  <1>4. \A t \in Services : Installed(t) => Installed(t)'
    BY <1>1, <1>2 DEF Installed, Joining
  <1>5. \A t \in Services : Installed(t)' => Arriving(t) \/ Rewritten(t)
    BY <1>1, <1>2, <1>3 DEF Installed, Joining, Arriving
  <1>6. OthersStay
    BY <1>1, <1>4 DEF OthersStay
  <1> QED
    BY <1>1, <1>5, <1>6, PlainSteps DEF Finals, x

LEMMA RecordBy == ASSUME Inv, WriteRecord PROVE Steps(Head(plan))
  <1> DEFINE x == Head(plan)
  <1>1. /\ plan # << >> /\ x.op = "record"
        /\ record' = [record EXCEPT ![x.of] = x.val] /\ recorded' = recorded \cup {x.of}
        /\ clients' = IF x.of = Idp THEN [s \in Services |-> {}] ELSE clients
        /\ UNCHANGED <<quadlet, caddyfile, targets, listed>>
    BY DEF WriteRecord, At, Of, Val
  <1>2. x.of = S /\ job.kind \in {"add"} \cup Updates
    BY <1>1, HeadIs DEF NativeSteps, OwnRecord, OwnQuadlet, OwnStep, WireSteps, Files, ConfigureSteps,
       RemoveSteps, ResetSteps, Finals
  <1>3. S \in Services /\ record \in [Services -> Record]
    BY <1>1, HeadIs, FilesTyped DEF Inv, Typed
  <1> HIDE DEF x
  <1>4. OthersStay
    BY <1>1, <1>2, <1>3 DEF OthersStay, Installed
  <1>5. \A t \in Services : Installed(t)' => Arriving(t)
    <2>1. Arriving(S)
      BY <1>2 DEF Arriving, Adding, Inv, UpdateInv
    <2> QED
      BY <1>1, <1>2, <2>1 DEF Arriving, Installed
  <1>6. clients' = clients \/ \A t \in Services : ClientOf(t)' = {}
    BY <1>1 DEF ClientOf
  <1> QED
    BY <1>1, <1>4, <1>5, <1>6, PlainSteps DEF Finals, x

LEMMA SharedBy == ASSUME Inv, WriteShared PROVE Steps(Head(plan))
  <1> DEFINE x == Head(plan)
  <1>1. /\ plan # << >> /\ x.op \in {"caddyfile", "clients", "snippet", "target", "source"}
        /\ caddyfile' = IF x.op = "caddyfile" THEN x.val ELSE caddyfile
        /\ clients' = IF x.op = "clients" THEN x.val ELSE clients
        /\ targets' = IF x.op = "target" THEN {t \in targets : t # x.of} \cup {t \in {x.of} : x.val}
                      ELSE targets
        /\ UNCHANGED <<record, recorded, quadlet, listed>>
    BY DEF WriteShared, At, Of, Val
  <1>2. x \in AllSteps /\ StepTyped(x) /\ x = Step(x.op, x.of, x.val)
    BY <1>1, HeadIs, StepsTyped
  <1>3. /\ x.op = "caddyfile" => x.val \in [Services -> Urls]
        /\ x.op = "clients" => x.val \in [Services -> SUBSET Urls]
        /\ x.op = "target" => x.val = TRUE \/ x.val = FALSE
    BY <1>2 DEF StepTyped, Orders
  <1> HIDE DEF x
  <1>4. OthersStay /\ \A t \in Services : Installed(t)' => Arriving(t)
    BY <1>1 DEF OthersStay, Installed, Arriving
  <1>5. RoutesBy(x)
    <2>1. x.op = "caddyfile" => caddyfile' # NoFile
      BY <1>1, <1>3, NotNoFile
    <2> QED
      BY <1>1, <2>1 DEF RoutesBy, RouteOf, Reroutes
  <1>6. ClientsBy(x)
    <2>1. x.op = "clients" => clients' # NoFile
      BY <1>1, <1>3, NotNoFile
    <2> QED
      BY <1>1, <2>1 DEF ClientsBy, ClientOf, Finals
  <1>7. TargetsBy(x)
    <2>1. CASE x.op = "target"
      <3>1. CASE x.val = TRUE
        BY <1>1, <1>2, <2>1, <3>1 DEF TargetsBy, Step
      <3>2. CASE x.val = FALSE
        BY <1>1, <1>2, <2>1, <3>2 DEF TargetsBy, Step
      <3> QED
        BY <1>3, <2>1, <3>1, <3>2
    <2>2. CASE x.op # "target"
      BY <1>1, <2>2 DEF TargetsBy, Step
    <2> QED
      BY <2>1, <2>2
  <1>8. ListedBy(x)
    BY <1>1 DEF ListedBy
  <1> QED
    BY <1>4, <1>5, <1>6, <1>7, <1>8 DEF Steps, x

LEMMA ManifestBy == ASSUME Inv, WriteManifest PROVE Steps(Head(plan))
  <1> DEFINE x == Head(plan)
  <1>1. /\ plan # << >> /\ x.op = "manifest" /\ listed' = [listed EXCEPT ![x.of] = x.val]
        /\ UNCHANGED <<record, recorded, quadlet, caddyfile, clients, targets>>
    BY DEF WriteManifest, At, Of, Val
  <1>2. x.of = S /\ S \in Services
    BY <1>1, HeadIs DEF NativeSteps, OwnRecord, OwnQuadlet, OwnStep, WireSteps, ConfigureSteps,
       RemoveSteps, ResetSteps, Finals
  <1>3. listed \in [Services -> SUBSET (Files \X Services)]
    BY FilesTyped DEF Inv, Typed
  <1> HIDE DEF x
  <1>4. OthersStay /\ \A t \in Services : Installed(t)' => Arriving(t)
    BY <1>1, <1>2, <1>3 DEF OthersStay, Installed, Arriving
  <1>5. RoutesBy(x) /\ ClientsBy(x) /\ TargetsBy(x)
    BY <1>1 DEF RoutesBy, ClientsBy, TargetsBy, RouteOf, ClientOf, Reroutes, Step, Finals
  <1>6. ListedBy(x)
    BY <1>1, <1>2, <1>3 DEF ListedBy
  <1> QED
    BY <1>4, <1>5, <1>6 DEF Steps, x

LEMMA StartBy == ASSUME Inv, Start PROVE Steps(Head(plan))
  <1> DEFINE x == Head(plan)
  <1>1. /\ plan # << >> /\ x.op \in {"start", "restart"}
        /\ caddyfile' = caddyfile \/ caddyfile' = NoRoutes
        /\ UNCHANGED <<record, recorded, quadlet, clients, targets, listed>>
    BY DEF Start, At, Of
  <1> HIDE DEF x
  <1>2. OthersStay /\ \A t \in Services : Installed(t)' => Arriving(t)
    BY <1>1 DEF OthersStay, Installed, Arriving
  <1>3. RoutesBy(x)
    BY <1>1, RoutesAreNone DEF RoutesBy, RouteOf, Reroutes
  <1>4. ClientsBy(x) /\ TargetsBy(x) /\ ListedBy(x)
    BY <1>1 DEF ClientsBy, TargetsBy, ListedBy, ClientOf, Step, Finals
  <1> QED
    BY <1>2, <1>3, <1>4 DEF Steps, x

LEMMA TakeDownBy == ASSUME Inv, TakeDown, job.kind # "reset" PROVE Steps(Head(plan))
  <1> DEFINE x == Head(plan)
  <1>1. /\ plan # << >> /\ x.op = "takedown" /\ quadlet' = [quadlet EXCEPT ![x.of] = NoQuadlet]
        /\ UNCHANGED <<record, recorded, caddyfile, clients, targets, listed>>
    BY DEF TakeDown, At, Of
  <1>2. x.of = S /\ S \in Services
    BY <1>1, HeadIs DEF NativeSteps, OwnRecord, OwnQuadlet, OwnStep, WireSteps, Files, ConfigureSteps,
       RemoveSteps, Finals
  <1>3. quadlet \in [Services -> Networks]
    BY FilesTyped DEF Inv, Typed
  <1> HIDE DEF x
  <1>4. OthersStay /\ \A t \in Services : Installed(t)' => Arriving(t)
    BY <1>1, <1>2, <1>3 DEF OthersStay, Installed, Arriving, NoQuadlet
  <1> QED
    BY <1>1, <1>4, PlainSteps DEF Finals, x

LEMMA DropBy == ASSUME Inv, DropFile PROVE Steps(Head(plan))
  <1> DEFINE x == Head(plan) f == Head(plan).val[1] t == Head(plan).val[2]
  <1>1. /\ plan # << >> /\ x.op = "drop" /\ t \in robbed'
        /\ quadlet' = quadlet \/ quadlet' = [quadlet EXCEPT ![t] = NoQuadlet]
        /\ caddyfile' = IF f = "caddyfile" THEN NoFile ELSE caddyfile
        /\ clients' = clients \/ clients' = NoFile
        /\ targets' \subseteq targets
        /\ UNCHANGED <<record, recorded, listed>>
    BY DEF DropFile, At, Of, Val
  <1>2. quadlet \in [Services -> Networks]
    BY FilesTyped DEF Inv, Typed
  <1>3. x.val = RouteFile => f = "caddyfile"
    BY DEF RouteFile
  <1> HIDE DEF x, f, t
  <1>4. OthersStay /\ \A s \in Services : Installed(s)' => Arriving(s)
    BY <1>1, <1>2 DEF OthersStay, Installed, Arriving, NoQuadlet, Sound
  <1>5. RoutesBy(x)
    BY <1>1, <1>3 DEF RoutesBy, RouteOf, Reroutes
  <1>6. ClientsBy(x) /\ TargetsBy(x) /\ ListedBy(x)
    BY <1>1 DEF ClientsBy, TargetsBy, ListedBy, ClientOf, Step, Finals
  <1> QED
    BY <1>4, <1>5, <1>6 DEF Steps, x

LEMMA ClearBy == ASSUME Inv, ClearHome PROVE Steps(Head(plan))
  <1> DEFINE x == Head(plan)
  <1>1. /\ plan # << >> /\ x.op \in Finals
        /\ recorded' = recorded \/ recorded' = recorded \ {x.of}
        /\ record' = record \/ record' = [record EXCEPT ![x.of] = Nothing]
        /\ caddyfile' = IF x.of = Proxy THEN NoFile ELSE caddyfile
        /\ clients' = IF x.of = Idp THEN NoFile ELSE clients
        /\ targets' \subseteq targets
        /\ listed' = [listed EXCEPT ![x.of] = {}] /\ quadlet' = quadlet
    BY DEF ClearHome, At, Of, Finals
  <1>2. x.of = S /\ S \in Services /\ Removing(S)
    BY <1>1, HeadIs DEF NativeSteps, OwnRecord, OwnQuadlet, OwnStep, WireSteps, Files, ConfigureSteps,
       RemoveSteps, ResetSteps, Finals, Removing
  <1>3. record \in [Services -> Record] /\ listed \in [Services -> SUBSET (Files \X Services)]
    BY FilesTyped DEF Inv, Typed
  <1> HIDE DEF x
  <1>4. OthersStay /\ \A t \in Services : Installed(t)' => Arriving(t)
    BY <1>1, <1>2, <1>3 DEF OthersStay, Installed, Arriving
  <1>5. RoutesBy(x)
    BY <1>1 DEF RoutesBy, RouteOf, Reroutes, Finals
  <1>6. ClientsBy(x)
    BY <1>1, <1>2 DEF ClientsBy, ClientOf, Finals
  <1>7. TargetsBy(x) /\ ListedBy(x)
    BY <1>1, <1>2 DEF TargetsBy, ListedBy, Step, Finals
  <1> QED
    BY <1>4, <1>5, <1>6, <1>7 DEF Steps, x

\* A reset takes the units down and wipes all the rest at once.
LEMMA WipesBy ==
    ASSUME Inv, StaleInv, job.kind = "reset", TakeDown \/ Wipe
    PROVE  StaleInv'
  <1>1. plan # << >> /\ plan' = Tail(plan) /\ job' = job
    BY DEF TakeDown, Wipe, At, Next1
  <1>2. Left' \subseteq Left /\ \A x \in Left : x.op \in {"takedown", "wipe"}
    <2>1. Left' \subseteq Left
      BY <1>1, StepsLeft
    <2> QED
      BY <2>1, LeftIs DEF ResetSteps
  <1>3. OthersRight' /\ OwnRight' /\ AuthInv'
    BY <1>1 DEF OthersRight, OwnRight, AuthInv
  <1>4. RouteOf(Proxy)' = RouteOf(Proxy) \/ RouteOf(Proxy)' = "none"
    BY DEF RouteOf, TakeDown, Wipe
  <1>5. NoOwnRoute'
    BY <1>2, <1>4 DEF NoOwnRoute, StaleInv
  <1>6. WipedAll'
    <2> SUFFICES ASSUME plan' = << >> PROVE Wipe
      BY DEF WipedAll, Wipe
    <2>1. EndsWith(plan, {"wipe"}) /\ plan \in Seq(AllSteps)
      BY DEF Inv, ResetInv, Typed
    <2>2. Head(plan).op = "wipe"
      BY <1>1, <2>1, EndsTail
    <2> QED
      BY <2>2 DEF TakeDown, At
  <1> QED
    BY <1>3, <1>5, <1>6 DEF StaleInv

LEMMA ExecuteStale == ASSUME Inv, Inv', StaleInv, Execute PROVE StaleInv'
  <1>1. /\ plan # << >> /\ plan' = Tail(plan) /\ job' = job /\ doubled' = doubled /\ prefs' = prefs
        /\ cut' = cut /\ robbed \subseteq robbed'
    BY DEF Execute, WriteQuadlet, WriteRecord, WriteShared, WriteManifest, Start, TakeDown, DropFile,
       ClearHome, Wipe, At, Next1
  <1>2. CASE job.kind = "reset"
    <2>1. Head(plan).op \in {"takedown", "wipe"}
      BY <1>1, <1>2, HeadIs DEF ResetSteps
    <2>2. TakeDown \/ Wipe
      BY <2>1 DEF Execute, WriteQuadlet, WriteRecord, WriteShared, WriteManifest, Start, DropFile,
         ClearHome, At
    <2> QED
      BY <1>2, <2>2, WipesBy
  <1>3. CASE job.kind # "reset"
    <2>1. ~Wipe
      BY <1>1, <1>3, HeadIs DEF Wipe, At, NativeSteps, OwnRecord, OwnQuadlet, OwnStep, WireSteps, Files,
         ConfigureSteps, RemoveSteps, Finals
    <2>2. Steps(Head(plan))
      BY <1>3, <2>1, QuadletBy, RecordBy, SharedBy, ManifestBy, StartBy, TakeDownBy, DropBy, ClearBy
         DEF Execute
    <2> QED
      BY <1>1, <1>3, <2>2, StepStale
  <1> QED
    BY <1>2, <1>3

(***************************************************************************)
(* What the plans do to the routes and clients of their service.           *)
(***************************************************************************)

\* A plan that does not write the Caddyfile twice writes it in one way.
LEMMA OneCaddyfile ==
    ASSUME NEW X, NEW p \in Seq(X), ~(Cardinality({i \in DOMAIN p : p[i].op = "caddyfile"}) > 1),
           NEW x \in ToSet(p), NEW y \in ToSet(p), x.op = "caddyfile", y.op = "caddyfile"
    PROVE  x = y
  <1> DEFINE I == {i \in DOMAIN p : p[i].op = "caddyfile"}
  <1>1. PICK i \in DOMAIN p, j \in DOMAIN p : x = p[i] /\ y = p[j]
    BY DEF ToSet
  <1>2. SUFFICES ASSUME i # j PROVE FALSE
    BY <1>1
  <1>3. Len(p) \in Nat /\ DOMAIN p = 1 .. Len(p)
    BY LenProperties
  <1>4. IsFiniteSet(1 .. Len(p)) /\ I \subseteq 1 .. Len(p) /\ {i, j} \subseteq I
    BY <1>1, <1>3, FS_Interval
  <1>5. IsFiniteSet(I) /\ Cardinality(I) \in Nat /\ ~(Cardinality(I) > 1)
    BY <1>4, FS_Subset, FS_CardinalityType
  <1> HIDE DEF I
  <1>6. IsFiniteSet({i}) /\ Cardinality({i}) = 1 /\ j \notin {i}
    BY <1>2, FS_Singleton
  <1>7. Cardinality({i} \cup {j}) = 2
    <2> DEFINE one == Cardinality({i})
               two == Cardinality({i} \cup {j})
    <2>1. one = 1 /\ two = one + 1
      BY <1>6, FS_AddElement
    <2> HIDE DEF one, two
    <2>2. two = 2
      BY <2>1
    <2> QED
      BY <2>2 DEF two
  <1>8. {i} \cup {j} \subseteq I
    BY <1>4
  <1>9. Cardinality({i} \cup {j}) <= Cardinality(I)
    BY <1>5, <1>8, FS_Subset
  <1>10. 2 <= Cardinality(I)
    BY <1>7, <1>9
  <1> QED
    BY <1>5, <1>10

\* The manifest lists the Caddyfile if and only if the render writes it.
LEMMA RouteListed ==
    ASSUME TypeOK, Housed, NEW s \in Services, NEW r \in Record, Routable(s, r)
    PROVE  RouteFile \in Written(Rerendered(s, r), s) <=> Routed(r) /\ s # Proxy /\ Installed(Proxy)
  <1> DEFINE x == Step("quadlet", s, ExtraNetworks(s, r))
             y == Step("record", s, r)
             z == Step("caddyfile", Proxy, WithRoute(s, r.url))
             c == Routed(r) /\ s # Proxy /\ Installed(Proxy)
             p == When(quadlet[s].networks # ExtraNetworks(s, r), <<x>>)
             q == When(record[s] # r, <<y>>)
             w == RouteSteps(s, r)
  <1>1. x \in AllSteps /\ y \in AllSteps /\ ExtraNetworks(s, r) \subseteq Services
    BY StepsMade, ProvidersApart DEF ExtraNetworks
  <1>2. x.op # "caddyfile" /\ y.op # "caddyfile" /\ FileOf(z) = RouteFile /\ z.op = "caddyfile"
    BY DEF Step, FileOf, RouteFile
  <1>3. w \in Seq(AllSteps) /\ (c => z \in ToSet(w)) /\ (~c => w = << >>)
    <2>1. SharedSteps(s, r) \subseteq AllSteps
      BY DEF SharedSteps
    <2>2. ~c => w = << >>
      BY DEF RouteSteps, When
    <2> QED
      BY <2>1, <2>2, RouteIs, SeqMono
  <1>4. Rerendered(s, r) = p \o q \o w
    BY DEF Rerendered
  <1> HIDE DEF x, y, z, c, w
  <1>5. p \in Seq(AllSteps) /\ ToSet(p) \subseteq {x}
    BY <1>1, SingleIs, EmptyIs DEF When
  <1>6. q \in Seq(AllSteps) /\ ToSet(q) \subseteq {y}
    BY <1>1, SingleIs, EmptyIs DEF When
  <1> HIDE DEF p, q
  <1> DEFINE pq == p \o q
  <1>7. pq \in Seq(AllSteps) /\ ToSet(pq) = ToSet(p) \cup ToSet(q)
    BY <1>5, <1>6, Concatenated
  <1>8. Rerendered(s, r) = pq \o w
    BY <1>4
  <1> HIDE DEF pq
  <1>9. ToSet(Rerendered(s, r)) = ToSet(p) \cup ToSet(q) \cup ToSet(w)
    BY <1>3, <1>7, <1>8, Concatenated
  <1>10. c => RouteFile \in Written(Rerendered(s, r), s)
    BY <1>2, <1>3, <1>9 DEF Written
  <1>11. ASSUME RouteFile \in Written(Rerendered(s, r), s) PROVE c
    <2>1. PICK u \in ToSet(Rerendered(s, r)) : FileOf(u) = RouteFile
      BY <1>11 DEF Written
    <2>2. u.op = "caddyfile"
      BY <2>1 DEF FileOf, RouteFile
    <2>3. u \in ToSet(w)
      BY <1>2, <1>5, <1>6, <1>9, <2>1, <2>2
    <2> QED
      BY <1>3, <2>3, EmptyIs
  <1> QED
    BY <1>10, <1>11 DEF c

\* The steps of an add that route and register, and the manifest it writes.
LEMMA AddRoutes ==
    ASSUME TypeOK, Housed, NEW s \in Services, NEW r \in Record, s \notin home, CanAdd(s, r)
    PROVE  LET p == ToSet(AddPlan(s, r)) w == Written(WiringSteps(s, r), s) IN
           /\ \A x \in p : Keeps(x, s)
           /\ s \in Native => \A x \in p : x.op # "clients"
           /\ s \notin Native =>
                /\ \A x \in p : Owned(x, s, r)
                /\ \A x \in p : x.op = "manifest" => x.val = w
                /\ \E x \in p : x.op = "manifest"
                /\ \A x \in p : x.op = "caddyfile" => RouteFile \in w
  <1>1. CASE s \in Native
    <2>1. \A x \in ToSet(AddPlan(s, r)) : x \in NativeSteps(s)
      BY <1>1, NativeAddIs DEF ToSet
    <2> QED
      BY <1>1, <2>1 DEF NativeSteps, OwnRecord, OwnQuadlet
  <1>2. CASE s \notin Native
    <2> DEFINE w == WiringSteps(s, r)
               v == Written(w, s)
               m == Step("manifest", s, v)
               z == Step("start", s, {})
               a == Step("quadlet", s, ExtraNetworks(s, r))
               b == Step("record", s, r)
               p == ToSet(AddPlan(s, r))
    <2>1. w \in Seq(AddSteps(s, r)) /\ p = {a, b} \cup ToSet(w) \cup {m, z}
      BY <1>2, PodmanParts
    <2>0. ~Installed(s) /\ Routable(s, r) /\ Registrable(r)
      BY <1>2, FilesTyped DEF Installed, CanAdd, Plannable
    <2>2. w \in Seq(WireSteps(s))
      BY <2>0, WiringIs
    <2>3. /\ \A x \in {a, b, m, z} : x.op \notin {"caddyfile", "clients"}
          /\ m.op = "manifest" /\ m.val = v
          /\ \A x \in {a, b, z} : x.op # "manifest"
      BY DEF Step
    <2> HIDE DEF w, m, z, a, b, p
    <2>4. \A x \in ToSet(w) : x \in AddSteps(s, r) /\ x \in WireSteps(s)
      BY <2>1, <2>2, ElementOfSeq, LenProperties DEF ToSet
    <2>5. \A x \in p : x \in ToSet(w) \/ x.op \notin {"caddyfile", "clients"}
      BY <2>1, <2>3
    <2>6. \A x \in p : Keeps(x, s) /\ Owned(x, s, r)
      BY <2>4, <2>5 DEF Keeps, Owned, AddSteps, WireSteps
    <2>7. \A x \in p : x.op = "manifest" => x.val = v
      BY <2>1, <2>3, <2>4 DEF AddSteps
    <2>8. \A x \in p : x.op = "caddyfile" => RouteFile \in v
      <3> SUFFICES ASSUME NEW x \in ToSet(w), x.op = "caddyfile" PROVE RouteFile \in v
        BY <2>5
      <3>1. x \in AllSteps
        BY <2>4 DEF AddSteps
      <3>2. x.of = Proxy
        BY <3>1, StepsTyped DEF StepTyped, Orders
      <3>3. FileOf(x) = RouteFile
        BY <3>2 DEF FileOf, RouteFile
      <3> QED
        BY <3>3 DEF Written
    <2> QED
      BY <1>2, <2>1, <2>3, <2>6, <2>7, <2>8 DEF p, w
  <1> QED
    BY <1>1, <1>2

(***************************************************************************)
(* The commands begin.                                                     *)
(***************************************************************************)

\* Nothing is said of the others that was not true of them before.
LEMMA BeginOthers ==
    ASSUME Inv, OthersRight, job.kind # "reset", NEW s \in Services, Idle \/ S = s, Framed,
           UNCHANGED <<cut, robbed>>, doubled \subseteq doubled', S' = s, job'.kind # "none",
           \A x \in Left' : Keeps(x, s), Arriving(Store)' => Arriving(Store) \/ targets = {}
    PROVE  OthersRight'
  <1>1. UNCHANGED <<record, targets, listed>> /\ UNCHANGED files
    BY DEF Framed, files
  <1>2. \A t : /\ Installed(t)' <=> Installed(t)
               /\ RouteOf(t)' = RouteOf(t) /\ ClientOf(t)' = ClientOf(t)
    BY <1>1, SameFiles
  <1> SUFFICES ASSUME NEW t \in Services, t # s, Sound(t)'
               PROVE  /\ t \notin Unrouted' => RoutesRight(t)'
                      /\ ClientsRight(t)'
                      /\ t \in targets' \ Native /\ Arriving(Store)' => Installed(t)'
    BY DEF OthersRight, Idle
  <1>3. /\ t \notin Unrouted => RoutesRight(t)
        /\ ClientsRight(t)
        /\ t \in targets \ Native /\ Arriving(Store) => Installed(t)
    BY DEF OthersRight, Sound
  <1>4. ASSUME t \notin Unrouted' PROVE RoutesRight(t)'
    <2>1. t \notin Unrouted /\ t # Idp
      BY <1>4 DEF Unrouted
    <2>2. RightRoute(t, RouteOf(t))
      BY <1>3, <2>1 DEF RoutesRight
    <2>3. \A x \in Left' : x.op = "caddyfile" => x.val[t] = RouteOf(t)
      BY <2>1 DEF Keeps
    <2>4. \A x \in Left' : x.op = "caddyfile" => RightRoute(t, x.val[t])
      BY <2>2, <2>3
    <2> QED
      BY <1>1, <1>2, <2>2, <2>4 DEF RoutesRight, RightRoute
  <1>5. ClientsRight(t)'
    <2>1. RightClient(t, ClientOf(t))
      BY <1>3 DEF ClientsRight
    <2>2. \A x \in Left' : x.op = "clients" => x.val[t] = ClientOf(t)
      BY DEF Keeps
    <2>3. \A x \in Left' : x.op = "clients" => RightClient(t, x.val[t])
      BY <2>1, <2>2
    <2> QED
      BY <1>1, <1>2, <2>1, <2>3 DEF ClientsRight, RightClient
  <1> QED
    BY <1>1, <1>2, <1>3, <1>4, <1>5

LEMMA BeginProxy ==
    ASSUME NoOwnRoute, Framed, NEW s, S' = s, \A x \in Left' : Keeps(x, s),
           s = Proxy => \A x \in Left' : x.op = "caddyfile" => x.val[Proxy] \in {RouteOf(Proxy), "none"}
    PROVE  NoOwnRoute'
  <1>1. RouteOf(Proxy)' = RouteOf(Proxy) /\ RouteOf(Proxy) = "none"
    BY DEF Framed, files, RouteOf, NoOwnRoute
  <1>2. \A x \in Left' : x.op = "caddyfile" => x.val[Proxy] = "none"
    BY <1>1, ProvidersApart DEF Keeps
  <1> QED
    BY <1>1, <1>2 DEF NoOwnRoute

LEMMA RightAtRest ==
    ASSUME OthersRight, Idle, NEW s \in Services, Sound(s)
    PROVE  /\ s \notin Unrouted => RightRoute(s, RouteOf(s))
           /\ RightClient(s, ClientOf(s))
           /\ s \in targets \ Native /\ Installed(Store) => Installed(s)
  BY DEF OthersRight, Idle, RoutesRight, ClientsRight, Arriving

\* A service that is not there has neither a route nor clients left.
LEMMA NothingLeft ==
    ASSUME OthersRight, OwnRight, plan = << >>, job.kind \in {"none", "recover"}, NEW s \in Services,
           job.kind = "recover" => S = s, ~Installed(s), Sound(s)
    PROVE  (s \notin Unrouted => RouteOf(s) = "none") /\ ClientOf(s) = {}
  <1>1. CASE Idle
    BY <1>1, RightAtRest DEF RightRoute, RightClient
  <1>2. CASE ~Idle
    <2>1. job.kind = "recover" /\ S = s /\ Removing(S) /\ Left = {}
      BY <1>2, EmptyIs DEF Idle, Removing, Removes, Left
    <2>2. (S \notin Unrouted => OwnRoutes) /\ OwnClients
      BY <1>2, <2>1 DEF OwnRight
    <2> QED
      BY <2>1, <2>2 DEF OwnRoutes, OwnClients, OwnRoute, OwnClient
  <1> QED
    BY <1>1, <1>2

LEMMA AddStale ==
    ASSUME Inv, StaleInv, plan = << >>, job.kind \in {"none", "recover"}, NEW s \in Services,
           NEW r \in Record, job.kind = "recover" => S = s, s \notin home, CanAdd(s, r), PlanAdd(s, r),
           Framed, UNCHANGED <<cut, robbed>>
    PROVE  StaleInv'
  <1> DEFINE p == ToSet(AddPlan(s, r))
             w == Written(WiringSteps(s, r), s)
  <1>1. /\ job' = [kind |-> "add", service |-> s, request |-> r] /\ Left' = p
        /\ doubled \subseteq doubled' /\ prefs' = [prefs EXCEPT !.auth = @ \/ s = Idp]
    BY DEF PlanAdd, Begin, Left
  <1>2. S' = s /\ job'.kind = "add" /\ job'.request = r
    BY <1>1 DEF S
  <1>3. TypeOK /\ Housed /\ ~Installed(s)
    BY FilesTyped DEF Inv, Typed, TypeOK, Installed
  <1>4. /\ \A x \in p : Keeps(x, s)
        /\ s \in Native => \A x \in p : x.op # "clients"
        /\ s \notin Native =>
             /\ \A x \in p : Owned(x, s, r)
             /\ \A x \in p : x.op = "manifest" => x.val = w
             /\ \E x \in p : x.op = "manifest"
             /\ \A x \in p : x.op = "caddyfile" => RouteFile \in w
    BY <1>3, AddRoutes
  <1> HIDE DEF p, w
  <1>5. UNCHANGED <<home, record, recorded, targets, listed>> /\ UNCHANGED files
    BY DEF Framed, files
  <1>6. \A t : /\ (Installed(t)' <=> Installed(t)) /\ (Sound(t)' <=> Sound(t))
               /\ RouteOf(t)' = RouteOf(t) /\ ClientOf(t)' = ClientOf(t)
    BY <1>2, <1>5, SameFiles DEF Sound
  <1>7. Idle \/ S = s
    BY DEF Idle
  <1>8. OthersRight'
    <2>1. Arriving(Store)' => Arriving(Store) \/ targets = {}
      BY <1>2, <1>3, <1>6 DEF Arriving, Adding, Housed
    <2> QED
      BY <1>1, <1>2, <1>4, <1>7, <2>1, BeginOthers DEF StaleInv
  <1>9. OwnRight'
    <2> SUFFICES ASSUME Sound(s)'
                 PROVE  (s \notin Unrouted' => OwnRoutes') /\ OwnClients' /\ OwnTarget'
      BY <1>2 DEF OwnRight
    <2>1. Sound(s) /\ ~Removing(S)' /\ (Unrouted \subseteq Unrouted')
      BY <1>1, <1>2, <1>6 DEF Removing, Removes, Unrouted
    <2>2. (s \notin Unrouted => RouteOf(s) = "none") /\ ClientOf(s) = {}
      BY <1>3, <2>1, NothingLeft DEF StaleInv
    <2>3. ASSUME s \notin Unrouted' PROVE OwnRoutes'
      <3>1. s \notin Native /\ s # Idp /\ RouteOf(s) = "none"
        BY <2>1, <2>2, <2>3 DEF Unrouted
      <3>2. ASSUME NEW x \in Left', x.op = "caddyfile" PROVE OwnRoute(x.val[s])'
        <4>1. CASE x.val[s] = "none"
          BY <1>2, <4>1 DEF OwnRoute
        <4>2. CASE x.val[s] # "none"
          <5>1. Routed(r) /\ x.val[s] = r.url
            BY <1>1, <1>4, <3>1, <3>2, <4>2 DEF Owned
          <5>2. Lists'
            BY <1>1, <1>4, <3>1, <3>2 DEF Lists
          <5> QED
            BY <1>2, <2>1, <5>1, <5>2 DEF OwnRoute, Routed
        <4> QED
          BY <4>1, <4>2
      <3>3. OwnRoute(RouteOf(S))'
        BY <1>2, <1>6, <3>1 DEF OwnRoute
      <3> QED
        BY <1>2, <3>2, <3>3 DEF OwnRoutes
    <2>4. OwnClients'
      <3>1. OwnClient(ClientOf(S))'
        BY <1>2, <1>6, <2>2 DEF OwnClient
      <3>2. \A x \in Left' : x.op = "clients" => OwnClient(x.val[S])'
        BY <1>1, <1>2, <1>4, <2>1 DEF OwnClient, Owned
      <3> QED
        BY <3>1, <3>2 DEF OwnClients
    <2> QED
      BY <2>1, <2>3, <2>4 DEF OwnTarget
  <1>10. NoOwnRoute'
    <2>1. s = Proxy => \A x \in Left' : x.op = "caddyfile" => x.val[Proxy] \in {RouteOf(Proxy), "none"}
      BY <1>1, <1>4, ProvidersApart DEF Owned, Providers
    <2> QED
      BY <1>1, <1>2, <1>4, <2>1, BeginProxy DEF StaleInv
  <1>11. AuthInv'
    <2>1. prefs'.auth <=> prefs.auth \/ s = Idp
      BY <1>1 DEF Inv, Typed
    <2>2. Sound(Idp) => (prefs.auth <=> Installed(Idp))
      BY DEF StaleInv, AuthInv, Exempt
    <2> QED
      BY <1>2, <1>6, <2>1, <2>2 DEF AuthInv, Exempt
  <1>12. WipedAll'
    BY <1>2 DEF WipedAll
  <1> QED
    BY <1>8, <1>9, <1>10, <1>11, <1>12 DEF StaleInv

\* A removal takes away what points at its service, or its service itself.
LEMMA RemovalRight ==
    ASSUME Inv, NoOwnRoute, Framed, UNCHANGED <<cut, robbed>>, doubled \subseteq doubled',
           NEW s \in Services, NEW last \in Finals, NEW p, Removal(p, s, last),
           S' = s, plan' = p, job'.kind \in Removes,
           Sound(s) /\ s \notin Unrouted /\ RouteOf(s) # "none" => Installed(s) /\ Routed(record[s]),
           Sound(s) /\ ClientOf(s) # {} => s \notin Native /\ Installed(s) /\ record[s].auth,
           Sound(s) /\ s \in targets \ Native /\ Installed(Store) /\ s # Store => Installed(s),
           Installed(s) /\ s \notin Native => Clears(ToSet(p), s)
    PROVE  OwnRight' /\ NoOwnRoute' /\ \A x \in Left' : Keeps(x, s)
  <1>1. UNCHANGED <<record, targets, listed>> /\ UNCHANGED files
    BY DEF Framed, files
  <1>2. \A t : /\ (Installed(t)' <=> Installed(t)) /\ (Sound(t)' <=> Sound(t))
               /\ RouteOf(t)' = RouteOf(t) /\ ClientOf(t)' = ClientOf(t)
    BY <1>1, SameFiles DEF Sound
  <1>3. Left' = ToSet(p) /\ p # << >> /\ \A x \in Left' : x \in RemoveSteps(s)
    <2>1. p \in Seq(RemoveSteps(s)) /\ p # << >> /\ Left' = ToSet(p)
      BY DEF Removal, Left
    <2> QED
      BY <2>1, ElementOfSeq, LenProperties DEF ToSet
  <1>4. Removing(S)' /\ ~Adding(S)'
    BY DEF Removing, Adding, Removes
  <1>5. /\ \A x \in Left' : /\ Keeps(x, s)
                            /\ x.op = "caddyfile" => s # Proxy /\ x.val[s] = "none"
                            /\ x.op = "clients" => x.val[s] = {}
    BY <1>3 DEF RemoveSteps
  <1>6. NoOwnRoute'
    BY <1>5, BeginProxy
  <1>7. OwnRight'
    <2> SUFFICES ASSUME Sound(s)
                 PROVE  (s \notin Unrouted' => OwnRoutes') /\ OwnClients' /\ OwnTarget'
      BY <1>2 DEF OwnRight
    <2>1. ASSUME s \notin Unrouted' PROVE OwnRoutes'
      <3>1. s \notin Unrouted /\ s \notin Native
        BY <2>1 DEF Unrouted
      <3>2. \A x \in Left' : x.op = "caddyfile" => OwnRoute(x.val[S])'
        BY <1>5 DEF OwnRoute
      <3>3. CASE RouteOf(s) = "none"
        BY <1>2, <3>2, <3>3 DEF OwnRoutes, OwnRoute
      <3>4. CASE RouteOf(s) # "none"
        <4>1. s # Proxy /\ Step("caddyfile", Proxy, WithoutRoute(s)) \in ToSet(p)
          BY <3>1, <3>4 DEF NoOwnRoute, Clears
        <4>2. Reroutes(Step("caddyfile", Proxy, WithoutRoute(s)))
          BY DEF Reroutes, Step
        <4> QED
          BY <1>3, <1>4, <3>2, <4>1, <4>2 DEF OwnRoutes
      <3> QED
        BY <3>3, <3>4
    <2>2. OwnClients'
      <3>1. \A x \in Left' : x.op = "clients" => OwnClient(x.val[S])'
        BY <1>5 DEF OwnClient
      <3>2. CASE ClientOf(s) = {}
        BY <1>2, <3>1, <3>2 DEF OwnClients, OwnClient
      <3>3. CASE s = Idp
        BY <1>3, <1>4, <3>1, <3>3 DEF OwnClients
      <3>4. CASE ClientOf(s) # {} /\ s # Idp
        <4>1. Forgets(s) \in ToSet(p) /\ Forgets(s).op = "clients"
          BY <3>4 DEF Clears, Forgets, Step
        <4> QED
          BY <1>3, <1>4, <3>1, <4>1 DEF OwnClients
      <3> QED
        BY <3>2, <3>3, <3>4
    <2>3. OwnTarget'
      <3>1. ASSUME s \in targets \ Native, Installed(Store), s # Store PROVE Step("target", s, FALSE) \in ToSet(p)
        BY <3>1 DEF Clears
      <3> QED
        BY <1>1, <1>2, <1>3, <3>1 DEF OwnTarget
    <2> QED
      BY <2>1, <2>2, <2>3
  <1> QED
    BY <1>5, <1>6, <1>7

LEMMA RemovalStale ==
    ASSUME Inv, StaleInv, Idle, NEW s \in Services, NEW r, NEW p, NEW last \in Finals,
           Removal(p, s, last), NEW kind \in {"remove", "recover"}, Begin(kind, s, r, p),
           Framed, UNCHANGED <<cut, robbed, prefs>>, kind = "recover" => ~Installed(s),
           Installed(s) /\ s \notin Native => Clears(ToSet(p), s)
    PROVE  StaleInv'
  <1>1. S' = s /\ plan' = p /\ job'.kind = kind /\ doubled \subseteq doubled' /\ job'.kind \in Removes
    BY DEF Begin, S, Removes
  <1>2. \A t : (Installed(t)' <=> Installed(t)) /\ (Sound(t)' <=> Sound(t))
    BY DEF Framed, files, Installed, Sound
  <1>3. ASSUME Sound(s)
        PROVE  /\ s \notin Unrouted => RightRoute(s, RouteOf(s))
               /\ RightClient(s, ClientOf(s))
               /\ s \in targets \ Native /\ Installed(Store) => Installed(s)
    BY <1>3, RightAtRest DEF StaleInv
  <1>4. /\ Sound(s) /\ s \notin Unrouted /\ RouteOf(s) # "none" => Installed(s) /\ Routed(record[s])
        /\ Sound(s) /\ ClientOf(s) # {} => s \notin Native /\ Installed(s) /\ record[s].auth
        /\ Sound(s) /\ s \in targets \ Native /\ Installed(Store) /\ s # Store => Installed(s)
    BY <1>3 DEF RightRoute, RightClient, Routed
  <1>5. OwnRight' /\ NoOwnRoute' /\ \A x \in Left' : Keeps(x, s)
    BY <1>1, <1>4, RemovalRight DEF StaleInv
  <1>6. OthersRight'
    <2>1. Arriving(Store)' => Arriving(Store)
      BY <1>1, <1>2 DEF Arriving, Adding, Removes
    <2>2. job.kind # "reset" /\ job'.kind # "none"
      BY <1>1 DEF Idle, Removes
    <2> QED
      BY <1>1, <1>5, <2>1, <2>2, BeginOthers DEF StaleInv
  <1>7. AuthInv'
    <2>1. Sound(Idp) => (prefs.auth <=> Installed(Idp))
      BY DEF StaleInv, AuthInv, Exempt, Idle
    <2> QED
      BY <1>1, <1>2, <2>1 DEF AuthInv, Removes
  <1>8. WipedAll'
    BY <1>1 DEF WipedAll, Removes
  <1> QED
    BY <1>5, <1>6, <1>7, <1>8 DEF StaleInv

LEMMA FailStale == ASSUME Inv, JoinInv, StaleInv, AddFails PROVE StaleInv'
  <1> DEFINE p == RemovePlan(S, "purge")
  <1>1. /\ job.kind = "add" /\ S \in recorded /\ job' = [job EXCEPT !.kind = "cleanup"] /\ plan' = p
        /\ Framed /\ UNCHANGED <<prefs, cut, robbed, doubled>>
    BY DEF AddFails, S, Framed, history
  <1>2. /\ TypeOK /\ Housed /\ S \in Services /\ "purge" \in Finals
        /\ S' = S /\ job'.kind = "cleanup" /\ job'.kind \in Removes
    BY <1>1 DEF Inv, Typed, S, Finals, Removes
  <1>3. Removal(p, S, "purge") /\ (S \notin Native => Clears(ToSet(p), S))
    BY <1>2, RemoveIs
  <1> HIDE DEF p
  <1>4. \A t : (Installed(t)' <=> Installed(t)) /\ (Sound(t)' <=> Sound(t))
    BY <1>1 DEF Framed, files, Installed, Sound
  <1>5. S \notin Native => Installed(S) /\ record[S] = job.request
    <2>1. S \notin Native => Wires
      BY <1>1 DEF Inv, AddInv, WritesBoth, WritesRecord, Unrecorded
    <2>2. ASSUME Wires PROVE Step("record", S, job.request) \notin Left
      <3>1. Step("record", S, job.request) \notin WireSteps(S)
        BY DEF WireSteps, Step, Files
      <3> QED
        BY <2>2, <3>1 DEF Wires
    <2>3. record[S] = job.request \/ Step("record", S, job.request) \in Left
      BY <1>1 DEF JoinInv, Recording
    <2> QED
      BY <2>1, <2>2, <2>3 DEF Wires
  <1>6. Adding(S) /\ ~Removing(S) /\ ~Idle
    BY <1>1 DEF Adding, Removing, Removes, Idle
  <1>7. ASSUME Sound(S)
        PROVE  /\ S \notin Unrouted /\ RouteOf(S) # "none" => Installed(S) /\ Routed(record[S])
               /\ ClientOf(S) # {} => S \notin Native /\ Installed(S) /\ record[S].auth
    <2>1. (S \notin Unrouted => OwnRoutes) /\ OwnClients
      BY <1>1, <1>6, <1>7 DEF StaleInv, OwnRight
    <2>2. S \notin Unrouted => OwnRoute(RouteOf(S))
      BY <1>6, <2>1 DEF OwnRoutes
    <2>3. OwnClient(ClientOf(S))
      BY <1>6, <2>1 DEF OwnClients
    <2> QED
      BY <1>5, <2>2, <2>3 DEF OwnRoute, OwnClient, Unrouted, Routed
  <1>8. /\ Sound(S) /\ S \notin Unrouted /\ RouteOf(S) # "none" => Installed(S) /\ Routed(record[S])
        /\ Sound(S) /\ ClientOf(S) # {} => S \notin Native /\ Installed(S) /\ record[S].auth
        /\ Sound(S) /\ S \in targets \ Native /\ Installed(Store) /\ S # Store => Installed(S)
    BY <1>5, <1>7
  <1>9. OwnRight' /\ NoOwnRoute' /\ \A x \in Left' : Keeps(x, S)
    BY <1>1, <1>2, <1>3, <1>8, RemovalRight DEF StaleInv
  <1>10. OthersRight'
    <2>1. Arriving(Store)' => Arriving(Store)
      BY <1>2, <1>4 DEF Arriving, Adding
    <2> QED
      BY <1>1, <1>2, <1>9, <2>1, BeginOthers DEF StaleInv
  <1>11. AuthInv'
    BY <1>1, <1>2, <1>4 DEF StaleInv, AuthInv, Exempt
  <1>12. WipedAll'
    BY <1>2 DEF WipedAll
  <1> QED
    BY <1>9, <1>10, <1>11, <1>12 DEF StaleInv

\* What an update writes for its service, and that a route it does not write
\* again is dropped with the Caddyfile the manifest listed.
LEMMA UpdateStale ==
    ASSUME Inv, StaleInv, Idle, NEW kind \in Updates, NEW s \in Services \ (Native \cup {Idp}),
           NEW r \in Record, NEW p \in Planned(s, r), Settles(ToSet(p), s, r), Installed(s),
           Plannable(s, r), Begin(kind, s, r, p), Framed, UNCHANGED <<cut, robbed, prefs>>
    PROVE  StaleInv'
  <1> DEFINE w == Written(Rerendered(s, r), s)
             z == Step("caddyfile", Proxy, WithRoute(s, r.url))
             c == Routed(r) /\ s # Proxy /\ Installed(Proxy)
  <1>1. /\ job' = [kind |-> kind, service |-> s, request |-> r] /\ plan' = p /\ Left' = ToSet(p)
        /\ doubled \subseteq doubled'
        /\ s \notin doubled' => ~(Cardinality({i \in DOMAIN p : p[i].op = "caddyfile"}) > 1)
    BY DEF Begin, Left
  <1>2. /\ S' = s /\ job'.kind = kind /\ job'.request = r
        /\ kind \notin Removes /\ kind # "add" /\ kind # "reset" /\ kind # "none"
    BY <1>1 DEF S, Updates, Removes
  <1>3. ~Removing(S)' /\ ~Adding(S)'
    BY <1>2 DEF Removing, Adding
  <1>4. TypeOK /\ Housed /\ Routable(s, r) /\ r \in Record
    BY DEF Inv, Typed, Plannable
  <1>5. RouteFile \in w <=> c
    BY <1>4, RouteListed
  <1>6. p \in Seq(PlannedSteps(s, r)) /\ Renders(ToSet(p), s, r)
    BY DEF Planned, Led
  <1>7. \A x \in Left' : x \in PlannedSteps(s, r)
    BY <1>1, <1>6, ElementOfSeq, LenProperties DEF ToSet
  <1>8. UNCHANGED <<record, recorded, targets, listed>> /\ UNCHANGED files
    BY DEF Framed, files
  <1>9. \A t : /\ (Installed(t)' <=> Installed(t)) /\ (Sound(t)' <=> Sound(t))
               /\ RouteOf(t)' = RouteOf(t) /\ ClientOf(t)' = ClientOf(t)
    BY <1>2, <1>8, SameFiles DEF Sound
  <1>10. \A x \in Left' : /\ Keeps(x, s) /\ Owned(x, s, r)
                          /\ x.op = "manifest" => x.val = w
                          /\ x.op = "caddyfile" => Installed(Proxy)
    BY <1>7 DEF PlannedSteps
  <1>11. c => z \in Left' /\ z.val[s] = r.url /\ z.op = "caddyfile"
    <2>1. c => caddyfile \in [Services -> Urls]
      BY <1>4, FilesTyped DEF Routable
    <2> QED
      BY <1>1, <1>6, <2>1 DEF Renders, Step, WithRoute
  <1>12. \E x \in Left' : x.op = "manifest"
    BY <1>1 DEF Settles, Manifest, Step
  <1>13. c => Lists'
    BY <1>5, <1>10, <1>12 DEF Lists
  <1> HIDE DEF w, z
  <1>14. OthersRight'
    <2>1. Arriving(Store)' => Arriving(Store)
      BY <1>2, <1>9 DEF Arriving, Adding
    <2> QED
      BY <1>1, <1>2, <1>10, <2>1, BeginOthers DEF StaleInv, Idle
  <1>15. NoOwnRoute'
    <2>1. s = Proxy => \A x \in Left' : x.op = "caddyfile" => x.val[Proxy] \in {RouteOf(Proxy), "none"}
      BY <1>10 DEF Owned
    <2> QED
      BY <1>2, <1>10, <2>1, BeginProxy DEF StaleInv
  <1>16. OwnRight'
    <2> SUFFICES ASSUME Sound(s)
                 PROVE  (s \notin Unrouted' => OwnRoutes') /\ OwnClients' /\ OwnTarget'
      BY <1>2, <1>9 DEF OwnRight
    <2>1. (s \notin Unrouted => RightRoute(s, RouteOf(s))) /\ RightClient(s, ClientOf(s))
      BY RightAtRest DEF StaleInv
    <2>2. ASSUME s \notin Unrouted' PROVE OwnRoutes'
      <3>1. RightRoute(s, RouteOf(s))
        BY <1>1, <2>1, <2>2 DEF Unrouted
      <3>2. \A x, y \in Left' : x.op = "caddyfile" /\ y.op = "caddyfile" => x = y
        BY <1>1, <1>6, <2>2, OneCaddyfile DEF Unrouted
      <3>3. OwnRoute("none")' /\ (c => OwnRoute(r.url)')
        BY <1>2, <1>3, <1>13 DEF OwnRoute, Routed
      <3>4. ASSUME NEW x \in Left', x.op = "caddyfile" PROVE (c /\ x.val[s] = r.url) \/ x.val[s] = "none"
        <4>1. CASE c
          BY <1>11, <3>2, <3>4, <4>1
        <4>2. CASE s = Proxy
          BY <1>10, <3>4, <4>2 DEF StaleInv, NoOwnRoute, Owned
        <4>3. CASE ~c /\ s # Proxy
          <5>1. ~Routed(r) /\ Installed(Proxy) /\ x.val[s] \in {RouteOf(s), "none"}
            BY <1>10, <3>4, <4>3 DEF Owned
          <5>2. CASE RouteOf(s) = "none"
            BY <5>1, <5>2
          <5>3. CASE RouteOf(s) # "none"
            <6> DEFINE y == Step("caddyfile", Proxy, WithoutRoute(s))
            <6>1. Routed(record[s])
              BY <3>1, <5>3 DEF RightRoute, Routed
            <6>2. y \in Left' /\ y.op = "caddyfile"
              BY <1>1, <4>3, <5>1, <5>3, <6>1 DEF Settles, Step
            <6>3. y.val[s] = "none"
              <7>1. caddyfile \in [Services -> Urls]
                BY <1>4, <5>3, FilesTyped DEF RouteOf
              <7> QED
                BY <7>1 DEF Step, WithoutRoute
            <6> HIDE DEF y
            <6> QED
              BY <3>2, <3>4, <6>2, <6>3
          <5> QED
            BY <5>2, <5>3
        <4> QED
          BY <4>1, <4>2, <4>3
      <3>5. \A x \in Left' : x.op = "caddyfile" => OwnRoute(x.val[S])'
        BY <1>2, <1>3, <1>13, <3>4 DEF OwnRoute, Routed
      <3>6. CASE RouteOf(s) = "none"
        BY <1>2, <1>9, <3>5, <3>6 DEF OwnRoutes, OwnRoute
      <3>7. CASE RouteOf(s) # "none"
        <4>1. \E x \in Left' : Reroutes(x)
          <5>1. CASE c
            BY <1>11, <5>1 DEF Reroutes
          <5>2. CASE ~c
            <6>1. RouteFile \in Dropped(s, r)
              BY <1>5, <3>1, <3>7, <5>2 DEF RightRoute, Dropped, w
            <6>2. Step("drop", s, RouteFile) \in Left' /\ Reroutes(Step("drop", s, RouteFile))
              BY <1>1, <6>1 DEF Settles, Reroutes, Step
            <6> QED
              BY <6>2
          <5> QED
            BY <5>1, <5>2
        <4> QED
          BY <1>3, <3>5, <4>1 DEF OwnRoutes
      <3> QED
        BY <3>6, <3>7
    <2>3. OwnClients'
      <3>1. \A x \in Left' : x.op = "clients" => OwnClient(x.val[S])'
        BY <1>2, <1>3, <1>10 DEF OwnClient, Owned
      <3>2. CASE ClientOf(s) = {} \/ r.auth
        BY <1>2, <1>3, <1>9, <3>1, <3>2 DEF OwnClients, OwnClient
      <3>3. CASE ClientOf(s) # {} /\ ~r.auth
        <4>1. Forgets(s) \in Left' /\ Forgets(s).op = "clients"
          BY <1>1, <2>1, <3>3 DEF RightClient, Settles, Forgets, Step
        <4> QED
          BY <1>3, <3>1, <4>1 DEF OwnClients
      <3> QED
        BY <3>2, <3>3
    <2> QED
      BY <1>3, <2>2, <2>3 DEF OwnTarget
  <1>17. AuthInv'
    <2>1. Sound(Idp) => (prefs.auth <=> Installed(Idp))
      BY DEF StaleInv, AuthInv, Exempt, Idle
    <2> QED
      BY <1>2, <1>9, <2>1 DEF AuthInv, Updates
  <1>18. WipedAll'
    BY <1>2 DEF WipedAll
  <1> QED
    BY <1>14, <1>15, <1>16, <1>17, <1>18 DEF StaleInv

LEMMA CommandStale == ASSUME Inv, StaleInv, Command PROVE StaleInv'
  <1>1. TypeOK /\ Housed /\ \A s \in Services : Listable(listed[s], s)
    BY DEF Inv, Typed
  <1>2. Idle => plan = << >> /\ job.kind \in {"none", "recover"} /\ job.kind # "recover"
    BY DEF Inv, Typed, Idle
  <1>3. ASSUME BeginReset PROVE StaleInv'
    <2>1. job'.kind = "reset" /\ plan' = ResetPlan /\ UNCHANGED caddyfile
      BY <1>3 DEF BeginReset, Begin, files
    <2>2. ResetPlan # << >> /\ \A x \in ToSet(ResetPlan) : x.op # "caddyfile"
      BY ResetIs DEF ResetSteps, ToSet
    <2>3. NoOwnRoute'
      BY <2>1, <2>2 DEF StaleInv, NoOwnRoute, RouteOf, Left
    <2>4. OthersRight' /\ OwnRight' /\ AuthInv' /\ WipedAll'
      BY <2>1, <2>2 DEF OthersRight, OwnRight, AuthInv, WipedAll
    <2> QED
      BY <2>3, <2>4 DEF StaleInv
  <1>4. ASSUME NEW s \in offered, NEW r \in Requests[s], BeginAdd(s, r) PROVE StaleInv'
    <2>1. s \in Services /\ r \in Record
      BY <1>4, OfferedIs
    <2>2. /\ Idle /\ s \notin home /\ CanAdd(s, r) /\ PlanAdd(s, r) /\ Framed
          /\ UNCHANGED <<cut, robbed>>
      BY <1>4 DEF BeginAdd, Framed, Leftover
    <2> QED
      BY <1>2, <2>1, <2>2, AddStale
  <1>5. ASSUME NEW s \in offered, NEW r \in Requests[s], RecoverAdd(s, r) PROVE StaleInv'
    <2>1. s \in Services /\ "purge" \in Finals
      BY <1>5, OfferedIs DEF Finals
    <2>2. /\ Idle /\ ~Installed(s) /\ Begin("recover", s, r, OrphanPurge(s)) /\ Framed
          /\ UNCHANGED <<cut, robbed, prefs>>
      BY <1>5 DEF RecoverAdd, Framed, history
    <2>3. Removal(OrphanPurge(s), s, "purge")
      BY <2>1, OrphanIs
    <2> QED
      BY <2>1, <2>2, <2>3, RemovalStale
  <1>6. ASSUME NEW s \in offered, BeginPurge(s) PROVE StaleInv'
    <2>1. s \in Services /\ "purge" \in Finals
      BY <1>6, OfferedIs DEF Finals
    <2>2. /\ Idle /\ ~Installed(s) /\ Begin("remove", s, Nothing, OrphanPurge(s)) /\ Framed
          /\ UNCHANGED <<cut, robbed, prefs>>
      BY <1>6 DEF BeginPurge, Framed, history
    <2>3. Removal(OrphanPurge(s), s, "purge")
      BY <2>1, OrphanIs
    <2> QED
      BY <2>1, <2>2, <2>3, RemovalStale
  <1>7. ASSUME NEW s \in offered, NEW last \in {"purge", "preserve"}, BeginRemove(s, last)
        PROVE  StaleInv'
    <2>1. s \in Services /\ last \in Finals
      BY <1>7, OfferedIs DEF Finals
    <2>2. /\ Idle /\ Begin("remove", s, Nothing, RemovePlan(s, last)) /\ Framed
          /\ UNCHANGED <<cut, robbed, prefs>>
      BY <1>7 DEF BeginRemove, Framed, history
    <2>3. /\ Removal(RemovePlan(s, last), s, last)
          /\ s \notin Native => Clears(ToSet(RemovePlan(s, last)), s)
      BY <1>1, <2>1, RemoveIs
    <2> QED
      BY <2>1, <2>2, <2>3, RemovalStale
  <1>8. ASSUME NEW s \in offered, NEW r \in Requests[s], BeginConfigure(s, r) PROVE StaleInv'
    <2>1. s \in Services /\ r \in Record /\ "configure" \in Updates
      BY <1>8, OfferedIs DEF Updates
    <2>2. /\ Idle /\ Begin("configure", s, r, ConfigurePlan(s, r)) /\ Framed /\ s \notin Native \cup {Idp}
          /\ UNCHANGED <<cut, robbed, prefs>> /\ Plannable(s, r) /\ Installed(s)
          /\ r.auth /\ (~record[s].auth \/ record[s].url # r.url) => Registrable(r)
      BY <1>8 DEF BeginConfigure, Framed, history
    <2>3. ConfigurePlan(s, r) \in Planned(s, r) /\ Settles(ToSet(ConfigurePlan(s, r)), s, r)
      BY <1>1, <2>1, <2>2, ConfigureIs
    <2> QED
      BY <2>1, <2>2, <2>3, UpdateStale
  <1>9. ASSUME NEW s \in offered, BeginUpgrade(s) PROVE StaleInv'
    <2>1. s \in Services /\ "upgrade" \in Updates /\ record[s] \in Record
      BY <1>1, <1>9, OfferedIs, FilesTyped DEF Updates
    <2>2. /\ Idle /\ Begin("upgrade", s, record[s], UpgradePlan(s)) /\ Framed
          /\ s \notin Native \cup {Idp}
          /\ UNCHANGED <<cut, robbed, prefs>> /\ Plannable(s, record[s]) /\ Installed(s)
      BY <1>9 DEF BeginUpgrade, Framed, history
    <2>3. UpgradePlan(s) \in Planned(s, record[s]) /\ Settles(ToSet(UpgradePlan(s)), s, record[s])
      BY <1>1, <2>1, <2>2, UpgradeIs
    <2> QED
      BY <2>1, <2>2, <2>3, UpdateStale
  <1> QED
    BY <1>3, <1>4, <1>5, <1>6, <1>7, <1>8, <1>9 DEF Command

(***************************************************************************)
(* The commands end.                                                       *)
(***************************************************************************)

\* What has to be true of a service between commands.
Tidy(t) ==
    /\ RightRoute(t, RouteOf(t)) \/ t \in Unrouted
    /\ RightClient(t, ClientOf(t))
    /\ t \in targets \ Native /\ Installed(Store) => Installed(t)

LEMMA OthersTidy ==
    ASSUME OthersRight, job.kind # "reset", NEW t \in Services, Idle \/ t # S, Sound(t)
    PROVE  Tidy(t)
  BY DEF Tidy, OthersRight, RoutesRight, ClientsRight, Arriving

LEMMA EndsStale ==
    ASSUME NoOwnRoute, Framed, job' = NoJob, plan' = << >>,
           \A t \in Services : Sound(t)' => Tidy(t)' /\ (t = Idp => (prefs'.auth <=> Installed(t)))
    PROVE  StaleInv'
  <1>1. Left' = {} /\ job'.kind = "none" /\ Idle' /\ job'.kind # "reset"
    BY EmptyIs DEF NoJob, Left, Idle
  <1>2. UNCHANGED <<quadlet, recorded, caddyfile>>
    BY DEF Framed, files
  <1>3. OthersRight'
    <2>1. ASSUME NEW t \in Services, Sound(t)'
          PROVE  /\ t \notin Unrouted' => RoutesRight(t)'
                 /\ ClientsRight(t)'
                 /\ t \in targets' \ Native /\ Arriving(Store)' => Installed(t)'
      <3>1. Tidy(t)'
        BY <2>1
      <3>2. Arriving(Store)' => Installed(Store)'
        BY <1>1 DEF Arriving, Adding
      <3> QED
        BY <1>1, <3>1, <3>2 DEF Tidy, RoutesRight, ClientsRight
    <2> QED
      BY <2>1 DEF OthersRight
  <1>4. OwnRight' /\ WipedAll'
    BY <1>1 DEF OwnRight, WipedAll
  <1>5. NoOwnRoute'
    BY <1>1, <1>2 DEF NoOwnRoute, RouteOf
  <1>6. AuthInv'
    <2>1. Installed(Idp)' <=> Installed(Idp)
      BY <1>2 DEF Installed
    <2>2. Sound(Idp)' => (prefs'.auth <=> Installed(Idp))
      BY ProvidersApart
    <2> QED
      BY <1>1, <2>1, <2>2 DEF AuthInv
  <1> QED
    BY <1>3, <1>4, <1>5, <1>6 DEF StaleInv

\* The files stay, so a service is as tidy as it was.
LEMMA StaysTidy ==
    ASSUME Framed, NEW t, t \in Unrouted => t \in Unrouted', Tidy(t)
    PROVE  Tidy(t)'
  <1>1. /\ UNCHANGED <<record, recorded, quadlet, targets, listed>>
        /\ RouteOf(t)' = RouteOf(t) /\ ClientOf(t)' = ClientOf(t)
    BY DEF Framed, files, RouteOf, ClientOf
  <1>2. (Installed(t)' <=> Installed(t)) /\ (Installed(Store)' <=> Installed(Store))
    BY <1>1 DEF Installed
  <1> QED
    BY <1>1, <1>2 DEF Tidy, RightRoute, RightClient

\* The service of a command whose steps are all done.
LEMMA OwnTidy ==
    ASSUME Inv, JoinInv, OwnRight, plan = << >>, ~Idle, job.kind # "reset", Sound(S)
    PROVE  Tidy(S)
  <1>1. Left = {} /\ (S \notin Unrouted => OwnRoutes) /\ OwnClients /\ OwnTarget
    BY EmptyIs DEF Left, OwnRight
  <1>2. S \notin Unrouted => OwnRoute(RouteOf(S))
    BY <1>1 DEF OwnRoutes
  <1>3. OwnClient(ClientOf(S))
    BY <1>1 DEF OwnClients
  <1>4. CASE job.kind \in Removes
    <2>1. Removing(S)
      BY <1>4 DEF Removing
    <2> QED
      BY <1>1, <1>2, <1>3, <2>1 DEF Tidy, OwnRoute, OwnClient, OwnTarget, RightRoute, RightClient
  <1>5. CASE job.kind \in {"add"} \cup Updates
    <2>1. record[S] = job.request /\ (Lists => RouteFile \in listed[S])
      BY <1>1, <1>5 DEF JoinInv, Recording, Lists
    <2>2. S \notin Native => Installed(S)
      BY <1>5 DEF Inv, UpdateInv, AddInv, WritesBoth, WritesRecord, Wires
    <2> QED
      BY <1>2, <1>3, <2>1, <2>2 DEF Tidy, OwnRoute, OwnClient, RightRoute, RightClient, Unrouted
  <1>6. job.kind \in Removes \cup {"add"} \cup Updates
    BY DEF Inv, Typed, Idle
  <1> QED
    BY <1>4, <1>5, <1>6

LEMMA FinishStale == ASSUME Inv, JoinInv, StaleInv, Finish PROVE StaleInv'
  <1> DEFINE removed == job.kind \in {"remove", "cleanup"}
             gone == removed /\ Clean(S)
  <1>1. /\ job.kind \notin {"none", "recover", "reset"} /\ plan = << >> /\ plan' = << >>
        /\ job' = NoJob /\ Framed
        /\ prefs' = [auth |-> prefs.auth /\ ~(removed /\ S = Idp),
                     smtp |-> prefs.smtp \/ (job.kind = "add" /\ S = Relay)]
        /\ cut' = IF gone THEN cut \ {S} ELSE cut
        /\ robbed' = IF gone THEN robbed \ {S} ELSE robbed
        /\ doubled' = IF gone THEN doubled \ {S} ELSE doubled
    BY DEF Finish, Framed, S
  <1>2. prefs'.auth <=> prefs.auth /\ ~(removed /\ S = Idp)
    BY <1>1
  <1> HIDE DEF removed
  <1>3. ~Idle /\ S \in Services
    BY <1>1 DEF Idle, Inv, Typed, S
  <1>4. ASSUME NEW t \in Services, Sound(t)', ~gone \/ t # S PROVE Sound(t) /\ Tidy(t)'
    <2>1. Sound(t)
      BY <1>1, <1>4 DEF Sound
    <2>2. Tidy(t)
      <3>1. CASE t = S
        BY <1>1, <1>3, <2>1, <3>1, OwnTidy DEF StaleInv
      <3>2. CASE t # S
        BY <1>1, <2>1, <3>2, OthersTidy DEF StaleInv
      <3> QED
        BY <3>1, <3>2
    <2>3. t \in Unrouted => t \in Unrouted'
      BY <1>1, <1>4 DEF Unrouted
    <2> QED
      BY <1>1, <2>1, <2>2, <2>3, StaysTidy
  <1>5. ASSUME gone, NEW t \in Services, t = S PROVE Tidy(t)'
    <2>1. ClientOf(t) = {} /\ (t = Idp \/ RouteOf(t) = "none") /\ t \notin targets
      BY <1>5 DEF Clean, ClientOf, RouteOf
    <2>2. targets' = targets /\ RouteOf(t)' = RouteOf(t) /\ ClientOf(t)' = ClientOf(t)
      BY <1>1 DEF Framed, files, RouteOf, ClientOf
    <2> QED
      BY <2>1, <2>2 DEF Tidy, RightRoute, RightClient, Unrouted
  <1>6. ASSUME Sound(Idp)' PROVE prefs'.auth <=> Installed(Idp)
    <2>1. CASE S # Idp
      <3>1. Sound(Idp)
        BY <1>4, <1>6, <2>1, ProvidersApart
      <3> QED
        BY <1>1, <1>2, <2>1, <3>1 DEF StaleInv, AuthInv, Exempt
    <2>2. CASE S = Idp /\ removed
      <3>1. ~quadlet[Idp].present
        BY <1>1, <2>2, ProvidersApart DEF Inv, RemoveInv, Removes, removed, Providers
      <3> QED
        BY <1>2, <2>2, <3>1 DEF Installed
    <2>3. CASE S = Idp /\ job.kind = "add"
      <3>1. Installed(Idp) /\ ~removed /\ prefs.auth
        BY <1>1, <2>3, ProvidersApart
           DEF Inv, AddInv, WritesBoth, WritesRecord, Wires, Providers, StaleInv, AuthInv, removed
      <3> QED
        BY <1>2, <3>1
    <2>4. CASE S = Idp /\ ~removed /\ job.kind # "add"
      <3>1. Sound(Idp)
        BY <1>4, <1>6, <2>4, ProvidersApart
      <3>2. ~Exempt
        BY <2>4 DEF Exempt, removed
      <3> QED
        BY <1>1, <1>2, <2>4, <3>1, <3>2 DEF StaleInv, AuthInv
    <2> QED
      BY <2>1, <2>2, <2>3, <2>4
  <1> HIDE DEF gone
  <1>7. ASSUME NEW t \in Services, Sound(t)' PROVE Tidy(t)' /\ (t = Idp => (prefs'.auth <=> Installed(t)))
    <2>1. CASE gone /\ t = S
      BY <1>5, <1>6, <1>7, <2>1
    <2>2. CASE ~(gone /\ t = S)
      BY <1>4, <1>6, <1>7, <2>2
    <2> QED
      BY <2>1, <2>2
  <1> QED
    BY <1>1, <1>7, EndsStale DEF StaleInv

LEMMA RetryStale == ASSUME Inv, JoinInv, StaleInv, RetryAdd PROVE StaleInv'
  <1>1. /\ job.kind = "recover" /\ plan = << >> /\ Framed /\ UNCHANGED <<cut, robbed>>
        /\ S \in Services /\ job.request \in Record /\ ~Idle
    BY DEF RetryAdd, Framed, S, Inv, Typed, Idle
  <1>2. S \notin home
    BY <1>1 DEF Inv, RemoveInv, Removes
  <1>3. CASE CanAdd(S, job.request) /\ PlanAdd(S, job.request)
    BY <1>1, <1>2, <1>3, AddStale
  <1>4. CASE job' = NoJob /\ UNCHANGED <<plan, prefs, doubled>>
    <2>1. ASSUME NEW t \in Services, Sound(t)' PROVE Tidy(t)'
      <3>1. Sound(t)
        BY <1>1, <2>1 DEF Sound
      <3>2. Tidy(t)
        BY <1>1, <3>1, OwnTidy, OthersTidy DEF StaleInv
      <3>3. t \in Unrouted => t \in Unrouted'
        BY <1>4 DEF Unrouted
      <3> QED
        BY <1>1, <3>2, <3>3, StaysTidy
    <2>2. Sound(Idp)' => (prefs'.auth <=> Installed(Idp))
      BY <1>1, <1>4 DEF StaleInv, AuthInv, Exempt, Sound
    <2> QED
      BY <1>1, <1>4, <2>1, <2>2, EndsStale DEF StaleInv
  <1> QED
    BY <1>3, <1>4 DEF RetryAdd, S

LEMMA CutStale == ASSUME Inv, StaleInv, CutShort PROVE StaleInv'
  <1>1. /\ job' = NoJob /\ plan' = << >> /\ Framed /\ UNCHANGED <<prefs, robbed, doubled>>
        /\ cut' = cut \cup (IF job.kind = "reset" THEN Services ELSE {S})
    BY DEF CutShort, Framed, S
  <1>2. ASSUME NEW t \in Services, Sound(t)' PROVE Sound(t) /\ t # S /\ job.kind # "reset"
    BY <1>1, <1>2 DEF Sound
  <1>3. ASSUME NEW t \in Services, Sound(t)' PROVE Tidy(t)'
    <2>1. Tidy(t)
      BY <1>2, <1>3, OthersTidy DEF StaleInv
    <2>2. t \in Unrouted => t \in Unrouted'
      BY <1>1 DEF Unrouted
    <2> QED
      BY <1>1, <2>1, <2>2, StaysTidy
  <1>4. Sound(Idp)' => (prefs'.auth <=> Installed(Idp))
    BY <1>1, <1>2, ProvidersApart DEF StaleInv, AuthInv, Exempt
  <1> QED
    BY <1>1, <1>3, <1>4, EndsStale DEF StaleInv

LEMMA ResetStale == ASSUME StaleInv, FinalizeReset PROVE StaleInv'
  <1>1. /\ job.kind = "reset" /\ plan = << >> /\ plan' = << >> /\ job' = NoJob /\ Framed
        /\ prefs' = [auth |-> FALSE, smtp |-> FALSE]
    BY DEF FinalizeReset, Framed
  <1>2. caddyfile' = NoFile /\ clients' = NoFile /\ recorded' = {} /\ recorded = {}
    BY <1>1 DEF StaleInv, WipedAll, Framed, files
  <1>3. \A t \in Services : Tidy(t)'
    BY <1>2 DEF Tidy, RightRoute, RightClient, RouteOf, ClientOf, Installed
  <1>4. \A t : ~Installed(t)
    BY <1>2 DEF Installed
  <1> QED
    BY <1>1, <1>3, <1>4, EndsStale DEF StaleInv

\* A Caddyfile without routes is as good as none.
LEMMA SameStale ==
    ASSUME Inv, StaleInv, WipedAll', \A t \in Services : RouteOf(t)' = RouteOf(t),
           UNCHANGED <<job, plan, prefs, record, recorded, quadlet, clients, targets, listed, cut,
                       robbed, doubled>>
    PROVE  StaleInv'
  <1>1. S' = S /\ Left' = Left /\ Unrouted' = Unrouted /\ (Idle' <=> Idle) /\ S \in Services
    BY DEF S, Left, Unrouted, Idle, Inv, Typed
  <1>2. /\ \A t : (Installed(t)' <=> Installed(t)) /\ (Sound(t)' <=> Sound(t))
        /\ \A t : ClientOf(t)' = ClientOf(t)
        /\ \A t : (Removing(t)' <=> Removing(t)) /\ (Adding(t)' <=> Adding(t))
    BY <1>1 DEF Installed, Sound, ClientOf, Removing, Adding
  <1>3. \A t : Arriving(t)' <=> Arriving(t)
    BY <1>2 DEF Arriving
  <1>4. OthersRight'
    <2>1. ASSUME NEW t \in Services PROVE (RoutesRight(t) => RoutesRight(t)') /\ (ClientsRight(t) => ClientsRight(t)')
      BY <1>1, <1>2 DEF RoutesRight, ClientsRight, RightRoute, RightClient
    <2> QED
      BY <1>1, <1>2, <1>3, <2>1 DEF StaleInv, OthersRight
  <1>5. OwnRight'
    <2>1. Lists' <=> Lists
      BY <1>1 DEF Lists
    <2>2. OwnRoutes => OwnRoutes'
      BY <1>1, <1>2, <2>1 DEF OwnRoutes, OwnRoute
    <2>3. OwnClients => OwnClients'
      BY <1>1, <1>2 DEF OwnClients, OwnClient
    <2>4. OwnTarget => OwnTarget'
      BY <1>1, <1>2 DEF OwnTarget
    <2> QED
      BY <1>1, <1>2, <2>2, <2>3, <2>4 DEF StaleInv, OwnRight
  <1>6. NoOwnRoute'
    BY <1>1, ProvidersApart DEF StaleInv, NoOwnRoute
  <1>7. AuthInv'
    BY <1>1, <1>2 DEF StaleInv, AuthInv, Exempt
  <1> QED
    BY <1>4, <1>5, <1>6, <1>7 DEF StaleInv

LEMMA RebootStale == ASSUME Inv, StaleInv, Reboot PROVE StaleInv'
  <1>1. /\ Idle /\ caddyfile' = IF Startable(Proxy) /\ caddyfile = NoFile THEN NoRoutes ELSE caddyfile
        /\ UNCHANGED <<job, plan, prefs, record, recorded, quadlet, clients, targets, listed, cut,
                       robbed, doubled>>
    BY DEF Reboot, history
  <1>2. \A t \in Services : RouteOf(t)' = RouteOf(t)
    BY <1>1, RoutesAreNone DEF RouteOf
  <1>3. WipedAll'
    BY <1>1 DEF WipedAll, Idle
  <1> QED
    BY <1>1, <1>2, <1>3, SameStale

LEMMA StutterStale == ASSUME Inv, StaleInv, UNCHANGED vars PROVE StaleInv'
  <1>1. UNCHANGED <<job, plan, prefs, record, recorded, quadlet, caddyfile, clients, targets, listed,
                    cut, robbed, doubled>>
    BY DEF vars, files, history
  <1>2. WipedAll' /\ \A t \in Services : RouteOf(t)' = RouteOf(t)
    BY <1>1 DEF StaleInv, WipedAll, RouteOf
  <1> QED
    BY <1>1, <1>2, SameStale

LEMMA InitStale == Init => StaleInv
  <1> SUFFICES ASSUME Init PROVE StaleInv
    OBVIOUS
  <1>1. /\ recorded = {} /\ targets = {} /\ caddyfile = NoFile /\ clients = NoFile /\ prefs.auth = FALSE
        /\ job.kind = "none" /\ Left = {}
    BY EmptyIs DEF Init, NoJob, Left
  <1>2. OthersRight /\ NoOwnRoute
    BY <1>1 DEF OthersRight, RoutesRight, ClientsRight, RightRoute, RightClient, RouteOf, ClientOf, NoOwnRoute
  <1>3. OwnRight /\ AuthInv /\ WipedAll
    BY <1>1 DEF OwnRight, Idle, AuthInv, Installed, WipedAll
  <1> QED
    BY <1>2, <1>3 DEF StaleInv

LEMMA NextStale == Inv /\ JoinInv /\ StaleInv /\ [Next]_vars => StaleInv'
  BY NextKeeps, CommandStale, RetryStale, ExecuteStale, FinishStale, ResetStale, FailStale, CutStale,
     RebootStale, StutterStale DEF Next

LEMMA IdleStale == Inv /\ StaleInv => NoStaleWiring
  <1> SUFFICES ASSUME Inv, StaleInv, Idle PROVE NoStaleWiring
    BY DEF NoStaleWiring
  <1>1. plan = << >> /\ job.kind # "reset"
    BY DEF Inv, Typed, Idle
  <1>2. ASSUME NEW s \in Services, Sound(s)
        PROVE  /\ caddyfile # NoFile /\ s \notin Native \cup {Idp} \cup doubled /\ caddyfile[s] # "none"
                    => Installed(s) /\ record[s].url = caddyfile[s]
               /\ clients # NoFile => (clients[s] # {} => Installed(s) /\ record[s].auth)
               /\ s \in targets \ Native /\ Installed(Store) => Installed(s)
    <2>1. Tidy(s)
      BY <1>1, <1>2, OthersTidy DEF StaleInv
    <2> QED
      BY <2>1 DEF Tidy, RightRoute, RightClient, RouteOf, ClientOf, Unrouted
  <1>3. Dash \in sources /\ Sound(Store) /\ Sound(Dash) => Installed(Store) \/ ~Installed(Dash)
    BY <1>1, SourceAtRest
  <1>4. Sound(Idp) => (prefs.auth <=> Installed(Idp))
    BY <1>1 DEF StaleInv, AuthInv, Exempt, Idle
  <1> QED
    BY <1>2, <1>3, <1>4 DEF NoStaleWiring

\* Between commands nothing points at a service that is not there: every route
\* but the issuer's, every client, target and datasource is of an installed
\* service that asked for it, and [auth] names a provider that is installed,
\* in whatever order services were added, configured, upgraded or removed, but
\* for services that a command was cut short on, that lost a file to another's
\* re-render, or, for routes, whose plan wrote the Caddyfile twice or that are
\* native.
THEOREM WiringNeverStale == Spec => []NoStaleWiring
  <1>1. Spec => [](Inv /\ ScrapeInv /\ JoinInv /\ StaleInv)
    BY InitInv, NextKeeps, InitScrapes, NextScrapes, InitJoins, NextJoins, InitStale, NextStale,
       WiringConstants, PTL DEF Spec
  <1> QED
    BY <1>1, IdleStale, PTL

=============================================================================
