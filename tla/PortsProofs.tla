----------------------------- MODULE PortsProofs ------------------------------
(***************************************************************************)
(* Proofs about Ports, for any services, definitions, range and bounds: no *)
(* two services are given one port of the range, and what they do share    *)
(* has a reason.  And proofs about BlueGreen, whose two slots those ports  *)
(* are for: a deploy retires the old slot only behind a healthy new one.   *)
(***************************************************************************)
EXTENDS Ports, BlueGreen, SequenceTheorems, WellFoundedInduction, TLAPS

PortMap(ports) ==
    /\ DOMAIN ports \subseteq PortNames
    /\ \A n \in DOMAIN ports : ports[n] \in Nat \ {NoPort}

\* What holds of the ports of a service wherever they are kept: the slots' ports
\* are there with the first port, which is the blue one's, and only the proxy's
\* http comes to 80 by itself.
WellFormed(s, ports) ==
    /\ ports = [n \in DOMAIN ports |-> ports[n]] /\ PortMap(ports)
    /\ s \in BlueGreen /\ DOMAIN ports # {} =>
          /\ Slots \cup {"http"} \subseteq DOMAIN ports
          /\ ports["http_blue"] = ports["http"]
    /\ s = Proxy => \A n \in DOMAIN ports : ports[n] = 80 => Fixed(s, n, 80)

EnvOK ==
    /\ DOMAIN env = Services
    /\ \A s \in Services : WellFormed(s, env[s])
    /\ PortsApart

\* The ports of an add that is planned are as apart as those of an installed one.
AddingOK ==
    adding # Nobody =>
        LET s == adding.service IN
        /\ s \in Services \ installed /\ adding.choice \in BOOLEAN
        /\ WellFormed(s, adding.ports) /\ (s \in BlueGreen => DOMAIN adding.ports # {})
        /\ Distinct(s, adding.ports, {})
        /\ \A t \in installed :
              PortsOf(adding.ports) \cap PortsOf(env[t]) \subseteq Own(s) \cap quiet[s]

RestTyped ==
    /\ registry \in [Services -> Nat]
    /\ \A s \in Services : registry[s] \in DOMAIN Declared[s]
    /\ lowPorts \in BOOLEAN
    /\ installed \subseteq Services
    /\ unit \in [Services -> SUBSET PortNames]
    /\ chosen \in [Services -> BOOLEAN]
    /\ slot \in [Services -> Slots]
    /\ bound \in [Services -> SUBSET (Nat \ {NoPort})]
    /\ host \subseteq HostPorts
    /\ quiet \in [Services -> SUBSET Nat]
    /\ blind \in [Services -> SUBSET PortNames]
    /\ commands \in 0 .. MaxCommands

Inv == RestTyped /\ EnvOK /\ AddingOK
-----------------------------------------------------------------------------
(***************************************************************************)
(* What resolving gives.                                                   *)
(***************************************************************************)

\* A set of natural numbers has a least element.
LEMMA LeastExists ==
    ASSUME NEW S, S \subseteq Nat, S # {}
    PROVE  \E m \in S : \A k \in S : m <= k
  <1>1. PICK m \in S : \A k \in S : <<k, m>> \notin OpToRel(<, Nat)
    BY NatLessThanWellFounded, WFMin
  <1>2. \A k \in S : ~(k < m)
    BY <1>1 DEF OpToRel
  <1> QED
    BY <1>2

\* One step of Resolve.
Hosts(entries) == {e.host : e \in ToSet(entries)} \ {0}
First(entries) == [claimed |-> Hosts(entries), ports |-> NoPorts]
Assigned(r, e, pins, busy) ==
    [claimed |-> r.claimed \cup {PortFor(e, pins, r.claimed, busy)},
     ports |-> With(r.ports, e.name, PortFor(e, pins, r.claimed, busy))]
Granted(entries, pins, busy, upto, i) ==
    IF i = 0 THEN First(entries) ELSE Assigned(upto[i - 1], entries[i], pins, busy)

\* The function that Resolve is defined by exists.
LEMMA UptoExists ==
    ASSUME NEW entries, NEW pins, NEW busy, NEW N \in Nat
    PROVE  \E upto : upto = [i \in 0 .. N |-> Granted(entries, pins, busy, upto, i)]
  <1> DEFINE Good(k) == \E upto : upto = [i \in 0 .. k |-> Granted(entries, pins, busy, upto, i)]
             Bad == {k \in Nat : ~Good(k)}
  <1>1. SUFFICES ASSUME Bad # {} PROVE FALSE
    OBVIOUS
  <1>2. PICK k \in Bad : \A j \in Bad : k <= j
    <2>1. Bad \subseteq Nat
      OBVIOUS
    <2> HIDE DEF Bad
    <2> QED
      BY <1>1, <2>1, LeastExists
  <1>3. k # 0
    <2>1. [i \in 0 .. 0 |-> First(entries)]
            = [i \in 0 .. 0 |->
                 Granted(entries, pins, busy, [j \in 0 .. 0 |-> First(entries)], i)]
      BY DEF Granted
    <2>2. Good(0)
      BY <2>1
    <2> QED
      BY <2>2
  <1>4. k - 1 \in Nat /\ k - 1 \notin Bad
    BY <1>2, <1>3
  <1>5. PICK upto : upto = [i \in 0 .. k - 1 |-> Granted(entries, pins, busy, upto, i)]
    BY <1>4
  <1> DEFINE more == [i \in 0 .. k |->
                        IF i = k THEN Granted(entries, pins, busy, upto, k) ELSE upto[i]]
  <1>6. \A i \in 0 .. k : more[i] = Granted(entries, pins, busy, more, i)
    <2> TAKE i \in 0 .. k
    <2>1. i # 0 => i - 1 \in 0 .. k - 1 /\ more[i - 1] = upto[i - 1]
      BY <1>4
    <2>2. Granted(entries, pins, busy, more, i) = Granted(entries, pins, busy, upto, i)
      BY <2>1 DEF Granted
    <2>3. i # k => i \in 0 .. k - 1 /\ upto[i] = Granted(entries, pins, busy, upto, i)
      BY <1>4, <1>5
    <2> QED
      BY <2>2, <2>3
  <1>7. more = [i \in 0 .. k |-> Granted(entries, pins, busy, more, i)]
    BY <1>6
  <1>8. Good(k)
    BY <1>7
  <1> QED
    BY <1>8

\* Where the port of a name comes from.
HostOf(entries, n, p) == \E e \in ToSet(entries) : e.name = n /\ e.host = p
Drawn(entries, busy, n, p) ==
    /\ p \notin Hosts(entries) \cup busy
    /\ \/ p >= 1024 /\ \E e \in ToSet(entries) : e.name = n /\ e.container = p
       \/ p \in Range10000 \ Recorded
From(entries, pins, busy, n, p) ==
    IF n \in DOMAIN pins THEN p = pins[n]
    ELSE \/ p # 0 /\ HostOf(entries, n, p)
         \/ Drawn(entries, busy, n, p)
         \/ p = NoPort

\* A port from the range, or none.
LEMMA AllocateIs ==
    ASSUME NEW claimed, NEW busy
    PROVE  \/ Allocate(claimed, busy) = NoPort
           \/ Allocate(claimed, busy) \in Range10000 \ (Recorded \cup claimed \cup busy)
  <1> DEFINE free == Free(claimed, busy)
  <1>1. free \subseteq Nat /\ free = Range10000 \ (Recorded \cup claimed \cup busy)
    BY PortsConstants DEF Free
  <1>2. CASE free = {}
    BY <1>2 DEF Allocate
  <1>3. CASE free # {}
    <2>1. \E q \in free : \A r \in free : q <= r
      BY <1>1, <1>3, LeastExists
    <2>2. Allocate(claimed, busy) = CHOOSE q \in free : \A r \in free : q <= r
      BY <1>3 DEF Allocate
    <2>3. Allocate(claimed, busy) \in free
      <3> HIDE DEF free
      <3> QED
        BY <2>1, <2>2
    <2> QED
      BY <1>1, <2>3
  <1> QED
    BY <1>2, <1>3

\* What one entry is given.
LEMMA PortForIs ==
    ASSUME NEW entries, NEW e \in ToSet(entries), e \in Entry,
           NEW pins, NEW busy, NEW claimed, Hosts(entries) \subseteq claimed
    PROVE  LET p == PortFor(e, pins, claimed, busy) IN
           /\ From(entries, pins, busy, e.name, p)
           /\ e.name \notin DOMAIN pins /\ p \in claimed /\ p # NoPort =>
                 HostOf(entries, e.name, p)
  <1> DEFINE p == PortFor(e, pins, claimed, busy)
  <1>1. CASE e.name \in DOMAIN pins
    BY <1>1 DEF PortFor, From
  <1>2. CASE e.name \notin DOMAIN pins /\ e.host # 0
    <2>1. p = e.host
      BY <1>2 DEF PortFor
    <2> QED
      BY <1>2, <2>1 DEF From, HostOf
  <1>3. CASE /\ e.name \notin DOMAIN pins /\ e.host = 0
             /\ Claimable(e.container, claimed, busy)
    <2>1. p = e.container
      BY <1>3 DEF PortFor
    <2>2. p >= 1024 /\ p \notin claimed \cup busy
      BY <1>3, <2>1 DEF Claimable
    <2>3. Drawn(entries, busy, e.name, p)
      BY <2>1, <2>2 DEF Drawn
    <2> QED
      BY <1>3, <2>2, <2>3 DEF From
  <1>4. CASE /\ e.name \notin DOMAIN pins /\ e.host = 0
             /\ ~Claimable(e.container, claimed, busy)
    <2>1. p = Allocate(claimed, busy)
      BY <1>4 DEF PortFor
    <2>2. CASE p = NoPort
      BY <1>4, <2>2 DEF From
    <2>3. CASE p \in Range10000 \ (Recorded \cup claimed \cup busy)
      <3>1. Drawn(entries, busy, e.name, p)
        BY <2>3 DEF Drawn
      <3> QED
        BY <1>4, <2>3, <3>1 DEF From
    <2> QED
      BY <2>1, <2>2, <2>3, AllocateIs
  <1> QED
    BY <1>1, <1>2, <1>3, <1>4

\* What holds when some entries have been resolved.
Coming(entries, pins, busy, r, names) ==
    /\ r.ports = [n \in names |-> r.ports[n]]
    /\ Hosts(entries) \subseteq r.claimed
    /\ \A n \in names : r.ports[n] \in r.claimed /\ From(entries, pins, busy, n, r.ports[n])
    /\ \A m, n \in names \ DOMAIN pins :
          m # n /\ r.ports[m] = r.ports[n] /\ r.ports[m] # NoPort =>
             HostOf(entries, m, r.ports[m]) /\ HostOf(entries, n, r.ports[m])

LEMMA AssignedKeeps ==
    ASSUME NEW entries, NEW pins, NEW busy, NEW r, NEW names,
           Coming(entries, pins, busy, r, names),
           NEW e \in ToSet(entries), e \in Entry
    PROVE  Coming(entries, pins, busy, Assigned(r, e, pins, busy), names \cup {e.name})
  <1> DEFINE p == PortFor(e, pins, r.claimed, busy)
             q == Assigned(r, e, pins, busy)
  <1>1. /\ Hosts(entries) \subseteq r.claimed /\ DOMAIN r.ports = names
        /\ \A n \in names : r.ports[n] \in r.claimed /\ From(entries, pins, busy, n, r.ports[n])
        /\ \A m, n \in names \ DOMAIN pins :
              m # n /\ r.ports[m] = r.ports[n] /\ r.ports[m] # NoPort =>
                 HostOf(entries, m, r.ports[m]) /\ HostOf(entries, n, r.ports[m])
    BY DEF Coming
  <1>2. /\ From(entries, pins, busy, e.name, p)
        /\ e.name \notin DOMAIN pins /\ p \in r.claimed /\ p # NoPort =>
              HostOf(entries, e.name, p)
    BY <1>1, PortForIs
  <1>3. /\ q.claimed = r.claimed \cup {p}
        /\ q.ports = [n \in names \cup {e.name} |-> IF n = e.name THEN p ELSE r.ports[n]]
    BY <1>1 DEF Assigned, With
  <1> HIDE DEF p, q
  <1>4. \A n \in (names \cup {e.name}) \ {e.name} : n \in names /\ q.ports[n] = r.ports[n]
    BY <1>3
  <1>5. q.ports[e.name] = p /\ q.ports = [n \in names \cup {e.name} |-> q.ports[n]]
    BY <1>3
  <1>6. \A n \in names \cup {e.name} :
           q.ports[n] \in q.claimed /\ From(entries, pins, busy, n, q.ports[n])
    BY <1>1, <1>2, <1>3, <1>4, <1>5
  <1>7. ASSUME NEW n \in names \ DOMAIN pins, n # e.name, e.name \notin DOMAIN pins,
               r.ports[n] = p, p # NoPort
        PROVE  HostOf(entries, n, p) /\ HostOf(entries, e.name, p)
    <2>1. HostOf(entries, e.name, p)
      BY <1>1, <1>2, <1>7
    <2>2. p \in Hosts(entries)
      BY <1>7, <2>1 DEF HostOf, Hosts, NoPort
    <2>3. From(entries, pins, busy, n, p) /\ ~Drawn(entries, busy, n, p)
      BY <1>1, <1>7, <2>2 DEF Drawn
    <2> QED
      BY <1>7, <2>1, <2>3 DEF From
  <1>8. ASSUME NEW m \in (names \cup {e.name}) \ DOMAIN pins,
               NEW n \in (names \cup {e.name}) \ DOMAIN pins,
               m # n, q.ports[m] = q.ports[n], q.ports[m] # NoPort
        PROVE  HostOf(entries, m, q.ports[m]) /\ HostOf(entries, n, q.ports[m])
    <2>1. CASE m # e.name /\ n # e.name
      BY <1>1, <1>4, <1>8, <2>1
    <2>2. CASE m = e.name
      BY <1>4, <1>5, <1>7, <1>8, <2>2
    <2>3. CASE n = e.name
      BY <1>4, <1>5, <1>7, <1>8, <2>3
    <2> QED
      BY <2>1, <2>2, <2>3
  <1>9. Hosts(entries) \subseteq q.claimed
    BY <1>1, <1>3
  <1> QED
    BY <1>5, <1>6, <1>8, <1>9 DEF Coming, q

\* Resolve, for all entries.
LEMMA ResolveIs ==
    ASSUME NEW entries \in Seq(Entry), NEW pins, NEW busy
    PROVE  Coming(entries, pins, busy, Resolve(entries, pins, busy),
                  {e.name : e \in ToSet(entries)})
  <1> DEFINE N == Len(entries)
             upto == CHOOSE u : u = [i \in 0 .. N |-> Granted(entries, pins, busy, u, i)]
             Upto(i) == {entries[j].name : j \in 1 .. i}
             Good(i) == Coming(entries, pins, busy, upto[i], Upto(i))
             Bad == {i \in 0 .. N : ~Good(i)}
  <1>1. N \in Nat /\ \A i \in 1 .. N : entries[i] \in Entry /\ entries[i] \in ToSet(entries)
    BY ElementOfSeq, LenProperties DEF ToSet
  <1>2. upto = [i \in 0 .. N |-> Granted(entries, pins, busy, upto, i)]
    BY <1>1, UptoExists
  <1>3. Resolve(entries, pins, busy) = upto[N]
    BY DEF Resolve, Granted, First, Assigned, Hosts
  <1> HIDE DEF upto
  <1>4. Good(0)
    <2>1. upto[0] = First(entries)
      BY <1>1, <1>2 DEF Granted
    <2>2. Upto(0) = {}
      OBVIOUS
    <2>3. Coming(entries, pins, busy, First(entries), {})
      BY DEF Coming, First, NoPorts
    <2> QED
      BY <2>1, <2>2, <2>3
  <1>5. ASSUME NEW i \in 1 .. N, Good(i - 1)
        PROVE  Good(i)
    <2>1. upto[i] = Assigned(upto[i - 1], entries[i], pins, busy)
      BY <1>1, <1>2 DEF Granted
    <2>2. Upto(i) = Upto(i - 1) \cup {entries[i].name}
      BY <1>1
    <2> QED
      BY <1>1, <1>5, <2>1, <2>2, AssignedKeeps
  <1> HIDE DEF Good
  <1>6. Bad = {}
    <2>1. SUFFICES ASSUME Bad # {} PROVE FALSE
      OBVIOUS
    <2>2. PICK i \in Bad : \A j \in Bad : i <= j
      <3>1. Bad \subseteq Nat
        OBVIOUS
      <3> HIDE DEF Bad
      <3> QED
        BY <2>1, <3>1, LeastExists
    <2>3. i \in 0 .. N /\ i # 0
      BY <1>4
    <2>4. i - 1 \in 0 .. N /\ i - 1 \notin Bad /\ i \in 1 .. N
      BY <1>1, <2>2, <2>3
    <2>5. Good(i - 1)
      BY <2>4
    <2> QED
      BY <1>5, <2>4, <2>5
  <1>7. Good(N)
    BY <1>1, <1>6
  <1>8. Upto(N) = {e.name : e \in ToSet(entries)}
    BY LenProperties DEF ToSet
  <1> QED
    BY <1>3, <1>7, <1>8 DEF Good

-----------------------------------------------------------------------------
(***************************************************************************)
(* What add_service resolves.                                              *)
(***************************************************************************)

LEMMA ToSetConcat ==
    ASSUME NEW S, NEW q \in Seq(S), NEW r \in Seq(S)
    PROVE  ToSet(q \o r) = ToSet(q) \cup ToSet(r)
  <1>1. /\ Len(q) \in Nat /\ Len(r) \in Nat
        /\ DOMAIN q = 1 .. Len(q) /\ DOMAIN r = 1 .. Len(r)
        /\ DOMAIN (q \o r) = 1 .. Len(q) + Len(r)
        /\ \A i \in 1 .. Len(q) : (q \o r)[i] = q[i]
        /\ \A i \in 1 .. Len(r) : (q \o r)[i + Len(q)] = r[i]
    BY ConcatProperties, LenProperties
  <1>2. \A i \in DOMAIN (q \o r) : i \notin DOMAIN q => i - Len(q) \in DOMAIN r
    BY <1>1
  <1>3. \A i \in DOMAIN r : i + Len(q) \in DOMAIN (q \o r)
    BY <1>1
  <1>4. \A i \in DOMAIN (q \o r) : (q \o r)[i] \in ToSet(q) \cup ToSet(r)
    <2> TAKE i \in DOMAIN (q \o r)
    <2>1. CASE i \in DOMAIN q
      BY <1>1, <2>1 DEF ToSet
    <2>2. CASE i \notin DOMAIN q
      <3>1. (q \o r)[i] = r[i - Len(q)]
        BY <1>1, <1>2, <2>2
      <3> QED
        BY <1>2, <2>2, <3>1 DEF ToSet
    <2> QED
      BY <2>1, <2>2
  <1>5. \A i \in DOMAIN q : q[i] \in ToSet(q \o r)
    BY <1>1 DEF ToSet
  <1>6. \A i \in DOMAIN r : r[i] \in ToSet(q \o r)
    BY <1>1, <1>3 DEF ToSet
  <1> QED
    BY <1>4, <1>5, <1>6 DEF ToSet

LEMMA EntriesAre ==
    ASSUME NEW s \in Services, registry[s] \in DOMAIN Declared[s], NEW choice
    PROVE  /\ Entries(s, choice) \in Seq(Entry)
           /\ ToSet(Entries(s, choice)) \subseteq AllEntries(s)
           /\ Names(s, choice) \subseteq PortNames
           /\ s \in BlueGreen => "http" \in Names(s, choice) /\ Names(s, choice) \cap Slots = {}
  <1> DEFINE declared == Declared[s][registry[s]]
             gated == IF choice THEN Gated[s] ELSE << >>
  <1>1. declared \in Seq(Entry) /\ gated \in Seq(Entry) /\ Entries(s, choice) = declared \o gated
    BY PortsConstants, ElementOfSeq DEF Entries
  <1>2. ToSet(declared) \subseteq AllEntries(s)
    BY DEF AllEntries
  <1>3. ToSet(gated) \subseteq AllEntries(s)
    BY DEF AllEntries, ToSet
  <1> HIDE DEF declared, gated
  <1>4. /\ Entries(s, choice) \in Seq(Entry)
        /\ ToSet(Entries(s, choice)) = ToSet(declared) \cup ToSet(gated)
    BY <1>1, ToSetConcat, ConcatProperties
  <1>5. ToSet(Entries(s, choice)) \subseteq Entry
    BY <1>4, ElementOfSeq, LenProperties DEF ToSet
  <1>6. Names(s, choice) \subseteq PortNames
    BY <1>5 DEF Names, Entry
  <1>7. s \in BlueGreen => "http" \in Names(s, choice) /\ Names(s, choice) \cap Slots = {}
    <2> SUFFICES ASSUME s \in BlueGreen
                 PROVE  "http" \in Names(s, choice) /\ Names(s, choice) \cap Slots = {}
      OBVIOUS
    <2>1. \A e \in AllEntries(s) : e.name \notin Slots
      BY PortsConstants
    <2>2. \E e \in ToSet(declared) : e.name = "http"
      BY PortsConstants DEF declared
    <2> QED
      BY <1>2, <1>3, <1>4, <2>1, <2>2 DEF Names
  <1> QED
    BY <1>2, <1>3, <1>4, <1>6, <1>7

\* What the definition fixes for an entry, it fixes for the service.
LEMMA HostIsFixed ==
    ASSUME NEW s \in Services, NEW entries, ToSet(entries) \subseteq AllEntries(s),
           NEW n, Base(s, n) = n, NEW p, HostOf(entries, n, p)
    PROVE  Fixed(s, n, p) /\ p \in Own(s)
  BY DEF HostOf, Fixed, Own

\* The low binding changes the proxy's http and nothing else.
LEMMA LoweredIs ==
    ASSUME NEW s, NEW choice, NEW names, NEW ports, ports = [n \in names |-> ports[n]]
    PROVE  LET low == Lowered(s, choice, ports) IN
           /\ low = [n \in names |-> low[n]]
           /\ \A n \in names :
                 low[n] = ports[n] \/ (s = Proxy /\ n = "http" /\ ports[n] = 8080 /\ low[n] = 80)
  <1> DEFINE low == Lowered(s, choice, ports)
             changed == [n \in DOMAIN ports |->
                           IF n = "http" /\ ports[n] = 8080 THEN 80 ELSE ports[n]]
  <1>1. DOMAIN ports = names
    OBVIOUS
  <1>2. low = ports \/ (s = Proxy /\ low = changed)
    BY DEF Lowered
  <1>3. CASE low = ports
    BY <1>3
  <1>4. CASE s = Proxy /\ low = changed
    BY <1>1, <1>4
  <1> QED
    BY <1>2, <1>3, <1>4

\* Why two names of one render may have one port.
Twins(s, names, pins, m, n, p) ==
    \/ m \in DOMAIN pins /\ n \in DOMAIN pins /\ pins[m] = p /\ pins[n] = p
    \/ Fixed(s, m, p) /\ Fixed(s, n, p)
    \/ Base(s, m) \in names \ DOMAIN pins /\ Base(s, n) \in DOMAIN pins
    \/ Base(s, n) \in names \ DOMAIN pins /\ Base(s, m) \in DOMAIN pins

\* Where the port of a name comes from.
Given(s, names, pins, n, p) ==
    IF n \in DOMAIN pins THEN p = pins[n] \/ (s = Proxy /\ n = "http" /\ p = 80)
    ELSE \/ Base(s, n) \in names /\ p \in Own(s)
         \/ p \in Range10000 \ Recorded

\* The entries' ports, before the slots have theirs.
LEMMA LowIs ==
    ASSUME NEW s \in Services, registry[s] \in DOMAIN Declared[s], NEW choice, NEW busy,
           NEW pins, WellFormed(s, pins)
    PROVE  LET names == Names(s, choice)
               r == Resolve(Entries(s, choice), pins, busy)
               low == Lowered(s, choice, r.ports)
           IN /\ low = [n \in names |-> low[n]]
              /\ s # Proxy => low = r.ports /\ \A n \in names : low[n] \in r.claimed
              /\ \A n \in names : low[n] # NoPort =>
                    /\ low[n] \in Nat \ {NoPort} /\ Given(s, names, pins, n, low[n])
                    /\ s = Proxy /\ low[n] = 80 => Fixed(s, n, 80)
              /\ \A m, n \in names : m # n /\ low[m] = low[n] /\ low[m] # NoPort =>
                    Twins(s, names, pins, m, n, low[m])
  <1> DEFINE names == Names(s, choice)
             es == Entries(s, choice)
             r == Resolve(es, pins, busy)
             low == Lowered(s, choice, r.ports)
  <1>1. /\ es \in Seq(Entry) /\ ToSet(es) \subseteq AllEntries(s) /\ names \subseteq PortNames
        /\ s \in BlueGreen => "http" \in names /\ names \cap Slots = {}
        /\ names = {e.name : e \in ToSet(es)}
    BY EntriesAre DEF Names
  <1>2. Coming(es, pins, busy, r, names)
    BY <1>1, ResolveIs
  <1>3. \A n \in names : Base(s, n) = n
    BY <1>1 DEF Base, Slots
  <1> HIDE DEF names, es, r
  <1>4. /\ r.ports = [n \in names |-> r.ports[n]]
        /\ \A n \in names : r.ports[n] \in r.claimed /\ From(es, pins, busy, n, r.ports[n])
        /\ \A m, n \in names \ DOMAIN pins :
              m # n /\ r.ports[m] = r.ports[n] /\ r.ports[m] # NoPort =>
                 HostOf(es, m, r.ports[m]) /\ HostOf(es, n, r.ports[m])
    BY <1>2 DEF Coming
  <1>5. /\ low = [n \in names |-> low[n]]
        /\ \A n \in names : \/ low[n] = r.ports[n]
                            \/ s = Proxy /\ n = "http" /\ r.ports[n] = 8080 /\ low[n] = 80
    BY <1>4, LoweredIs
  <1>6. s # Proxy => low = r.ports
    BY DEF Lowered
  <1> HIDE DEF low
  <1>7. \A n \in names : \A p : HostOf(es, n, p) => Fixed(s, n, p) /\ p \in Own(s)
    BY <1>1, <1>3, HostIsFixed
  <1>8. ToSet(es) \subseteq Entry /\ PortMap(pins)
    BY <1>1, ElementOfSeq, LenProperties DEF ToSet, WellFormed
  <1>9. \A n \in names : \A p : Drawn(es, busy, n, p) =>
           p \in Nat /\ p >= 1024 /\ (p \in Own(s) \/ p \in Range10000 \ Recorded)
    <2> SUFFICES ASSUME NEW n \in names, NEW p, Drawn(es, busy, n, p)
                 PROVE  p \in Nat /\ p >= 1024 /\ (p \in Own(s) \/ p \in Range10000 \ Recorded)
      OBVIOUS
    <2>1. CASE p \in Range10000 \ Recorded
      BY <2>1, PortsConstants
    <2>2. CASE p >= 1024 /\ \E e \in ToSet(es) : e.name = n /\ e.container = p
      <3>1. PICK e \in ToSet(es) : e.container = p
        BY <2>2
      <3>2. e \in Entry /\ e \in AllEntries(s)
        BY <1>1, <1>8, <3>1
      <3> QED
        BY <2>2, <3>1, <3>2 DEF Own, Entry
    <2> QED
      BY <2>1, <2>2 DEF Drawn
  <1>10. ASSUME NEW n \in names, NEW p, p # NoPort, From(es, pins, busy, n, p)
         PROVE  /\ p \in Nat \ {NoPort} /\ Given(s, names, pins, n, p)
                /\ s = Proxy /\ p = 80 => Fixed(s, n, 80)
    <2>1. CASE n \in DOMAIN pins
      <3>1. p = pins[n] /\ p \in Nat \ {NoPort}
        BY <1>8, <1>10, <2>1 DEF From, PortMap
      <3> QED
        BY <2>1, <3>1 DEF Given, WellFormed
    <2>2. CASE n \notin DOMAIN pins /\ p # 0 /\ HostOf(es, n, p)
      <3>1. Fixed(s, n, p) /\ p \in Own(s)
        BY <1>7, <2>2
      <3>2. p \in Nat
        BY <1>8, <2>2 DEF HostOf, Entry
      <3> QED
        BY <1>3, <1>10, <2>2, <3>1, <3>2 DEF Given
    <2>3. CASE n \notin DOMAIN pins /\ Drawn(es, busy, n, p)
      <3>1. p \in Nat /\ p >= 1024 /\ (p \in Own(s) \/ p \in Range10000 \ Recorded)
        BY <1>9, <2>3
      <3>2. p # 80 /\ p \in Nat \ {NoPort}
        BY <1>10, <3>1
      <3> QED
        BY <1>3, <2>3, <3>1, <3>2 DEF Given
    <2> QED
      BY <1>10, <2>1, <2>2, <2>3 DEF From
  <1>11. Fixed(Proxy, "http", 80) /\ 80 \in Nat \ {NoPort} /\ 80 \in Own(s)
    BY DEF Fixed, NoPort, Own
  <1>12. ASSUME NEW n \in names, low[n] # NoPort
         PROVE  /\ low[n] \in Nat \ {NoPort} /\ Given(s, names, pins, n, low[n])
                /\ s = Proxy /\ low[n] = 80 => Fixed(s, n, 80)
    <2>1. CASE low[n] = r.ports[n]
      BY <1>4, <1>10, <1>12, <2>1
    <2>2. CASE s = Proxy /\ n = "http" /\ low[n] = 80
      BY <1>3, <1>11, <2>2 DEF Given
    <2> QED
      BY <1>5, <2>1, <2>2
  <1>13. ASSUME NEW m \in names, NEW n \in names, m # n, r.ports[m] = r.ports[n],
                r.ports[m] # NoPort
         PROVE  Twins(s, names, pins, m, n, r.ports[m])
    <2>1. CASE m \in DOMAIN pins /\ n \in DOMAIN pins
      BY <1>4, <1>13, <2>1 DEF From, Twins
    <2>2. CASE m \notin DOMAIN pins /\ n \notin DOMAIN pins
      BY <1>4, <1>7, <1>13, <2>2 DEF Twins
    <2>3. CASE m \in DOMAIN pins /\ n \notin DOMAIN pins
      BY <1>3, <2>3 DEF Twins
    <2>4. CASE m \notin DOMAIN pins /\ n \in DOMAIN pins
      BY <1>3, <2>4 DEF Twins
    <2> QED
      BY <2>1, <2>2, <2>3, <2>4
  <1>14. ASSUME NEW m \in names, NEW n \in names, m # n, low[m] = low[n], low[m] # NoPort
         PROVE  Twins(s, names, pins, m, n, low[m])
    <2>1. CASE low[m] = r.ports[m] /\ low[n] = r.ports[n]
      BY <1>13, <1>14, <2>1
    <2>2. CASE s = Proxy /\ low[m] = 80 /\ low[n] = 80
      BY <1>11, <1>12, <1>14, <2>2 DEF Twins
    <2> QED
      BY <1>5, <1>14, <2>1, <2>2
  <1> QED
    BY <1>4, <1>5, <1>6, <1>12, <1>14 DEF names, es, r, low

\* All of it, for a service with slots and for one without.
Resolving(s, names, pins, ports) ==
    /\ DOMAIN ports = names \cup (IF s \in BlueGreen THEN Slots ELSE {})
    /\ WellFormed(s, ports)
    /\ \A n \in DOMAIN ports : Given(s, names, pins, n, ports[n])
    /\ \A m, n \in DOMAIN ports : Base(s, m) # Base(s, n) /\ ports[m] = ports[n] =>
          Twins(s, names, pins, m, n, ports[m])

LEMMA PlainResolved ==
    ASSUME NEW s \in Services \ BlueGreen, registry[s] \in DOMAIN Declared[s],
           NEW choice, NEW busy, NEW pins, WellFormed(s, pins),
           NoPort \notin PortsOf(Resolved(s, choice, pins, busy))
    PROVE  Resolving(s, Names(s, choice), pins, Resolved(s, choice, pins, busy))
  <1> DEFINE names == Names(s, choice)
             r == Resolve(Entries(s, choice), pins, busy)
             low == Lowered(s, choice, r.ports)
             P == Resolved(s, choice, pins, busy)
  <1>1. P = low
    BY DEF Resolved, Slotted
  <1>2. /\ low = [n \in names |-> low[n]]
        /\ \A n \in names : low[n] # NoPort =>
              /\ low[n] \in Nat \ {NoPort} /\ Given(s, names, pins, n, low[n])
              /\ s = Proxy /\ low[n] = 80 => Fixed(s, n, 80)
        /\ \A m, n \in names : m # n /\ low[m] = low[n] /\ low[m] # NoPort =>
              Twins(s, names, pins, m, n, low[m])
    BY LowIs
  <1>3. names \subseteq PortNames
    BY EntriesAre
  <1> HIDE DEF names, low, P
  <1>4. DOMAIN P = names /\ \A n \in names : P[n] # NoPort
    BY <1>1, <1>2 DEF PortsOf, P
  <1>5. P = [n \in DOMAIN P |-> P[n]]
    BY <1>1, <1>2
  <1>6. WellFormed(s, P)
    BY <1>1, <1>2, <1>3, <1>4, <1>5 DEF WellFormed, PortMap
  <1>7. \A m, n \in DOMAIN P : Base(s, m) # Base(s, n) => m # n
    OBVIOUS
  <1>8. Resolving(s, names, pins, P)
    BY <1>1, <1>2, <1>4, <1>6, <1>7 DEF Resolving
  <1> QED
    BY <1>8 DEF names, P

LEMMA SlottedResolved ==
    ASSUME NEW s \in BlueGreen, registry[s] \in DOMAIN Declared[s],
           NEW choice, NEW busy, NEW pins, WellFormed(s, pins),
           NoPort \notin PortsOf(Resolved(s, choice, pins, busy))
    PROVE  Resolving(s, Names(s, choice), pins, Resolved(s, choice, pins, busy))
  <1> DEFINE names == Names(s, choice)
             r == Resolve(Entries(s, choice), pins, busy)
             low == Lowered(s, choice, r.ports)
             green == IF "http_green" \in DOMAIN pins THEN pins["http_green"]
                      ELSE Allocate(r.claimed, busy)
             P == Resolved(s, choice, pins, busy)
  <1>1. P = With(With(low, "http_blue", low["http"]), "http_green", green)
    BY DEF Resolved, Slotted
  <1>2. s \in Services /\ s # Proxy
    BY PortsConstants
  <1>3. /\ low = [n \in names |-> low[n]]
        /\ \A n \in names : low[n] \in r.claimed
        /\ \A n \in names : low[n] # NoPort =>
              low[n] \in Nat \ {NoPort} /\ Given(s, names, pins, n, low[n])
        /\ \A m, n \in names : m # n /\ low[m] = low[n] /\ low[m] # NoPort =>
              Twins(s, names, pins, m, n, low[m])
    BY <1>2, LowIs
  <1>4. names \subseteq PortNames /\ "http" \in names /\ names \cap Slots = {}
    BY <1>2, EntriesAre
  <1>5. /\ PortMap(pins)
        /\ DOMAIN pins # {} => /\ Slots \cup {"http"} \subseteq DOMAIN pins
                               /\ pins["http_blue"] = pins["http"]
    BY DEF WellFormed
  <1>6. /\ "http_green" \in DOMAIN pins => green = pins["http_green"]
        /\ "http_green" \notin DOMAIN pins =>
              green = NoPort \/ green \in Range10000 \ (Recorded \cup r.claimed \cup busy)
    BY AllocateIs
  <1> HIDE DEF names, r, low, green, P
  <1>7. DOMAIN low = names
    BY <1>3
  <1>8. P = [n \in names \cup Slots |-> IF n = "http_green" THEN green
                                        ELSE IF n = "http_blue" THEN low["http"] ELSE low[n]]
    BY <1>1, <1>7 DEF With, Slots
  <1>9. /\ DOMAIN P = names \cup Slots /\ P["http_green"] = green
        /\ \A n \in DOMAIN P \ {"http_green"} :
              Base(s, n) \in names /\ P[n] = low[Base(s, n)] /\ Base(s, Base(s, n)) = Base(s, n)
    BY <1>4, <1>8 DEF Base, Slots
  <1>10. \A n \in DOMAIN P : P[n] # NoPort
    BY DEF PortsOf, P
  <1>11. \A n \in DOMAIN P \ {"http_green"} :
            /\ n \in DOMAIN pins <=> Base(s, n) \in DOMAIN pins
            /\ n \in DOMAIN pins => pins[n] = pins[Base(s, n)]
    BY <1>5 DEF Base, Slots
  <1>12. P = [n \in DOMAIN P |-> P[n]]
    BY <1>8
  <1>13. \A n \in DOMAIN P \ {"http_green"} :
            P[n] \in Nat \ {NoPort} /\ Given(s, names, pins, n, P[n])
    <2> TAKE n \in DOMAIN P \ {"http_green"}
    <2>1. /\ Base(s, n) \in names /\ P[n] = low[Base(s, n)] /\ P[n] # NoPort
          /\ Base(s, Base(s, n)) = Base(s, n)
      BY <1>9, <1>10
    <2>2. P[n] \in Nat \ {NoPort} /\ Given(s, names, pins, Base(s, n), P[n])
      BY <1>3, <2>1
    <2>3. Given(s, names, pins, n, P[n])
      BY <1>2, <1>11, <2>1, <2>2 DEF Given
    <2> QED
      BY <2>2, <2>3
  <1>14. green \in Nat \ {NoPort} /\ Given(s, names, pins, "http_green", green)
    <2>1. green # NoPort
      BY <1>9, <1>10 DEF Slots
    <2>2. CASE "http_green" \in DOMAIN pins
      BY <1>5, <1>6, <2>2 DEF PortMap, Given
    <2>3. CASE "http_green" \notin DOMAIN pins
      BY <1>6, <2>1, <2>3, PortsConstants DEF Given
    <2> QED
      BY <2>2, <2>3
  <1>15. \A n \in DOMAIN P : P[n] \in Nat \ {NoPort} /\ Given(s, names, pins, n, P[n])
    BY <1>9, <1>13, <1>14
  <1>16. WellFormed(s, P)
    <2>1. P["http_blue"] = P["http"]
      BY <1>4, <1>8 DEF Slots
    <2>2. DOMAIN P \subseteq PortNames
      <3>1. Slots \subseteq PortNames
        BY PortsConstants
      <3> QED
        BY <1>4, <1>9, <3>1
    <2> QED
      BY <1>2, <1>4, <1>9, <1>12, <1>15, <2>1, <2>2 DEF WellFormed, PortMap
  <1>17. ASSUME NEW m \in DOMAIN P \ {"http_green"}, NEW n \in DOMAIN P \ {"http_green"},
                Base(s, m) # Base(s, n), P[m] = P[n]
         PROVE  Twins(s, names, pins, m, n, P[m])
    <2>1. Twins(s, names, pins, Base(s, m), Base(s, n), P[m])
      BY <1>3, <1>9, <1>10, <1>17
    <2>2. Base(s, Base(s, m)) = Base(s, m) /\ Base(s, Base(s, n)) = Base(s, n)
      BY <1>9
    <2>3. \A k, p : Base(s, Base(s, k)) = Base(s, k) /\ Fixed(s, Base(s, k), p) => Fixed(s, k, p)
      BY <1>2 DEF Fixed
    <2> QED
      BY <1>11, <2>1, <2>2, <2>3 DEF Twins
  <1>18. ASSUME NEW n \in DOMAIN P \ {"http_green"}, P[n] = green
         PROVE  /\ Twins(s, names, pins, "http_green", n, green)
                /\ Twins(s, names, pins, n, "http_green", green)
    <2>1. Base(s, n) \in names /\ green \in r.claimed /\ green # NoPort
      BY <1>3, <1>9, <1>14, <1>18
    <2>2. "http_green" \in DOMAIN pins /\ green = pins["http_green"]
      BY <1>6, <2>1
    <2>3. Base(s, "http_green") = "http_green"
      BY DEF Base
    <2>4. CASE n \in DOMAIN pins
      <3>1. P[n] = pins[n]
        BY <1>2, <1>13, <2>4 DEF Given
      <3> QED
        BY <1>18, <2>2, <2>4, <3>1 DEF Twins
    <2>5. CASE n \notin DOMAIN pins
      BY <1>11, <2>1, <2>2, <2>3, <2>5 DEF Twins
    <2> QED
      BY <2>4, <2>5
  <1>19. \A m, n \in DOMAIN P : Base(s, m) # Base(s, n) /\ P[m] = P[n] =>
            Twins(s, names, pins, m, n, P[m])
    BY <1>9, <1>17, <1>18
  <1>20. Resolving(s, names, pins, P)
    BY <1>9, <1>15, <1>16, <1>19 DEF Resolving
  <1> QED
    BY <1>20 DEF names, P

LEMMA ResolvedIs ==
    ASSUME NEW s \in Services, registry[s] \in DOMAIN Declared[s],
           NEW choice, NEW busy, NEW pins, WellFormed(s, pins),
           NoPort \notin PortsOf(Resolved(s, choice, pins, busy))
    PROVE  Resolving(s, Names(s, choice), pins, Resolved(s, choice, pins, busy))
  BY PlainResolved, SlottedResolved

-----------------------------------------------------------------------------
(***************************************************************************)
(* The ports on disk.                                                      *)
(***************************************************************************)

LEMMA NoPortsWellFormed == \A s \in Services : WellFormed(s, NoPorts)
  BY DEF WellFormed, PortMap, NoPorts

LEMMA RecordedIs ==
    ASSUME Inv
    PROVE  /\ Recorded \subseteq Nat
           /\ \A t \in installed : PortsOf(env[t]) \subseteq Recorded
           /\ \A t \in Services : PortsOf(env[t]) \subseteq Nat \ {NoPort}
  <1>1. \A t \in Services : PortsOf(env[t]) \subseteq Nat \ {NoPort}
    BY DEF Inv, EnvOK, WellFormed, PortMap, PortsOf
  <1>2. \A t \in installed : PortsOf(env[t]) \subseteq Recorded
    BY DEF Recorded
  <1>3. Recorded \subseteq Nat
    BY <1>1 DEF Recorded, Inv, RestTyped
  <1> QED
    BY <1>1, <1>2, <1>3

\* The excuses only grow while the ports stay.
LEMMA EnvStays ==
    ASSUME Inv, UNCHANGED env, installed' \subseteq installed,
           \A t \in installed' : quiet[t] \subseteq quiet'[t] /\ blind[t] \subseteq blind'[t]
    PROVE  EnvOK'
  <1>1. \A s, t \in installed' : s # t =>
           \A p \in PortsOf(env[s]) \cap PortsOf(env[t]) :
              p \in Own(s) \cap quiet'[s] \/ p \in Own(t) \cap quiet'[t]
    BY DEF Inv, EnvOK, PortsApart
  <1>2. \A s \in installed' : Distinct(s, env[s], blind'[s])
    BY DEF Inv, EnvOK, PortsApart, Distinct
  <1>3. PortsApart'
    BY <1>1, <1>2 DEF PortsApart, PortsOf, Own, Distinct, Base, Fixed
  <1> QED
    BY <1>3 DEF Inv, EnvOK, WellFormed, PortMap, Fixed, Base

\* A service whose ports are written stays apart if these are.
LEMMA EnvWritten ==
    ASSUME Inv, NEW s \in Services, NEW ports, WellFormed(s, ports),
           env' = [env EXCEPT ![s] = ports], installed' = installed \cup {s},
           \A t \in Services \ {s} : quiet'[t] = quiet[t] /\ blind'[t] = blind[t],
           Distinct(s, ports, blind'[s]),
           \A t \in installed \ {s} : \A p \in PortsOf(ports) \cap PortsOf(env[t]) :
              p \in Own(s) \cap quiet'[s] \/ p \in Own(t) \cap quiet[t]
    PROVE  EnvOK'
  <1>1. /\ DOMAIN env = Services /\ installed \subseteq Services
        /\ DOMAIN env' = Services /\ env'[s] = ports
        /\ \A t \in Services \ {s} : env'[t] = env[t]
    BY DEF Inv, EnvOK, RestTyped
  <1>2. \A t \in Services : WellFormed(t, env'[t])
    BY <1>1 DEF Inv, EnvOK
  <1>3. ASSUME NEW t \in installed', NEW u \in installed', t # u,
               NEW p \in PortsOf(env'[t]) \cap PortsOf(env'[u])
        PROVE  p \in Own(t) \cap quiet'[t] \/ p \in Own(u) \cap quiet'[u]
    <2>1. CASE t = s
      BY <1>1, <1>3, <2>1
    <2>2. CASE u = s
      BY <1>1, <1>3, <2>2
    <2>3. CASE t # s /\ u # s
      <3>1. t \in installed /\ u \in installed /\ p \in PortsOf(env[t]) \cap PortsOf(env[u])
        BY <1>1, <1>3, <2>3
      <3>2. p \in Own(t) \cap quiet[t] \/ p \in Own(u) \cap quiet[u]
        BY <1>3, <3>1 DEF Inv, EnvOK, PortsApart
      <3> QED
        BY <1>1, <2>3, <3>1, <3>2
    <2> QED
      BY <2>1, <2>2, <2>3
  <1>4. \A t \in installed' : Distinct(t, env'[t], blind'[t])
    <2> TAKE t \in installed'
    <2>1. CASE t = s
      BY <1>1, <2>1
    <2>2. CASE t # s
      BY <1>1, <2>2 DEF Inv, EnvOK, PortsApart
    <2> QED
      BY <2>1, <2>2
  <1>5. PortsApart'
    BY <1>3, <1>4 DEF PortsApart, PortsOf, Own, Distinct, Base, Fixed
  <1> QED
    BY <1>1, <1>2, <1>5 DEF EnvOK, WellFormed, PortMap, Fixed, Base

\* A re-render of an installed service, alone or over what its `.env` has.
LEMMA RerenderedApart ==
    ASSUME Inv, NEW s \in installed, NEW choice, NEW new, NEW ports,
           Resolving(s, Names(s, choice), env[s], new),
           ports = [n \in DOMAIN ports |-> ports[n]], DOMAIN new \subseteq DOMAIN ports,
           \A n \in DOMAIN ports : IF n \in DOMAIN new THEN ports[n] = new[n]
                                   ELSE n \in DOMAIN env[s] /\ ports[n] = env[s][n],
           env' = [env EXCEPT ![s] = ports], Blindly(s, choice, ports), UNCHANGED installed
    PROVE  EnvOK'
  <1> DEFINE old == env[s]
             names == Names(s, choice)
  <1>1. /\ s \in Services /\ WellFormed(s, old) /\ Distinct(s, old, blind[s])
        /\ quiet \in [Services -> SUBSET Nat] /\ blind \in [Services -> SUBSET PortNames]
        /\ PortsOf(old) \subseteq Recorded
    BY RecordedIs DEF Inv, EnvOK, RestTyped, PortsApart
  <1>2. /\ \A t \in Services \ {s} : quiet'[t] = quiet[t] /\ blind'[t] = blind[t]
        /\ quiet[s] \subseteq quiet'[s]
        /\ PortsOf(ports) \subseteq PortsOf(old) \/ Recorded \cap Own(s) \subseteq quiet'[s]
        /\ blind'[s] = blind[s] \cup (names \ DOMAIN old)
    BY <1>1 DEF Blindly, Quietly
  <1>3. /\ DOMAIN new = names \cup (IF s \in BlueGreen THEN Slots ELSE {})
        /\ WellFormed(s, new)
        /\ \A n \in DOMAIN new : Given(s, names, old, n, new[n])
        /\ \A m, n \in DOMAIN new : Base(s, m) # Base(s, n) /\ new[m] = new[n] =>
              Twins(s, names, old, m, n, new[m])
    BY DEF Resolving
  <1> HIDE DEF names, old
  <1>4. \A n \in DOMAIN ports : n \in DOMAIN new \/ n \in DOMAIN old
    BY DEF old
  <1>5. \A n \in DOMAIN ports : n \in DOMAIN new => ports[n] = new[n]
    OBVIOUS
  <1>6. \A n \in DOMAIN ports : n \notin DOMAIN new => n \in DOMAIN old /\ ports[n] = old[n]
    BY DEF old
  <1>7. WellFormed(s, ports)
    <2>1. PortMap(ports)
      BY <1>1, <1>3, <1>5, <1>6 DEF WellFormed, PortMap
    <2>2. s = Proxy => \A n \in DOMAIN ports : ports[n] = 80 => Fixed(s, n, 80)
      BY <1>1, <1>3, <1>5, <1>6 DEF WellFormed
    <2>3. s \in BlueGreen => /\ Slots \cup {"http"} \subseteq DOMAIN new
                             /\ new["http_blue"] = new["http"]
      BY <1>3 DEF WellFormed, Slots
    <2>4. s \in BlueGreen => /\ Slots \cup {"http"} \subseteq DOMAIN ports
                             /\ ports["http_blue"] = ports["http"]
      BY <1>5, <2>3 DEF Slots
    <2> QED
      BY <2>1, <2>2, <2>4 DEF WellFormed
  <1>8. \A n \in DOMAIN new \ DOMAIN old :
           Base(s, n) \in names \ DOMAIN old \/ new[n] \in Range10000 \ Recorded
    <2> SUFFICES ASSUME NEW n \in DOMAIN new \ DOMAIN old, Base(s, n) \in names
                 PROVE  Base(s, n) \notin DOMAIN old
      BY <1>3 DEF Given
    <2>1. Base(s, n) # n => s \in BlueGreen /\ n \in Slots
      BY DEF Base, Slots
    <2> QED
      BY <1>1, <2>1 DEF WellFormed
  <1>9. \A n \in DOMAIN new \cap DOMAIN old :
           new[n] = old[n] \/ (s = Proxy /\ n = "http" /\ new[n] = 80)
    BY <1>3 DEF Given
  <1>10. \A n \in DOMAIN old : old[n] \in Recorded
    BY <1>1 DEF PortsOf
  <1>11. \A m, n \in DOMAIN old : Base(s, m) # Base(s, n) /\ old[m] = old[n] =>
            \/ {Base(s, m), Base(s, n)} \cap blind'[s] # {}
            \/ Fixed(s, m, old[m]) /\ Fixed(s, n, old[m])
    BY <1>1, <1>2 DEF Distinct
  <1>12. ASSUME NEW m \in DOMAIN new, NEW n \in DOMAIN old, Base(s, m) # Base(s, n),
                new[m] = old[n]
         PROVE  \/ {Base(s, m), Base(s, n)} \cap blind'[s] # {}
                \/ Fixed(s, m, new[m]) /\ Fixed(s, n, new[m])
    <2>1. CASE m \in DOMAIN old /\ new[m] = old[m]
      BY <1>11, <1>12, <2>1
    <2>2. CASE s = Proxy /\ m = "http" /\ new[m] = 80
      BY <1>1, <1>12, <2>2 DEF WellFormed, Fixed
    <2>3. CASE m \notin DOMAIN old
      BY <1>2, <1>8, <1>10, <1>12, <2>3
    <2> QED
      BY <1>9, <2>1, <2>2, <2>3
  <1>13. ASSUME NEW m \in DOMAIN new, NEW n \in DOMAIN new, Base(s, m) # Base(s, n),
                new[m] = new[n]
         PROVE  \/ {Base(s, m), Base(s, n)} \cap blind'[s] # {}
                \/ Fixed(s, m, new[m]) /\ Fixed(s, n, new[m])
    <2>1. Twins(s, names, old, m, n, new[m])
      BY <1>3, <1>13
    <2>2. CASE m \in DOMAIN old /\ n \in DOMAIN old /\ old[m] = new[m] /\ old[n] = new[m]
      BY <1>11, <1>13, <2>2
    <2>3. CASE Base(s, m) \in names \ DOMAIN old \/ Base(s, n) \in names \ DOMAIN old
      BY <1>2, <2>3
    <2> QED
      BY <2>1, <2>2, <2>3 DEF Twins
  <1>14. Distinct(s, ports, blind'[s])
    <2> SUFFICES ASSUME NEW m \in DOMAIN ports, NEW n \in DOMAIN ports,
                        Base(s, m) # Base(s, n), ports[m] = ports[n]
                 PROVE  \/ {Base(s, m), Base(s, n)} \cap blind'[s] # {}
                        \/ Fixed(s, m, ports[m]) /\ Fixed(s, n, ports[m])
      BY DEF Distinct
    <2>1. CASE m \in DOMAIN new /\ n \in DOMAIN new
      BY <1>5, <1>13, <2>1
    <2>2. CASE m \in DOMAIN new /\ n \notin DOMAIN new
      BY <1>5, <1>6, <1>12, <2>2
    <2>3. CASE m \notin DOMAIN new /\ n \in DOMAIN new
      BY <1>5, <1>6, <1>12, <2>3
    <2>4. CASE m \notin DOMAIN new /\ n \notin DOMAIN new
      BY <1>6, <1>11, <2>4
    <2> QED
      BY <2>1, <2>2, <2>3, <2>4
  <1>15. ASSUME NEW t \in installed \ {s}, NEW p \in PortsOf(ports) \cap PortsOf(env[t])
         PROVE  p \in Own(s) \cap quiet'[s] \/ p \in Own(t) \cap quiet[t]
    <2>1. p \in Recorded
      BY RecordedIs
    <2>2. CASE p \in PortsOf(old)
      <3>1. p \in Own(s) \cap quiet[s] \/ p \in Own(t) \cap quiet[t]
        BY <2>2 DEF Inv, EnvOK, PortsApart, old
      <3> QED
        BY <1>2, <3>1
    <2>3. CASE p \notin PortsOf(old)
      <3>1. PICK n \in DOMAIN ports : p = ports[n]
        BY DEF PortsOf
      <3>2. n \in DOMAIN new /\ p = new[n]
        BY <1>5, <1>6, <2>3, <3>1 DEF PortsOf
      <3>3. 80 \in Own(s)
        BY DEF Own
      <3>4. p \in Own(s)
        BY <1>3, <2>1, <2>3, <3>2, <3>3 DEF Given, PortsOf
      <3>5. ~(PortsOf(ports) \subseteq PortsOf(old))
        BY <2>3
      <3> QED
        BY <1>2, <2>1, <3>4, <3>5
    <2> QED
      BY <2>2, <2>3
  <1>16. installed' = installed \cup {s}
    OBVIOUS
  <1> QED
    BY <1>1, <1>2, <1>7, <1>14, <1>15, <1>16, EnvWritten

-----------------------------------------------------------------------------
(***************************************************************************)
(* The commands.                                                           *)
(***************************************************************************)

LEMMA RegistryNames ==
    ASSUME Inv, NEW s \in Services, NEW choice
    PROVE  registry[s] \in DOMAIN Declared[s] /\ Names(s, choice) \subseteq PortNames
  BY EntriesAre DEF Inv, RestTyped

\* A re-render resolves on what the `.env` holds.
LEMMA RerenderedIs ==
    ASSUME Inv, NEW s \in installed, NEW choice,
           NoPort \notin PortsOf(Rerendered(s, choice))
    PROVE  /\ Resolving(s, Names(s, choice), env[s], Rerendered(s, choice))
           /\ WellFormed(s, Rerendered(s, choice))
  <1>1. s \in Services /\ registry[s] \in DOMAIN Declared[s] /\ WellFormed(s, env[s])
    BY RegistryNames DEF Inv, EnvOK, RestTyped
  <1>2. Resolving(s, Names(s, choice), env[s], Rerendered(s, choice))
    BY <1>1, ResolvedIs DEF Rerendered, Pins
  <1> QED
    BY <1>2 DEF Resolving

LEMMA PlanAddEnv ==
    ASSUME Inv, NEW s \in Services, NEW choice \in BOOLEAN, PlanAdd(s, choice)
    PROVE  EnvOK' /\ AddingOK'
  <1> DEFINE ports == Resolved(s, choice, NoPorts, InUse)
  <1>1. /\ Idle /\ s \notin installed /\ ~Refused(ports, InUse)
        /\ adding' = [service |-> s, ports |-> ports, choice |-> choice]
        /\ quiet' = [quiet EXCEPT ![s] = @ \cup ((Recorded \ InUse) \cap Own(s))]
        /\ UNCHANGED <<env, installed, blind>>
    BY DEF PlanAdd, Command, Quietly, files
  <1>2. /\ quiet \in [Services -> SUBSET Nat] /\ installed \subseteq Services
        /\ registry[s] \in DOMAIN Declared[s]
    BY RegistryNames DEF Inv, RestTyped
  <1>3. EnvOK'
    <2>1. \A t \in installed : quiet[t] \subseteq quiet'[t]
      BY <1>1, <1>2
    <2> QED
      BY <1>1, <2>1, EnvStays
  <1>4. Resolving(s, Names(s, choice), NoPorts, ports)
    <2>1. NoPort \notin PortsOf(ports)
      BY <1>1 DEF Refused
    <2> QED
      BY <1>2, <2>1, NoPortsWellFormed, ResolvedIs
  <1> HIDE DEF ports
  <1>5. DOMAIN NoPorts = {}
    BY DEF NoPorts
  <1>6. /\ WellFormed(s, ports) /\ (s \in BlueGreen => DOMAIN ports # {})
        /\ \A n \in DOMAIN ports : ports[n] \in Own(s) \/ ports[n] \in Range10000 \ Recorded
        /\ Distinct(s, ports, {})
    BY <1>4, <1>5 DEF Resolving, Given, Twins, Distinct, Slots
  <1>7. \A t \in installed :
           PortsOf(ports) \cap PortsOf(env[t]) \subseteq Own(s) \cap quiet'[s]
    <2> SUFFICES ASSUME NEW t \in installed, NEW p \in PortsOf(ports) \cap PortsOf(env[t])
                 PROVE  p \in Own(s) \cap quiet'[s]
      OBVIOUS
    <2>1. p \in Recorded /\ p \notin InUse
      BY <1>1, RecordedIs DEF Refused
    <2>2. p \in Own(s)
      BY <1>6, <2>1 DEF PortsOf
    <2> QED
      BY <1>1, <1>2, <2>1, <2>2
  <1>8. AddingOK'
    <2>1. /\ adding'.service = s /\ adding'.ports = ports /\ adding'.choice = choice
          /\ env' = env /\ installed' = installed
      BY <1>1
    <2> QED
      BY <1>1, <1>6, <1>7, <2>1
      DEF AddingOK, PortsOf, Own, Distinct, Base, Fixed, WellFormed, PortMap
  <1> QED
    BY <1>3, <1>8

\* What an add writes, also one that is cut short.
LEMMA WriteAddEnv ==
    ASSUME Inv, NEW s \in Services, NEW ports, ports \in {adding.ports, NoPorts},
           WriteAdd(s, ports)
    PROVE  EnvOK' /\ AddingOK'
  <1>1. /\ adding # Nobody /\ s = adding.service /\ adding' = Nobody
        /\ installed' = installed \cup {s} /\ env' = [env EXCEPT ![s] = ports]
        /\ UNCHANGED <<quiet, blind>>
    BY DEF WriteAdd, Idle, history
  <1>2. /\ s \in Services \ installed /\ WellFormed(s, adding.ports)
        /\ Distinct(s, adding.ports, {})
        /\ \A t \in installed :
              PortsOf(adding.ports) \cap PortsOf(env[t]) \subseteq Own(s) \cap quiet[s]
    BY <1>1 DEF Inv, AddingOK
  <1>3. WellFormed(s, ports) /\ Distinct(s, ports, blind'[s])
    <2>1. CASE ports = adding.ports
      BY <1>2, <2>1 DEF Distinct
    <2>2. CASE ports = NoPorts
      BY <1>2, <2>2, NoPortsWellFormed DEF Distinct, NoPorts
    <2> QED
      BY <2>1, <2>2
  <1>4. \A t \in installed \ {s} : \A p \in PortsOf(ports) \cap PortsOf(env[t]) :
           p \in Own(s) \cap quiet'[s] \/ p \in Own(t) \cap quiet[t]
    <2>1. CASE ports = adding.ports
      BY <1>1, <1>2, <2>1
    <2>2. CASE ports = NoPorts
      BY <2>2 DEF NoPorts, PortsOf
    <2> QED
      BY <2>1, <2>2
  <1>5. EnvOK'
    BY <1>1, <1>3, <1>4, EnvWritten
  <1>6. AddingOK'
    BY <1>1 DEF AddingOK
  <1> QED
    BY <1>5, <1>6

LEMMA RemoveEnv ==
    ASSUME Inv, NEW s \in Services, RemoveService(s)
    PROVE  EnvOK' /\ AddingOK'
  <1>1. /\ s \in installed /\ installed' = installed \ {s}
        /\ env' = [env EXCEPT ![s] = NoPorts]
        /\ quiet' = [quiet EXCEPT ![s] = {}] /\ blind' = [blind EXCEPT ![s] = {}]
        /\ adding = Nobody /\ adding' = Nobody
    BY DEF RemoveService, Command, Idle, Forget
  <1>2. /\ DOMAIN env = Services /\ installed \subseteq Services
        /\ quiet \in [Services -> SUBSET Nat] /\ blind \in [Services -> SUBSET PortNames]
    BY DEF Inv, EnvOK, RestTyped
  <1>3. \A t \in Services : WellFormed(t, env'[t])
    BY <1>1, <1>2, NoPortsWellFormed DEF Inv, EnvOK
  <1>4. \A t \in installed' :
           t \in installed /\ env'[t] = env[t] /\ quiet'[t] = quiet[t] /\ blind'[t] = blind[t]
    BY <1>1, <1>2
  <1>5. /\ \A t, u \in installed' : t # u =>
              \A p \in PortsOf(env'[t]) \cap PortsOf(env'[u]) :
                 p \in Own(t) \cap quiet'[t] \/ p \in Own(u) \cap quiet'[u]
        /\ \A t \in installed' : Distinct(t, env'[t], blind'[t])
    BY <1>4 DEF Inv, EnvOK, PortsApart
  <1>6. PortsApart'
    BY <1>5 DEF PortsApart, PortsOf, Own, Distinct, Base, Fixed
  <1>7. EnvOK'
    BY <1>1, <1>2, <1>3, <1>6 DEF EnvOK, WellFormed, PortMap, Fixed, Base
  <1> QED
    BY <1>1, <1>7 DEF AddingOK

LEMMA FailAddEnv ==
    ASSUME Inv, FailAdd
    PROVE  EnvOK' /\ AddingOK'
  <1>1. /\ adding # Nobody /\ adding' = Nobody /\ UNCHANGED <<env, installed>>
        /\ quiet' = [quiet EXCEPT ![adding.service] = {}]
        /\ blind' = [blind EXCEPT ![adding.service] = {}]
    BY DEF FailAdd, Idle, Forget, files
  <1>2. /\ adding.service \notin installed /\ installed \subseteq Services
        /\ quiet \in [Services -> SUBSET Nat] /\ blind \in [Services -> SUBSET PortNames]
    BY <1>1 DEF Inv, AddingOK, RestTyped
  <1>3. \A t \in installed : quiet[t] \subseteq quiet'[t] /\ blind[t] \subseteq blind'[t]
    BY <1>1, <1>2
  <1> QED
    BY <1>1, <1>3, EnvStays DEF AddingOK

LEMMA ConfigureEnv ==
    ASSUME Inv, NEW s \in Services, NEW choice \in BOOLEAN, Configure(s, choice)
    PROVE  EnvOK' /\ AddingOK'
  <1> DEFINE ports == Rerendered(s, choice)
  <1>1. /\ s \in installed /\ ~Refused(ports, {}) /\ env' = [env EXCEPT ![s] = ports]
        /\ Blindly(s, choice, ports) /\ UNCHANGED installed
        /\ adding = Nobody /\ adding' = Nobody
    BY DEF Configure, Command, Idle
  <1>2. Resolving(s, Names(s, choice), env[s], ports) /\ WellFormed(s, ports)
    BY <1>1, RerenderedIs DEF Refused
  <1> HIDE DEF ports
  <1>3. EnvOK'
    <2>1. ports = [n \in DOMAIN ports |-> ports[n]]
      BY <1>2 DEF WellFormed
    <2> QED
      BY <1>1, <1>2, <2>1, RerenderedApart
  <1> QED
    BY <1>1, <1>3 DEF AddingOK

LEMMA ReconcileEnv ==
    ASSUME Inv, NEW s \in Services, Reconcile(s)
    PROVE  EnvOK' /\ AddingOK'
  <1> DEFINE new == Rerendered(s, chosen[s])
             ports == Merged(new, env[s])
  <1>1. /\ s \in installed /\ ~Refused(ports, {}) /\ env' = [env EXCEPT ![s] = ports]
        /\ Blindly(s, chosen[s], ports) /\ UNCHANGED installed
        /\ adding = Nobody /\ adding' = Nobody
    BY DEF Reconcile, Command, Idle
  <1>2. chosen[s] \in BOOLEAN
    BY DEF Inv, RestTyped
  <1>3. /\ ports = [n \in DOMAIN ports |-> ports[n]]
        /\ DOMAIN ports = DOMAIN new \cup DOMAIN env[s]
        /\ \A n \in DOMAIN ports : IF n \in DOMAIN new THEN ports[n] = new[n]
                                   ELSE n \in DOMAIN env[s] /\ ports[n] = env[s][n]
    BY DEF Merged
  <1>4. Resolving(s, Names(s, chosen[s]), env[s], new)
    <2> HIDE DEF new, ports
    <2>1. PortsOf(new) \subseteq PortsOf(ports)
      BY <1>3 DEF PortsOf
    <2>2. NoPort \notin PortsOf(new)
      BY <1>1, <2>1 DEF Refused
    <2> QED
      BY <1>1, <2>2, RerenderedIs DEF new
  <1> HIDE DEF new, ports
  <1>5. EnvOK'
    <2>1. DOMAIN new \subseteq DOMAIN ports
      BY <1>3
    <2>2. \A n \in DOMAIN ports : IF n \in DOMAIN new THEN ports[n] = new[n]
                                  ELSE n \in DOMAIN env[s] /\ ports[n] = env[s][n]
      BY <1>3
    <2>3. ports = [n \in DOMAIN ports |-> ports[n]]
      BY <1>3
    <2> QED
      BY <1>1, <1>2, <1>4, <2>1, <2>2, <2>3, RerenderedApart
  <1> QED
    BY <1>1, <1>5 DEF AddingOK

\* Every other step leaves the `.env` files and the excuses alone.
LEMMA Elsewhere ==
    ASSUME Inv, UNCHANGED <<env, installed, adding, quiet, blind>>
    PROVE  EnvOK' /\ AddingOK'
  <1>1. EnvOK'
    BY EnvStays
  <1>2. AddingOK'
    BY DEF Inv, AddingOK, WellFormed, PortMap, Distinct, Fixed, Base, PortsOf, Own
  <1> QED
    BY <1>1, <1>2

LEMMA EnvNext ==
    ASSUME Inv, [Next]_vars
    PROVE  EnvOK' /\ AddingOK'
  <1>1. ASSUME NEW s \in Services, NEW choice \in BOOLEAN,
               PlanAdd(s, choice) \/ Configure(s, choice)
        PROVE  EnvOK' /\ AddingOK'
    BY <1>1, PlanAddEnv, ConfigureEnv
  <1>2. ASSUME NEW s \in Services, FinishAdd(s) \/ CutAdd(s)
        PROVE  EnvOK' /\ AddingOK'
    BY <1>2, WriteAddEnv DEF FinishAdd, CutAdd
  <1>3. ASSUME NEW s \in Services, RemoveService(s) \/ Reconcile(s)
        PROVE  EnvOK' /\ AddingOK'
    BY <1>3, RemoveEnv, ReconcileEnv
  <1>4. ASSUME NEW s \in Services, Upgrade(s) \/ Deploy(s) \/ Start(s) \/ Publish(s) \/ Die(s)
        PROVE  EnvOK' /\ AddingOK'
    BY <1>4, Elsewhere DEF Upgrade, Deploy, Start, Publish, Die, files, history
  <1>5. CASE Sysctl \/ \E p \in HostPorts : Process(p)
    BY <1>5, Elsewhere DEF Sysctl, Process, files, history
  <1>6. CASE UNCHANGED vars
    BY <1>6, Elsewhere DEF vars, files, history
  <1>7. CASE Next
    BY <1>1, <1>2, <1>3, <1>4, <1>5, <1>7, FailAddEnv DEF Next
  <1> QED
    BY <1>6, <1>7

-----------------------------------------------------------------------------
(***************************************************************************)
(* The other variables.                                                    *)
(***************************************************************************)

LEMMA OwnIsNat == \A s \in Services : Own(s) \subseteq Nat
  <1> SUFFICES ASSUME NEW s \in Services PROVE Own(s) \subseteq Nat
    OBVIOUS
  <1>1. ToSet(Gated[s]) \subseteq Entry
    BY PortsConstants, ElementOfSeq, LenProperties DEF ToSet
  <1>2. \A v \in DOMAIN Declared[s] : ToSet(Declared[s][v]) \subseteq Entry
    <2> TAKE v \in DOMAIN Declared[s]
    <2>1. Declared[s][v] \in Seq(Entry)
      BY PortsConstants, ElementOfSeq, LenProperties
    <2> QED
      BY <2>1, ElementOfSeq, LenProperties DEF ToSet
  <1>3. AllEntries(s) \subseteq Entry
    BY <1>1, <1>2 DEF AllEntries
  <1> QED
    BY <1>3 DEF Own, Entry

\* What a unit publishes is in the service's `.env`.
LEMMA PublishesIs ==
    ASSUME NEW s, NEW names, NEW ports
    PROVE  Publishes(s, names, ports) \subseteq PortsOf(ports)
  BY DEF Publishes, PortsOf

LEMMA StartedTyped ==
    ASSUME Inv, NEW s \in Services, NEW ports, ports \subseteq Nat \ {NoPort}
    PROVE  Started(s, ports) \in [Services -> SUBSET (Nat \ {NoPort})]
  BY DEF Started, Inv, RestTyped

LEMMA MapIs ==
    ASSUME NEW s, NEW ports, WellFormed(s, ports)
    PROVE  PortsOf(ports) \subseteq Nat \ {NoPort}
  BY DEF WellFormed, PortMap, PortsOf

LEMMA CommandCounts == ASSUME Inv, Command PROVE commands' \in 0 .. MaxCommands
  BY PortsConstants DEF Command, Inv, RestTyped

LEMMA RestNext ==
    ASSUME Inv, [Next]_vars
    PROVE  RestTyped'
  <1> USE DEF Inv, RestTyped
  <1>1. ASSUME NEW s \in Services, NEW choice \in BOOLEAN, PlanAdd(s, choice)
        PROVE  RestTyped'
    BY <1>1, CommandCounts, OwnIsNat DEF PlanAdd, Quietly, files
  <1>2. ASSUME NEW s \in Services, NEW choice \in BOOLEAN, Configure(s, choice)
        PROVE  RestTyped'
    <2> DEFINE ports == Rerendered(s, choice)
    <2>1. /\ s \in installed /\ NoPort \notin PortsOf(ports)
          /\ unit' = [unit EXCEPT ![s] = Names(s, choice)]
          /\ chosen' = [chosen EXCEPT ![s] = choice]
          /\ bound' = Started(s, Publishes(s, unit'[s], ports))
          /\ Blindly(s, choice, ports)
          /\ UNCHANGED <<registry, lowPorts, installed, slot, host>>
      BY <1>2 DEF Configure, Refused
    <2>2. PortsOf(ports) \subseteq Nat \ {NoPort}
      BY <2>1, RerenderedIs, MapIs
    <2> HIDE DEF ports
    <2>3. Started(s, Publishes(s, unit'[s], ports)) \in [Services -> SUBSET (Nat \ {NoPort})]
      <3>1. Publishes(s, unit'[s], ports) \subseteq Nat \ {NoPort}
        BY <2>2, PublishesIs
      <3> QED
        BY <3>1, StartedTyped
    <2>4. Names(s, choice) \subseteq PortNames
      BY RegistryNames
    <2>5. quiet' \in [Services -> SUBSET Nat] /\ blind' \in [Services -> SUBSET PortNames]
      BY <2>1, <2>4, OwnIsNat DEF Blindly, Quietly
    <2>6. commands' \in 0 .. MaxCommands
      BY <1>2, CommandCounts DEF Configure
    <2> QED
      BY <2>1, <2>3, <2>4, <2>5, <2>6
  <1>3. ASSUME NEW s \in Services, FinishAdd(s) \/ CutAdd(s)
        PROVE  RestTyped'
    <2>1. \E ports : WriteAdd(s, ports)
      BY <1>3 DEF FinishAdd, CutAdd
    <2>2. /\ adding # Nobody /\ s = adding.service
          /\ installed' = installed \cup {s}
          /\ unit' = [unit EXCEPT ![s] = Names(s, adding.choice)]
          /\ chosen' = [chosen EXCEPT ![s] = adding.choice]
          /\ slot' = [slot EXCEPT ![s] = "http_blue"]
          /\ UNCHANGED <<registry, lowPorts, host, quiet, blind, commands>>
      BY <2>1 DEF WriteAdd, Idle, history
    <2>3. /\ adding.choice \in BOOLEAN /\ WellFormed(s, adding.ports)
          /\ s \in BlueGreen => DOMAIN adding.ports # {}
      BY <2>2 DEF AddingOK
    <2>4. Names(s, adding.choice) \subseteq PortNames
      BY RegistryNames
    <2>5. bound' \in [Services -> SUBSET (Nat \ {NoPort})]
      <3>1. CASE CutAdd(s)
        BY <3>1 DEF CutAdd
      <3>2. CASE FinishAdd(s)
        <4> DEFINE ports == IF s \in BlueGreen THEN {adding.ports["http_blue"]}
                            ELSE PortsOf(adding.ports)
        <4>1. ports \subseteq PortsOf(adding.ports)
          BY <2>3 DEF WellFormed, Slots, PortsOf
        <4>2. ports \subseteq Nat \ {NoPort}
          BY <2>3, <4>1, MapIs
        <4>3. bound' = Started(s, ports)
          BY <3>2 DEF FinishAdd
        <4> HIDE DEF ports
        <4> QED
          BY <4>2, <4>3, StartedTyped
      <3> QED
        BY <1>3, <3>1, <3>2
    <2> QED
      BY <2>2, <2>3, <2>4, <2>5 DEF Slots
  <1>4. CASE FailAdd
    BY <1>4 DEF FailAdd, Forget, AddingOK, Idle, files
  <1>5. ASSUME NEW s \in Services, RemoveService(s)
        PROVE  RestTyped'
    BY <1>5, CommandCounts DEF RemoveService, Forget, Slots
  <1>6. ASSUME NEW s \in Services, Upgrade(s)
        PROVE  RestTyped'
    <2>1. /\ unit' = [unit EXCEPT ![s] = Names(s, chosen[s])]
          /\ bound' = Started(s, Publishes(s, unit'[s], env[s]))
          /\ UNCHANGED <<registry, lowPorts, installed, chosen, slot, host, quiet, blind>>
      BY <1>6 DEF Upgrade, history
    <2>2. Names(s, chosen[s]) \subseteq PortNames
      BY RegistryNames
    <2>3. Started(s, Publishes(s, unit'[s], env[s])) \in [Services -> SUBSET (Nat \ {NoPort})]
      <3>1. Publishes(s, unit'[s], env[s]) \subseteq Nat \ {NoPort}
        BY PublishesIs, RecordedIs
      <3> QED
        BY <3>1, StartedTyped
    <2>4. commands' \in 0 .. MaxCommands
      BY <1>6, CommandCounts DEF Upgrade
    <2> QED
      BY <2>1, <2>2, <2>3, <2>4
  <1>7. ASSUME NEW s \in Services, Deploy(s)
        PROVE  RestTyped'
    <2>1. PICK other \in Slots \ {slot[s]} :
             /\ Command /\ other \in DOMAIN env[s]
             /\ slot' = [slot EXCEPT ![s] = other]
             /\ bound' = [bound EXCEPT ![s] = {env[s][other]}]
             /\ UNCHANGED <<registry, lowPorts, installed, unit, chosen, host, quiet, blind>>
      BY <1>7 DEF Deploy, files, history
    <2>2. env[s][other] \in Nat \ {NoPort}
      BY <2>1, RecordedIs DEF PortsOf
    <2>3. commands' \in 0 .. MaxCommands
      BY <2>1, CommandCounts
    <2> QED
      BY <2>1, <2>2, <2>3
  <1>8. ASSUME NEW s \in Services, Reconcile(s)
        PROVE  RestTyped'
    <2> DEFINE ports == Merged(Rerendered(s, chosen[s]), env[s])
    <2>1. /\ bound' = Started(s, Publishes(s, unit[s], ports))
          /\ env' = [env EXCEPT ![s] = ports] /\ Blindly(s, chosen[s], ports)
          /\ UNCHANGED <<registry, lowPorts, installed, unit, chosen, slot, host>>
      BY <1>8 DEF Reconcile
    <2> HIDE DEF ports
    <2>2. PortsOf(ports) \subseteq Nat \ {NoPort}
      <3>1. env'[s] = ports /\ EnvOK'
        BY <1>8, <2>1, ReconcileEnv DEF EnvOK
      <3>2. \A n \in DOMAIN env'[s] : env'[s][n] \in Nat \ {NoPort}
        BY <3>1 DEF EnvOK, WellFormed, PortMap
      <3> QED
        BY <3>1, <3>2 DEF PortsOf
    <2>3. Started(s, Publishes(s, unit[s], ports)) \in [Services -> SUBSET (Nat \ {NoPort})]
      <3>1. Publishes(s, unit[s], ports) \subseteq Nat \ {NoPort}
        BY <2>2, PublishesIs
      <3> QED
        BY <3>1, StartedTyped
    <2>4. Names(s, chosen[s]) \subseteq PortNames
      BY RegistryNames
    <2>5. quiet' \in [Services -> SUBSET Nat] /\ blind' \in [Services -> SUBSET PortNames]
      BY <2>1, <2>4, OwnIsNat DEF Blindly, Quietly
    <2>6. commands' \in 0 .. MaxCommands
      BY <1>8, CommandCounts DEF Reconcile
    <2>7. bound' \in [Services -> SUBSET (Nat \ {NoPort})]
      BY <2>1, <2>3
    <2>8. UNCHANGED <<registry, lowPorts, installed, unit, chosen, slot, host>>
      BY <2>1
    <2> QED
      BY <2>5, <2>6, <2>7, <2>8
  <1>9. ASSUME NEW s \in Services, Start(s)
        PROVE  RestTyped'
    <2> DEFINE ports == Publishes(s, unit[s], env[s])
                        \cup {env[s][n] : n \in Slots \cap DOMAIN env[s]}
    <2>1. /\ bound' = [bound EXCEPT ![s] = ports \ Taken(s)] \/ bound' = Started(s, ports)
          /\ UNCHANGED <<registry, lowPorts, installed, unit, chosen, slot, host, quiet, blind,
                         commands>>
      BY <1>9 DEF Start, files, history
    <2>2. ports \subseteq Nat \ {NoPort}
      <3>1. {env[s][n] : n \in Slots \cap DOMAIN env[s]} \subseteq PortsOf(env[s])
        BY DEF PortsOf
      <3> QED
        BY <3>1, PublishesIs, RecordedIs
    <2> HIDE DEF ports
    <2>3. bound' \in [Services -> SUBSET (Nat \ {NoPort})]
      <3>1. CASE bound' = [bound EXCEPT ![s] = ports \ Taken(s)]
        BY <2>2, <3>1
      <3>2. CASE bound' = Started(s, ports)
        <4>1. Started(s, ports) \in [Services -> SUBSET (Nat \ {NoPort})]
          BY <2>2, StartedTyped
        <4> QED
          BY <3>2, <4>1
      <3> QED
        BY <2>1, <3>1, <3>2
    <2>4. UNCHANGED <<registry, lowPorts, installed, unit, chosen, slot, host, quiet, blind,
                      commands>>
      BY <2>1
    <2> QED
      BY <2>3, <2>4
  <1>10. ASSUME NEW s \in Services, Publish(s)
         PROVE  RestTyped'
    <2>1. DOMAIN Declared[s] = 1 .. Len(Declared[s]) /\ Len(Declared[s]) \in Nat
      BY PortsConstants, LenProperties
    <2>2. registry[s] + 1 \in DOMAIN Declared[s]
      BY <1>10, <2>1 DEF Publish
    <2>3. /\ registry' = [registry EXCEPT ![s] = registry[s] + 1]
          /\ UNCHANGED <<lowPorts, installed, unit, chosen, slot, bound, host, quiet, blind,
                         commands>>
      BY <1>10 DEF Publish, files, history
    <2> QED
      BY <2>2, <2>3
  <1>11. ASSUME NEW s \in Services, Die(s)
         PROVE  RestTyped'
    BY <1>11 DEF Die, files, history
  <1>12. CASE Sysctl \/ \E p \in HostPorts : Process(p)
    BY <1>12 DEF Sysctl, Process, files, history
  <1>13. CASE UNCHANGED vars
    BY <1>13 DEF vars, files, history
  <1>14. CASE Next
    BY <1>1, <1>2, <1>3, <1>4, <1>5, <1>6, <1>7, <1>8, <1>9, <1>10, <1>11, <1>12, <1>14
    DEF Next
  <1> QED
    BY <1>13, <1>14

-----------------------------------------------------------------------------
LEMMA InitInv == Init => Inv
  <1> SUFFICES ASSUME Init PROVE Inv
    OBVIOUS
  <1>1. RestTyped
    <2>1. \A s \in Services : 1 \in DOMAIN Declared[s]
      <3> TAKE s \in Services
      <3>1. Declared[s] \in Seq(Seq(Entry)) /\ Declared[s] # << >>
        BY PortsConstants
      <3> QED
        BY <3>1, EmptySeq, LenProperties
    <2>2. /\ registry \in [Services -> Nat] /\ \A s \in Services : registry[s] = 1
          /\ commands \in 0 .. MaxCommands /\ slot \in [Services -> Slots]
      BY PortsConstants DEF Init, Slots
    <2> QED
      BY <2>1, <2>2 DEF Init, RestTyped
  <1>2. EnvOK
    BY NoPortsWellFormed DEF Init, EnvOK, PortsApart
  <1> QED
    BY <1>1, <1>2 DEF Inv, AddingOK, Init

LEMMA SpecInv == Spec => []Inv
  <1>1. Inv /\ [Next]_vars => Inv'
    BY EnvNext, RestNext DEF Inv
  <1> QED
    BY <1>1, InitInv, PTL DEF Spec

\* The variables have their types.
THEOREM TypeCorrect == Spec => []TypeOK
  <1>1. Inv => TypeOK
    <2> SUFFICES ASSUME Inv PROVE TypeOK
      OBVIOUS
    <2>1. registry \in [Services -> Nat \ {0}]
      <3>1. \A s \in Services : registry[s] # 0
        BY PortsConstants, LenProperties DEF Inv, RestTyped
      <3> QED
        BY <3>1 DEF Inv, RestTyped
    <2>2. /\ DOMAIN env = Services
          /\ \A s \in Services : /\ DOMAIN env[s] \subseteq PortNames
                                 /\ \A n \in DOMAIN env[s] : env[s][n] \in Nat \ {NoPort}
      BY DEF Inv, EnvOK, WellFormed, PortMap
    <2>3. adding # Nobody =>
             /\ adding.service \in Services /\ adding.choice \in BOOLEAN
             /\ DOMAIN adding.ports \subseteq PortNames
             /\ \A n \in DOMAIN adding.ports : adding.ports[n] \in Nat \ {NoPort}
      BY DEF Inv, AddingOK, WellFormed, PortMap
    <2> QED
      BY <2>1, <2>2, <2>3 DEF TypeOK, Inv, RestTyped
  <1> QED
    BY <1>1, SpecInv, PTL

\* Whatever services come, go, change and are cut short, and in what order units
\* and processes bind: a port that allocate_port_excluding draws goes to nobody
\* else, and ports two services or two names share have one of the reasons that
\* PortsApart names.
THEOREM PortsApartAlways == Spec => []PortsApart
  <1>1. Inv => PortsApart
    BY DEF Inv, EnvOK
  <1> QED
    BY <1>1, SpecInv, PTL

(***************************************************************************)
(* The deploy of a service with two slots (BlueGreen), for every           *)
(* MaxVersion and every kind of install, from one inductive invariant.     *)
(***************************************************************************)

\* The labels of a deploy up to and including the start of the target slot.
Rendering ==
    {"writeBlue", "writeGreen", "sync", "build", "daemonReload", "enable",
     "routeBlue", "reloadBlue", "start"}

\* A deploy rolls onto the slot that is not recorded as live, and only takes
\* the steps its kind of install has.
PlanOK ==
    pc \in DeployLabels =>
        /\ target = Other(active)
        /\ runtime = "podman" => pc \notin {"sync", "build", "enable"}
        /\ runtime = "native" => pc \notin {"writeBlue", "writeGreen"}
        /\ pc \in {"routeBlue", "reloadBlue", "route", "reload"} => routed

\* Once the gate has passed the target answers, and once the route is written
\* it is the target's.
SwapOK ==
    /\ pc \in {"route", "reload"} => target \in ready
    /\ pc = "reload" => caddyfile = target

\* The target's artifact is the planned version from the moment it is rendered,
\* so that starting the slot brings that version up.
RenderOK ==
    /\ runtime = "podman" /\ pc = "writeGreen" => artifact["blue"] = planned
    /\ runtime = "podman"
         /\ pc \in {"routeBlue", "reloadBlue", "daemonReload", "start"}
            => artifact[target] = planned
    /\ runtime = "podman" /\ pc = "start" => generated[target] = planned
    /\ runtime = "native"
         /\ pc \in {"daemonReload", "enable", "routeBlue", "reloadBlue", "start"}
            => artifact[target] = planned
    /\ fresh /\ pc \in Rendering => target \notin up
    /\ fresh /\ pc \in {"gate", "route", "reload"} => image[target] = planned

\* Rolling blue onto green, Caddy stays on blue until the swap's own route.
AlignedOK ==
    aligned /\ target = "green" /\ pc \in Rendering \cup {"gate", "route"}
        => caddyfile = "blue" /\ conf \in {"blue", "down"}

SlotsInv ==
    SlotsTypeOK /\ PlanOK /\ SwapOK /\ RenderOK /\ AlignedOK /\ OldSlotStopsLast
        /\ FreshSlotRunsPlan

\* The invariant holds right after `ryra add`.
LEMMA SlotsInitInv == SlotsInit => SlotsInv
  <1> SUFFICES ASSUME SlotsInit PROVE SlotsInv
    OBVIOUS
  <1>1. 0 \in Versions /\ 1 \in Versions
    BY ConstantsOK DEF ConstantsOK, Versions
  <1>2. runtime \in {"podman", "native"} /\ routed \in BOOLEAN
    BY ConstantsOK DEF ConstantsOK, SlotsInit
  <1>3. image \in [Colors -> Versions]
    BY <1>1 DEF SlotsInit
  <1>4. SlotsTypeOK
    BY <1>1, <1>2, <1>3 DEF SlotsInit, SlotsTypeOK, Colors
  <1>5. pc = "idle"
    BY DEF SlotsInit
  <1> QED
    BY <1>4, <1>5
    DEF SlotsInv, PlanOK, SwapOK, RenderOK, AlignedOK, OldSlotStopsLast,
        FreshSlotRunsPlan, Committing, DeployLabels, Rendering

\* Every step of a deploy keeps the invariant.
LEMMA DeployStepInv == SlotsInv /\ DeployStep => SlotsInv'
  <1> SUFFICES ASSUME SlotsInv, DeployStep PROVE SlotsInv'
    OBVIOUS
  <1> USE ConstantsOK
      DEF ConstantsOK, SlotsInv, SlotsTypeOK, PlanOK, SwapOK, RenderOK, AlignedOK,
          OldSlotStopsLast, FreshSlotRunsPlan, Committing, DeployLabels,
          Rendering, Colors, Versions, Other, install, slots, routing, slotsHistory
  <1>1. CASE WriteQuadlet("writeBlue", "blue")
    BY <1>1 DEF WriteQuadlet, Step, After, RenderAfter
  <1>2. CASE WriteQuadlet("writeGreen", "green")
    BY <1>2 DEF WriteQuadlet, Step, After, RenderAfter
  <1>3. CASE SyncSource
    BY <1>3 DEF SyncSource, Step, After, RenderAfter
  <1>4. CASE BuildSlot
    BY <1>4 DEF BuildSlot, Step, After, RenderAfter
  <1>5. CASE DaemonReload
    BY <1>5 DEF DaemonReload, Step, After, RenderAfter
  <1>6. CASE EnableBlue
    BY <1>6 DEF EnableBlue, Step, After, RenderAfter
  <1>7. CASE WriteRoute("routeBlue", "blue")
    BY <1>7 DEF WriteRoute, Step, After, RenderAfter
  <1>8. CASE ReloadCaddy("reloadBlue")
    BY <1>8 DEF ReloadCaddy, Step, After, RenderAfter
  <1>9. CASE StartTarget
    BY <1>9 DEF StartTarget, StartUnit, Step, After, SwapAfter
  <1>10. CASE GatePasses
    BY <1>10 DEF GatePasses, Step, After, SwapAfter
  <1>11. CASE GateTimesOut
    BY <1>11 DEF GateTimesOut
  <1>12. CASE WriteRoute("route", target)
    BY <1>12 DEF WriteRoute, Step, After, SwapAfter
  <1>13. CASE ReloadCaddy("reload")
    BY <1>13 DEF ReloadCaddy, Step, After, SwapAfter
  <1>14. CASE StopLive
    BY <1>14 DEF StopLive, StopUnit, Step, After, SwapAfter
  <1>15. CASE FlipActive
    BY <1>15 DEF FlipActive, Step, After, SwapAfter
  <1> QED
    BY <1>1, <1>2, <1>3, <1>4, <1>5, <1>6, <1>7, <1>8, <1>9, <1>10, 
       <1>11, <1>12, <1>13, <1>14, <1>15 DEF DeployStep

\* Every step keeps the invariant.
LEMMA SlotsNextInv == SlotsInv /\ [SlotsNext]_slotsVars => SlotsInv'
  <1> SUFFICES ASSUME SlotsInv, [SlotsNext]_slotsVars PROVE SlotsInv'
    OBVIOUS
  <1>1. CASE DeployStep
    BY <1>1, DeployStepInv
  <1> USE ConstantsOK
      DEF ConstantsOK, SlotsInv, SlotsTypeOK, PlanOK, SwapOK, RenderOK, AlignedOK,
          OldSlotStopsLast, FreshSlotRunsPlan, Committing, DeployLabels,
          Rendering, Colors, Versions, Other, install, slots, routing, slotsHistory
  <1>2. CASE BeginDeploy
    BY <1>2 DEF BeginDeploy, RenderFirst
  <1>3. CASE Abort
    BY <1>3 DEF Abort
  <1>4. CASE \E command \in {"lifecycleStart", "lifecycleStop"} :
                BeginLifecycle(command)
    BY <1>4 DEF BeginLifecycle
  <1>5. CASE \E c \in Colors : LifecycleUnit(c)
    <2> PICK c \in Colors : LifecycleUnit(c)
      BY <1>5
    <2>1. CASE pc = "lifecycleStart"
      <3>1. StartUnit(c) /\ pc' \in {"lifecycleStart", "idle"} /\ todo' \subseteq todo
        BY <2>1 DEF LifecycleUnit
      <3>2. image' \in [Colors -> Versions] /\ up' \subseteq Colors /\ ready' \subseteq up'
        BY <3>1 DEF StartUnit
      <3> QED
        BY <3>1, <3>2 DEF LifecycleUnit
    <2>2. CASE pc = "lifecycleStop"
      <3>1. StopUnit(c) /\ pc' \in {"lifecycleStop", "idle"} /\ todo' \subseteq todo
        BY <2>2 DEF LifecycleUnit
      <3>2. image' \in [Colors -> Versions] /\ up' \subseteq Colors /\ ready' \subseteq up'
        BY <3>1 DEF StopUnit
      <3> QED
        BY <3>1, <3>2 DEF LifecycleUnit
    <2> QED
      BY <2>1, <2>2 DEF LifecycleUnit
  <1>6. CASE BumpRegistry
    BY <1>6 DEF BumpRegistry
  <1>7. CASE \E c \in Colors : SlotBecomesReady(c)
    BY <1>7 DEF SlotBecomesReady
  <1>8. CASE Reboot
    BY <1>8 DEF Reboot
  <1>9. CASE CaddyDown
    BY <1>9 DEF CaddyDown
  <1>10. CASE CaddyUp
    BY <1>10 DEF CaddyUp
  <1>11. CASE UNCHANGED slotsVars
    BY <1>11 DEF slotsVars
  <1> QED
    BY <1>1, <1>2, <1>3, <1>4, <1>5, <1>6, <1>7, <1>8, <1>9, <1>10, <1>11 DEF SlotsNext

\* The invariant holds at every moment of every execution.
LEMMA SlotsSpecInv == SlotsSpec => []SlotsInv
  BY SlotsInitInv, SlotsNextInv, PTL DEF SlotsSpec

\* Type correctness: no sequence of deploys, failures, reboots and lifecycle
\* commands takes a variable out of its range.
THEOREM SlotsTypeCorrect == SlotsSpec => []SlotsTypeOK
  <1>1. SlotsInv => SlotsTypeOK
    BY DEF SlotsInv
  <1> QED
    BY <1>1, SlotsSpecInv, PTL

\* color_swap_steps's order: when a deploy stops the old slot, the new one has
\* answered its gate and is the one that Caddy routes to.
THEOREM SwapOrder == SlotsSpec => []OldSlotStopsLast
  <1>1. SlotsInv => OldSlotStopsLast
    BY DEF SlotsInv
  <1> QED
    BY <1>1, SlotsSpecInv, PTL

\* A deploy onto a slot that was down runs the version it set out to deploy.
THEOREM FreshDeploy == SlotsSpec => []FreshSlotRunsPlan
  <1>1. SlotsInv => FreshSlotRunsPlan
    BY DEF SlotsInv
  <1> QED
    BY <1>1, SlotsSpecInv, PTL

\* The native re-render keeps out of the live slot's working directory.
THEOREM LiveSlotIsolated == SlotsSpec => LiveSlotUntouched
  <1>1. SlotsInv /\ [SlotsNext]_slotsVars
          => [DeployStep /\ runtime = "native"
                => artifact'[active] = artifact[active]]_slotsVars
    <2> SUFFICES ASSUME SlotsInv, DeployStep, runtime = "native"
                 PROVE  artifact'[active] = artifact[active]
      OBVIOUS
    <2> USE DEF SlotsInv, SlotsTypeOK, PlanOK, DeployLabels, Colors, Other
    <2>1. CASE \/ WriteQuadlet("writeBlue", "blue")
               \/ WriteQuadlet("writeGreen", "green")
      BY <2>1 DEF WriteQuadlet, Step
    <2>2. CASE SyncSource \/ BuildSlot
      BY <2>2 DEF SyncSource, BuildSlot, Step
    <2>3. CASE UNCHANGED artifact
      BY <2>3
    <2> QED
      BY <2>1, <2>2, <2>3
      DEF DeployStep, DaemonReload, EnableBlue, WriteRoute, ReloadCaddy,
          StartTarget, GatePasses, GateTimesOut, StopLive, FlipActive
  <1> QED
    BY <1>1, SlotsSpecInv, PTL DEF SlotsSpec, LiveSlotUntouched

\* Rolling blue onto green behind an aligned Caddy, and every loopback deploy,
\* is free of downtime at each of its steps.
THEOREM NoDowntime == SlotsSpec => ZeroDowntimeFromBlue
  <1> DEFINE Rolling == (aligned /\ target = "green") \/ ~routed
  <1>1. SlotsInv /\ [SlotsNext]_slotsVars
          => [DeployStep /\ Rolling => (Serving => Serving')]_slotsVars
    <2> SUFFICES ASSUME SlotsInv, DeployStep, Rolling, Serving PROVE Serving'
      OBVIOUS
    <2> USE DEF SlotsInv, SlotsTypeOK, Colors, Serving, install, slots, routing
    <2>1. CASE WriteRoute("routeBlue", "blue") \/ WriteRoute("route", target)
      BY <2>1 DEF WriteRoute
    <2>2. CASE ReloadCaddy("reloadBlue")
      BY <2>2 DEF ReloadCaddy, Step, AlignedOK, Rendering, PlanOK, DeployLabels
    <2>3. CASE ReloadCaddy("reload")
      BY <2>3 DEF ReloadCaddy, Step, SwapOK, PlanOK, DeployLabels
    <2>4. CASE StopLive
      <3>1. target \in ready /\ (routed => conf \in {target, "down"})
        BY <2>4 DEF StopLive, Step, OldSlotStopsLast, Committing
      <3>2. target \in ready' /\ UNCHANGED <<routed, conf>>
        BY <2>4, <3>1 DEF StopLive, StopUnit, Other
      <3> QED
        BY <3>1, <3>2
    <2>5. CASE StartTarget
      BY <2>5 DEF StartTarget, StartUnit
    <2>6. CASE UNCHANGED <<routed, conf, ready>>
      BY <2>6
    <2> QED
      BY <2>1, <2>2, <2>3, <2>4, <2>5, <2>6
      DEF DeployStep, WriteQuadlet, SyncSource, BuildSlot, DaemonReload,
          EnableBlue, GatePasses, GateTimesOut, FlipActive
  <1> QED
    BY <1>1, SlotsSpecInv, PTL DEF SlotsSpec, ZeroDowntimeFromBlue
==============================================================================
