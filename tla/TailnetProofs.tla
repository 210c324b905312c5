------------------------------ MODULE TailnetProofs -----------------------------
(***************************************************************************)
(* What the machines of one tailnet agree on, for any number of machines,  *)
(* services, labels, commands, refused calls, kills and renames.           *)
(***************************************************************************)
EXTENDS Tailnet, TLAPS

\* A machine has installed the name, or is at work on it.
Holds(m, n) == Recorded(m, n) \/ name[m] = n

\* A record names the service it is kept under.
RecordOK ==
    \A m \in Machines, s \in Services :
        record[m][s] # None => \E l \in Labels : record[m][s] = <<s, l>>

\* A command that enters the tailnet has recorded its name.
EnteredOK == \A m \in Machines : pc[m] \in Enabling => Recorded(m, name[m])

\* A name that is not spoilt is one machine's.
OneHolder ==
    \A n \in Names \ spoilt, m, o \in Machines : Holds(m, n) /\ Holds(o, n) => m = o

\* Nothing of an unspoilt name is in the tailnet, or in a machine's serve
\* configuration, but for who holds it.
HeldInv ==
    \A n \in Names \ spoilt :
        /\ \A m \in Machines : n \in advertised[m] => Holds(m, n)
        /\ n \in defined \cup (acl.approvers \ lost) => \E m \in Machines : Holds(m, n)

\* What is installed and not being worked on is complete.
InstalledInv ==
    \A m \in Machines, n \in Names \ spoilt :
        Recorded(m, n) /\ name[m] # n =>
            /\ n \in defined /\ n \in advertised[m] /\ m \in tagged
            /\ n \in acl.approvers \cup lost

\* How far the command on a machine has come with its name.
Progress(m) ==
    pc[m] # "idle" /\ name[m] \notin spoilt =>
        /\ pc[m] \in {"define", "read approvers", "post approvers", "serve", "verify"}
              => m \in tagged
        /\ pc[m] \in {"read approvers", "post approvers", "serve", "verify"}
              => name[m] \in defined
        /\ pc[m] \in {"serve", "verify"} => name[m] \in acl.approvers \cup lost
        /\ pc[m] = "verify" => name[m] \in advertised[m]
        /\ pc[m] \in {"delete", "read stale", "post stale", "forget"}
              => name[m] \notin advertised[m]
        /\ pc[m] \in {"read stale", "post stale", "forget"} => name[m] \notin defined
        /\ pc[m] = "forget" => name[m] \notin acl.approvers \ lost

\* What a machine read of its own name's approver still holds when it posts,
\* unless another machine's post has undone it.
SeenFresh(m) ==
    pc[m] \in {"post approvers", "post stale"} /\ name[m] \notin spoilt \cup lost =>
        (name[m] \in seen[m].approvers <=> name[m] \in acl.approvers)

CommandInv == \A m \in Machines : Progress(m) /\ SeenFresh(m)

Inv ==
    /\ TypeOK /\ RecordOK /\ OneHolder /\ HeldInv /\ InstalledInv /\ CommandInv
-----------------------------------------------------------------------------
\* "No name" is none of the names.
LEMMA NoneIsNoName == None \notin Names
  <1>1. ASSUME NEW s, NEW l PROVE << >> # <<s, l>>
    OBVIOUS
  <1> QED
    BY <1>1 DEF None, Names

\* A tailnet without ryra, and machines that have installed nothing.
LEMMA InitInv == Init => Inv
  <1> SUFFICES ASSUME Init PROVE Inv
    OBVIOUS
  <1> USE NoneIsNoName DEF Init
  <1>1. label \in [Machines -> Labels]
    BY TailnetConstants DEF TailnetConstants
  <1>2. TypeOK
    BY <1>1 DEF TypeOK, Acls, NoAcl, At
  <1>3. \A m \in Machines, n \in Names : ~Holds(m, n) /\ ~Recorded(m, n)
    BY DEF Holds, Recorded
  <1>4. RecordOK /\ OneHolder /\ HeldInv /\ InstalledInv
    BY <1>3 DEF RecordOK, OneHolder, HeldInv, InstalledInv, NoAcl
  <1>5. CommandInv
    BY DEF CommandInv, Progress, SeenFresh
  <1> QED
    BY <1>2, <1>4, <1>5 DEF Inv
-----------------------------------------------------------------------------
\* Every step keeps the variables in their ranges.
LEMMA TypeStep == TypeOK /\ [Next]_vars => TypeOK'
  <1> SUFFICES ASSUME TypeOK, [Next]_vars PROVE TypeOK'
    OBVIOUS
  <1> USE NoneIsNoName DEF TypeOK, tailnet, machine, command, bounds, At, Goto, Done
  <1>1. ASSUME NEW m \in Machines, NEW s \in Services, Enter(m, s) PROVE TypeOK'
    <2>1. <<s, label[m]>> \in Names
      BY DEF Names
    <2> QED
      BY <1>1, <2>1 DEF Enter, Start, Enabling
  <1>2. ASSUME NEW m \in Machines, NEW s \in Services, NEW removing \in BOOLEAN,
               Leave(m, s, removing)
        PROVE  TypeOK'
    <2>1. record[m][s] \in Names /\ pc[m] = "idle"
      <3>1. record[m][s] # None /\ pc[m] = "idle"
        BY <1>2 DEF Leave, Start
      <3> QED
        BY <3>1
    <2>2. record' \in [Machines -> [Services -> Names \cup {None}]]
      BY <1>2 DEF Leave
    <2> QED
      BY <1>2, <2>1, <2>2 DEF Leave, Disabling
  <1>3. ASSUME NEW m \in Machines,
               \/ ReadOwners(m) \/ ReadApprovers(m) \/ ReadStale(m)
               \/ PostOwners(m) \/ PostApprovers(m) \/ PostStale(m)
        PROVE  TypeOK'
    <2>1. seen[m] \in Acls /\ (pc[m] # "idle" => name[m] \in Names)
      OBVIOUS
    <2>2. CASE ReadOwners(m)
      BY <2>2 DEF ReadOwners, ReadAcl, Enabling
    <2>6. CASE ReadApprovers(m)
      BY <2>6 DEF ReadApprovers, ReadAcl, Enabling
    <2>7. CASE ReadStale(m)
      BY <2>7 DEF ReadStale, ReadAcl, Disabling
    <2>3. CASE PostOwners(m)
      <3>1. [seen[m] EXCEPT !.owned = TRUE] \in Acls
        BY <2>1 DEF Acls
      <3> QED
        BY <2>3, <3>1 DEF PostOwners, PostAcl, Enabling, Disabling, SymDiff, Acls
    <2>4. CASE PostApprovers(m)
      <3>1. [seen[m] EXCEPT !.approvers = @ \cup {name[m]}] \in Acls
        BY <2>1, <2>4 DEF Acls, PostApprovers, PostAcl
      <3> QED
        BY <2>4, <3>1 DEF PostApprovers, PostAcl, Enabling, Disabling, SymDiff, Acls
    <2>5. CASE PostStale(m)
      <3>1. [seen[m] EXCEPT !.approvers = @ \ {name[m]}] \in Acls
        BY <2>1 DEF Acls
      <3> QED
        BY <2>5, <3>1 DEF PostStale, PostAcl, Enabling, Disabling, SymDiff, Acls
    <2> QED
      BY <1>3, <2>2, <2>3, <2>4, <2>5, <2>6, <2>7
  <1>4. ASSUME NEW m \in Machines, TagHost(m) \/ Define(m) \/ Serve(m) \/ Verify(m)
        PROVE  TypeOK'
    <2>1. CASE TagHost(m)
      BY <2>1 DEF TagHost, Enabling
    <2>2. CASE Define(m)
      BY <2>2 DEF Define, Enabling
    <2>3. CASE Serve(m)
      BY <2>3 DEF Serve, Enabling
    <2>4. CASE Verify(m)
      BY <2>4 DEF Verify
    <2> QED
      BY <1>4, <2>1, <2>2, <2>3, <2>4
  <1>5. ASSUME NEW m \in Machines, ServeOff(m) \/ Delete(m) PROVE TypeOK'
    <2>1. CASE ServeOff(m)
      BY <2>1 DEF ServeOff, Withdrawn, Disabling
    <2>2. CASE Delete(m)
      BY <2>2 DEF Delete, Withdrawn, Disabling
    <2> QED
      BY <1>5, <2>1, <2>2
  <1>6. ASSUME NEW m \in Machines, Forget(m) PROVE TypeOK'
    BY <1>6 DEF Forget
  <1>7. ASSUME NEW m \in Machines, EnableFails(m) \/ DisableFails(m) \/ Kill(m) PROVE TypeOK'
    <2>1. name[m] \in Names /\ pc[m] # "idle"
      BY <1>7 DEF EnableFails, DisableFails, Kill, Enabling, Disabling
    <2>2. CASE EnableFails(m)
      BY <2>1, <2>2 DEF EnableFails, Disabling
    <2>3. CASE DisableFails(m)
      BY <2>1, <2>3 DEF DisableFails, Disabling
    <2>4. CASE Kill(m)
      BY <2>1, <2>4 DEF Kill
    <2> QED
      BY <1>7, <2>2, <2>3, <2>4
  <1>8. ASSUME NEW m \in Machines, NEW l \in Labels, Rename(m, l) PROVE TypeOK'
    BY <1>8 DEF Rename
  <1>9. ASSUME NEW m \in Machines, NEW n \in Names, Approve(m, n) PROVE TypeOK'
    BY <1>9 DEF Approve
  <1>10. CASE UNCHANGED vars
    BY <1>10 DEF vars
  <1> QED
    BY <1>1, <1>2, <1>3, <1>4, <1>5, <1>6, <1>7, <1>8, <1>9, <1>10 DEF Next, Step
-----------------------------------------------------------------------------
\* A step of a machine that touches no other machine, and nothing in the tailnet
\* but its own name, or names that are lost by it.
Touches(m) ==
    /\ \A o \in Machines \ {m} : /\ pc'[o] = pc[o] /\ seen'[o] = seen[o]
                                /\ advertised'[o] = advertised[o]
    /\ spoilt \subseteq spoilt' /\ lost \subseteq lost' /\ tagged \subseteq tagged'
    /\ \A n \in Names \ {name[m]} :
          /\ n \in defined' <=> n \in defined
          /\ n \in advertised'[m] <=> n \in advertised[m]
          /\ n \notin lost' => (n \in acl'.approvers <=> n \in acl.approvers)

\* Such a step, within a command, keeps the invariant if it gets its own name
\* right.
LEMMA WorkInv ==
    ASSUME Inv, TypeOK', NEW m \in Machines, name[m] \in Names, Touches(m),
           UNCHANGED <<record, name>>, Progress(m)', SeenFresh(m)'
    PROVE  Inv'
  <1> USE NoneIsNoName
  <1>1. \A o \in Machines, n \in Names : (Holds(o, n)' <=> Holds(o, n)) /\ (Recorded(o, n)' <=> Recorded(o, n))
    BY DEF Holds, Recorded
  <1>2. RecordOK' /\ OneHolder'
    BY <1>1 DEF Inv, RecordOK, OneHolder, Touches
  <1>3. HeldInv'
    <2> SUFFICES ASSUME NEW n \in Names \ spoilt'
                 PROVE  /\ \A o \in Machines : n \in advertised'[o] => Holds(o, n)
                        /\ n \in defined' \cup (acl'.approvers \ lost') =>
                              \E o \in Machines : Holds(o, n)
      BY <1>1 DEF HeldInv
    <2>1. /\ n \notin spoilt
          /\ \A o \in Machines : n \in advertised[o] => Holds(o, n)
          /\ n \in defined \cup (acl.approvers \ lost) => \E o \in Machines : Holds(o, n)
      BY DEF Inv, HeldInv, Touches
    <2>2. CASE n = name[m]
      BY <2>1, <2>2 DEF Touches, Holds
    <2>3. CASE n # name[m]
      BY <2>1, <2>3 DEF Touches
    <2> QED
      BY <2>2, <2>3
  <1>4. InstalledInv'
    <2> SUFFICES ASSUME NEW o \in Machines, NEW n \in Names \ spoilt', Recorded(o, n), name[o] # n
                 PROVE  /\ n \in defined' /\ n \in advertised'[o] /\ o \in tagged'
                        /\ n \in acl'.approvers \cup lost'
      BY <1>1 DEF InstalledInv
    <2>1. n \notin spoilt /\ n # name[m]
      BY DEF Touches, Holds, Inv, OneHolder
    <2> QED
      BY <2>1 DEF Inv, InstalledInv, Touches
  <1>5. ASSUME NEW o \in Machines \ {m} PROVE Progress(o)' /\ SeenFresh(o)'
    <2>1. /\ pc'[o] = pc[o] /\ name'[o] = name[o] /\ seen'[o] = seen[o]
          /\ advertised'[o] = advertised[o]
          /\ spoilt \subseteq spoilt' /\ lost \subseteq lost' /\ tagged \subseteq tagged'
          /\ Progress(o) /\ SeenFresh(o)
      BY DEF Touches, Inv, CommandInv
    <2>2. CASE pc[o] = "idle" \/ name[o] \in spoilt'
      BY <2>1, <2>2 DEF Progress, SeenFresh
    <2>3. CASE pc[o] # "idle" /\ name[o] \notin spoilt'
      <3>1. name[o] \in Names /\ name[o] # name[m]
        BY <2>1, <2>3 DEF Inv, TypeOK, At, OneHolder, Holds
      <3>2. /\ name[o] \in defined' <=> name[o] \in defined
            /\ name[o] \notin lost' =>
                  (name[o] \in acl'.approvers <=> name[o] \in acl.approvers)
        BY <3>1 DEF Touches
      <3> QED
        BY <2>1, <2>3, <3>2 DEF Progress, SeenFresh
    <2> QED
      BY <2>2, <2>3
  <1>6. CommandInv'
    BY <1>5 DEF CommandInv
  <1> QED
    BY <1>2, <1>3, <1>4, <1>6 DEF Inv

\* The end of a command keeps the invariant, if its name is spoilt, or installed
\* and complete, or gone from everywhere.
LEMMA EndInv ==
    ASSUME Inv, TypeOK', NEW m \in Machines, name[m] \in Names,
           pc' = [pc EXCEPT ![m] = "idle"], name' = [name EXCEPT ![m] = None],
           \A o \in Machines \ {m} : record'[o] = record[o],
           \A s \in Services : record'[m][s] = record[m][s]
                                \/ (record[m][s] = name[m] /\ record'[m][s] = None),
           UNCHANGED <<tailnet, label, advertised, seen, lost>>,
           spoilt' \in {spoilt, spoilt \cup {name[m]}},
           \/ name[m] \in spoilt'
           \/ /\ \A s \in Services : record'[m][s] # name[m]
              /\ name[m] \notin defined /\ name[m] \notin advertised[m]
              /\ name[m] \notin acl.approvers \ lost
           \/ /\ record' = record
              /\ Recorded(m, name[m])
              /\ name[m] \in defined /\ name[m] \in advertised[m] /\ m \in tagged
              /\ name[m] \in acl.approvers \cup lost
    PROVE  Inv'
  <1> USE NoneIsNoName DEF tailnet
  <1>1. /\ pc'[m] = "idle" /\ name'[m] = None
        /\ \A o \in Machines \ {m} : pc'[o] = pc[o] /\ name'[o] = name[o]
    BY DEF Inv, TypeOK
  <1>0. PICK w \in Names : w = name[m]
    OBVIOUS
  <1>2. /\ \A o \in Machines \ {m}, n \in Names :
              (Holds(o, n)' <=> Holds(o, n)) /\ (Recorded(o, n)' <=> Recorded(o, n))
        /\ \A n \in Names \ {w} :
              (Holds(m, n)' <=> Holds(m, n)) /\ (Recorded(m, n)' <=> Recorded(m, n))
        /\ Holds(m, w)
    <2>1. ASSUME NEW o \in Machines \ {m}, NEW n \in Names
          PROVE  (Holds(o, n)' <=> Holds(o, n)) /\ (Recorded(o, n)' <=> Recorded(o, n))
      BY <1>1 DEF Holds, Recorded
    <2>2. ASSUME NEW n \in Names \ {w}
          PROVE  (Holds(m, n)' <=> Holds(m, n)) /\ (Recorded(m, n)' <=> Recorded(m, n))
      BY <1>0, <1>1 DEF Holds, Recorded
    <2>3. Holds(m, w)
      BY <1>0 DEF Holds
    <2> QED
      BY <2>1, <2>2, <2>3
  <1>3. RecordOK'
    BY DEF Inv, RecordOK
  <1>4. OneHolder'
    <2>1. spoilt \subseteq spoilt'
      OBVIOUS
    <2>2. ASSUME NEW n \in Names \ spoilt', NEW o \in Machines, Holds(o, n)' PROVE Holds(o, n)
      BY <1>2, <2>2
    <2> QED
      BY <2>1, <2>2 DEF Inv, OneHolder
  <1>5. HeldInv'
    <2> SUFFICES ASSUME NEW n \in Names \ spoilt'
                 PROVE  /\ \A o \in Machines : n \in advertised[o] => Holds(o, n)'
                        /\ n \in defined \cup (acl.approvers \ lost) =>
                              \E o \in Machines : Holds(o, n)'
      BY DEF HeldInv
    <2>1. /\ n \notin spoilt
          /\ \A o \in Machines : n \in advertised[o] => Holds(o, n)
          /\ n \in defined \cup (acl.approvers \ lost) => \E o \in Machines : Holds(o, n)
      BY DEF Inv, HeldInv
    <2>2. CASE n = w /\ record' = record /\ Recorded(m, w)
      <3>1. Holds(m, n)'
        BY <2>2 DEF Holds, Recorded
      <3> QED
        BY <1>2, <2>1, <2>2, <3>1
    <2>3. CASE n = w /\ n \notin defined /\ n \notin advertised[m]
               /\ n \notin acl.approvers \ lost
      BY <1>2, <2>1, <2>3
    <2>4. CASE n # w
      BY <1>2, <2>1, <2>4
    <2> QED
      BY <1>0, <2>2, <2>3, <2>4
  <1>6. InstalledInv'
    <2> SUFFICES ASSUME NEW o \in Machines, NEW n \in Names \ spoilt', Recorded(o, n)', name'[o] # n
                 PROVE  /\ n \in defined /\ n \in advertised[o] /\ o \in tagged
                        /\ n \in acl.approvers \cup lost
      BY DEF InstalledInv
    <2>1. n \notin spoilt /\ Recorded(o, n)
      BY <1>2 DEF Recorded
    <2>2. CASE name[o] # n
      BY <2>1, <2>2 DEF Inv, InstalledInv
    <2>3. CASE name[o] = n
      <3>1. o = m
        BY <1>1, <2>3
      <3>2. \E s \in Services : record'[m][s] = name[m]
        BY <2>3, <3>1 DEF Recorded
      <3> QED
        BY <2>3, <3>1, <3>2
    <2> QED
      BY <2>2, <2>3
  <1>7. CommandInv'
    <2> SUFFICES ASSUME NEW o \in Machines PROVE Progress(o)' /\ SeenFresh(o)'
      BY DEF CommandInv
    <2>1. CASE o = m
      BY <1>1, <2>1 DEF Progress, SeenFresh
    <2>2. CASE o # m
      <3>1. /\ pc'[o] = pc[o] /\ name'[o] = name[o] /\ spoilt \subseteq spoilt'
            /\ Progress(o) /\ SeenFresh(o)
        BY <1>1, <2>2 DEF Inv, CommandInv
      <3>2. /\ acl' = acl /\ defined' = defined /\ tagged' = tagged
            /\ advertised' = advertised /\ seen' = seen /\ lost' = lost
        OBVIOUS
      <3>3. Progress(o)'
        BY <3>1, <3>2 DEF Progress
      <3>4. SeenFresh(o)'
        BY <3>1, <3>2 DEF SeenFresh
      <3> QED
        BY <3>3, <3>4
    <2> QED
      BY <2>1, <2>2
  <1> QED
    BY <1>3, <1>4, <1>5, <1>6, <1>7 DEF Inv

\* A post of the whole ACL changes the approver of the machine's own name, and
\* others only as they are lost.
LEMMA PostTouches ==
    ASSUME Inv, NEW m \in Machines, NEW step, NEW next, NEW new, PostAcl(m, step, next, new),
           \A n \in Names \ {name[m]} : n \in new.approvers <=> n \in seen[m].approvers
    PROVE  /\ Touches(m) /\ pc'[m] = next /\ pc[m] = step
           /\ UNCHANGED <<defined, tagged, advertised, record, name, seen, spoilt>>
           /\ lost \subseteq lost'
           /\ (new # seen[m] /\ acl' = new) \/ (new = seen[m] /\ acl' = acl)
  <1>1. /\ pc' = [pc EXCEPT ![m] = next] /\ pc[m] = step
        /\ UNCHANGED <<defined, tagged, advertised, record, name, seen, spoilt>>
        /\ lost \subseteq lost'
        /\ (new # seen[m] /\ acl' = new) \/ (new = seen[m] /\ acl' = acl)
    BY DEF PostAcl, At, Goto, machine
  <1>2. ASSUME NEW n \in Names \ {name[m]}, n \notin lost'
        PROVE  n \in acl'.approvers <=> n \in acl.approvers
    <2>1. CASE new = seen[m]
      BY <1>1, <2>1
    <2>2. CASE new # seen[m]
      <3>1. n \notin SymDiff(acl.approvers, seen[m].approvers) /\ acl' = new
        BY <1>1, <1>2, <2>2 DEF PostAcl
      <3> QED
        BY <3>1 DEF SymDiff
    <2> QED
      BY <2>1, <2>2
  <1>3. \A o \in Machines \ {m} : pc'[o] = pc[o]
    BY <1>1 DEF Inv, TypeOK
  <1>4. Touches(m)
    BY <1>1, <1>2, <1>3 DEF Touches
  <1>5. pc'[m] = next
    BY <1>1 DEF Inv, TypeOK
  <1> QED
    BY <1>1, <1>4, <1>5

\* A command that reads, posts, tags, defines, serves or takes down.
LEMMA CommandStep ==
    ASSUME Inv, TypeOK', NEW m \in Machines,
           \/ ReadOwners(m) \/ ReadApprovers(m) \/ ReadStale(m)
           \/ PostOwners(m) \/ PostApprovers(m) \/ PostStale(m)
           \/ TagHost(m) \/ Define(m) \/ Serve(m) \/ ServeOff(m) \/ Delete(m)
    PROVE  Inv'
  <1>1. name[m] \in Names /\ Progress(m) /\ SeenFresh(m)
    <2>1. pc[m] # "idle"
      BY DEF ReadOwners, ReadApprovers, ReadStale, PostOwners, PostApprovers, PostStale,
             ReadAcl, PostAcl, TagHost, Define, Serve, ServeOff, Delete, At
    <2> QED
      BY <2>1 DEF Inv, TypeOK, At, CommandInv
  <1>2. /\ pc \in [Machines -> Enabling \cup Disabling \cup {"forget", "idle"}]
        /\ seen \in [Machines -> Acls] /\ advertised \in [Machines -> SUBSET Names]
    BY DEF Inv, TypeOK
  <1>3. ASSUME NEW step, NEW next, ReadAcl(m, step, next)
        PROVE  /\ Touches(m) /\ pc'[m] = next /\ pc[m] = step /\ seen'[m] = acl
               /\ UNCHANGED <<tailnet, machine, name, spoilt, lost>>
    BY <1>2, <1>3 DEF ReadAcl, At, Goto, Touches, tailnet, machine
  <1>4. CASE ReadOwners(m)
    <2>1. ReadAcl(m, "read owners", "post owners")
      BY <1>4 DEF ReadOwners
    <2>2. /\ Touches(m) /\ pc'[m] = "post owners" /\ pc[m] = "read owners" /\ seen'[m] = acl
          /\ UNCHANGED <<acl, defined, tagged, advertised, record, name, spoilt, lost>>
      BY <1>3, <2>1 DEF tailnet, machine
    <2>3. Progress(m)' /\ SeenFresh(m)'
      BY <1>1, <2>2 DEF Progress, SeenFresh
    <2> QED
      BY <1>1, <2>2, <2>3, WorkInv
  <1>5. CASE ReadApprovers(m)
    <2>1. ReadAcl(m, "read approvers", "post approvers")
      BY <1>5 DEF ReadApprovers
    <2>2. /\ Touches(m) /\ pc'[m] = "post approvers" /\ pc[m] = "read approvers" /\ seen'[m] = acl
          /\ UNCHANGED <<acl, defined, tagged, advertised, record, name, spoilt, lost>>
      BY <1>3, <2>1 DEF tailnet, machine
    <2>3. Progress(m)' /\ SeenFresh(m)'
      BY <1>1, <2>2 DEF Progress, SeenFresh
    <2> QED
      BY <1>1, <2>2, <2>3, WorkInv
  <1>6. CASE ReadStale(m)
    <2>1. ReadAcl(m, "read stale", "post stale")
      BY <1>6 DEF ReadStale
    <2>2. /\ Touches(m) /\ pc'[m] = "post stale" /\ pc[m] = "read stale" /\ seen'[m] = acl
          /\ UNCHANGED <<acl, defined, tagged, advertised, record, name, spoilt, lost>>
      BY <1>3, <2>1 DEF tailnet, machine
    <2>3. Progress(m)' /\ SeenFresh(m)'
      BY <1>1, <2>2 DEF Progress, SeenFresh
    <2> QED
      BY <1>1, <2>2, <2>3, WorkInv
  <1>7. CASE PostOwners(m)
    <2> DEFINE new == [seen[m] EXCEPT !.owned = TRUE]
    <2>1. new.approvers = seen[m].approvers
      BY <1>2 DEF Acls
    <2>2. PostAcl(m, "post owners", "tag", new)
      BY <1>7 DEF PostOwners
    <2> HIDE DEF new
    <2>3. Touches(m) /\ pc'[m] = "tag" /\ UNCHANGED <<record, name>>
      BY <2>1, <2>2, PostTouches
    <2>4. Progress(m)' /\ SeenFresh(m)'
      BY <2>3 DEF Progress, SeenFresh
    <2> QED
      BY <1>1, <2>3, <2>4, WorkInv
  <1>8. CASE PostApprovers(m)
    <2> DEFINE new == [seen[m] EXCEPT !.approvers = @ \cup {name[m]}]
    <2>1. new.approvers = seen[m].approvers \cup {name[m]}
      BY <1>2 DEF Acls
    <2>2. PostAcl(m, "post approvers", "serve", new)
      BY <1>8 DEF PostApprovers
    <2> HIDE DEF new
    <2>3. /\ Touches(m) /\ pc'[m] = "serve" /\ pc[m] = "post approvers"
          /\ UNCHANGED <<defined, tagged, advertised, record, name, seen, spoilt>>
          /\ lost \subseteq lost'
          /\ (new # seen[m] /\ acl' = new) \/ (new = seen[m] /\ acl' = acl)
      BY <2>1, <2>2, PostTouches
    <2>4. name[m] \notin spoilt => name[m] \in acl'.approvers \cup lost'
      BY <1>1, <2>1, <2>3 DEF SeenFresh
    <2>5. Progress(m)' /\ SeenFresh(m)'
      BY <1>1, <2>3, <2>4 DEF Progress, SeenFresh
    <2> QED
      BY <1>1, <2>3, <2>5, WorkInv
  <1>9. CASE PostStale(m)
    <2> DEFINE new == [seen[m] EXCEPT !.approvers = @ \ {name[m]}]
    <2>1. new.approvers = seen[m].approvers \ {name[m]}
      BY <1>2 DEF Acls
    <2>2. PostAcl(m, "post stale", "forget", new)
      BY <1>9 DEF PostStale
    <2> HIDE DEF new
    <2>3. /\ Touches(m) /\ pc'[m] = "forget" /\ pc[m] = "post stale"
          /\ UNCHANGED <<defined, tagged, advertised, record, name, seen, spoilt>>
          /\ lost \subseteq lost'
          /\ (new # seen[m] /\ acl' = new) \/ (new = seen[m] /\ acl' = acl)
      BY <2>1, <2>2, PostTouches
    <2>4. name[m] \notin spoilt => name[m] \notin acl'.approvers \ lost'
      BY <1>1, <2>1, <2>3 DEF SeenFresh
    <2>5. Progress(m)' /\ SeenFresh(m)'
      BY <1>1, <2>3, <2>4 DEF Progress, SeenFresh
    <2> QED
      BY <1>1, <2>3, <2>5, WorkInv
  <1>10. CASE TagHost(m)
    <2>1. /\ Touches(m) /\ pc'[m] = "define" /\ tagged' = tagged \cup {m}
          /\ UNCHANGED <<record, name>>
      BY <1>2, <1>10 DEF TagHost, At, Goto, Touches, machine
    <2>2. Progress(m)' /\ SeenFresh(m)'
      BY <2>1 DEF Progress, SeenFresh
    <2> QED
      BY <1>1, <2>1, <2>2, WorkInv
  <1>11. CASE Define(m)
    <2>1. /\ Touches(m) /\ pc'[m] = "read approvers" /\ pc[m] = "define"
          /\ defined' = defined \cup {name[m]}
          /\ UNCHANGED <<tagged, record, name, spoilt>>
      BY <1>2, <1>11 DEF Define, At, Goto, Touches, machine
    <2>2. Progress(m)' /\ SeenFresh(m)'
      BY <1>1, <2>1 DEF Progress, SeenFresh
    <2> QED
      BY <1>1, <2>1, <2>2, WorkInv
  <1>12. CASE Serve(m)
    <2>1. /\ Touches(m) /\ pc'[m] = "verify" /\ pc[m] = "serve"
          /\ name[m] \in advertised'[m]
          /\ UNCHANGED <<acl, defined, tagged, record, name, spoilt, lost>>
      BY <1>2, <1>12 DEF Serve, At, Goto, Touches, tailnet
    <2>2. Progress(m)' /\ SeenFresh(m)'
      BY <1>1, <2>1 DEF Progress, SeenFresh
    <2> QED
      BY <1>1, <2>1, <2>2, WorkInv
  <1>13. CASE ServeOff(m)
    <2>1. /\ Touches(m) /\ pc'[m] = "delete" /\ name[m] \notin advertised'[m]
          /\ UNCHANGED <<record, name>>
      BY <1>2, <1>13 DEF ServeOff, At, Goto, Touches
    <2>2. Progress(m)' /\ SeenFresh(m)'
      BY <2>1 DEF Progress, SeenFresh
    <2> QED
      BY <1>1, <2>1, <2>2, WorkInv
  <1>14. CASE Delete(m)
    <2>1. /\ Touches(m) /\ pc'[m] = "read stale" /\ pc[m] = "delete"
          /\ defined' = defined \ {name[m]}
          /\ UNCHANGED <<advertised, record, name, spoilt>>
      BY <1>2, <1>14 DEF Delete, At, Goto, Touches, machine
    <2>2. Progress(m)' /\ SeenFresh(m)'
      BY <1>1, <2>1 DEF Progress, SeenFresh
    <2> QED
      BY <1>1, <2>1, <2>2, WorkInv
  <1> QED
    BY <1>4, <1>5, <1>6, <1>7, <1>8, <1>9, <1>10, <1>11, <1>12, <1>13, <1>14

\* A step that fails: an add goes on to remove its name from everywhere, a
\* removal goes on with the next step, a configure ends with its name spoilt.
LEMMA FailureInv ==
    ASSUME Inv, TypeOK', NEW m \in Machines, EnableFails(m) \/ DisableFails(m) \/ Kill(m)
    PROVE  Inv'
  <1>1. name[m] \in Names
    <2>1. pc[m] # "idle"
      BY DEF EnableFails, DisableFails, Kill, Enabling, Disabling
    <2> QED
      BY <2>1 DEF Inv, TypeOK, At
  <1>2. pc \in [Machines -> Enabling \cup Disabling \cup {"forget", "idle"}]
    BY DEF Inv, TypeOK
  <1>3. CASE EnableFails(m) /\ adding[m]
    <2>1. /\ Touches(m) /\ pc'[m] = "serve off" /\ UNCHANGED <<record, name>>
      BY <1>2, <1>3 DEF EnableFails, Goto, Touches, tailnet, machine
    <2>2. Progress(m)' /\ SeenFresh(m)'
      BY <2>1 DEF Progress, SeenFresh
    <2> QED
      BY <1>1, <2>1, <2>2, WorkInv
  <1>4. CASE DisableFails(m)
    <2>1. /\ Touches(m) /\ UNCHANGED <<record, name>> /\ name[m] \in spoilt'
      BY <1>2, <1>4 DEF DisableFails, Goto, Touches, tailnet, machine
    <2>2. Progress(m)' /\ SeenFresh(m)'
      BY <2>1 DEF Progress, SeenFresh
    <2> QED
      BY <1>1, <2>1, <2>2, WorkInv
  <1>5. CASE Kill(m) \/ (EnableFails(m) /\ ~adding[m])
    <2>1. /\ pc' = [pc EXCEPT ![m] = "idle"] /\ name' = [name EXCEPT ![m] = None]
          /\ UNCHANGED <<tailnet, machine, seen, lost>> /\ spoilt' = spoilt \cup {name[m]}
      BY <1>5 DEF Kill, EnableFails, Done, Goto
    <2>2. UNCHANGED <<label, advertised, record>>
      BY <2>1 DEF machine
    <2> QED
      BY <1>1, <2>1, <2>2, EndInv
  <1> QED
    BY <1>3, <1>4, <1>5

\* The last step of an enable leaves the name installed and complete, that of a
\* removal leaves it nowhere.
LEMMA LastStepInv ==
    ASSUME Inv, EnteredOK, TypeOK', NEW m \in Machines, Verify(m) \/ Forget(m)
    PROVE  Inv'
  <1>1. name[m] \in Names /\ pc[m] \in {"verify", "forget"} /\ Progress(m)
    <2>1. pc[m] \in {"verify", "forget"}
      BY DEF Verify, Forget, At
    <2> QED
      BY <2>1 DEF Inv, TypeOK, At, CommandInv
  <1>2. /\ pc' = [pc EXCEPT ![m] = "idle"] /\ name' = [name EXCEPT ![m] = None]
        /\ UNCHANGED <<tailnet, label, advertised, seen, spoilt, lost>>
    BY DEF Verify, Forget, Done, Goto, machine
  <1>3. CASE Verify(m)
    <2>1. pc[m] = "verify" /\ record' = record
      BY <1>3 DEF Verify, At, machine
    <2>2. Recorded(m, name[m])
      BY <2>1 DEF EnteredOK, Enabling
    <2> QED
      BY <1>1, <1>2, <2>1, <2>2, EndInv DEF Progress
  <1>4. CASE Forget(m)
    <2>1. /\ pc[m] = "forget"
          /\ record' = [record EXCEPT ![m] =
                           [s \in Services |-> IF @[s] = name[m] THEN None ELSE @[s]]]
      BY <1>4 DEF Forget, At
    <2>2. /\ \A o \in Machines \ {m} : record'[o] = record[o]
          /\ \A s \in Services : record'[m][s] =
                IF record[m][s] = name[m] THEN None ELSE record[m][s]
      BY <2>1 DEF Inv, TypeOK
    <2>3. \A s \in Services : /\ record'[m][s] = record[m][s]
                                \/ (record[m][s] = name[m] /\ record'[m][s] = None)
                             /\ record'[m][s] # name[m]
      BY <1>1, <2>2, NoneIsNoName
    <2> QED
      BY <1>1, <1>2, <2>1, <2>2, <2>3, EndInv DEF Progress
  <1> QED
    BY <1>3, <1>4

\* A command that is begun: a name that another machine holds is spoilt by it.
LEMMA EnterInv ==
    ASSUME Inv, TypeOK', NEW m \in Machines, NEW s \in Services, Enter(m, s)
    PROVE  Inv'
  <1> USE NoneIsNoName DEF Inv
  <1>0. /\ record \in [Machines -> [Services -> Names \cup {None}]]
        /\ pc \in [Machines -> Enabling \cup Disabling \cup {"forget", "idle"}]
        /\ name \in [Machines -> Names \cup {None}]
    BY DEF TypeOK
  <1>1. PICK n \in Names : n = <<s, label[m]>>
    BY DEF TypeOK, Names
  <1>2. /\ pc[m] = "idle" /\ name[m] = None /\ record[m][s] = None
        /\ record' = [record EXCEPT ![m][s] = n] /\ name' = [name EXCEPT ![m] = n]
        /\ pc' = [pc EXCEPT ![m] = "read owners"]
        /\ spoilt' = IF \E o \in Machines \ {m} : record[o][s] = n \/ name[o] = n
                     THEN spoilt \cup {n} ELSE spoilt
        /\ UNCHANGED <<acl, defined, tagged, advertised, seen, lost>>
    BY <1>1 DEF Enter, Start, At, Goto, tailnet, TypeOK
  <1>3. /\ pc'[m] = "read owners" /\ name'[m] = n
        /\ record'[m][s] = n /\ \A q \in Services \ {s} : record'[m][q] = record[m][q]
        /\ \A o \in Machines \ {m} : /\ pc'[o] = pc[o] /\ name'[o] = name[o]
                                    /\ record'[o] = record[o]
    BY <1>0, <1>2
  <1>4. RecordOK'
    <2> SUFFICES ASSUME NEW o \in Machines, NEW q \in Services, record'[o][q] # None
                 PROVE  \E l \in Labels : record'[o][q] = <<q, l>>
      BY DEF RecordOK
    <2>1. CASE o = m /\ q = s
      <3>1. label[m] \in Labels
        BY DEF TypeOK
      <3> QED
        BY <1>1, <1>3, <2>1, <3>1
    <2>2. CASE ~(o = m /\ q = s)
      BY <1>3, <2>2 DEF RecordOK
    <2> QED
      BY <2>1, <2>2
  <1>5. \A o \in Machines : Recorded(o, n) => record[o][s] = n
    BY <1>1 DEF RecordOK, Recorded
  <1>6. /\ \A o \in Machines, k \in Names \ {n} :
              (Holds(o, k)' <=> Holds(o, k)) /\ (Recorded(o, k)' <=> Recorded(o, k))
        /\ \A o \in Machines \ {m} : Holds(o, n)' => record[o][s] = n \/ name[o] = n
        /\ Holds(m, n)'
    <2>1. ASSUME NEW o \in Machines, NEW k \in Names \ {n}
          PROVE  (Holds(o, k)' <=> Holds(o, k)) /\ (Recorded(o, k)' <=> Recorded(o, k))
      <3>1. CASE o # m
        BY <1>3, <3>1 DEF Holds, Recorded
      <3>2. CASE o = m
        <4>1. Recorded(m, k)' <=> Recorded(m, k)
          BY <1>2, <1>3 DEF Recorded
        <4>2. name[m] # k /\ name'[m] # k
          BY <1>2, <1>3
        <4> QED
          BY <3>2, <4>1, <4>2 DEF Holds
      <3> QED
        BY <3>1, <3>2
    <2>2. \A o \in Machines \ {m} : Holds(o, n)' => record[o][s] = n \/ name[o] = n
      BY <1>3, <1>5 DEF Holds, Recorded
    <2>3. Holds(m, n)'
      BY <1>3 DEF Holds
    <2> QED
      BY <2>1, <2>2, <2>3
  <1>7. n \notin spoilt' => \A o \in Machines \ {m} : ~Holds(o, n)'
    BY <1>2, <1>6
  <1>8. spoilt \subseteq spoilt'
    BY <1>2
  <1>9. OneHolder'
    BY <1>6, <1>7, <1>8 DEF OneHolder
  <1>10. HeldInv'
    <2> SUFFICES ASSUME NEW k \in Names \ spoilt'
                 PROVE  /\ \A o \in Machines : k \in advertised[o] => Holds(o, k)'
                        /\ k \in defined \cup (acl.approvers \ lost) =>
                              \E o \in Machines : Holds(o, k)'
      BY <1>2 DEF HeldInv
    <2>1. /\ k \notin spoilt
          /\ \A o \in Machines : k \in advertised[o] => Holds(o, k)
          /\ k \in defined \cup (acl.approvers \ lost) => \E o \in Machines : Holds(o, k)
      BY <1>8 DEF HeldInv
    <2>2. CASE k # n
      BY <1>6, <2>1, <2>2
    <2>3. CASE k = n
      <3>1. \A o \in Machines \ {m} : ~Holds(o, n)
        <4>1. \A o \in Machines \ {m} : record[o][s] # n /\ name[o] # n
          BY <1>2, <2>1, <2>3
        <4> QED
          BY <1>5, <4>1 DEF Holds
      <3> QED
        BY <1>6, <2>1, <2>3, <3>1
    <2> QED
      BY <2>2, <2>3
  <1>11. InstalledInv'
    <2> SUFFICES ASSUME NEW o \in Machines, NEW k \in Names \ spoilt', Recorded(o, k)', name'[o] # k
                 PROVE  /\ k \in defined /\ k \in advertised[o] /\ o \in tagged
                        /\ k \in acl.approvers \cup lost
      BY <1>2 DEF InstalledInv
    <2>1. CASE k = n
      BY <1>3, <1>7, <2>1 DEF Holds
    <2>2. CASE k # n
      <3>1. Recorded(o, k) /\ k \notin spoilt
        BY <1>6, <1>8, <2>2
      <3>2. name[o] # k
        BY <1>2, <1>3
      <3> QED
        BY <3>1, <3>2 DEF InstalledInv
    <2> QED
      BY <2>1, <2>2
  <1>12. CommandInv'
    <2> SUFFICES ASSUME NEW o \in Machines PROVE Progress(o)' /\ SeenFresh(o)'
      BY DEF CommandInv
    <2>1. CASE o = m
      BY <1>3, <2>1 DEF Progress, SeenFresh
    <2>2. CASE o # m
      <3>1. /\ pc'[o] = pc[o] /\ name'[o] = name[o] /\ Progress(o) /\ SeenFresh(o)
        BY <1>3, <2>2 DEF CommandInv
      <3>4. /\ acl' = acl /\ defined' = defined /\ tagged' = tagged
            /\ advertised' = advertised /\ seen' = seen /\ lost' = lost
        BY <1>2
      <3>2. Progress(o)'
        BY <1>8, <3>1, <3>4 DEF Progress
      <3>3. SeenFresh(o)'
        BY <1>8, <3>1, <3>4 DEF SeenFresh
      <3> QED
        BY <3>2, <3>3
    <2> QED
      BY <2>1, <2>2
  <1> QED
    BY <1>4, <1>9, <1>10, <1>11, <1>12

\* A removal is begun, or a configure that leaves the tailnet: the name is the
\* machine's to take down, whether or not the record still has it.
LEMMA LeaveInv ==
    ASSUME Inv, TypeOK', NEW m \in Machines, NEW s \in Services, NEW removing \in BOOLEAN,
           Leave(m, s, removing)
    PROVE  Inv'
  <1> USE NoneIsNoName DEF Inv
  <1>0. /\ record \in [Machines -> [Services -> Names \cup {None}]]
        /\ pc \in [Machines -> Enabling \cup Disabling \cup {"forget", "idle"}]
        /\ name \in [Machines -> Names \cup {None}]
    BY DEF TypeOK
  <1>1. PICK n \in Names : n = record[m][s]
    <2>1. record[m][s] # None
      BY DEF Leave
    <2> QED
      BY <2>1 DEF TypeOK
  <1>2. /\ pc[m] = "idle" /\ name[m] = None
        /\ record' = IF removing THEN record ELSE [record EXCEPT ![m][s] = None]
        /\ name' = [name EXCEPT ![m] = n]
        /\ pc' = [pc EXCEPT ![m] = "serve off"]
        /\ UNCHANGED <<acl, defined, tagged, advertised, seen, spoilt, lost>>
    BY <1>1 DEF Leave, Start, At, Goto, tailnet, TypeOK
  <1>3. /\ pc'[m] = "serve off" /\ name'[m] = n
        /\ \A q \in Services \ {s} : record'[m][q] = record[m][q]
        /\ record'[m][s] \in {n, None}
        /\ \A o \in Machines \ {m} : /\ pc'[o] = pc[o] /\ name'[o] = name[o]
                                    /\ record'[o] = record[o]
    <2>1. CASE removing
      BY <1>0, <1>1, <1>2, <2>1
    <2>2. CASE ~removing
      BY <1>0, <1>1, <1>2, <2>2
    <2> QED
      BY <2>1, <2>2
  <1>4. RecordOK'
    <2> SUFFICES ASSUME NEW o \in Machines, NEW q \in Services, record'[o][q] # None
                 PROVE  \E l \in Labels : record'[o][q] = <<q, l>>
      BY DEF RecordOK
    <2>1. record'[o][q] = record[o][q]
      BY <1>1, <1>3
    <2> QED
      BY <2>1 DEF RecordOK
  <1>5. /\ \A o \in Machines, k \in Names : Holds(o, k)' <=> Holds(o, k)
        /\ \A o \in Machines, k \in Names : Recorded(o, k)' => Recorded(o, k)
    <2>1. ASSUME NEW o \in Machines \ {m}, NEW k \in Names
          PROVE  (Holds(o, k)' <=> Holds(o, k)) /\ (Recorded(o, k)' <=> Recorded(o, k))
      BY <1>3 DEF Holds, Recorded
    <2>2. ASSUME NEW k \in Names PROVE Recorded(m, k)' => Recorded(m, k)
      BY <1>1, <1>3 DEF Recorded
    <2>3. ASSUME NEW k \in Names PROVE Holds(m, k)' <=> Holds(m, k)
      <3>1. CASE k = n
        BY <1>1, <1>3, <3>1 DEF Holds, Recorded
      <3>2. CASE k # n
        BY <1>1, <1>2, <1>3, <3>2 DEF Holds, Recorded
      <3> QED
        BY <3>1, <3>2
    <2> QED
      BY <2>1, <2>2, <2>3
  <1>6. OneHolder' /\ HeldInv'
    BY <1>2, <1>5 DEF OneHolder, HeldInv
  <1>7. InstalledInv'
    <2> SUFFICES ASSUME NEW o \in Machines, NEW k \in Names \ spoilt, Recorded(o, k)', name'[o] # k
                 PROVE  /\ k \in defined /\ k \in advertised[o] /\ o \in tagged
                        /\ k \in acl.approvers \cup lost
      BY <1>2 DEF InstalledInv
    <2>1. Recorded(o, k) /\ name[o] # k
      BY <1>2, <1>3, <1>5
    <2> QED
      BY <2>1 DEF InstalledInv
  <1>8. CommandInv'
    <2> SUFFICES ASSUME NEW o \in Machines PROVE Progress(o)' /\ SeenFresh(o)'
      BY DEF CommandInv
    <2>1. CASE o = m
      BY <1>3, <2>1 DEF Progress, SeenFresh
    <2>2. CASE o # m
      <3>1. /\ pc'[o] = pc[o] /\ name'[o] = name[o] /\ Progress(o) /\ SeenFresh(o)
        BY <1>3, <2>2 DEF CommandInv
      <3>4. /\ acl' = acl /\ defined' = defined /\ tagged' = tagged
            /\ advertised' = advertised /\ seen' = seen /\ lost' = lost /\ spoilt' = spoilt
        BY <1>2
      <3>2. Progress(o)'
        BY <3>1, <3>4 DEF Progress
      <3>3. SeenFresh(o)'
        BY <3>1, <3>4 DEF SeenFresh
      <3> QED
        BY <3>2, <3>3
    <2> QED
      BY <2>1, <2>2
  <1> QED
    BY <1>4, <1>6, <1>7, <1>8

\* An approval and a rename change nothing that a command looks at.
LEMMA IdleInv ==
    ASSUME Inv, TypeOK',
           \/ (\E m \in Machines, n \in Names : Approve(m, n))
           \/ (\E m \in Machines, l \in Labels : Rename(m, l))
           \/ UNCHANGED vars
    PROVE  Inv'
  <1>1. UNCHANGED <<acl, defined, tagged, advertised, record, pc, name, seen, spoilt, lost>>
    BY DEF Approve, Rename, tailnet, machine, command, vars
  <1>2. RecordOK' /\ OneHolder' /\ HeldInv' /\ InstalledInv'
    BY <1>1 DEF Inv, RecordOK, OneHolder, HeldInv, InstalledInv, Holds, Recorded
  <1>3. CommandInv'
    BY <1>1 DEF Inv, CommandInv, Progress, SeenFresh
  <1> QED
    BY <1>2, <1>3 DEF Inv

\* A command that is entering keeps the name it has recorded.
LEMMA EnteredStep == TypeOK /\ EnteredOK /\ [Next]_vars => EnteredOK'
  <1> SUFFICES ASSUME TypeOK, EnteredOK, [Next]_vars, NEW m \in Machines, pc'[m] \in Enabling
               PROVE  Recorded(m, name[m])'
    BY DEF EnteredOK
  <1>1. CASE pc[m] \in Enabling /\ name'[m] = name[m] /\ record'[m] = record[m]
    BY <1>1 DEF EnteredOK, Recorded
  <1>2. ASSUME NEW s \in Services, Enter(m, s) PROVE Recorded(m, name[m])'
    BY <1>2 DEF Enter, Recorded, TypeOK
  <1>3. ASSUME NEW o \in Machines, NEW s \in Services,
               \/ (Enter(o, s) /\ o # m) \/ (\E removing \in BOOLEAN : Leave(o, s, removing))
        PROVE  pc[m] \in Enabling /\ name'[m] = name[m] /\ record'[m] = record[m]
    BY <1>3 DEF Enter, Leave, Goto, TypeOK, Enabling
  <1>4. ASSUME NEW o \in Machines,
               \/ ReadOwners(o) \/ ReadApprovers(o) \/ ReadStale(o)
               \/ PostOwners(o) \/ PostApprovers(o) \/ PostStale(o)
        PROVE  pc[m] \in Enabling /\ name'[m] = name[m] /\ record'[m] = record[m]
    <2>1. UNCHANGED <<record, name>> /\ \A q \in Machines \ {o} : pc'[q] = pc[q]
      BY <1>4 DEF ReadOwners, ReadApprovers, ReadStale, PostOwners, PostApprovers, PostStale,
                  ReadAcl, PostAcl, Goto, machine, TypeOK
    <2>2. CASE ReadStale(o) \/ PostStale(o)
      <3>1. pc'[o] \notin Enabling
        BY <2>2 DEF ReadStale, PostStale, ReadAcl, PostAcl, Goto, TypeOK, Enabling
      <3> QED
        BY <2>1, <3>1
    <2>3. CASE ~(ReadStale(o) \/ PostStale(o))
      <3>1. pc[o] \in Enabling
        BY <1>4, <2>3 DEF ReadOwners, ReadApprovers, PostOwners, PostApprovers,
                          ReadAcl, PostAcl, At, Enabling
      <3> QED
        BY <2>1, <3>1
    <2> QED
      BY <2>2, <2>3
  <1>5. ASSUME NEW o \in Machines, TagHost(o) \/ Define(o) \/ Serve(o) \/ Verify(o)
        PROVE  pc[m] \in Enabling /\ name'[m] = name[m] /\ record'[m] = record[m]
    <2>1. UNCHANGED record /\ \A q \in Machines \ {o} : pc'[q] = pc[q] /\ name'[q] = name[q]
      BY <1>5 DEF TagHost, Define, Serve, Verify, Done, Goto, machine, TypeOK
    <2>2. o = m => pc[m] \in Enabling /\ (Verify(o) \/ name'[m] = name[m])
      BY <1>5 DEF TagHost, Define, Serve, Verify, At, machine, Enabling
    <2>3. o = m => ~Verify(o)
      BY DEF Verify, Done, Goto, TypeOK, Enabling
    <2> QED
      BY <2>1, <2>2, <2>3
  <1>6. ASSUME NEW o \in Machines, ServeOff(o) \/ Delete(o) \/ Forget(o)
        PROVE  pc[m] \in Enabling /\ name'[m] = name[m] /\ record'[m] = record[m]
    BY <1>6 DEF ServeOff, Delete, Forget, Done, Goto, machine, TypeOK, Enabling
  <1>7. ASSUME NEW o \in Machines, EnableFails(o) \/ DisableFails(o) \/ Kill(o)
        PROVE  pc[m] \in Enabling /\ name'[m] = name[m] /\ record'[m] = record[m]
    BY <1>7 DEF EnableFails, DisableFails, Kill, Done, Goto, machine, TypeOK, Enabling
  <1>8. CASE \/ (\E o \in Machines, n \in Names : Approve(o, n))
             \/ (\E o \in Machines, l \in Labels : Rename(o, l))
             \/ UNCHANGED vars
    <2>1. UNCHANGED <<pc, name, record>>
      BY <1>8 DEF Approve, Rename, machine, command, vars
    <2> QED
      BY <1>1, <2>1
  <1> QED
    BY <1>1, <1>2, <1>3, <1>4, <1>5, <1>6, <1>7, <1>8 DEF Next, Step

\* Every step keeps the invariant.
LEMMA NextInv == Inv /\ EnteredOK /\ [Next]_vars => Inv' /\ EnteredOK'
  <1> SUFFICES ASSUME Inv, EnteredOK, [Next]_vars PROVE Inv'
    BY EnteredStep DEF Inv
  <1>1. TypeOK'
    BY TypeStep DEF Inv
  <1> QED
    BY <1>1, EnterInv, LeaveInv, CommandStep, LastStepInv, FailureInv, IdleInv DEF Next, Step

LEMMA SpecInv == Spec => [](Inv /\ EnteredOK)
  <1>1. Init => EnteredOK
    BY DEF Init, EnteredOK, Enabling
  <1> QED
    BY <1>1, InitInv, NextInv, PTL DEF Spec

\* The tailnet and the machines hold what they can hold.
THEOREM TypeCorrect == Spec => []TypeOK
  <1>1. Inv => TypeOK
    BY DEF Inv
  <1> QED
    BY <1>1, SpecInv, PTL

\* What a machine has installed is defined, approved for and advertised, and what
\* nobody has is nowhere, whichever commands of whichever machines interleave.
THEOREM TailnetSound == Spec => []TailnetAgrees
  <1>1. Inv => TailnetAgrees
    <2> SUFFICES ASSUME Inv, NEW n \in Names \ spoilt
                 PROVE  /\ \A m \in Machines : Idle(m) /\ Recorded(m, n) =>
                              /\ n \in defined /\ n \in advertised[m] /\ m \in tagged
                              /\ n \in acl.approvers \cup lost
                        /\ (\A m \in Machines : ~Recorded(m, n) /\ name[m] # n) =>
                              /\ n \notin defined /\ \A m \in Machines : n \notin advertised[m]
                              /\ n \in acl.approvers => n \in lost
      BY DEF TailnetAgrees
    <2>1. \A m \in Machines : Idle(m) => name[m] # n
      BY NoneIsNoName DEF Inv, TypeOK, Idle
    <2> QED
      BY <2>1 DEF Inv, InstalledInv, HeldInv, Holds
  <1> QED
    BY <1>1, SpecInv, PTL
================================================================================
