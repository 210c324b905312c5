---------------------------- MODULE MutationsProofs ----------------------------
(***************************************************************************)
(* The safety of commands on shared files, for any processes and services. *)
(* The two runs that expect a violation show which hypotheses are needed:  *)
(* the Caddyfile is safe when an upgrade names one service, and            *)
(* metadata.toml is safe when every writer of it holds the mutation lock.  *)
(* At the end, the lock: that MutationLock is the mutex they rest on.      *)
(***************************************************************************)
EXTENDS Mutations, MutationLock, FiniteSetTheorems, SequenceTheorems, TLAPS

Enrollments ==
    [service : Services, active : Colors, flag : BOOLEAN, via : {"cli", "rpc"}]

\* What each kind of command has planned, and where it can be.
CommandOK ==
    /\ holder = Nobody <=> kind = "none"
    /\ inFlight = <<>> \/ \E e \in Enrollments :
          inFlight = <<e>> /\ (e.via = "cli" => kind = "enroll")
    /\ kind \in {"none", "enroll"} => plans = <<>> /\ step = "none"
    /\ kind = "add" => Len(plans) = 1 /\ step \in {"files", "route", "start"}
    /\ kind = "remove" => Len(plans) = 1 /\ step \in {"stop", "unroute", "home"}
    /\ kind = "upgrade" =>
          /\ step \in {"plan", "render", "start", "swap", "stop", "flip"}
          /\ step = "plan" <=> toPlan # {}
          /\ step # "plan" => plans # <<>>
    /\ kind # "upgrade" => toPlan = {}

Inv == TypeOK /\ CommandOK

\* While every enrollment takes the lock, a planned upgrade will write the
\* enrollment that is on disk.
EnrollInv ==
    /\ inFlight # <<>> => kind = "enroll"
    /\ kind = "upgrade" =>
          \A i \in 1 .. Len(plans) : plans[i].enrolled = enrolled[plans[i].service]
    /\ EnrollmentSticks

\* While an upgrade names one service, there is one plan, and both of the
\* Caddyfiles it will write agree with the one on disk about other services.
RouteInv ==
    /\ Len(plans) <= 1
    /\ step = "plan" => plans = <<>> /\ \E s \in Services : toPlan = {s}
    /\ plans # <<>> =>
          \A t \in Services \ {This.service} :
             This.render[t] = caddyfile[t] /\ This.swap[t] = caddyfile[t]

\* What each step of a command finds of its own service.
StepOK ==
    /\ kind = "add" =>
          /\ This.render[This.service] = "blue"
          /\ step = "files" => state[This.service] = "absent"
          /\ step # "files" => /\ state[This.service] = "installed"
                               /\ active[This.service] = "blue"
          /\ step = "start" => caddyfile[This.service] = "blue"
    /\ kind = "remove" =>
          /\ This.render[This.service] = Unrouted
          /\ step = "stop" => state[This.service] = "installed"
          /\ step # "stop" => state[This.service] = "leftover"
          /\ step = "home" => caddyfile[This.service] = Unrouted
    /\ kind = "upgrade" /\ step # "plan" =>
          /\ state[This.service] = "installed"
          /\ This.swap[This.service] = This.target
          /\ step \in {"swap", "stop", "flip"} => This.target \in running[This.service]
          /\ step \in {"stop", "flip"} => caddyfile[This.service] = This.target
    /\ kind = "upgrade" /\ step = "plan" => \A s \in toPlan : state[s] = "installed"
    /\ inFlight # <<>> => Head(inFlight).active = active[Head(inFlight).service]

\* Purging a leftover leaves its route, but whoever left it is on record.
LeftoversBroken ==
    \A s \in Services : state[s] = "leftover" /\ ~BusyWith(s) => s \in broken

SettledInv == StepOK /\ LeftoversBroken /\ Settled

-----------------------------------------------------------------------------
\* A command that has plans works on a plan, and drops it to go on.
LEMMA PlansProperties ==
    ASSUME TypeOK, plans # <<>>
    PROVE  /\ This \in Plans /\ This = plans[1]
           /\ Len(plans) \in Nat \ {0}
           /\ Tail(plans) \in Seq(Plans) /\ Len(Tail(plans)) = Len(plans) - 1
           /\ \A i \in 1 .. Len(Tail(plans)) : Tail(plans)[i] = plans[i + 1]
  <1>1. plans \in Seq(Plans)
    BY DEF TypeOK
  <1> QED
    BY <1>1, HeadTailProperties, EmptySeq DEF This

\* What a command plans is a plan.
LEMMA PlanType ==
    ASSUME TypeOK, NEW s \in Services, NEW c \in Colors \cup {Unrouted}
    PROVE  /\ Routed(s, c) \in Files /\ SwapPlan(s) \in Plans
           /\ Plan(s, Routed(s, c), caddyfile, "blue") \in Plans
  BY DEF TypeOK, Files, Plans, Plan, Routed, SwapPlan, Other, Colors

\* The invariant of every configuration holds at first.
LEMMA InitInv == Init => Inv
  BY DEF Init, Inv, TypeOK, CommandOK, MutexInit, Files, Colors

\* A command that ends leaves no plan and no lock.
LEMMA FinishInv ==
    ASSUME Inv, Finish, kind # "none", kind # "enroll", UNCHANGED <<inFlight, caddyfile, active, enrolled>>,
           state' \in [Services -> {"absent", "installed", "leftover"}],
           running' \in [Services -> SUBSET Colors],
           wanted' \in [Services -> BOOLEAN], broken' \subseteq Services
    PROVE  Inv'
  BY DEF Inv, TypeOK, CommandOK, Finish, Release
\* Every step of every configuration keeps the invariant.
LEMMA NextInv == Inv /\ [Next]_vars => Inv'
  <1> SUFFICES ASSUME Inv, [Next]_vars PROVE Inv'
    OBVIOUS
  <1> USE NobodyIsNoProcess DEF Inv
  <1>0. Unrouted = "none"
    BY DEF Unrouted
  <1>1. ASSUME NEW p \in Procs, NEW s \in Services, BeginAdd(p, s) PROVE Inv'
    BY <1>0, <1>1, PlanType
       DEF BeginAdd, Acquire, TypeOK, CommandOK, metadata, history, Colors
  <1>2. ASSUME NEW p \in Procs, NEW s \in Services, BeginRemove(p, s) PROVE Inv'
    BY <1>2, PlanType DEF BeginRemove, Acquire, TypeOK, CommandOK, metadata, history
  <1>3. ASSUME NEW p \in Procs, NEW s \in Services, PurgeLeftover(p, s) PROVE Inv'
    BY <1>3 DEF PurgeLeftover, TypeOK, CommandOK, metadata, history, command
  <1>4. ASSUME NEW p \in Procs, NEW batch \in Batches, BeginUpgrade(p, batch) PROVE Inv'
    BY <1>4 DEF BeginUpgrade, Acquire, Batches, TypeOK, CommandOK, metadata, history
  <1>5. ASSUME NEW p \in Procs, NEW s \in Services, NEW flag \in BOOLEAN,
               NEW via \in EnrollPaths, BeginEnroll(p, s, flag, via)
        PROVE  Inv'
    <2> DEFINE e == [service |-> s, active |-> active[s], flag |-> flag, via |-> via]
    <2>1. e \in Enrollments /\ inFlight' = <<e>> /\ (e.via = "cli" => kind' = "enroll")
      BY <1>5, MutationsConstants
         DEF BeginEnroll, MutationsConstants, Enrollments, TypeOK
    <2>2. TypeOK'
      BY <1>5 DEF BeginEnroll, Acquire, TypeOK, metadata, history
    <2> QED
      BY <1>5, <2>1, <2>2 DEF BeginEnroll, Acquire, CommandOK, metadata, history
  <1>6. CASE AddFiles
    BY <1>6, PlansProperties DEF AddFiles, At, TypeOK, CommandOK, Plans, Colors
  <1>7. CASE AddRoute
    BY <1>7, PlansProperties DEF AddRoute, At, TypeOK, CommandOK, Plans, metadata, history
  <1>8. CASE AddStart
    <2>1. running' \in [Services -> SUBSET Colors]
      BY <1>8, PlansProperties DEF AddStart, At, TypeOK, Plans, Colors
    <2> QED
      BY <1>8, <2>1, FinishInv DEF AddStart, At, TypeOK, metadata
  <1>9. CASE AddFails
    <2>1. This.service \in Services
      BY <1>9, PlansProperties DEF AddFails, Plans
    <2>2. plans' \in Seq(Plans) /\ Len(plans') = 1
      BY <1>9, <2>1, PlanType DEF AddFails
    <2> QED
      BY <1>9, <2>2 DEF AddFails, TypeOK, CommandOK, metadata, history
  <1>10. CASE RemoveUnits
    BY <1>10, PlansProperties
       DEF RemoveUnits, At, TypeOK, CommandOK, Plans, metadata, history
  <1>11. CASE RemoveRoute
    BY <1>11, PlansProperties
       DEF RemoveRoute, At, TypeOK, CommandOK, Plans, metadata, history
  <1>12. CASE RemoveHome
    <2>1. state' \in [Services -> {"absent", "installed", "leftover"}]
      BY <1>12, PlansProperties DEF RemoveHome, At, TypeOK, Plans
    <2> QED
      BY <1>12, <2>1, FinishInv DEF RemoveHome, At, TypeOK, metadata
  <1>13. ASSUME NEW s \in Services, PlanUpgrade(s) PROVE Inv'
    <2>1. plans' \in Seq(Plans) /\ Len(plans') = Len(plans) + 1 /\ plans' # <<>>
      BY <1>13, PlanType, AppendProperties, EmptySeq DEF PlanUpgrade, TypeOK
    <2> QED
      BY <1>13, <2>1 DEF PlanUpgrade, TypeOK, CommandOK, metadata, history
  <1>14. CASE UpgradeRender
    BY <1>14, PlansProperties
       DEF UpgradeRender, At, TypeOK, CommandOK, Plans, metadata, history
  <1>15. CASE UpgradeStart
    BY <1>15, PlansProperties
       DEF UpgradeStart, At, TypeOK, CommandOK, Plans, metadata, history
  <1>16. CASE UpgradeSwap
    BY <1>16, PlansProperties
       DEF UpgradeSwap, At, TypeOK, CommandOK, Plans, metadata, history
  <1>17. CASE UpgradeStop
    BY <1>17, PlansProperties
       DEF UpgradeStop, At, TypeOK, CommandOK, Plans, metadata, history
  <1>18. CASE UpgradeFlip
    <2>1. This \in Plans /\ Tail(plans) \in Seq(Plans)
      BY <1>18, PlansProperties DEF UpgradeFlip, At
    <2>2. active' \in [Services -> Colors] /\ broken' \subseteq Services
      BY <1>18, <2>1 DEF UpgradeFlip, TypeOK, Plans
    <2>3. enrolled' \in [Services -> BOOLEAN]
      BY <1>18, <2>1, Zenon DEF UpgradeFlip, TypeOK, Plans
    <2>4. TypeOK'
      BY <1>18, <2>1, <2>2, <2>3 DEF UpgradeFlip, Finish, Release, TypeOK
    <2>5. CommandOK'
      BY <1>18 DEF UpgradeFlip, Finish, Release, At, CommandOK
    <2> QED
      BY <2>4, <2>5
  <1>19. CASE FinishEnroll
    <2>1. PICK e \in Enrollments : inFlight = <<e>> /\ (e.via = "cli" => kind = "enroll")
      BY <1>19 DEF FinishEnroll, CommandOK
    <2>2. Head(inFlight) = e
      BY <2>1
    <2> QED
      BY <1>19, <2>1, <2>2
         DEF FinishEnroll, Release, Enrollments, TypeOK, CommandOK, metadata
  <1>20. CASE Abort
    BY <1>20, FinishInv, PlansProperties DEF Abort, TypeOK, metadata, Plans
  <1>21. CASE UNCHANGED vars
    BY <1>21 DEF vars, TypeOK, CommandOK, metadata, history, command
  <1> QED
    BY <1>1, <1>2, <1>3, <1>4, <1>5, <1>6, <1>7, <1>8, <1>9, <1>10, <1>11, <1>12,
       <1>13, <1>14, <1>15, <1>16, <1>17, <1>18, <1>19, <1>20, <1>21 DEF Next

\* The invariant of every configuration holds at every moment.
LEMMA SpecInv == Spec => []Inv
  BY InitInv, NextInv, PTL DEF Spec

\* Type correctness of the files and of the commands that rewrite them.
THEOREM TypeCorrect == Spec => []TypeOK
  <1>1. Inv => TypeOK
    BY DEF Inv
  <1> QED
    BY <1>1, SpecInv, PTL
\* Commands take and release the lock the way Mutex allows: every command that
\* ends or dies held it.  MutationLock is shown to implement the same Mutex.
THEOREM LockedAsMutex == Spec => MutexSpec
  <1>1. Init => MutexInit
    BY DEF Init
  <1>2. Inv /\ [Next]_vars => [MutexNext]_holder
    <2> SUFFICES ASSUME Inv, [Next]_vars, holder' # holder PROVE MutexNext
      BY DEF MutexNext
    <2>1. ASSUME NEW p \in Procs, Acquire(p) PROVE MutexNext
      BY <2>1 DEF MutexNext
    <2>2. ASSUME Release(holder), kind # "none" PROVE MutexNext
      BY <2>2 DEF MutexNext, Inv, TypeOK, CommandOK
    <2>3. CASE AddFiles \/ AddRoute \/ AddStart \/ AddFails
      BY <2>2, <2>3 DEF AddFiles, AddRoute, AddStart, AddFails, At, Finish
    <2>4. CASE RemoveUnits \/ RemoveRoute \/ RemoveHome
      BY <2>2, <2>4 DEF RemoveUnits, RemoveRoute, RemoveHome, At, Finish
    <2>5. CASE UpgradeRender \/ UpgradeStart \/ UpgradeSwap \/ UpgradeStop \/ UpgradeFlip
      BY <2>2, <2>5
         DEF UpgradeRender, UpgradeStart, UpgradeSwap, UpgradeStop, UpgradeFlip, At, Finish
    <2>6. CASE FinishEnroll
      <3>1. PICK e \in Enrollments : inFlight = <<e>> /\ (e.via = "cli" => kind = "enroll")
        BY <2>6 DEF FinishEnroll, Inv, CommandOK
      <3> QED
        BY <2>2, <2>6, <3>1 DEF FinishEnroll
    <2>7. CASE Abort
      BY <2>2, <2>7 DEF Abort, Finish
    <2>8. ~UNCHANGED vars
      BY DEF vars
    <2> QED
      BY <2>1, <2>3, <2>4, <2>5, <2>6, <2>7, <2>8
         DEF Next, BeginAdd, BeginRemove, PurgeLeftover, BeginUpgrade, BeginEnroll, PlanUpgrade
  <1> QED
    BY <1>1, <1>2, SpecInv, PTL DEF Spec, MutexSpec

-----------------------------------------------------------------------------
\* A locked enrollment runs alone: it finds no plan, and ends as it began.
LEMMA EnrollAlone ==
    ASSUME Inv, EnrollInv, FinishEnroll
    PROVE  \E e \in Enrollments :
              inFlight = <<e>> /\ Head(inFlight) = e /\ kind = "enroll" /\ plans = <<>>
  <1>1. PICK e \in Enrollments : inFlight = <<e>>
    BY DEF Inv, CommandOK, FinishEnroll
  <1>2. kind = "enroll" /\ plans = <<>>
    BY DEF Inv, CommandOK, EnrollInv, FinishEnroll
  <1> QED
    BY <1>1, <1>2

\* Steps that leave the planned upgrades and the enrollments alone, and put no
\* service in place, keep the enrollments.
LEMMA EnrollUntouched ==
    ASSUME EnrollInv, UNCHANGED <<enrolled, wanted>>,
           \A s \in Services : state'[s] = "installed" => state[s] = "installed",
           kind' = "upgrade" => (kind = "upgrade" /\ plans' = plans) \/ Len(plans') = 0,
           inFlight' # <<>> => inFlight' = inFlight /\ kind' = kind
    PROVE  EnrollInv'
  BY DEF EnrollInv, EnrollmentSticks

\* Every step keeps the enrollments, when every enrollment takes the lock.
LEMMA NextEnroll ==
    ASSUME EnrollPaths \subseteq {"cli"}
    PROVE  Inv /\ EnrollInv /\ [Next]_vars => EnrollInv'
  <1> SUFFICES ASSUME Inv, EnrollInv, [Next]_vars PROVE EnrollInv'
    OBVIOUS
  <1>0. /\ inFlight # <<>> => kind = "enroll"
        /\ kind = "none" => plans = <<>> /\ inFlight = <<>>
        /\ kind = "none" <=> holder = Nobody
    BY DEF EnrollInv, Inv, CommandOK
  <1>1. ASSUME NEW p \in Procs, NEW s \in Services,
               BeginAdd(p, s) \/ BeginRemove(p, s) \/ PurgeLeftover(p, s)
        PROVE  EnrollInv'
    BY <1>0, <1>1, EnrollUntouched
       DEF BeginAdd, BeginRemove, PurgeLeftover, Acquire, metadata, history, command,
           Inv, TypeOK
  <1>2. ASSUME NEW p \in Procs, NEW batch \in Batches, BeginUpgrade(p, batch)
        PROVE  EnrollInv'
    BY <1>0, <1>2, EnrollUntouched DEF BeginUpgrade, Acquire, metadata, history
  <1>3. ASSUME NEW p \in Procs, NEW s \in Services, NEW flag \in BOOLEAN,
               NEW via \in EnrollPaths, BeginEnroll(p, s, flag, via)
        PROVE  EnrollInv'
    BY <1>3 DEF BeginEnroll, EnrollInv, EnrollmentSticks, metadata, history
  <1>4. CASE AddFiles
    <2>1. This.service \in Services
      BY <1>4, PlansProperties DEF AddFiles, At, Inv, Plans
    <2>2. EnrollmentSticks'
      BY <1>4, <2>1, Zenon DEF AddFiles, EnrollInv, EnrollmentSticks, Inv, TypeOK
    <2> QED
      BY <1>0, <1>4, <2>2 DEF AddFiles, At, EnrollInv
  <1>5. CASE AddRoute \/ AddStart \/ AddFails
    BY <1>0, <1>5, EnrollUntouched
       DEF AddRoute, AddStart, AddFails, At, Finish, metadata, history
  <1>6. CASE RemoveUnits \/ RemoveRoute \/ RemoveHome
    BY <1>0, <1>6, EnrollUntouched, PlansProperties
       DEF RemoveUnits, RemoveRoute, RemoveHome, At, Finish, metadata, history,
           Inv, TypeOK, Plans
  <1>7. ASSUME NEW s \in Services, PlanUpgrade(s) PROVE EnrollInv'
    <2>1. /\ Len(plans) \in Nat /\ Len(plans') = Len(plans) + 1
          /\ \A i \in 1 .. Len(plans) : plans'[i] = plans[i]
          /\ plans'[Len(plans) + 1] = SwapPlan(s)
      BY <1>7, PlanType, AppendProperties, LenProperties DEF PlanUpgrade, Inv, TypeOK
    <2>2. SwapPlan(s).enrolled = enrolled[s] /\ SwapPlan(s).service = s
      BY DEF SwapPlan, Plan
    <2>3. \A i \in 1 .. Len(plans') : plans'[i].enrolled = enrolled[plans'[i].service]
      BY <1>7, <2>1, <2>2 DEF PlanUpgrade, EnrollInv
    <2> QED
      BY <1>0, <1>7, <2>3
         DEF PlanUpgrade, EnrollInv, EnrollmentSticks, metadata, history
  <1>8. CASE UpgradeRender \/ UpgradeStart \/ UpgradeSwap \/ UpgradeStop
    BY <1>0, <1>8, EnrollUntouched
       DEF UpgradeRender, UpgradeStart, UpgradeSwap, UpgradeStop, At, metadata, history
  <1>9. CASE UpgradeFlip
    <2>1. /\ This \in Plans /\ This = plans[1] /\ Len(plans) \in Nat \ {0}
          /\ Len(Tail(plans)) = Len(plans) - 1
          /\ \A i \in 1 .. Len(Tail(plans)) : Tail(plans)[i] = plans[i + 1]
      BY <1>9, PlansProperties DEF UpgradeFlip, At, Inv
    <2>2. This.enrolled = enrolled[This.service]
      BY <1>9, <2>1 DEF UpgradeFlip, At, EnrollInv
    <2>3. enrolled' = enrolled
      <3>1. This.service \in Services /\ enrolled \in [Services -> BOOLEAN]
        BY <2>1 DEF Inv, TypeOK, Plans
      <3>2. enrolled' = [enrolled EXCEPT ![This.service] = enrolled[This.service]]
        BY <1>9, <2>2 DEF UpgradeFlip
      <3> QED
        BY <3>1, <3>2
    <2>4. EnrollmentSticks'
      BY <1>9, <2>3 DEF UpgradeFlip, EnrollInv, EnrollmentSticks
    <2>5. CASE Tail(plans) = <<>>
      BY <1>0, <1>9, <2>4, <2>5 DEF UpgradeFlip, Finish, At, EnrollInv
    <2>6. CASE Tail(plans) # <<>>
      <3>1. \A i \in 1 .. Len(plans) : plans[i].enrolled = enrolled[plans[i].service]
        BY <1>9 DEF UpgradeFlip, At, EnrollInv
      <3>2. \A i \in 1 .. Len(plans') : plans'[i].enrolled = enrolled[plans'[i].service]
        <4>1. plans' = Tail(plans)
          BY <1>9, <2>6 DEF UpgradeFlip
        <4>2. ASSUME NEW i \in 1 .. Len(Tail(plans))
              PROVE  Tail(plans)[i] = plans[i + 1] /\ i + 1 \in 1 .. Len(plans)
          BY <2>1
        <4> QED
          BY <2>3, <3>1, <4>1, <4>2
      <3> QED
        BY <1>0, <1>9, <2>3, <2>4, <3>2 DEF UpgradeFlip, At, EnrollInv
    <2> QED
      BY <2>5, <2>6
  <1>10. CASE FinishEnroll
    <2>1. PICK e \in Enrollments :
             inFlight = <<e>> /\ Head(inFlight) = e /\ kind = "enroll" /\ plans = <<>>
      BY <1>10, EnrollAlone
    <2>2. e.service \in Services /\ inFlight' = <<>> /\ kind' # "upgrade"
      BY <1>10, <2>1 DEF FinishEnroll, Enrollments
    <2>3. EnrollmentSticks'
      <3>1. CASE state[e.service] = "absent"
        BY <1>10, <2>1, <3>1, Zenon
           DEF FinishEnroll, EnrollInv, EnrollmentSticks, metadata
      <3>2. CASE state[e.service] # "absent"
        BY <1>10, <2>1, <2>2, <3>2
           DEF FinishEnroll, EnrollInv, EnrollmentSticks, Inv, TypeOK
      <3> QED
        BY <3>1, <3>2
    <2> QED
      BY <2>2, <2>3 DEF EnrollInv
  <1>11. CASE Abort
    BY <1>0, <1>11, EnrollUntouched DEF Abort, Finish, metadata
  <1>12. CASE UNCHANGED vars
    BY <1>12 DEF vars, metadata, history, command, EnrollInv, EnrollmentSticks
  <1> QED
    BY <1>1, <1>2, <1>3, <1>4, <1>5, <1>6, <1>7, <1>8, <1>9, <1>10, <1>11, <1>12
       DEF Next

\* A service's enrollment in backups survives any batch of upgrades, adds and
\* removals, as long as whoever sets it holds the mutation lock.
THEOREM EnrollmentKept ==
    ASSUME EnrollPaths \subseteq {"cli"}
    PROVE  Spec => []EnrollmentSticks
  <1>1. Init => EnrollInv
    BY DEF Init, EnrollInv, EnrollmentSticks
  <1>2. Inv /\ EnrollInv /\ [Next]_vars => EnrollInv'
    BY NextEnroll
  <1>3. EnrollInv => EnrollmentSticks
    BY DEF EnrollInv
  <1> QED
    BY <1>1, <1>2, <1>3, SpecInv, PTL DEF Spec
-----------------------------------------------------------------------------
\* An upgrade of at most one service is an upgrade of one service.
LEMMA BatchOfOne ==
    ASSUME MaxBatch = 1, NEW batch \in Batches
    PROVE  \E s \in Services : batch = {s}
  <1>1. IsFiniteSet(batch) /\ batch # {} /\ batch \subseteq Services
    BY MutationsConstants, FS_Subset DEF MutationsConstants, Batches
  <1>2. Cardinality(batch) = 1
    BY <1>1, FS_CardinalityType, FS_EmptySet DEF Batches
  <1> QED
    BY <1>1, <1>2, FS_Singleton

\* A planned Caddyfile agrees with the one on disk about other services.
LEMMA PlanAgrees ==
    ASSUME TypeOK, NEW s \in Services, NEW t \in Services \ {s}
    PROVE  /\ \A c : Routed(s, c)[t] = caddyfile[t]
           /\ SwapPlan(s).render[t] = caddyfile[t] /\ SwapPlan(s).swap[t] = caddyfile[t]
  BY DEF TypeOK, Files, Routed, SwapPlan, Plan

\* A command that plans one service keeps the invariant on routes.
LEMMA RoutePlanned ==
    ASSUME RouteInv, UNCHANGED caddyfile, NEW plan \in Plans, plans' = <<plan>>, step' # "plan",
           \A t \in Services \ {plan.service} :
              plan.render[t] = caddyfile[t] /\ plan.swap[t] = caddyfile[t]
    PROVE  RouteInv'
  BY DEF RouteInv, This

\* A command that keeps or drops its plan, and the Caddyfile, does as well.
LEMMA RouteUntouched ==
    ASSUME RouteInv, UNCHANGED caddyfile, plans' \in {plans, <<>>},
           step' # "plan" \/ (step = "plan" /\ UNCHANGED <<plans, toPlan>>)
    PROVE  RouteInv'
  BY DEF RouteInv, This

\* Writing either of the planned Caddyfiles changes the route of one service.
LEMMA RouteWritten ==
    ASSUME Inv, RouteInv, plans # <<>>, step # "plan", step' # "plan", UNCHANGED plans,
           caddyfile' \in {This.render, This.swap}
    PROVE  RouteInv' /\ \A s \in Services : caddyfile'[s] # caddyfile[s] => BusyWith(s)
  BY DEF RouteInv, This, BusyWith

\* The two facts every step is shown to keep when an upgrade names one service.
RouteStep ==
    RouteInv' /\ \A s \in Services : caddyfile'[s] # caddyfile[s] => BusyWith(s)

\* Every step keeps the routes apart.
LEMMA NextRoute ==
    ASSUME MaxBatch = 1
    PROVE  Inv /\ RouteInv /\ [Next]_vars => RouteStep
  <1> SUFFICES ASSUME Inv, RouteInv, [Next]_vars PROVE RouteStep
    OBVIOUS
  <1> USE DEF RouteStep
  <1>0. kind \in {"none", "enroll"} => plans = <<>> /\ step = "none"
    BY DEF Inv, CommandOK
  <1>1. ASSUME NEW p \in Procs, NEW s \in Services, BeginAdd(p, s) \/ BeginRemove(p, s)
        PROVE  RouteStep
    <2>1. PICK c \in Colors \cup {Unrouted} :
             plans' = << Plan(s, Routed(s, c), caddyfile, "blue") >>
      BY <1>1 DEF BeginAdd, BeginRemove, Colors
    <2> DEFINE plan == Plan(s, Routed(s, c), caddyfile, "blue")
    <2>2. plan \in Plans
      BY PlanType DEF Inv
    <2>3. /\ plan.service = s
          /\ \A t \in Services \ {s} : plan.render[t] = caddyfile[t] /\ plan.swap[t] = caddyfile[t]
      BY PlanAgrees DEF Inv, Plan
    <2>4. UNCHANGED caddyfile /\ step' # "plan"
      BY <1>1 DEF BeginAdd, BeginRemove
    <2> HIDE DEF plan
    <2> QED
      BY <2>1, <2>2, <2>3, <2>4, RoutePlanned DEF plan
  <1>2. ASSUME NEW p \in Procs, NEW s \in Services, PurgeLeftover(p, s) PROVE RouteStep
    BY <1>2, RouteUntouched DEF PurgeLeftover, command
  <1>3. ASSUME NEW p \in Procs, NEW batch \in Batches, BeginUpgrade(p, batch)
        PROVE  RouteStep
    BY <1>0, <1>3, BatchOfOne DEF BeginUpgrade, Acquire, RouteInv, Inv, CommandOK
  <1>4. ASSUME NEW p \in Procs, NEW s \in Services, NEW flag \in BOOLEAN,
               NEW via \in EnrollPaths, BeginEnroll(p, s, flag, via)
        PROVE  RouteStep
    BY <1>4, RouteUntouched DEF BeginEnroll
  <1>5. CASE AddRoute \/ RemoveRoute \/ UpgradeRender \/ UpgradeSwap
    BY <1>5, RouteWritten DEF AddRoute, RemoveRoute, UpgradeRender, UpgradeSwap, At
  <1>6. CASE AddFiles \/ RemoveUnits \/ UpgradeStart \/ UpgradeStop
    BY <1>6, RouteUntouched DEF AddFiles, RemoveUnits, UpgradeStart, UpgradeStop, At
  <1>7. CASE AddStart \/ RemoveHome \/ Abort
    BY <1>7, RouteUntouched DEF AddStart, RemoveHome, Abort, Finish
  <1>8. CASE AddFails
    <2>1. This.service \in Services
      BY <1>8, PlansProperties DEF AddFails, Plans, Inv
    <2> DEFINE plan == Plan(This.service, Routed(This.service, Unrouted), caddyfile, "blue")
    <2>2. plan \in Plans
      BY <2>1, PlanType DEF Inv
    <2>3. /\ plan.service = This.service
          /\ \A t \in Services \ {This.service} :
                plan.render[t] = caddyfile[t] /\ plan.swap[t] = caddyfile[t]
      BY <2>1, PlanAgrees DEF Inv, Plan
    <2>4. UNCHANGED caddyfile /\ step' # "plan" /\ plans' = <<plan>>
      BY <1>8 DEF AddFails
    <2> HIDE DEF plan
    <2> QED
      BY <2>2, <2>3, <2>4, RoutePlanned
  <1>9. ASSUME NEW s \in Services, PlanUpgrade(s) PROVE RouteStep
    <2>1. plans' = <<SwapPlan(s)>> /\ step' # "plan" /\ UNCHANGED caddyfile
      BY <1>9 DEF PlanUpgrade, RouteInv
    <2>2. /\ SwapPlan(s) \in Plans /\ SwapPlan(s).service = s
          /\ \A t \in Services \ {s} : /\ SwapPlan(s).render[t] = caddyfile[t]
                                       /\ SwapPlan(s).swap[t] = caddyfile[t]
      BY PlanType, PlanAgrees DEF Inv, SwapPlan, Plan
    <2> QED
      BY <2>1, <2>2, RoutePlanned
  <1>10. CASE UpgradeFlip
    <2>1. Tail(plans) = <<>>
      BY <1>10, PlansProperties, EmptySeq DEF UpgradeFlip, At, Inv, RouteInv
    <2> QED
      BY <1>10, <2>1, RouteUntouched DEF UpgradeFlip, Finish
  <1>11. CASE FinishEnroll
    BY <1>11, RouteUntouched DEF FinishEnroll
  <1>12. CASE UNCHANGED vars
    BY <1>12, RouteUntouched DEF vars, command
  <1> QED
    BY <1>1, <1>2, <1>3, <1>4, <1>5, <1>6, <1>7, <1>8, <1>9, <1>10, <1>11, <1>12
       DEF Next

\* The invariant on routes holds at every moment.
LEMMA SpecRoute ==
    ASSUME MaxBatch = 1
    PROVE  Spec => []RouteInv
  <1>1. Init => RouteInv
    BY DEF Init, RouteInv
  <1>2. Inv /\ RouteInv /\ [Next]_vars => RouteInv'
    BY NextRoute DEF RouteStep
  <1> QED
    BY <1>1, <1>2, SpecInv, PTL DEF Spec

\* A command on one service rewrites the whole Caddyfile and never changes the
\* route of another service, also next to an enrollment that takes no lock.
THEOREM RoutesApart ==
    ASSUME MaxBatch = 1
    PROVE  Spec => OnlyOwnRoute
  <1> DEFINE A == \A s \in Services : caddyfile'[s] # caddyfile[s] => BusyWith(s)
  <1>1. Inv /\ RouteInv /\ [Next]_vars => [A]_vars
    BY NextRoute DEF RouteStep
  <1> QED
    BY <1>1, SpecInv, SpecRoute, PTL DEF Spec, OnlyOwnRoute
-----------------------------------------------------------------------------
\* What a service's own records must look like, when no command is on it.
Sound(s) ==
    /\ state[s] = "installed" => caddyfile[s] = active[s] /\ active[s] \in running[s]
    /\ state[s] = "absent" => caddyfile[s] = Unrouted
    /\ state[s] # "leftover"

\* The settled services and the recorded leftovers, in one formula.
LEMMA SettledSound ==
    LeftoversBroken /\ Settled <=> \A s \in Services \ broken : ~BusyWith(s) => Sound(s)
  BY DEF LeftoversBroken, Settled, Sound

\* A step in the middle of a command disturbs only the command's service.
LEMMA SettledBusy ==
    ASSUME LeftoversBroken /\ Settled, plans # <<>>, step # "plan", step' # "plan",
           UNCHANGED <<plans, broken>>,
           \A s \in Services \ {This.service} :
              /\ state'[s] = state[s] /\ active'[s] = active[s]
              /\ caddyfile'[s] = caddyfile[s] /\ running'[s] = running[s]
    PROVE  LeftoversBroken' /\ Settled'
  BY DEF LeftoversBroken, Settled, BusyWith, This

\* A command that begins disturbs nothing.
LEMMA SettledBegin ==
    ASSUME LeftoversBroken /\ Settled, plans = <<>> \/ step = "plan",
           UNCHANGED <<state, active, caddyfile, running, broken>>
    PROVE  LeftoversBroken' /\ Settled'
  BY DEF LeftoversBroken, Settled, BusyWith

\* A command that ends leaves its service sound or on record.
LEMMA SettledEnd ==
    ASSUME LeftoversBroken /\ Settled, plans # <<>>, step # "plan", plans' = <<>>,
           NEW w \in Services, w = This.service,
           \A s \in Services \ {w} :
              /\ state'[s] = state[s] /\ active'[s] = active[s]
              /\ caddyfile'[s] = caddyfile[s] /\ running'[s] = running[s]
              /\ s \in broken' <=> s \in broken,
           w \in broken' \/ Sound(w)'
    PROVE  LeftoversBroken' /\ Settled'
  BY DEF LeftoversBroken, Settled, Sound, BusyWith

\* Every step leaves the services settled, when an upgrade names one service
\* and every enrollment takes the lock.
LEMMA NextSettled ==
    ASSUME MaxBatch = 1, EnrollPaths \subseteq {"cli"}
    PROVE  Inv /\ EnrollInv /\ RouteInv /\ SettledInv /\ [Next]_vars => SettledInv'
  <1> SUFFICES ASSUME Inv, EnrollInv, RouteInv, SettledInv, [Next]_vars PROVE SettledInv'
    OBVIOUS
  <1> USE DEF SettledInv
  <1>0. /\ kind \in {"none", "enroll"} => plans = <<>> /\ step = "none"
        /\ kind \in {"add", "remove"} => plans # <<>> /\ step # "plan"
        /\ inFlight # <<>> => kind = "enroll"
        /\ holder = Nobody <=> kind = "none"
        /\ kind # "upgrade" => toPlan = {}
    BY DEF Inv, CommandOK, EnrollInv
  <1>1. ASSUME NEW p \in Procs, NEW s \in Services, BeginAdd(p, s) PROVE SettledInv'
    <2>1. StepOK'
      BY <1>0, <1>1
        
         DEF BeginAdd, Acquire, StepOK, This, Plan, Routed, Inv, TypeOK, Files, metadata,
             history
    <2> QED
      BY <1>0, <1>1, <2>1, SettledBegin DEF BeginAdd, Acquire, metadata, history
  <1>2. ASSUME NEW p \in Procs, NEW s \in Services, BeginRemove(p, s) PROVE SettledInv'
    <2>1. StepOK'
      BY <1>0, <1>2
        
         DEF BeginRemove, Acquire, StepOK, This, Plan, Routed, Inv, TypeOK, Files,
             metadata, history
    <2> QED
      BY <1>0, <1>2, <2>1, SettledBegin DEF BeginRemove, Acquire, metadata, history
  <1>3. ASSUME NEW p \in Procs, NEW s \in Services, PurgeLeftover(p, s) PROVE SettledInv'
    <2>1. StepOK'
      BY <1>0, <1>3 DEF PurgeLeftover, StepOK, metadata, history, command
    <2>2. LeftoversBroken' /\ Settled'
      BY <1>0, <1>3
        
         DEF PurgeLeftover, LeftoversBroken, Settled, BusyWith, Inv, TypeOK, metadata,
             history, command
    <2> QED
      BY <2>1, <2>2
  <1>4. ASSUME NEW p \in Procs, NEW batch \in Batches, BeginUpgrade(p, batch)
        PROVE  SettledInv'
    <2>1. StepOK'
      BY <1>0, <1>4 DEF BeginUpgrade, Acquire, StepOK, metadata, history
    <2> QED
      BY <1>0, <1>4, <2>1, SettledBegin DEF BeginUpgrade, Acquire, metadata, history
  <1>5. ASSUME NEW p \in Procs, NEW s \in Services, NEW flag \in BOOLEAN,
               NEW via \in EnrollPaths, BeginEnroll(p, s, flag, via)
        PROVE  SettledInv'
    <2>1. kind' = "enroll" /\ kind = "none"
      BY <1>0, <1>5 DEF BeginEnroll, Acquire
    <2>2. StepOK'
      BY <1>5, <2>1 DEF BeginEnroll, StepOK, metadata, history
    <2> QED
      BY <1>0, <1>5, <2>1, <2>2, SettledBegin DEF BeginEnroll, metadata, history
  <1>6. CASE AddFiles \/ AddRoute \/ RemoveUnits \/ RemoveRoute
             \/ UpgradeRender \/ UpgradeStart \/ UpgradeSwap \/ UpgradeStop
    <2>1. This \in Plans /\ This.service \in Services /\ plans # <<>> /\ step # "plan"
          /\ UNCHANGED <<plans, broken>> /\ step' # "plan"
      BY <1>6, PlansProperties
         DEF Inv, Plans, At, AddFiles, AddRoute, RemoveUnits, RemoveRoute,
             UpgradeRender, UpgradeStart, UpgradeSwap, UpgradeStop, history
    <2>2. \A t \in Services \ {This.service} :
             This.render[t] = caddyfile[t] /\ This.swap[t] = caddyfile[t]
      BY <2>1 DEF RouteInv
    <2>3. \A s \in Services \ {This.service} :
             /\ state'[s] = state[s] /\ active'[s] = active[s]
             /\ caddyfile'[s] = caddyfile[s] /\ running'[s] = running[s]
      BY <1>6, <2>1, <2>2
         DEF Inv, TypeOK, AddFiles, AddRoute, RemoveUnits, RemoveRoute,
             UpgradeRender, UpgradeStart, UpgradeSwap, UpgradeStop, metadata, history
    <2>4. StepOK'
      <3>1. CASE AddFiles \/ AddRoute
        BY <1>0, <2>1, <3>1 DEF AddFiles, AddRoute, At, StepOK, This, Inv, TypeOK, metadata
      <3>2. CASE RemoveUnits \/ RemoveRoute
        BY <1>0, <2>1, <3>2
        DEF RemoveUnits, RemoveRoute, At, StepOK, This, Inv, TypeOK, metadata
      <3>3. CASE UpgradeRender \/ UpgradeSwap
        BY <1>0, <2>1, <3>3
        DEF UpgradeRender, UpgradeSwap, At, StepOK, This, Inv, TypeOK, metadata
      <3>4. CASE UpgradeStart \/ UpgradeStop
        BY <1>0, <2>1, <3>4
          
           DEF UpgradeStart, UpgradeStop, At, StepOK, This, Inv, TypeOK, metadata, Plans,
               Colors, Other
      <3> QED
        BY <1>6, <3>1, <3>2, <3>3, <3>4
    <2> QED
      BY <2>1, <2>3, <2>4, SettledBusy
  <1>7. CASE AddStart \/ RemoveHome
    <2>1. PICK w \in Services : w = This.service
      BY <1>7, PlansProperties DEF AddStart, RemoveHome, At, Inv, Plans
    <2>4. plans # <<>> /\ plans' = <<>> /\ kind' = "none" /\ step # "plan"
      BY <1>7 DEF AddStart, RemoveHome, At, Finish
    <2>2. StepOK'
      BY <1>0, <1>7, <2>4 DEF AddStart, RemoveHome, At, StepOK
    <2>3. Sound(w)'
      <3>1. CASE AddStart
        BY <2>1, <3>1 DEF AddStart, At, StepOK, Sound, Inv, TypeOK, metadata
      <3>2. CASE RemoveHome
        BY <2>1, <3>2 DEF RemoveHome, At, StepOK, Sound, Inv, TypeOK, metadata
      <3> QED
        BY <1>7, <3>1, <3>2
    <2> QED
      BY <1>7, <2>1, <2>2, <2>3, <2>4, SettledEnd
         DEF AddStart, RemoveHome, Inv, TypeOK, metadata
  <1>8. CASE AddFails
    <2>1. StepOK'
      BY <1>0, <1>8, PlansProperties
         DEF AddFails, StepOK, This, Plan, Plans, Routed, Inv, TypeOK, Files, metadata, history
    <2>2. BusyWith(This.service) /\ \A s : BusyWith(s)' <=> BusyWith(s)
      BY <1>0, <1>8 DEF AddFails, BusyWith, This, Plan
    <2>3. LeftoversBroken' /\ Settled'
      BY <1>8, <2>2 DEF AddFails, LeftoversBroken, Settled, metadata, history
    <2> QED
      BY <2>1, <2>3
  <1>9. ASSUME NEW s \in Services, PlanUpgrade(s) PROVE SettledInv'
    <2>1. plans' = <<SwapPlan(s)>> /\ toPlan = {s} /\ kind = "upgrade" /\ step = "plan"
      BY <1>9 DEF PlanUpgrade, RouteInv
    <2>2. StepOK'
      BY <1>0, <1>9, <2>1
        
         DEF PlanUpgrade, StepOK, SwapPlan, Plan, This, Routed, Inv, TypeOK, Files,
             metadata, history
    <2>3. LeftoversBroken' /\ Settled'
      BY <1>9, <2>1, SettledBegin DEF PlanUpgrade, metadata, history
    <2> QED
      BY <2>2, <2>3
  <1>10. CASE UpgradeFlip
    <2>1. /\ Tail(plans) = <<>> /\ This \in Plans
          /\ plans # <<>> /\ step = "flip" /\ kind = "upgrade"
      BY <1>10, PlansProperties, EmptySeq DEF UpgradeFlip, At, Inv, RouteInv
    <2>4. PICK w \in Services : w = This.service
      BY <2>1 DEF Plans
    <2>2. StepOK'
      BY <1>0, <1>10, <2>1 DEF UpgradeFlip, Finish, StepOK
    <2>3. Sound(w)'
      BY <1>10, <2>1, <2>4 DEF UpgradeFlip, StepOK, Sound, Inv, TypeOK
    <2> QED
      BY <1>10, <2>1, <2>2, <2>3, <2>4, SettledEnd DEF UpgradeFlip, Finish, Inv, TypeOK
  <1>11. CASE FinishEnroll
    <2>1. PICK e \in Enrollments :
             inFlight = <<e>> /\ Head(inFlight) = e /\ kind = "enroll" /\ plans = <<>>
      BY <1>11, EnrollAlone
    <2>2. UNCHANGED <<active, state, caddyfile, running, broken, plans>>
      BY <1>11, <2>1 DEF FinishEnroll, StepOK, metadata, Inv, TypeOK, Enrollments
    <2>3. StepOK'
      BY <1>0, <1>11, <2>1, <2>2 DEF FinishEnroll, Release, StepOK
    <2> QED
      BY <2>1, <2>2, <2>3, SettledBegin
  <1>12. CASE Abort
    <2>1. StepOK'
      BY <1>0, <1>12 DEF Abort, Finish, StepOK
    <2>2. CASE plans = <<>> \/ step = "plan"
      BY <1>12, <2>1, <2>2, SettledBegin DEF Abort, metadata
    <2>3. CASE ~(plans = <<>> \/ step = "plan")
      <3>1. PICK w \in Services : w = This.service
        BY <2>3, PlansProperties DEF Inv, Plans
      <3> QED
        BY <1>12, <2>1, <2>3, <3>1, SettledEnd DEF Abort, Finish, metadata
    <2> QED
      BY <2>2, <2>3
  <1>13. CASE UNCHANGED vars
    BY <1>13 DEF vars, metadata, history, command, StepOK, LeftoversBroken, Settled,
                 BusyWith, This
  <1> QED
    BY <1>1, <1>2, <1>3, <1>4, <1>5, <1>6, <1>7, <1>8, <1>9, <1>10, <1>11, <1>12, <1>13
       DEF Next

\* Between commands, the route, the recorded color and the running slot of a
\* service agree, unless a command on this very service stopped half-way.
THEOREM ServicesSettled ==
    ASSUME MaxBatch = 1, EnrollPaths \subseteq {"cli"}
    PROVE  Spec => []Settled
  <1>1. Init => EnrollInv /\ SettledInv
    BY DEF Init, EnrollInv, EnrollmentSticks, SettledInv, StepOK, LeftoversBroken, Settled
  <1>2. Inv /\ EnrollInv /\ [Next]_vars => EnrollInv'
    BY NextEnroll
  <1>3. Inv /\ EnrollInv /\ RouteInv /\ SettledInv /\ [Next]_vars => SettledInv'
    BY NextSettled
  <1>4. Spec => []RouteInv
    BY SpecRoute
  <1>5. SettledInv => Settled
    BY DEF SettledInv
  <1> QED
    BY <1>1, <1>2, <1>3, <1>4, <1>5, SpecInv, PTL DEF Spec
-----------------------------------------------------------------------------
(***************************************************************************)
(* The lock itself: that MutationLock, the flock with its depth counter,   *)
(* is the mutex these commands are built on, for any number of processes,  *)
(* resets, lock files and nested commands.                                 *)
(***************************************************************************)

\* Flocks and mutating processes determine each other.
LockOK ==
    /\ \A p \in Processes : Mutating(p) => fd[p] \in LockFiles /\ locked[fd[p]] = p
    /\ \A f \in LockFiles : locked[f] # NoProcess =>
          locked[f] \in Processes /\ Mutating(locked[f]) /\ fd[locked[f]] = f

\* What a process has open, and how deep it is, at each point of its command.
LockCommandOK ==
    \A p \in Processes :
        /\ pc[p] = "idle" => fd[p] = Absent /\ depth[p] = 0
        /\ pc[p] = "opened" => fd[p] \in LockFiles /\ depth[p] = 1
        /\ pc[p] = "finalized" => depth[p] = 1

\* Until a reset removes it, every process has opened the one lock file.
OneFile ==
    ~wiped => \A p \in Processes : fd[p] \in {path, Absent} /\ pc[p] # "finalized"

LockInv == LockTypeOK /\ LockOK /\ LockCommandOK /\ OneFile

\* The invariant holds before any command has run.
LEMMA LockInitInv == LockInit => LockInv
  <1> SUFFICES ASSUME LockInit PROVE LockInv
    OBVIOUS
  <1>0. wiped \in BOOLEAN
    BY DEF LockInit
  <1>1. 0 \in 0 .. MaxDepth
    BY LockConstants DEF LockConstants
  <1>2. LockTypeOK
    BY <1>0, <1>1 DEF LockInit, LockTypeOK
  <1>3. LockOK
    BY DEF LockInit, LockOK, Mutating
  <1>4. LockCommandOK /\ OneFile
    BY DEF LockInit, LockCommandOK, OneFile
  <1> QED
    BY <1>2, <1>3, <1>4 DEF LockInv

\* A process that closes its file keeps the invariant.
LEMMA CloseInv ==
    ASSUME LockInv, NEW p \in Processes, Close(p), UNCHANGED <<path, wiped>>
    PROVE  LockInv'
  <1> USE LockConstants DEF LockConstants, LockInv, Mutating, Close
  <1>1. LockTypeOK'
    BY DEF LockTypeOK
  <1>2. LockOK'
    <2>1. ASSUME NEW q \in Processes, Mutating(q)'
          PROVE  fd'[q] \in LockFiles /\ locked'[fd'[q]] = q
      <3>1. q # p /\ Mutating(q)
        BY <2>1 DEF LockTypeOK
      <3> QED
        BY <3>1 DEF LockTypeOK, LockOK
    <2>2. ASSUME NEW f \in LockFiles, locked'[f] # NoProcess
          PROVE  /\ locked'[f] \in Processes /\ Mutating(locked[f])'
                 /\ fd'[locked'[f]] = f /\ locked'[f] = locked[f]
      BY <2>2 DEF LockTypeOK, LockOK
    <2> QED
      BY <2>1, <2>2 DEF LockOK
  <1>3. LockCommandOK'
    BY DEF LockTypeOK, LockCommandOK
  <1>4. OneFile'
    BY DEF LockTypeOK, OneFile
  <1> QED
    BY <1>1, <1>2, <1>3, <1>4

\* Every step keeps the invariant.
LEMMA LockNextInv == LockInv /\ [LockNext]_lockVars => LockInv'
  <1> SUFFICES ASSUME LockInv, [LockNext]_lockVars PROVE LockInv'
    OBVIOUS
  <1> USE LockConstants DEF LockConstants
  <1>1. ASSUME NEW p \in Processes, Open(p) PROVE LockInv'
    BY <1>1 DEF Open, LockInv, LockTypeOK, LockOK, LockCommandOK, OneFile, Mutating
  <1>2. ASSUME NEW p \in Processes, Lock(p) PROVE LockInv'
    BY <1>2 DEF Lock, LockInv, LockTypeOK, LockOK, LockCommandOK, OneFile, Mutating
  <1>3. ASSUME NEW p \in Processes, Refuse(p) PROVE LockInv'
    BY <1>3 DEF Refuse, LockInv, LockTypeOK, LockOK, LockCommandOK, OneFile, Mutating
  <1>4. ASSUME NEW p \in Processes, AcquireNested(p) PROVE LockInv'
    BY <1>4
    DEF AcquireNested, LockInv, LockTypeOK, LockOK, LockCommandOK, OneFile, Mutating
  <1>5. ASSUME NEW p \in Processes, DropInner(p) PROVE LockInv'
    BY <1>5 DEF DropInner, LockInv, LockTypeOK, LockOK, LockCommandOK, OneFile, Mutating
  <1>6. ASSUME NEW p \in Processes, DropOuter(p) PROVE LockInv'
    BY <1>6, CloseInv DEF DropOuter
  <1>7. ASSUME NEW p \in Processes, FinalizeReset(p) PROVE LockInv'
    BY <1>7
    DEF FinalizeReset, LockInv, LockTypeOK, LockOK, LockCommandOK, OneFile, Mutating
  <1>8. ASSUME NEW p \in Processes, Die(p) PROVE LockInv'
    BY <1>8, CloseInv DEF Die
  <1>9. CASE UNCHANGED lockVars
    BY <1>9 DEF lockVars, LockInv, LockTypeOK, LockOK, LockCommandOK, OneFile, Mutating
  <1> QED
    BY <1>1, <1>2, <1>3, <1>4, <1>5, <1>6, <1>7, <1>8, <1>9 DEF LockNext

\* The invariant holds at every moment of every execution.
LEMMA LockSpecInv == LockSpec => []LockInv
  BY LockInitInv, LockNextInv, PTL DEF LockSpec

\* Type correctness of the lock's state.
THEOREM LockTypeCorrect == LockSpec => []LockTypeOK
  <1>1. LockInv => LockTypeOK
    BY DEF LockInv
  <1> QED
    BY <1>1, LockSpecInv, PTL

\* A mutating process owns the flock of its file at every nesting depth.
THEOREM OwnsFile == LockSpec => []MutatingOwnsItsFile
  <1>1. LockInv => MutatingOwnsItsFile
    BY DEF LockInv, LockOK, MutatingOwnsItsFile
  <1> QED
    BY <1>1, LockSpecInv, PTL

\* Two mutating processes have opened the same file, and a file has one lock.
LEMMA InvExclusion == LockInv => ExclusionUntilReset
  <1> SUFFICES ASSUME LockInv, ~wiped, NEW p \in Processes, NEW q \in Processes,
                      Mutating(p), Mutating(q)
               PROVE  p = q
    BY DEF ExclusionUntilReset
  <1>1. locked[fd[p]] = p /\ locked[fd[q]] = q
    BY DEF LockInv, LockOK
  <1>2. fd[p] = path /\ fd[q] = path
    BY LockConstants DEF LockConstants, LockInv, LockOK, OneFile
  <1> QED
    BY <1>1, <1>2

\* Mutual exclusion, for any number of processes, until a reset.
THEOREM Exclusion == LockSpec => []ExclusionUntilReset
  BY InvExclusion, LockSpecInv, PTL

\* Whoever is turned away is turned away by another, running mutation.
THEOREM GenuineRefusal == LockSpec => RefusedByAnother
  <1> DEFINE A == \A p \in Processes : Refuse(p)
                    => \E q \in Processes \ {p} : Mutating(q) /\ fd[q] = fd[p]
  <1>1. LockInv /\ [LockNext]_lockVars => [A]_lockVars
    <2> SUFFICES ASSUME LockInv, NEW p \in Processes, Refuse(p)
                 PROVE  \E q \in Processes \ {p} : Mutating(q) /\ fd[q] = fd[p]
      OBVIOUS
    <2>1. fd[p] \in LockFiles /\ locked[fd[p]] # NoProcess
      BY DEF Refuse, LockInv, LockCommandOK
    <2>2. /\ locked[fd[p]] \in Processes /\ Mutating(locked[fd[p]])
          /\ fd[locked[fd[p]]] = fd[p]
      BY <2>1 DEF LockInv, LockOK
    <2>3. locked[fd[p]] # p
      BY <2>2 DEF Refuse, Mutating
    <2> QED
      BY <2>2, <2>3
  <1> QED
    BY <1>1, LockSpecInv, PTL DEF LockSpec, RefusedByAnother

\* Under exclusion, Holder is the mutating process.
HolderOK ==
    /\ \A p \in Processes : Mutating(p) => Holder = p
    /\ (\A p \in Processes : ~Mutating(p)) => Holder = NoProcess

LEMMA HolderIs == ExclusionUntilReset /\ ~wiped => HolderOK
  <1> SUFFICES ASSUME ExclusionUntilReset, ~wiped PROVE HolderOK
    OBVIOUS
  <1>1. ASSUME NEW p \in Processes, Mutating(p) PROVE Holder = p
    <2>1. (CHOOSE q \in Processes : Mutating(q)) \in Processes
          /\ Mutating(CHOOSE q \in Processes : Mutating(q))
      BY <1>1
    <2> QED
      BY <1>1, <2>1 DEF Holder, ExclusionUntilReset
  <1>2. ASSUME \A p \in Processes : ~Mutating(p) PROVE Holder = NoProcess
    BY <1>2 DEF Holder
  <1> QED
    BY <1>1, <1>2 DEF HolderOK

\* What a step does to the set of mutating processes, until a reset: nothing,
\* or one process enters when none is inside, or the one inside leaves.
LEMMA StepShape ==
    ASSUME LockInv, [LockNext]_lockVars, ~wiped'
    PROVE  /\ ~wiped
           /\ \/ \A p \in Processes : Mutating(p)' = Mutating(p)
              \/ \E p \in Processes :
                    /\ Mutating(p)' /\ \A q \in Processes : ~Mutating(q)
              \/ \E p \in Processes :
                    /\ Mutating(p) /\ ~Mutating(p)'
                    /\ \A q \in Processes \ {p} : ~Mutating(q) /\ ~Mutating(q)'
  <1> USE LockConstants DEF LockConstants
  <1>1. ASSUME NEW p \in Processes, Lock(p)
        PROVE  ~wiped /\ Mutating(p)' /\ \A q \in Processes : ~Mutating(q)
    <2>1. ~wiped /\ fd[p] = path /\ locked[path] = NoProcess
      BY <1>1 DEF Lock, LockInv, LockCommandOK, OneFile
    <2>2. ASSUME NEW q \in Processes, Mutating(q) PROVE FALSE
      BY <2>1, <2>2 DEF LockInv, LockOK, OneFile
    <2> QED
      BY <1>1, <2>1, <2>2 DEF Lock, LockInv, LockTypeOK, Mutating
  <1>2. ASSUME NEW p \in Processes, Close(p), UNCHANGED wiped, Mutating(p)
        PROVE  /\ ~wiped /\ ~Mutating(p)'
               /\ \A q \in Processes \ {p} : ~Mutating(q) /\ ~Mutating(q)'
    <2>1. \A q \in Processes \ {p} : ~Mutating(q)
      BY <1>2, InvExclusion DEF ExclusionUntilReset
    <2> QED
      BY <1>2, <2>1 DEF Close, LockInv, LockTypeOK, Mutating
  <1>3. ASSUME NEW p \in Processes, Close(p), UNCHANGED wiped, ~Mutating(p)
        PROVE  ~wiped /\ \A q \in Processes : Mutating(q)' = Mutating(q)
    BY <1>3 DEF Close, LockInv, LockTypeOK, Mutating
  <1>4. ASSUME NEW p \in Processes,
               \/ Open(p) \/ Refuse(p) \/ AcquireNested(p) \/ DropInner(p)
        PROVE  ~wiped /\ \A q \in Processes : Mutating(q)' = Mutating(q)
    BY <1>4
   
    DEF Open, Refuse, AcquireNested, DropInner, LockInv, LockTypeOK, Mutating
  <1>5. CASE UNCHANGED lockVars
    BY <1>5 DEF lockVars, Mutating
  <1>6. ASSUME NEW p \in Processes, DropOuter(p) \/ Die(p)
        PROVE  Close(p) /\ UNCHANGED wiped
    BY <1>6 DEF DropOuter, Die
  <1>7. ASSUME NEW p \in Processes, FinalizeReset(p) PROVE FALSE
    BY <1>7 DEF FinalizeReset
  <1> QED
    BY <1>1, <1>2, <1>3, <1>4, <1>5, <1>6, <1>7 DEF LockNext

\* Until a reset, the flock, the depth counter and the guards together are the
\* abstract mutex: each step is one of its steps or leaves the holder alone.
THEOREM RefinesMutex == LockSpec => ImplementsMutex
  <1>1. LockInit => M!MutexInit
    BY DEF LockInit, Holder, Mutating, M!MutexInit
  <1>2. LockInv /\ LockInv' /\ [LockNext]_lockVars
          => [~wiped' => M!MutexNext \/ UNCHANGED Holder]_lockVars
    <2> SUFFICES ASSUME LockInv, LockInv', [LockNext]_lockVars, ~wiped'
                 PROVE  M!MutexNext \/ UNCHANGED Holder
      OBVIOUS
    <2>1. ~wiped
      BY StepShape
    <2>2. HolderOK
      BY <2>1, InvExclusion, HolderIs
    <2>3. (LockInv => ExclusionUntilReset)' /\ (ExclusionUntilReset /\ ~wiped => HolderOK)'
      BY InvExclusion, HolderIs, PTL
    <2>4. HolderOK'
      BY <2>3
    <2>5. CASE \A p \in Processes : Mutating(p)' = Mutating(p)
      BY <2>2, <2>4, <2>5 DEF HolderOK
    <2>6. ASSUME NEW p \in Processes, Mutating(p)',
                 \A q \in Processes : ~Mutating(q)
          PROVE  M!MutexNext
      BY <2>2, <2>4, <2>6 DEF HolderOK, M!MutexNext, M!Acquire
    <2>7. ASSUME NEW p \in Processes, Mutating(p), ~Mutating(p)',
                 \A q \in Processes \ {p} : ~Mutating(q) /\ ~Mutating(q)'
          PROVE  M!MutexNext
      BY <2>2, <2>4, <2>7 DEF HolderOK, M!MutexNext, M!Release
    <2> QED
      BY <2>5, <2>6, <2>7, StepShape
  <1> QED
    BY <1>1, <1>2, LockSpecInv, PTL DEF LockSpec, ImplementsMutex

\* What the commands take for the mutex is what the lock provides: until a reset,
\* the process that mutates is a holder that behaves as `Mutations` assumes.
THEOREM LockServesCommands ==
    ASSUME Processes = Procs, NoProcess = Nobody
    PROVE  LockSpec /\ []~wiped /\ [](holder = Holder) => MutexSpec
  <1>1. M!MutexInit /\ holder = Holder => MutexInit
    BY DEF M!MutexInit, MutexInit
  <1>2. /\ ~wiped' /\ holder = Holder /\ (holder = Holder)'
        /\ [~wiped' => M!MutexNext \/ UNCHANGED Holder]_lockVars
        => [MutexNext]_holder
    <2> SUFFICES ASSUME holder = Holder, holder' = Holder',
                        M!MutexNext \/ UNCHANGED Holder \/ UNCHANGED lockVars
                 PROVE  [MutexNext]_holder
      OBVIOUS
    <2>1. CASE UNCHANGED lockVars
      BY <2>1 DEF lockVars, Holder, Mutating
    <2>2. CASE M!MutexNext
      BY <2>2 DEF M!MutexNext, M!Acquire, M!Release, MutexNext, Acquire, Release
    <2> QED
      BY <2>1, <2>2
  <1> QED
    BY <1>1, <1>2, RefinesMutex, PTL DEF ImplementsMutex, MutexSpec
==============================================================================
