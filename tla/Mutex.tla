-------------------------------- MODULE Mutex --------------------------------
(***************************************************************************)
(* What lock.rs promises of the global mutation lock: at most one ryra     *)
(* process is inside a mutation, and it leaves by finishing or by dying.   *)
(* MutationLock implements it; Mutations is built on it.                   *)
(***************************************************************************)
CONSTANTS Procs, Nobody

ASSUME NobodyIsNoProcess == Nobody \notin Procs

VARIABLE holder   \* the process inside a mutation, or Nobody

MutexInit == holder = Nobody

Acquire(p) == holder = Nobody /\ holder' = p
Release(p) == holder = p /\ holder' = Nobody

MutexNext == \E p \in Procs : Acquire(p) \/ Release(p)

MutexSpec == MutexInit /\ [][MutexNext]_holder
==============================================================================
