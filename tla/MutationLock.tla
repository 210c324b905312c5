----------------------------- MODULE MutationLock -----------------------------
(***************************************************************************)
(* The global mutation lock (cli/lock.rs) over an advisory flock: each     *)
(* process opens <config_dir>/.ryra.lock, creating it if it is not there,  *)
(* and tries, without waiting, to lock the file it opened.  A command that *)
(* runs another one in the same process acquires again: only LOCK_DEPTH    *)
(* moves.  `ryra reset` holds the lock too, and its finalize_reset removes *)
(* config_dir, so that the path then names no file, or another one.        *)
(*                                                                         *)
(* The kernel side is modelled by what it does: a file is an inode, a lock *)
(* belongs to the open file of one process and goes when the file closes,  *)
(* at the latest when the process dies.                                    *)
(***************************************************************************)
EXTENDS Naturals

CONSTANTS
    Processes, NoProcess,
    Resetters,      \* the processes whose command is `ryra reset`
    LockFiles, Absent,  \* inodes a lock file may be, and none
    MaxDepth        \* nested commands: a bound of the model

ASSUME LockConstants ==
    /\ NoProcess \notin Processes
    /\ Absent \notin LockFiles
    /\ Resetters \subseteq Processes
    /\ MaxDepth \in Nat \ {0}

VARIABLES
    path,      \* the file .ryra.lock names, or Absent
    locked,    \* per file: the process whose open file holds the flock
    fd,        \* per process: the lock file it has open, or Absent
    depth,     \* per process: LOCK_DEPTH
    pc,        \* per process: where its command stands
    wiped      \* history: a reset has removed config_dir

lockVars == <<path, locked, fd, depth, pc, wiped>>

LockInit ==
    /\ path = Absent
    /\ locked = [f \in LockFiles |-> NoProcess]
    /\ fd = [p \in Processes |-> Absent]
    /\ depth = [p \in Processes |-> 0]
    /\ pc = [p \in Processes |-> "idle"]
    /\ wiped = FALSE

Mutating(p) == pc[p] \in {"mutating", "finalized"}

\* An open that replaces the lock file by a new one (a temporary, renamed).
OpenReplaces(p) ==
    /\ pc[p] = "idle" /\ depth[p] = 0
    /\ path' \in {f \in LockFiles : \A q \in Processes : fd[q] # f}
    /\ fd' = [fd EXCEPT ![p] = path']
    /\ depth' = [depth EXCEPT ![p] = 1]
    /\ pc' = [pc EXCEPT ![p] = "opened"]
    /\ UNCHANGED <<locked, wiped>>

\* acquire, up to the open: depth 0, so this process takes the flock itself.  A
\* new file gets an inode that no process has open.
Open(p) ==
    /\ pc[p] = "idle" /\ depth[p] = 0
    /\ \/ path # Absent /\ UNCHANGED path
       \/ path = Absent
            /\ path' \in {f \in LockFiles : \A q \in Processes : fd[q] # f}
    /\ fd' = [fd EXCEPT ![p] = path']
    /\ depth' = [depth EXCEPT ![p] = 1]
    /\ pc' = [pc EXCEPT ![p] = "opened"]
    /\ UNCHANGED <<locked, wiped>>

\* A shared lock where the exclusive one belongs.
LockShared(p) ==
    /\ pc[p] = "opened"
    /\ locked' = [locked EXCEPT ![fd[p]] = p]
    /\ pc' = [pc EXCEPT ![p] = "mutating"]
    /\ UNCHANGED <<path, fd, depth, wiped>>

\* try_lock succeeds.
Lock(p) ==
    /\ pc[p] = "opened" /\ locked[fd[p]] = NoProcess
    /\ locked' = [locked EXCEPT ![fd[p]] = p]
    /\ pc' = [pc EXCEPT ![p] = "mutating"]
    /\ UNCHANGED <<path, fd, depth, wiped>>

\* try_lock fails with WouldBlock: the depth is put back and the command ends.
Refuse(p) ==
    /\ pc[p] = "opened" /\ locked[fd[p]] # NoProcess
    /\ depth' = [depth EXCEPT ![p] = 0]
    /\ fd' = [fd EXCEPT ![p] = Absent]
    /\ pc' = [pc EXCEPT ![p] = "idle"]
    /\ UNCHANGED <<path, locked, wiped>>

\* A nested acquire that takes the flock again instead of the depth's word.
AcquireAgain(p) ==
    /\ pc[p] = "mutating" /\ depth[p] \in 1 .. MaxDepth - 1 /\ path # Absent
    /\ depth' = [depth EXCEPT ![p] = @ + 1]
    /\ fd' = [fd EXCEPT ![p] = path]
    /\ pc' = [pc EXCEPT ![p] = "opened"]
    /\ UNCHANGED <<path, locked, wiped>>

\* A command of the holding process runs another: only the depth moves.
AcquireNested(p) ==
    /\ pc[p] = "mutating" /\ depth[p] \in 1 .. MaxDepth - 1
    /\ depth' = [depth EXCEPT ![p] = @ + 1]
    /\ UNCHANGED <<path, locked, fd, pc, wiped>>

\* An inner guard that closes the file when it is dropped.
DropInnerCloses(p) ==
    /\ depth[p] > 1
    /\ depth' = [depth EXCEPT ![p] = @ - 1]
    /\ locked' = [locked EXCEPT ![fd[p]] = NoProcess]
    /\ UNCHANGED <<path, fd, pc, wiped>>

\* An inner guard owns no file.
DropInner(p) ==
    /\ depth[p] > 1
    /\ depth' = [depth EXCEPT ![p] = @ - 1]
    /\ UNCHANGED <<path, locked, fd, pc, wiped>>

\* The process's file closes: its lock, if it has one, goes with it.
Close(p) ==
    /\ locked' = [f \in LockFiles |-> IF locked[f] = p THEN NoProcess ELSE locked[f]]
    /\ fd' = [fd EXCEPT ![p] = Absent]
    /\ depth' = [depth EXCEPT ![p] = 0]
    /\ pc' = [pc EXCEPT ![p] = "idle"]

DropOuter(p) ==
    /\ Mutating(p) /\ depth[p] = 1
    /\ Close(p)
    /\ UNCHANGED <<path, wiped>>

\* finalize_reset: remove_dir_all(config_dir), the lock file with it.  The
\* command goes on after it (reset-failed, the CA, sudoers, linger).
FinalizeReset(p) ==
    /\ p \in Resetters /\ pc[p] = "mutating" /\ depth[p] = 1
    /\ path' = Absent
    /\ wiped' = TRUE
    /\ pc' = [pc EXCEPT ![p] = "finalized"]
    /\ UNCHANGED <<locked, fd, depth>>

\* The process is killed, or its command fails and unwinds, at any point.
Die(p) ==
    /\ pc[p] # "idle"
    /\ Close(p)
    /\ UNCHANGED <<path, wiped>>

LockNext ==
    \E p \in Processes :
        \/ Open(p) \/ Lock(p) \/ Refuse(p)
        \/ AcquireNested(p) \/ DropInner(p) \/ DropOuter(p)
        \/ FinalizeReset(p) \/ Die(p)

LockSpec == LockInit /\ [][LockNext]_lockVars

-----------------------------------------------------------------------------
(***************************************************************************)
(* Properties.                                                             *)
(***************************************************************************)

\* Every variable stays in its range.
LockTypeOK ==
    /\ path \in LockFiles \cup {Absent}
    /\ locked \in [LockFiles -> Processes \cup {NoProcess}]
    /\ fd \in [Processes -> LockFiles \cup {Absent}]
    /\ depth \in [Processes -> 0 .. MaxDepth]
    /\ pc \in [Processes -> {"idle", "opened", "mutating", "finalized"}]
    /\ wiped \in BOOLEAN

\* One ryra mutation at a time, however the commands nest and die, as long as
\* no reset has taken the lock file away.
ExclusionUntilReset ==
    ~wiped => \A p, q \in Processes : Mutating(p) /\ Mutating(q) => p = q

\* At every nesting depth a mutating process still owns the flock of the file
\* it opened: the guards of nested commands never give it up early.
MutatingOwnsItsFile == \A p \in Processes : Mutating(p) => locked[fd[p]] = p

\* WouldBlock means that another ryra is genuinely running: no process is
\* turned away by itself or by one that is gone.
RefusedByAnother ==
    [][ \A p \in Processes : Refuse(p)
            => \E q \in Processes \ {p} : Mutating(q) /\ fd[q] = fd[p] ]_lockVars

\* Until a reset the lock is the abstract mutex, held by the mutating process.
Holder ==
    IF \E p \in Processes : Mutating(p) THEN CHOOSE p \in Processes : Mutating(p)
    ELSE NoProcess
M == INSTANCE Mutex WITH Procs <- Processes, Nobody <- NoProcess, holder <- Holder

ImplementsMutex ==
    M!MutexInit /\ [][ ~wiped' => M!MutexNext \/ UNCHANGED Holder ]_lockVars

\* What the head of lock.rs says of the lock, resets included: one ryra
\* mutation at a time.  False: a command started between finalize_reset and the
\* end of the reset creates a new file and locks it.
OneMutationAtATime ==
    \A p, q \in Processes : Mutating(p) /\ Mutating(q) => p = q
==============================================================================
