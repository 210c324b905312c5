------------------------------ MODULE MCBackup ------------------------------
(***************************************************************************)
(* Backup for TLC: two interchangeable jobs, and two files of one          *)
(* transaction.                                                            *)
(***************************************************************************)
EXTENDS Backup, TLC

CONSTANTS j1, j2, d1, d2

MCJobs == {j1, j2}
MCFiles == {d1, d2}
Symmetry == Permutations(MCJobs) \cup Permutations(MCFiles)

\* A bound: schedules run where the paths are declared, a stop is effective and
\* the wipes succeed.  What they prune depends on none of that.
Scheduled ==
    \/ \E j \in Jobs : kind[j] \in Schedules
    \/ \E i \in DOMAIN repo : repo[i].mode \in Schedules
SchedulesBounded == Scheduled => paths /\ ~native /\ unwiped = {}
==============================================================================
