---------------------------- MODULE MCBackupSetup ----------------------------
(* Two ryra processes, one schedule, three passwords, an account with two keys. *)
EXTENDS BackupSetup, TLC

CONSTANTS p, q

Symmetry == Permutations(Procs)
===============================================================================
