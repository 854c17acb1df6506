--------------------------- MODULE MCDaemonLocks ---------------------------
(***************************************************************************)
(* DaemonLocks for TLC: connection tasks are interchangeable (safety only). *)
(***************************************************************************)
EXTENDS DaemonLocks, TLC

Symmetry == Permutations(Task)
=============================================================================
