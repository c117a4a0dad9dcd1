------------------------- MODULE MCNotifyScheduler -------------------------
(* Instances of NotifyScheduler for TLC.                                   *)
EXTENDS NotifyScheduler, TLC

CONSTANTS r1, r2, r3, j1, j2

Symmetry == Permutations(Row) \cup Permutations(Job)
=============================================================================
