------------------------- MODULE MCServiceDispatch -------------------------
(* Instances of ServiceDispatch for TLC.                                   *)
EXTENDS ServiceDispatch, TLC

CONSTANTS s1, s2, d1, d2, w1, w2, m1, m2, m3, m4

Symmetry == Permutations(Sender) \cup Permutations(Worker) \cup Permutations(Wamid)
=============================================================================
