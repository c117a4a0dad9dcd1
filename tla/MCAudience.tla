------------------------------ MODULE MCAudience ------------------------------
(* Instances of Audience for TLC.                                          *)
EXTENDS Audience, TLC

Symmetry == Permutations(Request)
=============================================================================
