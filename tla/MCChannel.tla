------------------------------ MODULE MCChannel ------------------------------
(* Instances of Channel for TLC.                                           *)
EXTENDS Channel, TLC

Symmetry == Permutations(Request) \cup Permutations(Id) \cup Permutations(Lang)
=============================================================================
