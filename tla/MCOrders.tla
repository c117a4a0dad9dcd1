------------------------------ MODULE MCOrders ------------------------------
(* Instances of Orders for TLC.                                            *)
EXTENDS Orders, TLC

Symmetry == Permutations(Worker)
=============================================================================
