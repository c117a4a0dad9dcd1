----------------------------- MODULE MCAccounts -----------------------------
(* Instances of Accounts for TLC.                                          *)
EXTENDS Accounts, TLC

Editor == [users |-> {"write"}, dashboard |-> {}]
Viewer == [users |-> {}, dashboard |-> {"read"}]
Wrong  == [users |-> {}, dashboard |-> {"write"}]

TheMatrices == {Editor, Viewer, Wrong}

Symmetry == Permutations(Request)
=============================================================================
