---------------------------- MODULE MCBroadcast ----------------------------
(* Instances of Broadcast for TLC.                                         *)
EXTENDS Broadcast, TLC

CONSTANTS c1, c2, r1, r2, r3, p1, p2, q1, q2, h1, h2

\* The first two recipients are in one campaign, the third in another.
TwoAndOne == [r \in Recipient |-> IF r = r3 THEN c2 ELSE c1]
OneEach == [r \in Recipient |-> IF r = r1 THEN c1 ELSE c2]

Symmetry == Permutations(Runner) \cup Permutations({r1, r2}) \cup Permutations(Request)
=============================================================================
