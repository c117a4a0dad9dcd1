------------------------------- MODULE Outbox -------------------------------
(***************************************************************************)
(* What outbound_notifications promises a client: a row, once committed,   *)
(* is handed to the client until it is settled; a row settled "delivered"  *)
(* was handed over at least once; a settled row is never handed over again.*)
(* Nothing is promised about the order of rows, nor against duplicates.    *)
(***************************************************************************)
EXTENDS Naturals

CONSTANT Row

VARIABLES
  state,     \* [Row -> {"absent", "pending", "delivered", "failed"}]
  received   \* [Row -> Nat]: how often the client got the payload

vars == <<state, received>>

Init == /\ state = [r \in Row |-> "absent"]
        /\ received = [r \in Row |-> 0]

\* A transaction commits new rows.
Add(S) ==
  /\ \A r \in S : state[r] = "absent"
  /\ state' = [r \in Row |-> IF r \in S THEN "pending" ELSE state[r]]
  /\ UNCHANGED received

Hand(r) ==
  /\ state[r] = "pending"
  /\ received' = [received EXCEPT ![r] = @ + 1]
  /\ UNCHANGED state

Settle(r) ==
  /\ state[r] = "pending"
  /\ \/ received[r] > 0 /\ state' = [state EXCEPT ![r] = "delivered"]
     \/ state' = [state EXCEPT ![r] = "failed"]
  /\ UNCHANGED received

Next == \/ \E S \in SUBSET Row : Add(S)
        \/ \E r \in Row : Hand(r) \/ Settle(r)

Spec == Init /\ [][Next]_vars
=============================================================================
