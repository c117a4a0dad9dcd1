------------------------------ MODULE Mailing ------------------------------
(***************************************************************************)
(* What a broadcast promises the people on its lists, whatever runs in the *)
(* background: somebody is sent the message at most once per life of the   *)
(* process that sends it, and never after being dropped or attempted,      *)
(* unless the process is started again.                                    *)
(***************************************************************************)
EXTENDS Naturals

CONSTANT Recipient

VARIABLES
  phase,   \* [Recipient -> {"held", "due", "taken", "over"}]
  copies,  \* [Recipient -> Nat]: messages Meta has accepted for them
  lives    \* how often the process has been started again

vars == <<phase, copies, lives>>

Phase == {"held", "due", "taken", "over"}

\* Everybody but those screened out before the start may be sent to.
Init == /\ phase \in [Recipient -> {"held", "over"}]
        /\ copies = [r \in Recipient |-> 0]
        /\ lives = 0

\* The recipients in S go from phase a to phase b.
Move(S, a, b) ==
  /\ \A r \in S : phase[r] = a
  /\ phase' = [r \in Recipient |-> IF r \in S THEN b ELSE phase[r]]

\* S is queued, taken up by a runner, handed back by it, or dropped.
Pass(S) ==
  /\ \/ Move(S, "held", "due") \/ Move(S, "due", "taken")
     \/ \E B \in SUBSET S :
          /\ \A r \in B : phase[r] = "taken"
          /\ phase' = [r \in Recipient |-> IF r \in B THEN "due"
                                           ELSE IF r \in S THEN "over" ELSE phase[r]]
  /\ UNCHANGED <<copies, lives>>

\* The call to Meta: it accepts the message, or does not.
Attempt(r) ==
  /\ Move({r}, "taken", "over")
  /\ copies' \in {copies, [copies EXCEPT ![r] = @ + 1]}
  /\ UNCHANGED lives

\* The process starts again and goes through what it had left open.
Restart(S) ==
  /\ Move(S, "over", "due")
  /\ lives' = lives + 1
  /\ UNCHANGED copies

Next == \/ \E S \in SUBSET Recipient : Pass(S) \/ Restart(S)
        \/ \E r \in Recipient : Attempt(r)

Spec == Init /\ [][Next]_vars

TypeOK ==
  /\ phase \in [Recipient -> Phase]
  /\ copies \in [Recipient -> Nat]
  /\ lives \in Nat

\* "Deduplicate: sending twice wastes budget and irritates the customer"
\* (BROADCAST_DESIGN.md): one copy per life, and none is left for later once
\* the last one is out.
OneCopyPerLife ==
  \A r \in Recipient :
    copies[r] + (IF phase[r] = "over" THEN 0 ELSE 1) <= 1 + lives
=============================================================================
