-------------------------- MODULE NotifyScheduler --------------------------
(***************************************************************************)
(* app/services/notify_scheduler.py: the job that POSTs the rows of        *)
(* outbound_notifications to the clients' notify_url.                      *)
(*                                                                         *)
(* Every app instance runs the job (max_instances=1 each).  A run claims   *)
(* up to _BATCH_LIMIT rows one after the other; each claim, its POST and   *)
(* the update of the row are one transaction, and the row lock (FOR UPDATE *)
(* SKIP LOCKED) is held during the POST.  The POST is outside the          *)
(* transaction: when the commit fails or the process dies, the client has  *)
(* the payload and the row knows nothing of it.                            *)
(***************************************************************************)
EXTENDS Naturals, FiniteSets

CONSTANTS
  Row,          \* rows of outbound_notifications
  Job,          \* the notify job, one element per app instance
  Stamp,        \* values of created_at
  MaxAttempts,  \* _MAX_ATTEMPTS
  BatchLimit,   \* _BATCH_LIMIT
  MaxLosses,    \* bound: how many transactions are lost after their POST
  NoRow

ASSUME ConstantsAssumption ==
  /\ NoRow \notin Row
  /\ Stamp \subseteq Nat
  /\ MaxAttempts \in Nat \ {0} /\ BatchLimit \in Nat \ {0} /\ MaxLosses \in Nat

VARIABLES
  state,     \* OutboundNotification.status, "absent" before the insert
  attempts,  \* OutboundNotification.attempts
  created,   \* OutboundNotification.created_at
  resting,   \* rows whose next_attempt_at lies ahead
  claim,     \* [Job -> Row or NoRow]: the row p has locked
  answer,    \* [Job -> ...]: what became of p's POST
  left,      \* [Job -> Nat]: rows p may still claim in this run
  received,  \* how often the client got the payload of a row
  losses     \* transactions lost after their POST

vars == <<state, attempts, created, resting, claim, answer, left, received, losses>>

RowState == {"absent", "pending", "delivered", "failed"}
Answer   == {"none", "ok", "error"}

Claimed(r) == \E p \in Job : claim[p] = r

\* Mutants of the claim query: no SKIP LOCKED; no filter on status; rows that
\* have failed once are never looked at again.
DueUnlocked  == {r \in Row : state[r] = "pending" /\ r \notin resting}
DueAnyStatus == {r \in Row : state[r] # "absent" /\ r \notin resting /\ ~Claimed(r)}
DueOnce      == {r \in Row : state[r] = "pending" /\ attempts[r] = 0 /\ ~Claimed(r)}

\* The rows the claim query sees: pending, due, and not locked by another job.
Due == {r \in Row : state[r] = "pending" /\ r \notin resting /\ ~Claimed(r)}

Init ==
  /\ state = [r \in Row |-> "absent"]
  /\ attempts = [r \in Row |-> 0]
  /\ created = [r \in Row |-> 0]
  /\ resting = {}
  /\ claim = [p \in Job |-> NoRow]
  /\ answer = [p \in Job |-> "none"]
  /\ left = [p \in Job |-> 0]
  /\ received = [r \in Row |-> 0]
  /\ losses = 0

\* A handler's transaction commits the rows it enqueued.  created_at is now(),
\* the start of that transaction: the same for all its rows, and perhaps older
\* than rows that are there already.
Enqueue(S, t) ==
  /\ S # {} /\ \A r \in S : state[r] = "absent"
  /\ state' = [r \in Row |-> IF r \in S THEN "pending" ELSE state[r]]
  /\ created' = [r \in Row |-> IF r \in S THEN t ELSE created[r]]
  /\ UNCHANGED <<attempts, resting, claim, answer, left, received, losses>>

\* The interval trigger fires and the previous run of this instance is over.
Tick(p) ==
  /\ left[p] = 0 /\ claim[p] = NoRow
  /\ left' = [left EXCEPT ![p] = BatchLimit]
  /\ UNCHANGED <<state, attempts, created, resting, claim, answer, received, losses>>

\* Lock the oldest row that is due.
Claim(p, r) ==
  /\ left[p] > 0 /\ claim[p] = NoRow
  /\ r \in Due /\ \A o \in Due : created[r] <= created[o]
  /\ claim' = [claim EXCEPT ![p] = r]
  /\ left' = [left EXCEPT ![p] = @ - 1]
  /\ UNCHANGED <<state, attempts, created, resting, answer, received, losses>>

\* Nothing is due: the run ends early.
Quit(p) ==
  /\ left[p] > 0 /\ claim[p] = NoRow /\ Due = {}
  /\ left' = [left EXCEPT ![p] = 0]
  /\ UNCHANGED <<state, attempts, created, resting, claim, answer, received, losses>>

\* Mutant: a timeout is taken for a success.
PostOptimist(p) ==
  /\ claim[p] # NoRow /\ answer[p] = "none"
  /\ answer' = [answer EXCEPT ![p] = "ok"]
  /\ received' \in {received, [received EXCEPT ![claim[p]] = @ + 1]}
  /\ UNCHANGED <<state, attempts, created, resting, claim, left, losses>>

\* The POST.  Only a 2xx answer is a success; with any other answer, or none
\* at all, the client may have got the payload or not.
Post(p) ==
  /\ claim[p] # NoRow /\ answer[p] = "none"
  /\ \/ /\ answer' = [answer EXCEPT ![p] = "ok"]
        /\ received' = [received EXCEPT ![claim[p]] = @ + 1]
     \/ /\ answer' = [answer EXCEPT ![p] = "error"]
        /\ \/ received' = [received EXCEPT ![claim[p]] = @ + 1]
           \/ UNCHANGED received
  /\ UNCHANGED <<state, attempts, created, resting, claim, left, losses>>

\* Mutant: one attempt too many.
GivesUpLate(n) == n > MaxAttempts

\* _record_failure gives up on a row after n failed attempts.
GivesUp(n) == n >= MaxAttempts

\* Write the outcome and commit: the lock is gone.
Record(p) ==
  LET r == claim[p]
      n == attempts[r] + 1
  IN
  /\ r # NoRow /\ answer[p] # "none"
  /\ IF answer[p] = "ok"
     THEN /\ state' = [state EXCEPT ![r] = "delivered"]
          /\ UNCHANGED <<attempts, resting>>
     ELSE /\ attempts' = [attempts EXCEPT ![r] = n]
          /\ IF GivesUp(n)
             THEN state' = [state EXCEPT ![r] = "failed"] /\ UNCHANGED resting
             ELSE resting' = resting \cup {r} /\ UNCHANGED state
  /\ claim' = [claim EXCEPT ![p] = NoRow]
  /\ answer' = [answer EXCEPT ![p] = "none"]
  /\ UNCHANGED <<created, left, received, losses>>

\* The commit fails, or the process dies and is started again: the transaction
\* is rolled back, whatever the client got.
Lose(p) ==
  /\ claim[p] # NoRow /\ losses < MaxLosses
  /\ losses' = losses + 1
  /\ claim' = [claim EXCEPT ![p] = NoRow]
  /\ answer' = [answer EXCEPT ![p] = "none"]
  /\ left' = [left EXCEPT ![p] = 0]
  /\ UNCHANGED <<state, attempts, created, resting, received>>

\* next_attempt_at passes.
Wake(r) ==
  /\ r \in resting
  /\ resting' = resting \ {r}
  /\ UNCHANGED <<state, attempts, created, claim, answer, left, received, losses>>

Work(p) == Tick(p) \/ (\E r \in Row : Claim(p, r)) \/ Quit(p) \/ Post(p) \/ Record(p)

Next ==
  \/ \E S \in SUBSET Row, t \in Stamp : Enqueue(S, t)
  \/ \E p \in Job : Work(p) \/ Lose(p)
  \/ \E r \in Row : Wake(r)

Spec == Init /\ [][Next]_vars

\* The scheduler thread of an instance goes on (APScheduler fires the job again
\* and again, each POST times out after 10 s) and the clock passes every
\* next_attempt_at.
FairSpec == Spec /\ (\A p \in Job : WF_vars(Work(p))) /\ (\A r \in Row : WF_vars(Wake(r)))

-----------------------------------------------------------------------------
(* Properties.                                                             *)

TypeOK ==
  /\ state \in [Row -> RowState]
  /\ attempts \in [Row -> Nat]
  /\ created \in [Row -> Nat]
  /\ resting \subseteq Row
  /\ claim \in [Job -> Row \cup {NoRow}]
  /\ answer \in [Job -> Answer]
  /\ left \in [Job -> Nat]
  /\ received \in [Row -> Nat]
  /\ losses \in Nat

\* A row two instances POST at the same time: SKIP LOCKED and the status filter
\* keep them apart, also while a row changes hands after a retry or a loss.
OneJobPerRow ==
  \A p, q \in Job : claim[p] = claim[q] /\ claim[p] # NoRow => p = q

\* A row goes to "failed" after exactly MaxAttempts failed attempts and never
\* sooner or later ("give up after this many failed attempts").
FailedAfterMaxAttempts ==
  \A r \in Row : /\ attempts[r] <= MaxAttempts
                 /\ state[r] = "failed" <=> attempts[r] = MaxAttempts

\* POSTs of r whose outcome is not recorded yet, plus the recorded success.
Open(r) == IF state[r] = "delivered" \/ \E p \in Job : claim[p] = r /\ answer[p] # "none"
           THEN 1 ELSE 0

\* The client gets a row once for each recorded failure, each lost transaction
\* and the success at most: duplicates have no other cause.
DuplicatesExplained ==
  \A r \in Row : received[r] <= attempts[r] + losses + Open(r)

\* A row counted as delivered has reached the client.
DeliveredWasReceived ==
  \A r \in Row : state[r] = "delivered" => received[r] > 0

\* Every committed row is settled in the end, however many rows there are
\* before it in the claim order and however often their POSTs fail.
EveryRowSettles ==
  \A r \in Row : state[r] = "pending" ~> state[r] \in {"delivered", "failed"}

\* The job implements the promise of Outbox.
OutboxPromise == INSTANCE Outbox WITH Row <- Row, state <- state, received <- received
Refinement == OutboxPromise!Spec
=============================================================================
