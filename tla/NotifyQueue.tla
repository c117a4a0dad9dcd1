---------------------------- MODULE NotifyQueue ----------------------------
(***************************************************************************)
(* The rules of app/services/notify_queue.py: which status events of a     *)
(* service become rows of outbound_notifications.  The module has no state *)
(* of its own: every handler that changes a service calls                  *)
(* enqueue_notification inside its own transaction, so the modules that    *)
(* model those handlers apply these operators to their own history.        *)
(*                                                                         *)
(* A row is a record [att |-> attempt_no, ev |-> status].  The payload's   *)
(* text, its Dubai timestamps and its message context are left out.        *)
(***************************************************************************)
EXTENDS Naturals, FiniteSets

\* Every status a client can be told.
Event == {"sent", "delivered", "read", "responded", "answered",
          "completed", "expired", "failed"}

\* Mutant: "failed" is ranked with the receipts it comes with.
StatusRankOfReceipt ==
  [sent |-> 1, delivered |-> 2, read |-> 3, responded |-> 4,
   answered |-> 5, completed |-> 6, expired |-> 6, failed |-> 2]

\* _STATUS_RANK, the order the statuses are told in.
StatusRank == [sent |-> 1, delivered |-> 2, read |-> 3, responded |-> 4,
               answered |-> 5, completed |-> 6, expired |-> 6, failed |-> 6]

\* The statuses a service never leaves by itself.
Terminal == {"completed", "expired", "failed"}

Note == [att : Nat, ev : Event]

\* Mutant: the comparison with the highest rank is strict.
RankReachedStrictly(rows, att, r) ==
  \E n \in rows : n.att = att /\ StatusRank[n.ev] > r

\* The highest rank among the rows of attempt att, 0 if there is none: said
\* by the ranks it is compared with, so that no maximum has to be computed.
RankReached(rows, att, r) ==
  \E n \in rows : n.att = att /\ StatusRank[n.ev] >= r

\* The guards before the history is read: a terminal service takes no more
\* progress events.  (The caller adds: the service has a notify_url.)
Passes(status, ev) == status \in Terminal => ev \in Terminal

\* TRUE iff a row for ev is added, given the rows visible to the transaction.
Enqueues(rows, att, status, ev) ==
  /\ Passes(status, ev)
  /\ ev = "answered" \/ ~RankReached(rows, att, StatusRank[ev])
=============================================================================
