------------------------- MODULE ConversationEngine -------------------------
(***************************************************************************)
(* app/services/conversation_engine.py: the inbound router and the         *)
(* question flow of ONE conversation (one customer number), with every     *)
(* service of that number, run by concurrent webhook workers next to the   *)
(* template sender and the expiry job.                                     *)
(*                                                                         *)
(* Each handler is one Postgres transaction at READ COMMITTED, opened by a *)
(* SQLAlchemy session with autoflush=False (core/database.py).  A          *)
(* transaction reads its rows once, then works on that copy (the identity  *)
(* map); its writes reach the database, and take their row locks, only at  *)
(* a flush: in notify_queue._max_notified_rank, in                         *)
(* _find_free_text_blockers, and at commit.  SELECT ... FOR UPDATE takes   *)
(* locks of its own.  The record tx[p] is that copy, with what is still to *)
(* be done in its plan; locks[p] are the row locks p holds.                *)
(*                                                                         *)
(* Left out: the PDF and Lizo button flows, the client's retry (it moves   *)
(* the service to another number: see ServiceDispatch), wording, and every *)
(* service that belongs to another conversation.                           *)
(***************************************************************************)
EXTENDS Naturals, Sequences, FiniteSets, Functions, NotifyQueue

CONSTANTS
  Service,        \* the services of the conversation
  Questions,      \* [Service -> Seq(0..2)]: answer_type of each question
  Sent,           \* bound: the services whose template is out at the start, in order
  Subscribed,     \* services whose API key has a notify_url
  Worker,         \* threads that run webhook handlers
  Expirer,        \* the expiry job, one element per app instance
  Sender,         \* the send job, one element per app instance
  Hook,           \* webhook events (wamids), numbered as they happen; bounds them
  Kind,           \* bound: the kinds of webhook events that arrive
  MaxDeliveries,  \* bound: deliveries of events by Meta, repeated ones included
  Frail,          \* bound: threads that may die or fail to store a FailedWebhook
  Redis,          \* whether Redis answers, over the calls: {FALSE} without REDIS_URL
  NoService, NoHook

ASSUME ConstantsAssumption ==
  /\ Questions \in [Service -> Seq(0..2)]
  /\ Sent \in Seq(Service) /\ \A i \in DOMAIN Sent : Questions[Sent[i]] # << >>
  /\ Subscribed \subseteq Service
  /\ MaxDeliveries \in Nat /\ Redis \subseteq BOOLEAN
  /\ NoService \notin Service /\ Hook \subseteq Nat /\ NoHook \notin Hook
  /\ Worker \cap (Expirer \cup Sender) = {} /\ Expirer \cap Sender = {}

VARIABLES
  (* rows of the database *)
  status,        \* [Service -> Status]            Service.status
  templateSent,  \* subset of Service              Service.template_sent
  form,          \* [Service -> Form]              Service.questions
  queued,        \* services whose MobileQueue row is in_progress
  responses,     \* [Service -> Seq(Response)]     ServiceResponse rows
  asked,         \* <<s, q>> with an outbound Message row, q = 0: the template
  recency,       \* <<s, x>>: the latest such row of s was sent after x's
  stored,        \* wamids of inbound Message rows
  notified,      \* [Service -> Seq(Event)]        OutboundNotification rows
  failedHooks,   \* FailedWebhook rows
  (* transactions *)
  tx, locks,
  (* Redis, Meta and the clock *)
  seen,          \* wamid keys in Redis
  content,       \* what each webhook event says, NoHook until it happens
  deliveries,    \* how often Meta has delivered one
  orphans,       \* <<s, q>> the customer holds a copy of that has no row
  overdue,       \* services past created_at + template_expiry_hours
  lost           \* events whose handling ended without leaving anything behind

dbVars   == <<status, templateSent, form, queued, responses, asked, recency,
              stored, notified, failedHooks>>
metaVars == <<seen, content, deliveries, orphans, overdue, lost>>
vars     == <<dbVars, tx, locks, metaVars>>

Proc   == Worker \cup Expirer \cup Sender
Status == {"in_progress"} \cup Terminal
Form   == [answered : Nat, dispatched : SUBSET Nat]

Inbound == {"tap", "reply", "quote", "text"}
Receipt == {"sent", "delivered", "read", "failed"}
Op      == Event \cup {"scan", "lock", "send", "template", "expire", "commit"}

-----------------------------------------------------------------------------
(* Questions.  "sent" is set in order, so a count says which are answered. *)

\* Mutants: the questions are taken from the last; the last is forgotten.
NextFromLast(s, f) ==
  IF f.answered < Len(Questions[s]) THEN Len(Questions[s]) - f.answered ELSE 0
NextButLast(s, f) == IF f.answered + 1 < Len(Questions[s]) THEN f.answered + 1 ELSE 0

NextQ(s, f) == IF f.answered < Len(Questions[s]) THEN f.answered + 1 ELSE 0

\* s has a dispatched, unanswered free-text question.
AwaitsText(s, f) ==
  \E q \in f.dispatched : q > f.answered /\ q <= Len(Questions[s])
                          /\ Questions[s][q] = 2

\* What _fire_next_question still has to do.
FirePlan(s, f) ==
  CASE NextQ(s, f) = 0                -> << >>
    [] NextQ(s, f) # 0 /\ Questions[s][NextQ(s, f)] = 2
                                      -> <<"scan", "lock", "send">>
    [] OTHER                          -> <<"send">>

-----------------------------------------------------------------------------
(* Row locks.  share is FOR KEY SHARE (a foreign key check), write is what *)
(* UPDATE and INSERT take, update is FOR UPDATE.                           *)

Mode     == {"share", "write", "update"}
Strength == [share |-> 1, write |-> 2, update |-> 3]
Conv     == <<"conversation">>
Row(s)   == <<"service", s>>
QueueRow(s)  == <<"queue", s>>
MsgRow(s, q) == <<"message", s, q>>
Wamid(e) == <<"wamid", e>>
Lock(r, m) == [on |-> r, mode |-> m]

\* What can be locked: the rows named above.
Resource == {Conv} \cup ({"service", "queue"} \X Service)
            \cup ({"message"} \X Service \X Nat) \cup ({"wamid"} \X Hook)

Conflict(m, n) == \/ "update" \in {m, n}
                  \/ m = "write" /\ n = "write"

Free(p, l) == \A o \in Proc \ {p} : \A k \in locks[o] :
                 k.on = l.on => ~Conflict(k.mode, l.mode)

Holds(p, l) == \E k \in locks[p] :
                 k.on = l.on /\ Strength[k.mode] >= Strength[l.mode]

\* Services whose foreign key a new Message row of t refers to, and the services
\* t ends: each end also completes the service's mobile_queue row.
Cited(t) == {s \in Service : s = t.svc /\ (t.linked \/ t.out # {})}
Ended(t) == {s \in Service : s \in t.expire \/ (s = t.svc /\ "status" \in t.wrote)}

\* The locks a flush of transaction t takes.  A mobile_queue row that another
\* transaction has completed since is not written again: here its lock is taken.
Dirty(t) ==
  LET updated == {s \in Service : s \in t.expire \/ (s = t.svc /\ t.wrote # {})}
      noted   == {s \in Service : t.notes[s] # << >>}
  IN {Lock(Row(s), "write") : s \in updated}
     \cup {Lock(QueueRow(s), "write") : s \in Ended(t)}
     \cup {Lock(Row(s), "share") : s \in noted \cup Cited(t)}
     \cup (IF t.fresh THEN {Lock(Conv, "write"), Lock(Wamid(t.hook), "write")}
                      ELSE {})
     \cup (IF t.kind \in Receipt THEN {Lock(MsgRow(t.svc, t.seq), "write")}
                                 ELSE {})

\* Mutant: the conversation comes last.
ConvLast(t, l) == IF l.on = Conv THEN 2 ELSE 1

\* The order in which a flush of t takes them.  The models declare no
\* relationship(), so the unit of work goes by class name: Conversation, Message
\* (an INSERT then checks its foreign keys), MobileQueue, Service, notifications.
FlushRank(t, l) ==
  CASE l.on = Conv                                        -> 1
    [] l.on[1] \in {"message", "wamid"}                   -> 2
    [] l \in {Lock(Row(s), "share") : s \in Cited(t)}     -> 3
    [] l.on[1] = "queue"                                  -> 4
    [] l.on[1] = "service" /\ l.mode = "write"            -> 5
    [] OTHER                                              -> 6

\* Mutant: no flush before the rank is read.
FlushesLate(t) == Head(t.plan) \in {"scan", "commit"}

\* Does the operation at the head of the plan flush?  A notification does
\* once it has passed the guards before _max_notified_rank.
Flushes(t) ==
  LET op == Head(t.plan) IN
    \/ op \in {"scan", "commit"}
    \/ op \in Event /\ t.svc \in Subscribed /\ Passes(t.status, op)

\* The locks p must still get before the head of its plan can run.
Missing(p) ==
  LET t == tx[p] IN
    IF t.plan = << >> THEN {}
    ELSE IF Head(t.plan) = "lock"
      THEN {l \in {Lock(Row(s), "update") : s \in t.targets} : ~Holds(p, l)}
    ELSE IF Flushes(t) THEN {l \in Dirty(t) : ~Holds(p, l)}
    ELSE {}

Duplicate(p) == /\ tx[p].hook \in stored
                /\ Lock(Wamid(tx[p].hook), "write") \in Missing(p)

Ready(p) == ~Duplicate(p) /\ \A l \in Missing(p) : Free(p, l)

\* The locks p may ask for next (rows of one class come in any order).
Wanted(p) ==
  LET M == Missing(p)
  IN {l \in M : \A k \in M : FlushRank(tx[p], k) >= FlushRank(tx[p], l)}

\* p is stopped at a lock that o holds in a conflicting mode.
WaitsFor(p, o) ==
  \E l \in Wanted(p), k \in locks[o] : k.on = l.on /\ Conflict(k.mode, l.mode)

-----------------------------------------------------------------------------
(* Transactions.                                                           *)

NoTx == [kind |-> "none", plan |-> << >>, hook |-> NoHook,
         svc |-> NoService, seq |-> 0, status |-> "in_progress",
         qs |-> [answered |-> 0, dispatched |-> {}], wrote |-> {},
         rec |-> 0, out |-> {}, linked |-> FALSE, fresh |-> FALSE,
         expire |-> {}, targets |-> {}, notes |-> [s \in Service |-> << >>]]

Idle(p) == tx[p].plan = << >>
At(p, op) == tx[p].plan # << >> /\ Head(tx[p].plan) = op

\* Drop the head of the plan.  _complete_service sets the status before it
\* notifies, so the copy is completed when "completed" comes up.
Start(t) == IF t.plan # << >> /\ Head(t.plan) = "completed"
            THEN [t EXCEPT !.status = "completed", !.wrote = @ \cup {"status"}]
            ELSE t
Advance(t) == Start([t EXCEPT !.plan = Tail(@)])

\* The copy of a customer message's row, linked to service s (or to none).
Linked(t, s) == [t EXCEPT !.svc = s, !.linked = s # NoService, !.fresh = TRUE]

\* The copy of the service row a transaction reads.
Load(t, s) == [t EXCEPT !.status = status[s], !.qs = form[s]]

\* Steps 11 and 12: question n of t.svc is answered.
Record(t, n) ==
  [t EXCEPT !.qs.answered = n, !.rec = n, !.wrote = @ \cup {"questions"}]

\* Steps 9 to 13 of handle_inbound for a reply of service t.svc.
Answering(t) ==
  LET s == t.svc
      n == NextQ(s, t.qs)
      valid == IF t.kind = "reply" THEN t.seq = n /\ Questions[s][n] # 2
                                   ELSE Questions[s][n] = 2
      rest == IF n = Len(Questions[s]) THEN <<"completed">>
                                       ELSE FirePlan(s, Record(t, n).qs)
  IN IF n = 0
     THEN Start([t EXCEPT !.plan = IF t.status = "completed" THEN <<"commit">>
                                   ELSE <<"completed", "commit">>])
     ELSE IF valid
     THEN [Record(t, n) EXCEPT !.plan = <<"answered">> \o rest \o <<"commit">>]
     ELSE [t EXCEPT !.linked = FALSE,
                    !.plan = FirePlan(s, t.qs) \o <<"commit">>]

\* Step 7: a tap on the template's button.
Tapping(t) ==
  LET s == t.svc
      engaged == \E q \in DOMAIN Questions[s] : <<s, q>> \in asked
  IN [t EXCEPT !.plan = (IF engaged THEN << >> ELSE <<"responded">>)
                        \o FirePlan(s, t.qs) \o <<"commit">>]

\* Steps 2 to 9: s is the service the message's context names, or NoService.
\* Plain text without a resolvable context locks the waiting services first.
Routed(t, s) ==
    CASE s = NoService /\ t.kind \in {"text", "quote"}
           -> [t EXCEPT !.plan = <<"scan", "lock", "commit">>]
      [] s = NoService /\ t.kind \in {"tap", "reply"}
           -> [Linked(t, NoService) EXCEPT !.plan = <<"commit">>]
      [] s # NoService /\ t.kind = "tap" -> Tapping(Load(Linked(t, s), s))
      [] OTHER                           -> Answering(Load(Linked(t, s), s))

-----------------------------------------------------------------------------
(* Steps of a transaction.                                                 *)

\* A flush that cannot get every lock keeps those it got before it blocks.
Block(p) ==
  /\ ~Duplicate(p) /\ ~Ready(p) /\ ~At(p, "lock")
  /\ \E l \in Wanted(p) :
       /\ Free(p, l)
       /\ locks' = [locks EXCEPT ![p] = @ \cup {l}]
  /\ UNCHANGED <<dbVars, tx, metaVars>>

\* The flush at the head of p's plan goes through; t is p's copy after it.
Flush(p, t) ==
  /\ Ready(p)
  /\ locks' = [locks EXCEPT ![p] = @ \cup Missing(p)]
  /\ tx' = [tx EXCEPT ![p] = t]

\* enqueue_notification for service s, whose copy in p has status st.  The
\* payload is left out, and attempt_no: a service here is never retried.
Noted(p, s, st, ev) ==
  LET rows == {[att |-> 0, ev |-> e] : e \in Range(notified[s] \o tx[p].notes[s])}
  IN IF s \in Subscribed /\ Enqueues(rows, 0, st, ev)
     THEN Append(tx[p].notes[s], ev) ELSE tx[p].notes[s]

\* A status event of the service p works on.  The completion message that goes
\* with "completed" has no effect here, nor has Meta's answer to it.
Notify(p) ==
  /\ tx[p].plan # << >> /\ Head(tx[p].plan) \in Event
  /\ LET t == tx[p]
     IN Flush(p, Advance([t EXCEPT
                    !.notes[t.svc] = Noted(p, t.svc, t.status, Head(t.plan))]))
  /\ UNCHANGED <<dbVars, metaVars>>

\* Services p has locked FOR UPDATE that wait for a free-text answer.
Awaiting(p) ==
  {s \in Service \ (tx[p].expire \cup {tx[p].svc}) :
     /\ Holds(p, Lock(Row(s), "update")) /\ status[s] = "in_progress"
     /\ AwaitsText(s, form[s])}

\* _supersede_stalled_free_text for each service of B, whose rows are locked.
\* Their mobile_queue rows are locked here by the next flush.
Superseding(p, B) ==
  [tx[p] EXCEPT !.expire = @ \cup B,
     !.notes = [s \in Service |-> IF s \in B THEN Noted(p, s, "expired", "expired")
                                             ELSE @[s]]]

\* Mutant: the blockers are read with neither flush nor FOR UPDATE.
ScanUnlocked(p) ==
  /\ At(p, "scan")
  /\ LET live == {s \in Service \ {tx[p].svc} : status[s] = "in_progress"}
         blockers == {s \in live : AwaitsText(s, form[s])}
     IN tx' = [tx EXCEPT ![p] =
          IF @.fresh THEN Advance(Advance(Superseding(p, blockers)))
          ELSE [Advance(@) EXCEPT !.targets = live]]
  /\ UNCHANGED <<dbVars, locks, metaVars>>

\* SELECT ... FOR UPDATE of the in_progress services of the conversation: the
\* statement's snapshot fixes which rows it will try to lock.
Scan(p) ==
  /\ At(p, "scan")
  /\ LET t == tx[p] IN
       Flush(p, [Advance(t) EXCEPT
         !.targets = {s \in Service \ {t.svc} : status[s] = "in_progress"}])
  /\ UNCHANGED <<dbVars, metaVars>>

\* One row of the scan.  A row another transaction changed meanwhile stays
\* locked, but is not returned unless it is still in_progress.
LockRow(p, s) ==
  /\ At(p, "lock") /\ s \in tx[p].targets
  /\ Free(p, Lock(Row(s), "update"))
  /\ tx' = [tx EXCEPT ![p].targets = @ \ {s}]
  /\ locks' = [locks EXCEPT ![p] = @ \cup {Lock(Row(s), "update")}]
  /\ UNCHANGED <<dbVars, metaVars>>

\* The scan of _fire_next_question is over: the stalled services expire.
Supersede(p) ==
  /\ At(p, "lock") /\ tx[p].targets = {} /\ tx[p].fresh
  /\ tx' = [tx EXCEPT ![p] = Advance(Superseding(p, Awaiting(p)))]
  /\ UNCHANGED <<dbVars, locks, metaVars>>

\* The scan for a plain text is over: the service asked last gets the answer,
\* the other waiting ones expire.
RouteText(p) ==
  /\ At(p, "lock") /\ tx[p].targets = {} /\ ~tx[p].fresh
  /\ LET W == Awaiting(p)
         latest(s) == \A x \in W \ {s} : <<s, x>> \in recency
     IN \/ /\ W = {}
           /\ tx' = [tx EXCEPT ![p] = Advance(Linked(@, NoService))]
        \/ \E s \in W :
             /\ latest(s)
             /\ tx' = [tx EXCEPT ![p] =
                  Answering(Load(Linked(Superseding(p, W \ {s}), s), s))]
  /\ UNCHANGED <<dbVars, locks, metaVars>>

\* The question goes out over HTTP; a refused send changes nothing.
Send(p) ==
  /\ At(p, "send")
  /\ LET t == tx[p]
         n == NextQ(t.svc, t.qs)
         ok == [t EXCEPT !.qs.dispatched = @ \cup {n}, !.out = @ \cup {n},
                         !.wrote = @ \cup {"questions"}]
     IN \E r \in {t, ok} : tx' = [tx EXCEPT ![p] = Advance(r)]
  /\ UNCHANGED <<dbVars, locks, metaVars>>

-----------------------------------------------------------------------------
(* The end of a transaction.                                               *)

\* Mutants: a commit writes the whole row back; the reason as the status.
StatusRewritten(t, s) == IF s \in t.expire THEN "expired"
                         ELSE IF s = t.svc /\ t.wrote # {} THEN t.status
                         ELSE status[s]
StatusOfReason(t, s) == IF s \in t.expire THEN "superseded"
                        ELSE IF s = t.svc /\ "status" \in t.wrote THEN t.status
                        ELSE status[s]

StatusAfter(t, s) == IF s \in t.expire THEN "expired"
                     ELSE IF s = t.svc /\ "status" \in t.wrote THEN t.status
                     ELSE status[s]

\* UPDATE sets the columns t changed, whatever they hold by now.
Commit(p) ==
  LET t == tx[p]
      own(s, column) == s = t.svc /\ column \in t.wrote
  IN
  /\ At(p, "commit") /\ Ready(p)
  /\ status' = [s \in Service |-> StatusAfter(t, s)]
  /\ templateSent' = templateSent \cup (IF t.kind = "template" /\
                        (0 \in t.out \/ "status" \in t.wrote) THEN {t.svc} ELSE {})
  /\ form' = [s \in Service |-> IF own(s, "questions") THEN t.qs ELSE form[s]]
  /\ queued' = {s \in queued : s \notin t.expire /\ ~own(s, "status")}
  /\ responses' = [s \in Service |-> IF s = t.svc /\ t.rec # 0
        THEN Append(responses[s], [seq |-> t.rec, via |-> t.kind]) ELSE responses[s]]
  /\ asked' = asked \cup {<<t.svc, q>> : q \in t.out}
  /\ recency' = IF t.out = {} THEN recency
                ELSE {r \in recency : r[2] # t.svc} \cup ({t.svc} \X (Service \ {t.svc}))
  /\ stored' = IF t.fresh THEN stored \cup {t.hook} ELSE stored
  /\ notified' = [s \in Service |-> notified[s] \o t.notes[s]]
  /\ tx' = [tx EXCEPT ![p] = NoTx]
  /\ locks' = [locks EXCEPT ![p] = {}]
  /\ UNCHANGED <<failedHooks, metaVars>>

\* Mutant: handle_inbound swallows the errors of its commits too.
SwallowedAll(p) == At(p, "commit")

\* handle_status swallows every error of its commit, handle_inbound a duplicate
\* wamid of an out-of-flow message.
Swallowed(p) ==
  /\ At(p, "commit")
  /\ tx[p].kind \in Receipt \/ (tx[p].svc = NoService /\ Duplicate(p))

\* Postgres rolls p back.  What was sent stays sent.
Rollback(p) ==
  /\ orphans' = orphans \cup {<<tx[p].svc, q>> : q \in tx[p].out}
  /\ tx' = [tx EXCEPT ![p] = NoTx]
  /\ locks' = [locks EXCEPT ![p] = {}]
  /\ UNCHANGED <<status, templateSent, form, queued, responses, asked, recency,
                 stored, notified>>
  /\ UNCHANGED <<seen, content, deliveries, overdue>>

\* An exception.  _process_payload_bg stores the payload of a webhook that raised;
\* _store_failed_webhook only logs a failure of its own.
Abort(p) ==
  LET e == tx[p].hook IN
  /\ Rollback(p)
  /\ IF e = NoHook \/ Swallowed(p) THEN UNCHANGED <<failedHooks, lost>>
     ELSE \/ failedHooks' = failedHooks \cup {e} /\ UNCHANGED lost
          \/ p \in Frail /\ lost' = lost \cup {e} /\ UNCHANGED failedHooks

\* The process dies: Meta has had its 200 long ago, so nothing is left of an event.
Die(p) ==
  /\ p \in Frail /\ ~Idle(p)
  /\ Rollback(p)
  /\ lost' = lost \cup ({tx[p].hook} \ {NoHook})
  /\ UNCHANGED failedHooks

\* The transactions that wait; those of D wait for each other.
Waits(p) == \E o \in Proc \ {p} : WaitsFor(p, o)
Waiting  == {p \in Proc : Waits(p)}
Deadlocked(D) == \A p \in D : \E o \in D \ {p} : WaitsFor(p, o)

\* Postgres ends one of the transactions of a deadlock.
DeadlockVictim(p) ==
  /\ Waits(p)
  /\ \E D \in SUBSET Waiting : p \in D /\ Deadlocked(D)
  /\ Abort(p)

\* The INSERT of a message whose wamid another worker stored meanwhile.
DuplicateWamid(p) == Duplicate(p) /\ Abort(p)

-----------------------------------------------------------------------------
(* What starts a transaction.                                              *)

\* <<s, q>> with a copy on the customer's phone that has no row (yet).
Unstored == orphans \cup UNION {{<<tx[p].svc, q>> : q \in tx[p].out} : p \in Proc}

\* A customer taps a template, replies to a question's buttons, quotes a
\* message or just writes; Meta reports on a message it accepted.
Contents ==
  {c \in {[kind |-> "text", svc |-> NoService, seq |-> 0]} \cup
         UNION {[kind : (Inbound \cup Receipt) \ {"text"}, svc : {s},
                 seq : 0..Len(Questions[s])] : s \in Service} :
     /\ c.kind \in Kind
     /\ c.kind = "tap" => c.seq = 0
     /\ c.kind = "reply" => c.seq # 0 /\ Questions[c.svc][c.seq] # 2}

\* The message it is about has reached the customer.
CanArrive(c) == c.kind # "text" => <<c.svc, c.seq>> \in asked \cup Unstored

\* handle_status for a receipt of message <<s, q>>; known: it has a row.
\* Only an in_progress service is failed by a failed receipt.  A receipt without
\* a row falls through to broadcast's handler, which drops it.
Receive(p, e, c, known) ==
  LET t == Load([NoTx EXCEPT !.kind = c.kind, !.hook = e, !.svc = c.svc,
                             !.seq = c.seq, !.plan = <<c.kind, "commit">>], c.svc)
      fails == c.kind = "failed" /\ t.status = "in_progress"
  IN IF known
     THEN /\ tx' = [tx EXCEPT ![p] = IF fails
                       THEN [t EXCEPT !.status = "failed", !.wrote = {"status"}]
                       ELSE t]
          /\ UNCHANGED seen
     ELSE UNCHANGED <<tx, seen>>

\* handle_inbound up to its first flush.  up: Redis answers, with the key set by
\* then; a call that fails, or a key set since, leaves it to the database check.
Inbox(p, e, c, known, up) ==
  LET t == [NoTx EXCEPT !.kind = c.kind, !.hook = e, !.seq = c.seq]
      dropped == (up /\ e \in seen) \/ e \in stored
  IN /\ seen' = IF up THEN seen \cup {e} ELSE seen
     /\ tx' = IF dropped THEN tx
              ELSE [tx EXCEPT ![p] = Routed(t, IF known THEN c.svc ELSE NoService)]

\* Meta delivers event e, for the first time or again.  A worker looks up the
\* message it refers to, reads the service, and starts on the plan.
Deliver(p, e, c) ==
  /\ p \in Worker /\ Idle(p)
  /\ deliveries < MaxDeliveries
  /\ IF e \in DOMAIN content THEN content[e] = c
     ELSE \A h \in Hook : h < e => h \in DOMAIN content
  /\ CanArrive(c)
  /\ content' = [h \in DOMAIN content \cup {e} |-> IF h = e THEN c ELSE content[h]]
  /\ deliveries' = deliveries + 1
  /\ \E known \in BOOLEAN :
       /\ known => <<c.svc, c.seq>> \in asked
       /\ ~known => c.kind = "text" \/ <<c.svc, c.seq>> \in Unstored
       /\ IF c.kind \in Receipt THEN Receive(p, e, c, known)
          ELSE \E up \in Redis : Inbox(p, e, c, known, up)
  /\ UNCHANGED <<dbVars, locks, orphans, overdue, lost>>

\* send_scheduler claims a service with FOR UPDATE SKIP LOCKED and keeps the
\* lock while it talks to Meta.
Claim(p, s) ==
  /\ p \in Sender /\ Idle(p)
  /\ status[s] = "in_progress" /\ s \notin templateSent
  /\ Free(p, Lock(Row(s), "update"))
  /\ tx' = [tx EXCEPT ![p] = Load([NoTx EXCEPT !.kind = "template", !.svc = s,
                                              !.plan = <<"template">>], s)]
  /\ locks' = [locks EXCEPT ![p] = {Lock(Row(s), "update")}]
  /\ UNCHANGED <<dbVars, metaVars>>

\* Meta accepts the template, refuses it for good (or for the last time), or
\* refuses it for now: the row goes back to the pool.
SendTemplate(p) ==
  /\ At(p, "template")
  /\ LET t == tx[p]
         ended(st) == [t EXCEPT !.status = st, !.wrote = {"status"},
                                !.plan = <<st, "commit">>]
         ok == IF Questions[t.svc] = << >> THEN ended("completed")
                                           ELSE [t EXCEPT !.plan = <<"commit">>]
     IN \E r \in {[ok EXCEPT !.out = {0}], ended("failed"), [t EXCEPT !.plan = <<"commit">>]} :
          tx' = [tx EXCEPT ![p] = r]
  /\ UNCHANGED <<dbVars, locks, metaVars>>

\* The expiry job reads its candidates without a lock.
BeginExpiry(p) ==
  LET due == {s \in overdue \cap templateSent \cap queued :
                status[s] = "in_progress" /\ Questions[s] # << >>}
  IN /\ p \in Expirer /\ Idle(p) /\ due # {}
     /\ tx' = [tx EXCEPT ![p] = [NoTx EXCEPT !.kind = "expiry", !.targets = due,
                                            !.plan = <<"expire", "commit">>]]
     /\ UNCHANGED <<dbVars, locks, metaVars>>

\* The next candidate of its loop, or the end of it.
ExpireNext(p) ==
  /\ At(p, "expire")
  /\ LET t == tx[p] IN
       \/ \E s \in t.targets :
            tx' = [tx EXCEPT ![p] = [t EXCEPT
                     !.svc = s, !.status = "expired", !.expire = @ \cup {s},
                     !.targets = @ \ {s}, !.plan = <<"expired">> \o @]]
       \/ t.targets = {} /\ tx' = [tx EXCEPT ![p] = Advance(t)]
  /\ UNCHANGED <<dbVars, locks, metaVars>>

\* created_at + template_expiry_hours passes: only the expiry job looks at it.
Deadline(s) ==
  /\ Expirer # {} /\ s \notin overdue
  /\ overdue' = overdue \cup {s}
  /\ UNCHANGED <<dbVars, tx, locks, seen, content, deliveries, orphans, lost>>

-----------------------------------------------------------------------------
(* The specification.  Every service has been ingested, and the templates  *)
(* of those in Sent have reached the customer.                             *)

Init ==
  /\ status = [s \in Service |-> "in_progress"]
  /\ templateSent = Range(Sent) /\ queued = Service
  /\ form = [s \in Service |-> [answered |-> 0, dispatched |-> {}]]
  /\ responses = [s \in Service |-> << >>]
  /\ asked = Range(Sent) \X {0}
  /\ recency = UNION {{Sent[i]} \X (Service \ Range(SubSeq(Sent, i, Len(Sent)))) :
                        i \in DOMAIN Sent}
  /\ stored = {} /\ failedHooks = {}
  /\ notified = [s \in Service |-> << >>]
  /\ tx = [p \in Proc |-> NoTx] /\ locks = [p \in Proc |-> {}]
  /\ seen = {} /\ content = << >> /\ deliveries = 0
  /\ orphans = {} /\ overdue = {} /\ lost = {}

\* What a transaction does once it has started.
Step(p) ==
  \/ Block(p) \/ Notify(p) \/ Scan(p) \/ (\E s \in Service : LockRow(p, s))
  \/ Supersede(p) \/ RouteText(p) \/ Send(p) \/ SendTemplate(p) \/ ExpireNext(p)
  \/ Commit(p) \/ DuplicateWamid(p) \/ DeadlockVictim(p)

\* What may start one.
Arrive ==
  \/ \E p \in Worker, e \in Hook, c \in Contents : Deliver(p, e, c)
  \/ \E p \in Sender, s \in Service : Claim(p, s)
  \/ \E p \in Expirer : BeginExpiry(p)
  \/ \E s \in Service : Deadline(s)

Next == Arrive \/ \E p \in Proc : Step(p) \/ Die(p)

Spec == Init /\ [][Next]_vars

\* A thread that has begun a transaction goes on with it: threads are not
\* starved, and Postgres serves the queue of a lock in order (so the fairness
\* is strong: a lock that is free again and again is granted) and ends
\* deadlocks.  Nothing is assumed of customers, of Meta or of the clock.
FairSpec == Spec /\ \A p \in Proc : SF_vars(~Idle(p) /\ Step(p))

-----------------------------------------------------------------------------
(* Properties.                                                             *)

Tx == [kind : Inbound \cup Receipt \cup {"none", "template", "expiry"},
       plan : Seq(Op), hook : Hook \cup {NoHook}, svc : Service \cup {NoService},
       seq : Nat, status : Status, qs : Form, wrote : SUBSET {"status", "questions"},
       rec : Nat, out : SUBSET Nat, linked : BOOLEAN, fresh : BOOLEAN,
       expire : SUBSET Service, targets : SUBSET Service,
       notes : [Service -> Seq(Event)]]

\* Every variable has its type.
TypeOK ==
  /\ status \in [Service -> Status]
  /\ templateSent \subseteq Service /\ queued \subseteq Service
  /\ form \in [Service -> Form]
  /\ responses \in [Service -> Seq([seq : Nat, via : Inbound])]
  /\ asked \subseteq Service \X Nat /\ orphans \subseteq Service \X Nat
  /\ recency \subseteq Service \X Service
  /\ stored \subseteq Hook /\ failedHooks \subseteq Hook
  /\ seen \subseteq Hook /\ lost \subseteq Hook
  /\ notified \in [Service -> Seq(Event)]
  /\ tx \in [Proc -> Tx] /\ locks \in [Proc -> SUBSET [on : Resource, mode : Mode]]
  /\ DOMAIN content \subseteq Hook /\ Range(content) \subseteq Contents
  /\ deliveries \in Nat /\ overdue \subseteq Service

\* "Only one such question should exist per mobile number at a time"
\* (_find_free_text_blockers): no two live services wait for a plain text, so
\* a customer's text can be matched to the right one.
OneFreeTextOutstanding ==
  \A s, x \in Service :
    /\ status[s] = "in_progress" /\ AwaitsText(s, form[s])
    /\ status[x] = "in_progress" /\ AwaitsText(x, form[x])
    => s = x

\* Answers are recorded in the order of the questions: the answer to a question
\* is never recorded before one to each question ahead of it, however many
\* handlers work on stale copies of Service.questions.
NoQuestionSkipped ==
  \A s \in Service : \A i \in DOMAIN responses[s] :
    \A q \in 1..(responses[s][i].seq - 1) :
      \E j \in 1..(i - 1) : responses[s][j].seq = q

\* A completed service has an answer to every question (_complete_service is
\* reached only when none remains).
CompletedHasAllAnswers ==
  \A s \in Service : status[s] = "completed" =>
    \A q \in DOMAIN Questions[s] : \E r \in Range(responses[s]) : r.seq = q

Ends(s) == {i \in DOMAIN notified[s] : notified[s][i] \in Terminal}

\* A client with a notify_url is told of exactly one end of a service that has
\* ended, and of none of a service that has not, whichever of the handlers,
\* the expiry job and the sender ended it, and however they overlapped.
OneEndIsTold ==
  \A s \in Subscribed :
    Cardinality(Ends(s)) = IF status[s] \in Terminal THEN 1 ELSE 0

\* What the customer's first tap and an end are told as is told once: the rank is
\* checked before the row is inserted (notify_queue.py:106), with nothing but row
\* locks taken for other reasons to keep two handlers from both passing the check.
EachTurnOnce ==
  \A s \in Service : \A i, j \in DOMAIN notified[s] :
    notified[s][i] = notified[s][j] /\ notified[s][i] \in {"responded"} \cup Terminal
      => i = j

\* '"answered" is the one exception to "each status fires at most once"'
\* (notify_queue.py:41): no other status is told twice.  The receipts of two
\* messages of a service lock different rows, and can both pass the check.
EachStatusOnce ==
  \A s \in Service : \A i, j \in DOMAIN notified[s] :
    notified[s][i] = notified[s][j] /\ notified[s][i] # "answered" => i = j

\* A service that has ended never becomes in_progress again, although most
\* handlers write to it on the strength of an older copy.
EndedStaysEnded ==
  [][\A s \in Service : status[s] \in Terminal => status'[s] \in Terminal]_vars

\* No customer message is stuck or silently dropped by the handlers, whatever they
\* wait for and deadlock over: it ends up as a Message row or as a FailedWebhook
\* row, unless the process died with it or could not store that row either.
MessagesLeaveATrace ==
  \A e \in Hook :
    (e \in DOMAIN content /\ content[e].kind \in Inbound)
      ~> (e \in stored \cup failedHooks \cup lost)

\* Every deadlock involves a plain text, which locks services before the
\* conversation, or a message or job that has ended a service, whose row it may
\* have locked before the queue entry: transactions that have ended nothing and
\* receipts never deadlock among themselves.
OnlyEndersDeadlock ==
  \A D \in SUBSET Waiting : D # {} /\ Deadlocked(D) =>
    \E p \in D : \/ tx[p].kind \in {"text", "quote"}
                 \/ tx[p].kind \notin Receipt /\ Ended(tx[p]) # {}
=============================================================================
