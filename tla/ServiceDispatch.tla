-------------------------- MODULE ServiceDispatch --------------------------
(***************************************************************************)
(* The life of a service between the client's ingest and its end:          *)
(* queue_manager.py, send_scheduler.py, the retry call of                  *)
(* client_services_api.py, and the handlers that end a service behind      *)
(* their back (delivery receipts, answers, the expiry job).                *)
(*                                                                         *)
(* The send job holds FOR UPDATE on the service it claimed while it talks  *)
(* to Meta, and commits afterwards.  Every other handler reads the service *)
(* without a lock and writes later, to the columns it changed: Begin and   *)
(* Finish.  From its first flush to its commit a handler is one step here; *)
(* the interleavings inside are ConversationEngine's.                      *)
(*                                                                         *)
(* Left out: what a template says and the phone number it goes to.         *)
(***************************************************************************)
EXTENDS Naturals, Sequences, FiniteSets, Functions, NotifyQueue

CONSTANTS
  Service,
  Subscribed,   \* the services whose API key has a notify_url
  Sender,       \* the send job, one element per app instance
  Worker,       \* threads for webhooks and API calls, and the expiry job
  Wamid,        \* ids Meta gives to messages; bounds their number
  Kind,         \* bound: what the workers do in this instance
  MaxSends,     \* _MAX_SEND_ATTEMPTS
  MaxRetries,   \* bound: retry calls of a client per service
  MaxLosses,    \* bound: send transactions lost after the call to Meta
  NoService, NoWamid

ASSUME ConstantsAssumption ==
  /\ Subscribed \subseteq Service
  /\ NoService \notin Service /\ NoWamid \notin Wamid
  /\ MaxSends \in Nat \ {0} /\ MaxRetries \in Nat /\ MaxLosses \in Nat
  /\ Kind \subseteq {"sent", "delivered", "read", "failed", "reply", "expiry", "retry"}

VARIABLES
  asking,    \* the services ingested with questions
  svc,       \* [Service -> Svc], the services rows
  open,      \* MobileQueue rows of the service that are in_progress
  rows,      \* outbound Message rows: wamids the database knows
  accepted,  \* [Wamid -> ...]: what Meta has accepted, and for which attempt
  notified,  \* [Service -> Seq(note)]: OutboundNotification rows
  job,       \* [Sender -> ...]: the claimed service and Meta's answer
  tx,        \* [Worker -> ...]: a handler and its copy of the service
  calls,     \* history: calls to Meta for the template of each attempt
  retries,   \* history: retry calls that were answered with success
  outrun,    \* history: the services whose end was written by a handler that
             \* had read them before their last retry
  losses

vars == <<asking, svc, open, rows, accepted, notified, job, tx, calls, retries, outrun, losses>>

Status  == {"waiting", "in_progress"} \cup Terminal
Reason  == {"none", "whatsapp_number_invalid", "send_error"}
Receipt == {"sent", "delivered", "read", "failed"}

\* next is next_retry_at: NULL, in the future, or past.
Svc == [status : Status, reason : Reason, sent : BOOLEAN, sends : Nat,
        next : {"null", "ahead", "past"}, att : Nat]

New == [status |-> "in_progress", reason |-> "none", sent |-> FALSE, sends |-> 0,
        next |-> "null", att |-> 0]

NoJob == [svc |-> NoService, answer |-> "none", wamid |-> NoWamid]
NoTx  == [kind |-> "none", svc |-> NoService, code |-> "none", copy |-> New]

Locked(s) == \E p \in Sender : job[p].svc = s

\* enqueue_notification for attempt att of s, whose copy has status st.
Told(s, att, st, ev) ==
  IF s \in Subscribed /\ Enqueues(Range(notified[s]), att, st, ev)
  THEN [notified EXCEPT ![s] = Append(@, [att |-> att, ev |-> ev])]
  ELSE notified

\* A MobileQueue row less: _mark_queue_completed looks for one that is open.
OneLess(n) == IF n > 0 THEN n - 1 ELSE 0

-----------------------------------------------------------------------------
(* The send job.                                                           *)

\* Mutant: the claim does not skip rows another instance has locked.
ClaimableUnlocked(s) ==
  /\ svc[s].status = "in_progress" /\ ~svc[s].sent /\ svc[s].next # "ahead"

\* Mutant: the claim only takes services without a next_retry_at.
ClaimableFresh(s) ==
  /\ svc[s].status = "in_progress" /\ ~svc[s].sent /\ svc[s].next = "null"
  /\ ~Locked(s)

\* What the claim query selects.
Claimable(s) ==
  /\ svc[s].status = "in_progress" /\ ~svc[s].sent /\ svc[s].next # "ahead"
  /\ ~Locked(s)

Claim(p, s) ==
  /\ job[p] = NoJob /\ Claimable(s)
  /\ job' = [job EXCEPT ![p].svc = s]
  /\ UNCHANGED <<asking, svc, open, rows, accepted, notified, tx, calls, retries, outrun, losses>>

\* wa_sender.send_template.  After a timeout Meta may have accepted a message
\* whose wamid nobody here learns.
CallMeta(p) ==
  LET s == job[p].svc
      accept(w) == accepted' = [accepted EXCEPT ![w] = [svc |-> s, att |-> svc[s].att]]
  IN
  /\ s # NoService /\ job[p].answer = "none"
  /\ calls' = [calls EXCEPT ![s][svc[s].att] = @ + 1]
  /\ \/ \E w \in Wamid : /\ accepted[w].svc = NoService /\ accept(w)
                         /\ job' = [job EXCEPT ![p].answer = "ok", ![p].wamid = w]
     \/ /\ job' = [job EXCEPT ![p].answer = "error"]
        /\ \/ \E w \in Wamid : accepted[w].svc = NoService /\ accept(w)
           \/ UNCHANGED accepted
     \/ job' = [job EXCEPT ![p].answer = "invalid"] /\ UNCHANGED accepted
  /\ UNCHANGED <<asking, svc, open, rows, notified, tx, retries, outrun, losses>>

\* Mutants of what send_template_for_service writes: template_sent stays TRUE
\* for the next attempt; Meta's answer is stored as the reason; only the calls
\* that succeed are counted.
AfterSendKept(c, answer, last, asks) ==
  [c EXCEPT !.sends = @ + 1, !.sent = TRUE,
            !.status = IF answer = "ok" /\ ~asks THEN "completed"
                       ELSE IF answer = "invalid" \/ (answer = "error" /\ last)
                       THEN "failed" ELSE @]
AfterSendVerbatim(c, answer, last, asks) ==
  [AfterSendKept(c, answer, last, asks) EXCEPT !.reason = answer]
AfterSendUncounted(c, answer, last, asks) ==
  [AfterSendKept(c, answer, last, asks) EXCEPT
     !.sends = IF answer = "ok" THEN c.sends + 1 ELSE c.sends,
     !.sent = answer # "error", !.next = IF answer = "error" THEN "ahead" ELSE @]

\* The row c after Meta's answer; last: no attempt is left; asks: there are
\* questions to wait for.
AfterSend(c, answer, last, asks) ==
  LET d == [c EXCEPT !.sends = @ + 1, !.sent = TRUE] IN
  CASE answer = "ok" /\ asks     -> d
    [] answer = "ok" /\ ~asks    -> [d EXCEPT !.status = "completed"]
    [] answer = "invalid"        -> [d EXCEPT !.status = "failed",
                                              !.reason = "whatsapp_number_invalid"]
    [] answer = "error" /\ last  -> [d EXCEPT !.status = "failed", !.reason = "send_error"]
    [] answer = "error" /\ ~last -> [d EXCEPT !.sent = FALSE, !.reason = "send_error",
                                              !.next = "ahead"]

\* Update the row, add the Message row, notify if the service has ended, commit.
Settle(p) ==
  LET s == job[p].svc
      c == svc[s]
      d == AfterSend(c, job[p].answer, c.sends + 1 >= MaxSends, s \in asking)
  IN
  /\ s # NoService /\ job[p].answer # "none"
  /\ svc' = [svc EXCEPT ![s] = d]
  /\ rows' = IF job[p].answer = "ok" THEN rows \cup {job[p].wamid} ELSE rows
  /\ IF d.status \in Terminal
     THEN /\ open' = [open EXCEPT ![s] = OneLess(@)]
          /\ notified' = Told(s, d.att, d.status, d.status)
     ELSE UNCHANGED <<open, notified>>
  /\ job' = [job EXCEPT ![p] = NoJob]
  /\ UNCHANGED <<asking, accepted, tx, calls, retries, outrun, losses>>

\* The process dies, or the commit fails: Meta was called, the row is as before.
Lose(p) ==
  /\ job[p].answer # "none" /\ losses < MaxLosses
  /\ losses' = losses + 1
  /\ job' = [job EXCEPT ![p] = NoJob]
  /\ UNCHANGED <<asking, svc, open, rows, accepted, notified, tx, calls, retries, outrun>>

\* next_retry_at passes.
BackoffOver(s) ==
  /\ svc[s].next = "ahead"
  /\ svc' = [svc EXCEPT ![s].next = "past"]
  /\ UNCHANGED <<asking, open, rows, accepted, notified, job, tx, calls, retries, outrun, losses>>

-----------------------------------------------------------------------------
(* The other handlers.                                                     *)

\* There is a Message row of s, of whichever attempt.
HasMessage(s) == \E w \in rows : accepted[w].svc = s

\* A handler reads the service.  A receipt is about a message that has a row
\* (without one it is dropped); an answer comes with the context of such a
\* message and is not stopped by the status; the expiry job takes services
\* that are out and unanswered; a retry is refused unless the service failed
\* on its number.
Begin(p, k, s, code) ==
  /\ tx[p] = NoTx /\ k \in Kind
  /\ CASE k \in Receipt -> HasMessage(s)
       [] k = "reply"   -> HasMessage(s) /\ s \in asking
       [] k = "expiry"  -> /\ svc[s].status = "in_progress" /\ svc[s].sent
                           /\ open[s] > 0 /\ s \in asking
       [] k = "retry"   -> /\ svc[s].status = "failed"
                           /\ svc[s].reason = "whatsapp_number_invalid"
                           /\ retries[s] < MaxRetries
  /\ code \in IF k = "failed" THEN {"whatsapp_number_invalid", "send_error"} ELSE {"none"}
  /\ tx' = [tx EXCEPT ![p] = [kind |-> k, svc |-> s, code |-> code,
                             copy |-> svc[s]]]
  /\ UNCHANGED <<asking, svc, open, rows, accepted, notified, job, calls, retries, outrun, losses>>

\* A column is written when the handler changed it in its copy.
Column(now, read, new) == IF new = read THEN now ELSE new

\* Mutant: a retry adds no row to MobileQueue.
NoMoreRows(n) == n

\* attempt_no of the retry, and the MobileQueue rows enqueue_service leaves.
NextAttempt(n) == n + 1
OneMoreRow(n)  == n + 1

\* retry_service resets the service and starts it anew.
Retried(p) ==
  LET t == tx[p]
      r == t.copy
      again(c) == [c EXCEPT !.status = "in_progress", !.reason = "none",
                            !.sent = Column(@, r.sent, FALSE),
                            !.sends = Column(@, r.sends, 0),
                            !.next = Column(@, r.next, "null"), !.att = NextAttempt(r.att)]
  IN
  /\ t.kind = "retry"
  /\ svc' = [svc EXCEPT ![t.svc] = again(@)]
  /\ open' = [open EXCEPT ![t.svc] = OneMoreRow(@)]
  /\ retries' = [retries EXCEPT ![t.svc] = @ + 1]
  /\ outrun' = outrun \ {t.svc}
  /\ UNCHANGED notified

\* Mutant: a failed receipt fails the service whatever its status.
FailsAlways(t) == t.kind = "failed"

\* handle_status fails the service only while it was in_progress when read.
Fails(t) == t.kind = "failed" /\ t.copy.status = "in_progress"

\* The end t writes belongs to an earlier attempt.
Outrun(t) == IF t.copy.att = svc[t.svc].att THEN outrun \ {t.svc} ELSE outrun \cup {t.svc}

\* handle_status: an in_progress service (as read) is failed by a failed receipt.
Receipted(p) ==
  LET t == tx[p]
      st == IF Fails(t) THEN "failed" ELSE t.copy.status
  IN
  /\ t.kind \in Receipt
  /\ IF Fails(t)
     THEN /\ svc' = [svc EXCEPT ![t.svc].status = "failed",
                                ![t.svc].reason = Column(@, t.copy.reason, t.code)]
          /\ open' = [open EXCEPT ![t.svc] = OneLess(@)]
          /\ outrun' = Outrun(t)
     ELSE UNCHANGED <<svc, open, outrun>>
  /\ notified' = Told(t.svc, t.copy.att, st, t.kind)
  /\ UNCHANGED retries

\* The last answer completes the service, the expiry job expires it.  The row of
\* MobileQueue either of them closes may be one that is closed already.
Ended(p) ==
  LET t == tx[p]
      st == IF t.kind = "reply" THEN "completed" ELSE "expired"
  IN
  /\ t.kind \in {"reply", "expiry"}
  /\ IF t.copy.status = st THEN UNCHANGED <<svc, open, notified, outrun>>
     ELSE /\ svc' = [svc EXCEPT ![t.svc].status = st]
          /\ open' \in {[open EXCEPT ![t.svc] = n] : n \in
                         IF t.kind = "reply" THEN {OneLess(open[t.svc]), open[t.svc]}
                                             ELSE 0..open[t.svc]}
          /\ notified' = Told(t.svc, t.copy.att, st, st)
          /\ outrun' = Outrun(t)
  /\ UNCHANGED retries

\* Flush and commit, once no sender holds the row.
Finish(p) ==
  /\ tx[p] # NoTx /\ ~Locked(tx[p].svc)
  /\ Retried(p) \/ Receipted(p) \/ Ended(p)
  /\ tx' = [tx EXCEPT ![p] = NoTx]
  /\ UNCHANGED <<asking, rows, accepted, job, calls, losses>>

-----------------------------------------------------------------------------
\* Ingest has committed the services: enqueue_service starts each at once.
Init ==
  /\ asking \in SUBSET Service
  /\ svc = [s \in Service |-> New]
  /\ open = [s \in Service |-> 1]
  /\ rows = {}
  /\ accepted = [w \in Wamid |-> [svc |-> NoService, att |-> 0]]
  /\ notified = [s \in Service |-> << >>]
  /\ job = [p \in Sender |-> NoJob]
  /\ tx = [p \in Worker |-> NoTx]
  /\ calls = [s \in Service |-> [a \in 0..MaxRetries |-> 0]]
  /\ retries = [s \in Service |-> 0]
  /\ outrun = {} /\ losses = 0

Send(p) == (\E s \in Service : Claim(p, s)) \/ CallMeta(p) \/ Settle(p)

Next ==
  \/ \E p \in Sender : Send(p) \/ Lose(p)
  \/ \E s \in Service : BackoffOver(s)
  \/ \E p \in Worker, k \in Kind, s \in Service, c \in Reason : Begin(p, k, s, c)
  \/ \E p \in Worker : Finish(p)

Spec == Init /\ [][Next]_vars

\* The send job of every instance goes on, a handler that has begun finishes,
\* and time passes.
FairSpec == Spec /\ (\A p \in Sender : WF_vars(Send(p)))
                 /\ (\A p \in Worker : WF_vars(Finish(p)))
                 /\ (\A s \in Service : WF_vars(BackoffOver(s)))

-----------------------------------------------------------------------------
(* Properties.                                                             *)

TypeOK ==
  /\ asking \subseteq Service
  /\ svc \in [Service -> Svc]
  /\ open \in [Service -> Nat]
  /\ rows \subseteq Wamid
  /\ accepted \in [Wamid -> [svc : Service \cup {NoService}, att : Nat]]
  /\ notified \in [Service -> Seq(Note)]
  /\ job \in [Sender -> [svc : Service \cup {NoService},
                         answer : {"none", "ok", "error", "invalid"},
                         wamid : Wamid \cup {NoWamid}]]
  /\ tx \in [Worker -> [kind : Kind \cup {"none"}, svc : Service \cup {NoService},
                        code : Reason, copy : Svc]]
  /\ calls \in [Service -> [0..MaxRetries -> Nat]]
  /\ retries \in [Service -> Nat] /\ outrun \subseteq Service /\ losses \in Nat

\* "Multiple app instances can run this poller concurrently without
\* double-sending the same service" (send_scheduler.py).
OneSenderPerService ==
  \A p, q \in Sender : job[p].svc = job[q].svc /\ job[p].svc # NoService => p = q

\* Calls to Meta that are under way.
Flying(s) == Cardinality({p \in Sender : job[p].svc = s /\ job[p].answer # "none"})

\* Every retry call of s has opened an attempt of its own: no two overlapped.
RetriedInTurn(s) == retries[s] = svc[s].att

\* Meta is called for an attempt of a service as often as send_attempts says and
\* never more than MaxSends times, lost transactions apart and unless retry calls
\* overlapped, which reset the count of one attempt twice (queue_manager.py:217,
\* client_services_api.py:287-302).
CallsAreCounted ==
  \A s \in Service : RetriedInTurn(s) =>
    /\ calls[s][svc[s].att] <= svc[s].sends + losses + Flying(s)
    /\ svc[s].sends <= MaxSends

\* A service that is out has the row of a message Meta accepted for its current
\* attempt, so that taps and receipts find it: unless retry calls overlapped, the
\* later of which leaves template_sent as it finds it (client_services_api.py:289).
SentHasMessage ==
  \A s \in Service :
    (RetriedInTurn(s) /\ svc[s].status = "in_progress" /\ svc[s].sent)
      => \E w \in rows : accepted[w] = [svc |-> s, att |-> svc[s].att]

\* A live service has an open MobileQueue row, without which the expiry job
\* would never find it, although retries add rows and any of them is closed.
LiveIsQueued == \A s \in Service : svc[s].status = "in_progress" => open[s] > 0

\* A service that has ended has told its client so, under its current attempt,
\* unless the handler that ended it had read it before a retry: that one tells
\* under the old attempt, whose end was told already (client_services_api.py:299).
EndIsTold ==
  \A s \in Subscribed \ outrun : svc[s].status \in Terminal =>
    \E n \in Range(notified[s]) : n.att = svc[s].att /\ n.ev \in Terminal

\* Every service is sent or ends: no sequence of refusals, losses and retries
\* leaves one behind.
EveryServiceIsDispatched ==
  \A s \in Service :
    (svc[s].status = "in_progress" /\ ~svc[s].sent)
      ~> (svc[s].sent \/ svc[s].status \in Terminal)

=============================================================================
