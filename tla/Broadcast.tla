----------------------------- MODULE Broadcast -----------------------------
(***************************************************************************)
(* Broadcast campaigns from the screening to the last receipt:             *)
(* broadcast_scheduler.py (the tick and the kick that /send starts run the *)
(* same dispatch_pending), the send, cancel and delete calls of            *)
(* campaigns_api.py, and broadcast_status.py.                              *)
(*                                                                         *)
(* A batch is claimed in one transaction (FOR UPDATE SKIP LOCKED, commit), *)
(* sent without locks, and recorded in another.  Requests and receipts     *)
(* read, decide, and write at their commit.  One process runs all of it;   *)
(* it may die anywhere and is started again.                               *)
(*                                                                         *)
(* Left out: what is sent, delivery times, and the delivered and read      *)
(* counters, which change like the two modelled here.                      *)
(***************************************************************************)
EXTENDS Integers, FiniteSets

CONSTANTS
  Campaign, Recipient,
  Of,          \* [Recipient -> Campaign]
  Halting,     \* the campaigns with stop_on_error
  Doomed,      \* bound: the campaigns whose template or account may be deleted
  Runner,      \* the scheduler's job and the kicks of /send
  Request,     \* threads that serve requests
  Hook,        \* threads that handle receipts
  Receipts,    \* bound: the kinds of receipts that arrive
  BatchLimit,  \* _BATCH_LIMIT
  MaxBoots,    \* bound: restarts of the process
  MaxLosses,   \* bound: batches lost to an exception
  MaxReceipts, \* bound: receipts that find their row
  NoCampaign, NoRecipient

ASSUME ConstantsAssumption ==
  /\ IsFiniteSet(Recipient) /\ Of \in [Recipient -> Campaign]
  /\ Halting \subseteq Campaign /\ Doomed \subseteq Campaign
  /\ Receipts \subseteq {"sent", "delivered", "read", "failed"}
  /\ NoCampaign \notin Campaign /\ NoRecipient \notin Recipient
  /\ BatchLimit \in Nat \ {0} /\ MaxBoots \in Nat /\ MaxLosses \in Nat
  /\ MaxReceipts \in Nat

VARIABLES
  up,          \* the process runs
  camp,        \* [Campaign -> CampRow], broadcast_campaigns
  row,         \* [Recipient -> RecipientRow], broadcast_recipients
  configured,  \* the campaigns whose template and account still exist
  copies,      \* [Recipient -> Nat]: messages Meta has accepted
  job,         \* [Runner -> Job]
  tx,          \* [Request -> ...]: a request and the status it has read
  hook,        \* [Hook -> ...]: a receipt and the columns it has read
  boots, losses, receipts

vars == <<up, camp, row, configured, copies, job, tx, hook, boots, losses, receipts>>

CampStatus == {"ready", "sending", "dispatched", "cancelled", "deleted"}
RowStatus  == {"absent", "draft", "skipped", "pending", "sending",
               "sent", "delivered", "read", "failed"}

\* at orders the campaigns by dispatched_at.
CampRow == [status : CampStatus, sent : Int, failed : Nat, at : Nat]
\* msg stands for the wamid: the number of the copy it names, 0 for NULL.
RecipientRow == [status : RowStatus, msg : Nat]

\* A runner: the campaign it works on, the claimed recipients it has still to
\* try, those with an outcome, and the counters as it read them.
Job == [pc : {"idle", "picked", "sending", "halting", "closing"},
        camp : Campaign \cup {NoCampaign},
        todo : SUBSET Recipient, ok : SUBSET Recipient, bad : SUBSET Recipient,
        sent : Int, failed : Nat]

Idle   == [pc |-> "idle", camp |-> NoCampaign, todo |-> {}, ok |-> {}, bad |-> {},
           sent |-> 0, failed |-> 0]
NoTx   == [kind |-> "none", camp |-> NoCampaign]
NoHook == [of |-> NoRecipient, ev |-> "none", status |-> "absent", sent |-> 0, failed |-> 0]

Rows(c)    == {r \in Recipient : Of[r] = c}
In(c, Sts) == {r \in Rows(c) : row[r].status \in Sts}

\* The rows in S get status st.
Set(S, st) == [r \in Recipient |-> IF r \in S THEN [row[r] EXCEPT !.status = st] ELSE row[r]]

-----------------------------------------------------------------------------
(* dispatch_pending.                                                       *)

\* The first campaign in "sending" by dispatched_at.
Pick(p, c) ==
  /\ up /\ job[p].pc = "idle"
  /\ camp[c].status = "sending"
  /\ \A d \in Campaign : camp[d].status = "sending" => camp[c].at <= camp[d].at
  /\ job' = [job EXCEPT ![p] = [Idle EXCEPT !.pc = "picked", !.camp = c,
                                 !.failed = camp[c].failed]]
  /\ UNCHANGED <<up, camp, row, configured, copies, tx, hook, boots, losses, receipts>>

\* Mutant: rows another runner has claimed are claimed again.
ClaimableAgain(c) == In(c, {"pending", "sending"})

Claimable(c) == In(c, {"pending"})

\* A batch of pending rows becomes "sending"; ids are random, so is the order.
Claim(p, B) ==
  LET c == job[p].camp IN
  /\ job[p].pc = "picked" /\ c \in configured
  /\ B # {} /\ B \subseteq Claimable(c)
  /\ Cardinality(B) <= BatchLimit
  /\ Cardinality(B) = BatchLimit \/ B = Claimable(c)
  /\ row' = Set(B, "sending")
  /\ job' = [job EXCEPT ![p].pc = "sending", ![p].todo = B]
  /\ UNCHANGED <<up, camp, configured, copies, tx, hook, boots, losses, receipts>>

\* Without template or account the outstanding rows fail, also those another
\* runner is working on.
GiveUp(p) ==
  LET c     == job[p].camp
      stuck == In(c, {"pending", "sending"}) IN
  /\ job[p].pc = "picked" /\ c \notin configured
  /\ camp[c].status # "deleted"
  /\ row' = Set(stuck, "failed")
  /\ camp' = [camp EXCEPT ![c].failed = IF stuck = {} THEN @
                                        ELSE job[p].failed + Cardinality(stuck)]
  /\ job' = [job EXCEPT ![p].pc = "closing"]
  /\ UNCHANGED <<up, configured, copies, tx, hook, boots, losses, receipts>>

\* Mutants: _finish does not look at the rows another runner has claimed; it
\* waits for failed ones.
OutstandingPending(c) == In(c, {"pending"})
OutstandingUnsent(c)  == In(c, {"pending", "sending", "failed"})

Outstanding(c) == In(c, {"pending", "sending"})

\* Nothing to claim: another runner is at work ...
Yield(p) ==
  LET c == job[p].camp IN
  /\ \/ job[p].pc = "picked" /\ c \in configured /\ Claimable(c) = {}
     \/ job[p].pc = "closing"
  /\ Outstanding(c) # {}
  /\ job' = [job EXCEPT ![p] = Idle]
  /\ UNCHANGED <<up, camp, row, configured, copies, tx, hook, boots, losses, receipts>>

\* ... or _finish, on the campaign as it was picked.
Finish(p) ==
  LET c == job[p].camp IN
  /\ \/ job[p].pc = "picked" /\ c \in configured /\ Claimable(c) = {}
     \/ job[p].pc = "closing"
  /\ Outstanding(c) = {} /\ camp[c].status # "deleted"
  /\ camp' = [camp EXCEPT ![c].status = "dispatched"]
  /\ job' = [job EXCEPT ![p] = Idle]
  /\ UNCHANGED <<up, row, configured, copies, tx, hook, boots, losses, receipts>>

\* stop_on_error, after a failure in this batch.
Stopped(p) == job[p].bad # {} /\ job[p].camp \in Halting

\* _send_one.  A call that fails may have been accepted all the same.  The first
\* outcome of a batch reloads the campaign, expired by the commit of the claim.
Attempt(p, r) ==
  LET j     == job[p]
      c     == j.camp
      fresh == j.ok \cup j.bad = {}
      read  == [j EXCEPT !.todo = @ \ {r},
                         !.sent = IF fresh THEN camp[c].sent ELSE @,
                         !.failed = IF fresh THEN camp[c].failed ELSE @]
      more  == [copies EXCEPT ![r] = @ + 1]
  IN
  /\ j.pc = "sending" /\ r \in j.todo /\ ~Stopped(p) /\ camp[c].status # "deleted"
  /\ \/ copies' = more /\ job' = [job EXCEPT ![p] = [read EXCEPT !.ok = @ \cup {r}]]
     \/ copies' \in {copies, more} /\ job' = [job EXCEPT ![p] = [read EXCEPT !.bad = @ \cup {r}]]
  /\ UNCHANGED <<up, camp, row, configured, tx, hook, boots, losses, receipts>>

\* What the batch writes to its rows: the untried ones are handed back.
Recorded(j) ==
  [r \in Recipient |->
     CASE r \in j.ok   -> [status |-> "sent", msg |-> copies[r]]
       [] r \in j.bad  -> [row[r] EXCEPT !.status = "failed"]
       [] r \in j.todo -> [row[r] EXCEPT !.status = "pending"]
       [] OTHER        -> row[r]]

\* Mutant: the counters of the batch are added to twice.
CountedTwice(j) == [sent |-> j.sent + 2 * Cardinality(j.ok),
                    failed |-> j.failed + Cardinality(j.bad)]

\* campaign.sent and .failed, incremented on the copy.
Counted(j) == [sent |-> j.sent + Cardinality(j.ok), failed |-> j.failed + Cardinality(j.bad)]

\* One commit for the batch.
Record(p) ==
  LET j == job[p]
      c == j.camp IN
  /\ j.pc = "sending" /\ (j.todo = {} \/ Stopped(p)) /\ camp[c].status # "deleted"
  /\ row' = Recorded(j)
  /\ camp' = [camp EXCEPT ![c].sent = IF j.ok = {} THEN @ ELSE Counted(j).sent,
                          ![c].failed = IF j.bad = {} THEN @ ELSE Counted(j).failed]
  /\ job' = [job EXCEPT ![p] = IF Stopped(p) THEN [Idle EXCEPT !.pc = "halting", !.camp = c]
                                             ELSE Idle]
  /\ UNCHANGED <<up, configured, copies, tx, hook, boots, losses, receipts>>

\* The second commit of a batch that stopped.
Halt(p) ==
  LET c == job[p].camp IN
  /\ job[p].pc = "halting" /\ camp[c].status # "deleted"
  /\ camp' = [camp EXCEPT ![c].status = "dispatched"]
  /\ job' = [job EXCEPT ![p] = Idle]
  /\ UNCHANGED <<up, row, configured, copies, tx, hook, boots, losses, receipts>>

\* The campaign was deleted: the next refresh or flush raises.
Drop(p) ==
  /\ job[p].pc # "idle" /\ camp[job[p].camp].status = "deleted"
  /\ job' = [job EXCEPT ![p] = Idle]
  /\ UNCHANGED <<up, camp, row, configured, copies, tx, hook, boots, losses, receipts>>

\* An exception in the batch is logged and rolled back; the claim is committed.
Lose(p) ==
  /\ job[p].pc = "sending" /\ losses < MaxLosses
  /\ losses' = losses + 1
  /\ job' = [job EXCEPT ![p] = Idle]
  /\ UNCHANGED <<up, camp, row, configured, copies, tx, hook, boots, receipts>>

-----------------------------------------------------------------------------
(* The process.                                                            *)

Crash ==
  /\ up /\ boots < MaxBoots
  /\ up' = FALSE
  /\ job' = [p \in Runner |-> Idle]
  /\ tx' = [q \in Request |-> NoTx]
  /\ hook' = [h \in Hook |-> NoHook]
  /\ UNCHANGED <<camp, row, configured, copies, boots, losses, receipts>>

Interrupted == {r \in Recipient : row[r].status = "sending"}

\* start: _recover_interrupted, whose own failure is only logged, then the job.
Boot ==
  /\ ~up
  /\ up' = TRUE /\ boots' = boots + 1
  /\ row' \in {Set(Interrupted, "pending"), row}
  /\ UNCHANGED <<camp, configured, copies, job, tx, hook, losses, receipts>>

\* The template is deleted, or the account.
Unconfigure(c) ==
  /\ c \in configured \cap Doomed
  /\ configured' = configured \ {c}
  /\ UNCHANGED <<up, camp, row, copies, job, tx, hook, boots, losses, receipts>>

-----------------------------------------------------------------------------
(* Requests.                                                               *)

Allowed(k) == CASE k = "send"   -> {"ready"}
                [] k = "cancel" -> {"ready", "sending"}
                [] k = "delete" -> {"ready", "cancelled"}

\* _owned reads the campaign and the handler checks its status.
Begin(q, k, c) ==
  /\ up /\ tx[q] = NoTx
  /\ camp[c].status \in Allowed(k)
  /\ k = "send" => c \in configured
  /\ tx' = [tx EXCEPT ![q] = [kind |-> k, camp |-> c]]
  /\ UNCHANGED <<up, camp, row, configured, copies, job, hook, boots, losses, receipts>>

\* /send: refused if no row is "draft" any more.
SendCampaign(q) ==
  LET c == tx[q].camp IN
  /\ tx[q].kind = "send"
  /\ IF In(c, {"draft"}) = {} THEN UNCHANGED <<camp, row>>
     ELSE /\ row' = Set(In(c, {"draft"}), "pending")
          /\ \E now \in {1 + camp[d].at : d \in Campaign} :
               /\ \A d \in Campaign : camp[d].at < now
               /\ camp' = [camp EXCEPT ![c].status = "sending", ![c].at = now]

\* Mutant: a cancel also takes the rows a runner is sending.
CancellableAll(c) == In(c, {"draft", "pending", "sending", "sent"})

Cancellable(c) == In(c, {"draft", "pending"})

CancelCampaign(q) ==
  LET c == tx[q].camp IN
  /\ tx[q].kind = "cancel"
  /\ IF camp[c].status = "deleted" THEN UNCHANGED <<camp, row>>
     ELSE /\ row' = Set(Cancellable(c), "skipped")
          /\ camp' = [camp EXCEPT ![c].status = "cancelled"]

DeleteCampaign(q) ==
  LET c == tx[q].camp IN
  /\ tx[q].kind = "delete"
  /\ row' = Set(Rows(c), "absent")
  /\ camp' = [camp EXCEPT ![c].status = "deleted"]

Commit(q) ==
  /\ SendCampaign(q) \/ CancelCampaign(q) \/ DeleteCampaign(q)
  /\ tx' = [tx EXCEPT ![q] = NoTx]
  /\ UNCHANGED <<up, configured, copies, job, hook, boots, losses, receipts>>

-----------------------------------------------------------------------------
(* broadcast_status.handle.                                                *)

Rank(st) == CASE st = "sent" -> 1 [] st = "delivered" -> 2 [] st = "read" -> 3 [] OTHER -> 0

\* A receipt finds its row by the wamid; without one it is dropped.
Receive(h, r, ev) ==
  LET c == camp[Of[r]] IN
  /\ up /\ hook[h] = NoHook
  /\ row[r].status # "absent" /\ row[r].msg > 0 /\ receipts < MaxReceipts
  /\ receipts' = receipts + 1
  /\ hook' = [hook EXCEPT ![h] = [of |-> r, ev |-> ev, status |-> row[r].status,
                                  sent |-> c.sent, failed |-> c.failed]]
  /\ UNCHANGED <<up, camp, row, configured, copies, job, tx, boots, losses>>

Outranks(ev, st) == Rank(ev) > Rank(st)

Progressed(h) ==
  LET k == hook[h] IN
  /\ k.ev # "failed"
  /\ row' = IF Outranks(k.ev, k.status) THEN Set({k.of}, k.ev) ELSE row
  /\ UNCHANGED camp

\* _apply_failure: what was counted as sent no longer is.
Contradicted(h) ==
  LET k == hook[h]
      c == Of[k.of] IN
  /\ k.ev = "failed"
  /\ IF k.status = "failed" THEN UNCHANGED <<row, camp>>
     ELSE /\ row' = Set({k.of}, "failed")
          /\ camp' = [camp EXCEPT
                       ![c].failed = k.failed + 1,
                       ![c].sent = IF Rank(k.status) > 0 /\ k.sent > 0 THEN k.sent - 1 ELSE @]

Apply(h) ==
  /\ hook[h] # NoHook
  /\ IF row[hook[h].of].status = "absent" THEN UNCHANGED <<row, camp>>
     ELSE Progressed(h) \/ Contradicted(h)
  /\ hook' = [hook EXCEPT ![h] = NoHook]
  /\ UNCHANGED <<up, configured, copies, job, tx, boots, losses, receipts>>

-----------------------------------------------------------------------------
\* The campaigns have been screened: their recipients are drafts or skipped.
Init ==
  /\ up = TRUE
  /\ camp = [c \in Campaign |-> [status |-> "ready", sent |-> 0, failed |-> 0, at |-> 0]]
  /\ row \in [Recipient -> {[status |-> st, msg |-> 0] : st \in {"draft", "skipped"}}]
  /\ configured = Campaign
  /\ copies = [r \in Recipient |-> 0]
  /\ job = [p \in Runner |-> Idle]
  /\ tx = [q \in Request |-> NoTx]
  /\ hook = [h \in Hook |-> NoHook]
  /\ boots = 0 /\ losses = 0 /\ receipts = 0

Run(p) ==
  \/ \E c \in Campaign : Pick(p, c)
  \/ \E B \in SUBSET Recipient : Claim(p, B)
  \/ GiveUp(p) \/ Yield(p) \/ Finish(p)
  \/ \E r \in Recipient : Attempt(p, r)
  \/ Record(p) \/ Halt(p) \/ Drop(p)

Next ==
  \/ \E p \in Runner : Run(p) \/ Lose(p)
  \/ Crash \/ Boot
  \/ \E c \in Campaign : Unconfigure(c)
  \/ \E q \in Request, c \in Campaign, k \in {"send", "cancel", "delete"} : Begin(q, k, c)
  \/ \E q \in Request : Commit(q)
  \/ \E h \in Hook, r \in Recipient, ev \in Receipts : Receive(h, r, ev)
  \/ \E h \in Hook : Apply(h)

Spec == Init /\ [][Next]_vars

\* The job ticks, a kick goes on, and the process is started again.
FairSpec == Spec /\ (\A p \in Runner : WF_vars(Run(p))) /\ WF_vars(Boot)

-----------------------------------------------------------------------------
(* Properties.                                                             *)

TypeOK ==
  /\ up \in BOOLEAN
  /\ camp \in [Campaign -> CampRow]
  /\ row \in [Recipient -> RecipientRow]
  /\ configured \subseteq Campaign
  /\ copies \in [Recipient -> Nat]
  /\ job \in [Runner -> Job]
  /\ tx \in [Request -> [kind : {"none", "send", "cancel", "delete"},
                         camp : Campaign \cup {NoCampaign}]]
  /\ hook \in [Hook -> [of : Recipient \cup {NoRecipient}, ev : Receipts \cup {"none"},
                        status : RowStatus, sent : Int, failed : Nat]]
  /\ boots \in Nat /\ losses \in Nat /\ receipts \in Nat

Taken(r) == \E p \in Runner : r \in job[p].todo

\* The abstract specification: who may still be sent to is read off the rows
\* and off what the runners hold, for a row says "sending" before and after.
Mail == INSTANCE Mailing WITH
  Recipient <- Recipient,
  phase     <- [r \in Recipient |-> IF Taken(r) THEN "taken"
                                    ELSE IF row[r].status = "draft" THEN "held"
                                    ELSE IF row[r].status = "pending" THEN "due" ELSE "over"],
  copies    <- copies,
  lives     <- boots

\* Every behaviour of the runners, requests and receipts is one of Mailing.
KeepsThePromise == Mail!Spec

\* A recipient that is skipped (opted out, or cancelled in time) was sent
\* nothing, whatever a runner was doing when the cancel came: except by a run
\* whose outcome a crash erased.
SkippedWereNotSent ==
  \A r \in Recipient : row[r].status = "skipped" => copies[r] <= boots

\* A campaign that does not stop on errors is "dispatched" only when nobody is
\* left to send to, although two runners race to say so.
DispatchedIsDone ==
  \A c \in Campaign \ Halting : camp[c].status = "dispatched" => In(c, {"pending", "sending"}) = {}

\* The messages of a campaign that Meta has accepted, by recipient and number.
Accepted(c) == UNION {{r} \X (1 .. copies[r]) : r \in Rows(c)}

\* However updates of the counters overwrite each other, a campaign never
\* reports more messages sent than Meta has accepted.
NeverOvercounts == \A c \in Campaign : camp[c].sent <= Cardinality(Accepted(c))

\* Claimed rows that no runner works on: left by a batch that raised, or by a
\* recovery that did.
Orphaned(r) ==
  /\ up /\ row[r].status = "sending"
  /\ \A p \in Runner : r \notin job[p].todo \cup job[p].ok \cup job[p].bad

\* A campaign does not stay in "sending", through crashes and cancels, unless
\* a batch (of this or of an earlier campaign) or the recovery has raised and left
\* orphans.
SendingEnds ==
  \A c \in Campaign :
    camp[c].status = "sending" ~> (camp[c].status # "sending" \/ \E r \in Recipient : Orphaned(r))
=============================================================================
