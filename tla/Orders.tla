------------------------------- MODULE Orders -------------------------------
(***************************************************************************)
(* What a customer's taps do to the services whose progress is a marker in *)
(* the JSON column Service.data: Lizo's orders and payments (app/lizo) and *)
(* ERPNext's invoices (erpnext_webhook.py, _handle_pdf_request).           *)
(*                                                                         *)
(* A handler works on the copy of the row it read and its commit writes    *)
(* the whole column back, so handlers that overlap erase or repeat each    *)
(* other's steps.  A message is on the customer's phone before the commit  *)
(* that stores its row.                                                    *)
(*                                                                         *)
(* Left out: texts, the acknowledgements, receipts that change nothing     *)
(* here, and the attempts of the send job (module ServiceDispatch).        *)
(***************************************************************************)
EXTENDS Naturals, FiniteSets

CONSTANTS
  Order, Payment, Invoice,   \* services: of /lizo/orders, /lizo/payments, /notify
  Lacking,       \* the orders whose payload lacks a field ApproveOrder needs
  Unresolvable,  \* the services whose template cannot be filled or does not exist
  Settings,      \* whether LIZO_APPROVE_ORDER_URL is set, over the restarts
  Worker,        \* threads that handle taps, retries and prefetches
  MaxTaps,       \* bound: taps that reach a handler
  MaxRetries,    \* bound: calls of retry_service
  MaxLosses,     \* bound: transactions rolled back after the call to Meta
  NoService

Service == Order \cup Payment \cup Invoice

ASSUME ServicesAssumption ==
  /\ Order \cap Payment = {} /\ Order \cap Invoice = {} /\ Payment \cap Invoice = {}
  /\ Lacking \subseteq Order /\ Unresolvable \subseteq Service
  /\ NoService \notin Service
ASSUME SettingsAssumption == Settings \subseteq BOOLEAN
\* The threads of the process are finitely many: copies under way are counted.
ASSUME WorkersAssumption == IsFiniteSet(Worker)
ASSUME BoundsAssumption == MaxTaps \in Nat /\ MaxRetries \in Nat /\ MaxLosses \in Nat

VARIABLES
  status,   \* [Service -> Status]
  data,     \* [Service -> SUBSET Marker]: the markers in Service.data
  phone,    \* [Service -> [Template -> Copies]]: what the customer has received
  latest,   \* the invoice created last, all of one customer
  approvals,\* [Service -> Nat]: ApproveOrder rows queued by approve.emit
  inert,    \* the services confirmed while the URL was unset
  refusals, \* [Service -> Nat]: cancellations committed
  tx,       \* [Worker -> Tx]
  stale,    \* [Service -> Nat]: commits of a copy that was no longer current
  taps,     \* the taps that were acted upon
  fetched,  \* the invoices whose prefetch has been started
  tapped, retries, losses

vars == <<status, data, phone, latest, approvals, inert, refusals, tx, stale, taps,
          fetched, tapped, retries, losses>>

Status   == {"absent", "waiting", "sending", "completed", "failed"}
\* liso_confirm_sent_at, lizo_confirmed_at, liso_cancelled_at, pdf_media_id, pdf_sent
Marker   == {"asked", "confirmed", "cancelled", "media", "pdf"}
Template == {"first", "confirm", "document"}
Button   == {"confirm", "cancel", "download"}
\* kept: copies with a Message row; loose: copies whose row is not committed.
Copies   == [kept : Nat, loose : Nat]
Tap      == Service \X Template \X Button
\* adds is the marker the handler sets, sends the message it has sent.
Tx == [svc : Service \cup {NoService}, base : SUBSET Marker,
       adds : Marker \cup {"none"}, sends : Template \cup {"none"}, retry : BOOLEAN]

NoTx == [svc |-> NoService, base |-> {}, adds |-> "none", sends |-> "none", retry |-> FALSE]

Lizo == Order \cup Payment

\* One more copy has left; one of those that left gets its row.
Left(c) == [kept |-> c.kept, loose |-> c.loose + 1]
Kept(c) == [kept |-> c.kept + 1, loose |-> c.loose - 1]

-----------------------------------------------------------------------------
(* From the request to the first message.                                  *)

\* extract: the order's data has what ApproveOrder asks for.
Approvable(s) == s \notin Lacking

\* Mutant: the fields of the approval are not checked.
AcceptsAll(s) == s \notin Unresolvable

Accepts(s) == s \notin Unresolvable /\ Approvable(s)

\* A second request for the same service_id is refused or ignored.
Ingest(s) ==
  /\ status[s] = "absent" /\ Accepts(s)
  /\ status' = [status EXCEPT ![s] = "waiting"]
  /\ latest' = IF s \in Invoice THEN s ELSE latest
  /\ UNCHANGED <<data, phone, approvals, inert, refusals, tx, stale, taps, fetched, tapped, retries, losses>>

\* The send job's call to Meta ...
SendFirst(s) ==
  /\ status[s] = "waiting"
  /\ \/ /\ status' = [status EXCEPT ![s] = "sending"]
        /\ phone' = [phone EXCEPT ![s]["first"] = Left(@)]
     \/ /\ status' = [status EXCEPT ![s] = "failed"]
        /\ UNCHANGED phone
  /\ UNCHANGED <<data, latest, approvals, inert, refusals, tx, stale, taps, fetched, tapped, retries, losses>>

\* ... and its commit: these services ask no questions, so they are complete.
StoreFirst(s) ==
  /\ status[s] = "sending"
  /\ status' = [status EXCEPT ![s] = "completed"]
  /\ phone' = [phone EXCEPT ![s]["first"] = Kept(@)]
  /\ UNCHANGED <<data, latest, approvals, inert, refusals, tx, stale, taps, fetched, tapped, retries, losses>>

\* A failed receipt of a message with a row fails Lizo's services whatever their
\* status, the one a retry has queued again included; during a call to Meta it
\* waits for the send job's row lock, so it comes after StoreFirst.
FailedReceipt(s) ==
  /\ s \in Lizo /\ phone[s]["first"].kept > 0
  /\ status[s] \in {"waiting", "completed"}
  /\ status' = [status EXCEPT ![s] = "failed"]
  /\ UNCHANGED <<data, phone, latest, approvals, inert, refusals, tx, stale, taps, fetched, tapped, retries, losses>>

-----------------------------------------------------------------------------
(* The handlers: what a worker decides on its copy of the row.             *)

\* Mutant: a confirmed order may still be cancelled.
DecidedConfirmed(ms) == {"cancelled"} \cap ms # {}

Decided(ms) == {"confirmed", "cancelled"} \cap ms # {}

\* The marker a tap sets and the message it sends first: handle_tap on an order,
\* _handle_pdf_request on an invoice.  Taps on a payment do nothing.
Effect(s, t, b, ms) ==
  CASE s \in Order /\ ~Decided(ms) /\ t = "first" /\ b = "confirm" /\ "asked" \notin ms
         -> <<"asked", "confirm">>
    [] s \in Order /\ ~Decided(ms) /\ t = "confirm" /\ b = "confirm" -> <<"confirmed", "none">>
    [] s \in Order /\ ~Decided(ms) /\ t = "confirm" /\ b = "cancel"  -> <<"cancelled", "none">>
    [] s \in Invoice /\ b = "download" /\ "pdf" \notin ms -> <<"pdf", "document">>
    [] OTHER -> <<"none", "none">>

\* A worker starts on service s; the message, if any, has left.
Start(w, s, adds, sends, retry) ==
  /\ tx' = [tx EXCEPT ![w] = [svc |-> s, base |-> data[s], adds |-> adds,
                              sends |-> sends, retry |-> retry]]
  /\ phone' = IF sends = "none" THEN phone ELSE [phone EXCEPT ![s][sends] = Left(@)]

\* A send that fails leaves nothing behind: such a tap is not a step here.
TapOn(w, s, t, b) ==
  LET e == Effect(s, t, b, data[s]) IN
  /\ tx[w] = NoTx /\ tapped < MaxTaps
  /\ phone[s][t].kept > 0
  /\ e # <<"none", "none">>
  /\ Start(w, s, e[1], e[2], FALSE)
  /\ taps' = taps \cup {<<s, t, b>>}
  /\ tapped' = tapped + 1
  /\ UNCHANGED <<status, data, latest, approvals, inert, refusals, stale, fetched, retries, losses>>

\* A message without a row leads to no service: the newest invoice is sent.
TapOnLoose(w, s) ==
  /\ tx[w] = NoTx /\ tapped < MaxTaps
  /\ s \in Invoice /\ phone[s]["first"].loose > 0
  /\ "pdf" \notin data[latest]
  /\ Start(w, latest, "pdf", "document", FALSE)
  /\ taps' = taps \cup {<<s, "first", "download">>}
  /\ tapped' = tapped + 1
  /\ UNCHANGED <<status, data, latest, approvals, inert, refusals, stale, fetched, retries, losses>>

\* The background task /notify starts, after it has fetched and uploaded the PDF.
Prefetch(w, s) ==
  /\ tx[w] = NoTx /\ s \in Invoice /\ status[s] # "absent"
  /\ s \notin fetched
  /\ Start(w, s, "media", "none", FALSE)
  /\ fetched' = fetched \cup {s}
  /\ UNCHANGED <<status, data, latest, approvals, inert, refusals, stale, taps, tapped, retries, losses>>

\* retry_service, with a new number, for a service that failed.
Retry(w, s) ==
  /\ tx[w] = NoTx /\ retries < MaxRetries
  /\ s \in Lizo /\ status[s] = "failed"
  /\ Start(w, s, "none", "none", TRUE)
  /\ retries' = retries + 1
  /\ UNCHANGED <<status, data, latest, approvals, inert, refusals, stale, taps, fetched, tapped, losses>>

-----------------------------------------------------------------------------
(* The end of a transaction.                                               *)

\* Mutant: the copy is written back without the new marker.
WrittenBare(t) == t.base

Written(t) == t.base \cup ({t.adds} \ {"none"})

\* approve.emit: without a URL nothing is queued, and the fields are checked again.
Approves(t, url) == t.adds = "confirmed" /\ url /\ Approvable(t.svc)

\* url: whether LIZO_APPROVE_ORDER_URL is set in the process that commits.
Commit(w, url) ==
  LET t == tx[w]
      s == t.svc IN
  /\ t # NoTx
  /\ data' = [data EXCEPT ![s] = Written(t)]
  /\ stale' = [stale EXCEPT ![s] = IF t.base = data[s] THEN @ ELSE @ + 1]
  /\ approvals' = [approvals EXCEPT ![s] = IF Approves(t, url) THEN @ + 1 ELSE @]
  /\ inert' = IF t.adds = "confirmed" /\ ~url THEN inert \cup {s} ELSE inert
  /\ refusals' = [refusals EXCEPT ![s] = IF t.adds = "cancelled" THEN @ + 1 ELSE @]
  /\ phone' = IF t.sends = "none" THEN phone
              ELSE [phone EXCEPT ![s][t.sends] = Kept(@)]
  /\ status' = IF t.retry THEN [status EXCEPT ![s] = "waiting"] ELSE status
  /\ tx' = [tx EXCEPT ![w] = NoTx]
  /\ UNCHANGED <<latest, taps, fetched, tapped, retries, losses>>

\* The transaction is lost; what Meta has accepted stays on the phone.
Rollback(w) ==
  /\ tx[w] # NoTx /\ losses < MaxLosses
  /\ tx' = [tx EXCEPT ![w] = NoTx]
  /\ losses' = losses + 1
  /\ UNCHANGED <<status, data, phone, latest, approvals, inert, refusals, stale, taps, fetched, tapped, retries>>

-----------------------------------------------------------------------------
Init ==
  /\ status = [s \in Service |-> "absent"]
  /\ data = [s \in Service |-> {}]
  /\ phone = [s \in Service |-> [t \in Template |-> [kept |-> 0, loose |-> 0]]]
  /\ latest = NoService
  /\ approvals = [s \in Service |-> 0]
  /\ inert = {}
  /\ refusals = [s \in Service |-> 0]
  /\ tx = [w \in Worker |-> NoTx]
  /\ stale = [s \in Service |-> 0]
  /\ taps = {} /\ fetched = {}
  /\ tapped = 0 /\ retries = 0 /\ losses = 0

Next ==
  \/ \E s \in Service : Ingest(s) \/ SendFirst(s) \/ StoreFirst(s) \/ FailedReceipt(s)
  \/ \E w \in Worker :
       \/ \E s \in Service, t \in {"first", "confirm"}, b \in Button : TapOn(w, s, t, b)
       \/ \E s \in Service : TapOnLoose(w, s) \/ Prefetch(w, s) \/ Retry(w, s)
       \/ \E url \in Settings : Commit(w, url)
       \/ Rollback(w)

Spec == Init /\ [][Next]_vars

-----------------------------------------------------------------------------
(* Properties.                                                             *)

\* Everything keeps its type (the columns and markers of Service.data).
TypeOK ==
  /\ status \in [Service -> Status]
  /\ data \in [Service -> SUBSET Marker]
  /\ phone \in [Service -> [Template -> Copies]]
  /\ latest \in Invoice \cup {NoService}
  /\ approvals \in [Service -> Nat] /\ refusals \in [Service -> Nat]
  /\ inert \subseteq Service
  /\ tx \in [Worker -> Tx]
  /\ stale \in [Service -> Nat]
  /\ taps \subseteq Tap /\ fetched \subseteq Invoice
  /\ tapped \in Nat /\ retries \in Nat /\ losses \in Nat

\* A step guarded by a marker is repeated only after an overlap of handlers erased
\* or missed that marker: approvals, confirmation templates and invoices beyond
\* the first are each accounted for by a stale commit (inbound.py:39, the guards
\* of handle_tap and _handle_pdf_request).
RepeatsNeedOverlap ==
  \A s \in Service :
    /\ approvals[s] <= 1 + stale[s]
    /\ phone[s]["confirm"].kept <= 1 + stale[s]
    /\ phone[s]["document"].kept <= 1 + stale[s]

\* First decision wins: an order is approved and also cancelled only if two taps
\* overlapped (inbound.py:138).
FirstDecisionWins ==
  \A s \in Order : approvals[s] > 0 /\ refusals[s] > 0 => stale[s] > 0

\* An order that says confirmed has an ApproveOrder call queued, or was confirmed
\* while LIZO_APPROVE_ORDER_URL was unset (approve.py:114-122); either way its
\* customer went through both steps: the two checks of the payload agree
\* (validation.py:57) and a button is told apart by its template (inbound.py:79).
ConfirmedIsApproved ==
  \A s \in Service :
    /\ "confirmed" \in data[s] => approvals[s] > 0 \/ s \in inert
    /\ approvals[s] > 0 \/ s \in inert =>
         /\ s \in Order
         /\ <<s, "first", "confirm">> \in taps
         /\ <<s, "confirm", "confirm">> \in taps
=============================================================================
