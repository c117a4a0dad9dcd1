------------------------------- MODULE Audience -------------------------------
(***************************************************************************)
(* Phonebooks and a campaign's recipients up to its dispatch:              *)
(* phonebooks_api.py, broadcast_screening.py and the first half of         *)
(* campaigns_api.py.                                                       *)
(*                                                                         *)
(* The steps of a campaign (collect, screen, send) are requests that read  *)
(* the campaign, decide on that copy and write at their commit: only the   *)
(* columns that differ from the copy.  The statements of `send' and their  *)
(* commit are one step.  The dispatch itself is Broadcast's, here one step *)
(* per recipient; cancelling and deleting a campaign are modelled there.   *)
(*                                                                         *)
(* Left out: who owns a list or a campaign, names, agents, parameters and  *)
(* their number, the soft flag of numbers that failed before.              *)
(***************************************************************************)
EXTENDS Naturals, Sequences, FiniteSets

CONSTANTS
  Book,         \* phonebooks
  Mobile,       \* valid numbers, as stored
  Invalid,      \* any text that is not a number
  US,           \* the US numbers
  Request,      \* threads that serve requests
  MaxRecipients,
  MaxBatch,     \* bound: rows of a file in one batch
  MaxEdits,     \* bound: changes of the phonebooks and the opt-outs
  MaxRuns       \* bound: steps of the campaign that are started

ASSUME ConstantsAssumption ==
  /\ IsFiniteSet(Mobile) /\ Invalid \notin Mobile /\ US \subseteq Mobile
  /\ MaxRecipients \in Nat /\ MaxBatch \in Nat /\ MaxEdits \in Nat /\ MaxRuns \in Nat

VARIABLES
  contact,    \* phonebook_contacts: at most one row per book and number
  optout,     \* messaging_opt_outs, written by hand
  camp,       \* the campaign's row
  row,        \* [Mobile -> Status], broadcast_recipients: one row per number
  tx,         \* [Request -> Tx]
  passed,     \* the rows a screening has let through since they were made
  messages,   \* [Mobile -> Nat], messages the campaign sent to a number
  overlapped, \* a request wrote to a campaign that was no longer its copy
  edits, runs

vars == <<contact, optout, camp, row, tx, passed, messages, overlapped, edits, runs>>

Status   == {"absent", "draft", "skipped", "pending", "sent"}
Campaign == [status : {"draft", "screening", "ready", "sending", "dispatched"},
             perRow : BOOLEAN,   \* param_mode: the recipients come from a file
             total : Nat, skipped : Nat]
Batch    == UNION {[1 .. n -> Mobile \cup {Invalid}] : n \in 0 .. MaxBatch}
Tx == [kind : {"none", "build", "import", "screen", "send"}, camp : Campaign,
       row : [Mobile -> Status], from : SUBSET Mobile, batch : Batch, gone : BOOLEAN]

NoRows == [m \in Mobile |-> "absent"]
New(b) == [status |-> "draft", perRow |-> b, total |-> 0, skipped |-> 0]
NoTx   == [kind |-> "none", camp |-> New(FALSE), row |-> NoRows, from |-> {}, batch |-> <<>>,
           gone |-> FALSE]

Rows(r, S) == {m \in Mobile : r[m] \in S}
All(r)     == Rows(r, Status \ {"absent"})

Close(q) == tx' = [tx EXCEPT ![q] = NoTx]
\* Whether the request writes to what it read: gone, if the rows were replaced.
Noted(q) == overlapped' = (overlapped \/ tx[q].gone \/ tx[q].camp # camp \/ tx[q].row # row)
\* A column is written only if it differs from the copy's.
Written(old, new, now) == IF new = old THEN now ELSE new

-----------------------------------------------------------------------------
(* Phonebooks.                                                             *)

Edit == edits < MaxEdits /\ edits' = edits + 1

\* add_contact: refused if the book has the number.
AddContact(b, m) ==
  /\ Edit /\ <<b, m>> \notin contact
  /\ contact' = contact \cup {<<b, m>>}
  /\ UNCHANGED <<optout, camp, row, tx, passed, messages, overlapped, runs>>

\* import_contacts: every row on its own, so that a number the book has already,
\* or twice in the file, is skipped.
ImportContacts(b, S) ==
  /\ Edit
  /\ contact' = contact \cup ({b} \X S)
  /\ UNCHANGED <<optout, camp, row, tx, passed, messages, overlapped, runs>>

\* update_contact: refused if the book has the new number.
UpdateContact(b, m, n) ==
  /\ Edit /\ <<b, m>> \in contact /\ <<b, n>> \notin contact
  /\ contact' = (contact \ {<<b, m>>}) \cup {<<b, n>>}
  /\ UNCHANGED <<optout, camp, row, tx, passed, messages, overlapped, runs>>

DeleteContact(b, m) ==
  /\ Edit /\ <<b, m>> \in contact
  /\ contact' = contact \ {<<b, m>>}
  /\ UNCHANGED <<optout, camp, row, tx, passed, messages, overlapped, runs>>

\* bulk_delete_phonebooks, or delete_phonebook: the contacts go too, the rows of
\* the campaign stay.  A new book may take the name.
DeletePhonebooks(B) ==
  /\ Edit /\ B # {}
  /\ contact' = {c \in contact : c[1] \notin B}
  /\ UNCHANGED <<optout, camp, row, tx, passed, messages, overlapped, runs>>

\* External: somebody opts out, or in again.
Opts(m) ==
  /\ Edit
  /\ optout' = IF m \in optout THEN optout \ {m} ELSE optout \cup {m}
  /\ UNCHANGED <<contact, camp, row, tx, passed, messages, overlapped, runs>>

-----------------------------------------------------------------------------
(* Collecting the recipients.                                              *)

\* Mutant: a campaign that has been sent can be edited for another round.
EditableAgain == {"draft", "screening", "ready", "dispatched"}

\* The states in which the recipients can still be changed.
Editable == {"draft", "screening", "ready"}

Begin(q, kind, from, batch) ==
  /\ tx[q] = NoTx /\ runs < MaxRuns /\ runs' = runs + 1
  /\ tx' = [tx EXCEPT ![q] = [kind |-> kind, camp |-> camp, row |-> row, from |-> from,
                              batch |-> batch, gone |-> FALSE]]
  /\ UNCHANGED <<contact, optout, camp, row, passed, messages, overlapped, edits>>

\* A number in several of the books is one recipient.
BuildBegin(q, B) ==
  LET from == {m \in Mobile : \E b \in B : <<b, m>> \in contact} IN
  /\ ~camp.perRow /\ camp.status \in Editable /\ Cardinality(from) <= MaxRecipients
  /\ Begin(q, "build", from, <<>>)

\* Mutant: the status is left as it is.
CollectedAs(q) == tx[q].camp.status

\* Whoever has new recipients must be screened again.
Collected(q) == "screening"

BuildEnd(q) ==
  LET from == tx[q].from
      old  == tx[q].camp IN
  /\ tx[q].kind = "build"
  /\ row' = [m \in Mobile |-> IF m \in from THEN "draft" ELSE "absent"]
  /\ camp' = [camp EXCEPT !.status  = Written(old.status, Collected(q), @),
                          !.total   = Written(old.total, Cardinality(from), @),
                          !.skipped = Written(old.skipped, 0, @)]
  /\ passed' = {}
  /\ tx' = [r \in Request |-> IF r = q THEN NoTx
                              ELSE [tx[r] EXCEPT !.gone = tx[r].kind # "none"]]
  /\ Noted(q)
  /\ UNCHANGED <<contact, optout, messages, edits, runs>>

ImportBegin(q, batch) ==
  /\ camp.perRow /\ camp.status \in Editable
  /\ Cardinality(All(row)) + Len(batch) <= MaxRecipients
  /\ Begin(q, "import", {}, batch)

\* Mutant: every row of the batch counts, the skipped ones too.
ImportedAll(batch, r) == Len(batch)

\* The numbers of the batch that get a row: the others are reported.
Imported(batch, r) ==
  Cardinality({m \in Mobile : r[m] = "absent" /\ \E i \in DOMAIN batch : batch[i] = m})

ImportEnd(q) ==
  LET old == tx[q].camp
      new == {m \in Mobile : row[m] = "absent" /\ \E i \in DOMAIN tx[q].batch : tx[q].batch[i] = m} IN
  /\ tx[q].kind = "import"
  /\ row' = [m \in Mobile |-> IF m \in new THEN "draft" ELSE row[m]]
  /\ camp' = [camp EXCEPT
       !.status = Written(old.status, Collected(q), @),
       !.total = Written(old.total, Cardinality(All(tx[q].row)) + Imported(tx[q].batch, row), @)]
  /\ Close(q) /\ Noted(q)
  /\ UNCHANGED <<contact, optout, passed, messages, edits, runs>>

-----------------------------------------------------------------------------
(* Screening and sending.                                                  *)

\* from are the numbers that must not be sent to.
ScreenBegin(q) ==
  /\ camp.status \in Editable
  /\ Begin(q, "screen", optout \cup US, <<>>)

Screened(r) == Rows(r, {"draft", "skipped"})

\* A row that is gone makes the UPDATE fail: nothing is written.
ScreenEnd(q) ==
  LET old   == tx[q].row
      S     == Screened(old)
      to(m) == IF m \in tx[q].from THEN "skipped" ELSE "draft"
      fails == tx[q].gone /\ \E m \in S : to(m) # old[m] IN
  /\ tx[q].kind = "screen"
  /\ IF fails THEN UNCHANGED <<row, camp, passed, overlapped>>
     ELSE /\ row' = [m \in Mobile |-> IF m \in S THEN Written(old[m], to(m), row[m]) ELSE row[m]]
          /\ camp' = [camp EXCEPT
               !.status = Written(tx[q].camp.status, "ready", @),
               !.skipped = IF S = {} THEN @
                           ELSE Written(tx[q].camp.skipped, Cardinality(S \cap tx[q].from), @)]
          /\ passed' = IF tx[q].gone THEN passed ELSE passed \cup (S \ tx[q].from)
          /\ Noted(q)
  /\ Close(q)
  /\ UNCHANGED <<contact, optout, messages, edits, runs>>

SendBegin(q) ==
  /\ camp.status = "ready"
  /\ Begin(q, "send", {}, <<>>)

\* Refused if no row is left to send.
SendEnd(q) ==
  LET new == Rows(row, {"draft"}) IN
  /\ tx[q].kind = "send"
  /\ IF new = {} THEN UNCHANGED <<row, camp, overlapped>>
     ELSE /\ row' = [m \in Mobile |-> IF m \in new THEN "pending" ELSE row[m]]
          /\ camp' = [camp EXCEPT !.status = "sending"]
          /\ Noted(q)
  /\ Close(q)
  /\ UNCHANGED <<contact, optout, passed, messages, edits, runs>>

\* The worker (Broadcast).
Dispatch(m) ==
  /\ camp.status = "sending" /\ row[m] = "pending"
  /\ row' = [row EXCEPT ![m] = "sent"]
  /\ messages' = [messages EXCEPT ![m] = @ + 1]
  /\ UNCHANGED <<contact, optout, camp, tx, passed, overlapped, edits, runs>>

Dispatched ==
  /\ camp.status = "sending" /\ Rows(row, {"pending"}) = {}
  /\ camp' = [camp EXCEPT !.status = "dispatched"]
  /\ UNCHANGED <<contact, optout, row, tx, passed, messages, overlapped, edits, runs>>

-----------------------------------------------------------------------------
Init ==
  /\ contact = {} /\ optout = {} /\ passed = {}
  /\ \E b \in BOOLEAN : camp = New(b)
  /\ row = NoRows
  /\ messages = [m \in Mobile |-> 0]
  /\ tx = [q \in Request |-> NoTx]
  /\ overlapped = FALSE /\ edits = 0 /\ runs = 0

Next ==
  \/ \E b \in Book, S \in SUBSET Mobile : ImportContacts(b, S)
  \/ \E b \in Book, m \in Mobile :
       AddContact(b, m) \/ DeleteContact(b, m) \/ \E n \in Mobile : UpdateContact(b, m, n)
  \/ \E B \in SUBSET Book : DeletePhonebooks(B)
  \/ \E m \in Mobile : Opts(m) \/ Dispatch(m)
  \/ Dispatched
  \/ \E q \in Request :
       \/ \E B \in SUBSET Book : BuildBegin(q, B)
       \/ \E batch \in Batch : ImportBegin(q, batch)
       \/ BuildEnd(q) \/ ImportEnd(q)
       \/ ScreenBegin(q) \/ ScreenEnd(q) \/ SendBegin(q) \/ SendEnd(q)

Spec == Init /\ [][Next]_vars

-----------------------------------------------------------------------------
(* Properties.                                                             *)

\* Everything keeps its type (phonebook_contacts, broadcast_campaigns,
\* broadcast_recipients).
TypeOK ==
  /\ contact \subseteq Book \X Mobile /\ optout \subseteq Mobile /\ passed \subseteq Mobile
  /\ camp \in Campaign /\ row \in [Mobile -> Status] /\ tx \in [Request -> Tx]
  /\ messages \in [Mobile -> Nat] /\ overlapped \in BOOLEAN
  /\ edits \in 0 .. MaxEdits /\ runs \in 0 .. MaxRuns

\* Unless two steps of the campaign overlapped, nobody is sent a message whose
\* row no screening let through since it was collected (campaigns_api.py:283,
\* 371, 744).
SendsAreScreened == overlapped \/ Rows(row, {"pending", "sent"}) \subseteq passed

\* Unless two steps overlapped, a number gets one message, however often the
\* recipients are collected, screened and sent, and the row of a sent message
\* stays (campaigns_api.py:224, broadcast_screening.py:83).
OneMessageEach ==
  overlapped \/ \A m \in Mobile : messages[m] <= 1 /\ (messages[m] = 1 => row[m] = "sent")

\* Unless two steps overlapped, the counters of a campaign that is screened or
\* sent are those of its rows, within the limit (campaigns_api.py:282, 743;
\* broadcast_screening.py:146).
CountersAreTheRows ==
  \/ overlapped
  \/ /\ camp.total = Cardinality(All(row)) /\ camp.total <= MaxRecipients
     /\ camp.status \notin {"draft", "screening"} => camp.skipped = Cardinality(Rows(row, {"skipped"}))
=============================================================================
