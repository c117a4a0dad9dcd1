--------------------------- MODULE AudienceProofs ---------------------------
(***************************************************************************)
(* Proofs about Audience, for any phonebooks, numbers and requests: its    *)
(* type, and what a campaign keeps to as long as no two of its steps       *)
(* overlap: whom it sends to, how often, and what it counts.               *)
(***************************************************************************)
EXTENDS Audience, FiniteSetTheorems, TLAPS

\* What a request knows of the campaign it has read.
Informed(t) ==
  /\ t.kind \in {"build", "import", "screen"} => t.camp.status \in Editable
  /\ t.kind = "send" => t.camp.status = "ready"
  /\ t.kind = "build" => Cardinality(t.from) <= MaxRecipients
  /\ t.kind = "import" => Cardinality(All(t.row)) + Len(t.batch) <= MaxRecipients

\* A campaign that can still be edited has sent nothing; one that is ready has
\* been screened; one that has begun to send is within what was let through.
Unsent   == camp.status \in Editable => \A m \in Mobile : row[m] \notin {"pending", "sent"}
Ready    == camp.status = "ready" => \A m \in Mobile : row[m] = "draft" => m \in passed
Passed   == \A m \in Mobile : row[m] \in {"pending", "sent"} => m \in passed
Once     == \A m \in Mobile : messages[m] <= 1 /\ (messages[m] = 1 => row[m] = "sent")

\* The counters.
Total    == camp.total = Cardinality(All(row)) /\ camp.total <= MaxRecipients
Skipped  == camp.status \notin {"draft", "screening"} => camp.skipped = Cardinality(Rows(row, {"skipped"}))
NoneYet  == All(row) = {} => camp.skipped = 0

Agreed == Unsent /\ Ready /\ Passed /\ Once /\ Total /\ Skipped /\ NoneYet

IInv == TypeOK /\ (\A q \in Request : Informed(tx[q])) /\ (overlapped \/ Agreed)

-----------------------------------------------------------------------------
(* Rows and counts.                                                        *)

LEMMA Counts ==
  ASSUME NEW r, NEW S
  PROVE  Rows(r, S) \subseteq Mobile /\ IsFiniteSet(Rows(r, S)) /\ Cardinality(Rows(r, S)) \in Nat
<1>1. Rows(r, S) \in SUBSET Mobile
  BY DEF Rows
<1>2. IsFiniteSet(Rows(r, S))
  BY <1>1, ConstantsAssumption, FS_Subset
<1> QED
  BY <1>1, <1>2, FS_CardinalityType

LEMMA SubCounts ==
  ASSUME NEW S \in SUBSET Mobile
  PROVE  IsFiniteSet(S) /\ Cardinality(S) \in Nat
<1>1. IsFiniteSet(S)
  BY ConstantsAssumption, FS_Subset
<1> QED
  BY <1>1, FS_CardinalityType

LEMMA Blanks == NoRows \in [Mobile -> Status] /\ (\A b \in BOOLEAN : New(b) \in Campaign) /\ NoTx \in Tx
                /\ NoTx.kind = "none"
<1>1. NoRows \in [Mobile -> Status]
  BY DEF NoRows, Status
<1>2. \A b \in BOOLEAN : New(b) \in Campaign
  BY DEF New, Campaign
<1>3. <<>> \in Batch
  <2>1. <<>> \in [1 .. 0 -> Mobile \cup {Invalid}]
    OBVIOUS
  <2>2. 0 \in 0 .. MaxBatch
    BY ConstantsAssumption
  <2> QED
    BY <2>1, <2>2 DEF Batch
<1> QED
  BY <1>1, <1>2, <1>3 DEF NoTx, Tx

\* A file brings in at most as many recipients as it has rows.
LEMMA FileLimit ==
  ASSUME NEW batch \in Batch, NEW N, N = {m \in Mobile : \E i \in DOMAIN batch : batch[i] = m}
  PROVE  Len(batch) \in Nat /\ IsFiniteSet(N) /\ Cardinality(N) \in Nat /\ Cardinality(N) <= Len(batch)
<1>1. PICK n \in 0 .. MaxBatch : batch \in [1 .. n -> Mobile \cup {Invalid}]
  BY DEF Batch
<1>2. n \in Nat /\ Len(batch) = n /\ DOMAIN batch = 1 .. n
  BY <1>1, ConstantsAssumption
<1>3. PICK D : D = {i \in 1 .. n : batch[i] \in Mobile}
  OBVIOUS
<1>4. IsFiniteSet(1 .. n) /\ Cardinality(1 .. n) = n
  BY <1>2, FS_Interval
<1>5. IsFiniteSet(D) /\ Cardinality(D) <= n /\ Cardinality(D) \in Nat
  <2>1. D \in SUBSET (1 .. n)
    BY <1>3
  <2> QED
    BY <1>4, <2>1, FS_Subset, FS_CardinalityType
<1>6. PICK g : g = [i \in D |-> batch[i]]
  OBVIOUS
<1>7. g \in Surjection(D, N)
  BY <1>2, <1>3, <1>6 DEF Surjection
<1>8. IsFiniteSet(N) /\ Cardinality(N) <= Cardinality(D)
  BY <1>5, <1>7, FS_Surjection
<1>9. Cardinality(N) \in Nat
  BY <1>8, FS_CardinalityType
<1> QED
  BY <1>2, <1>5, <1>8, <1>9

-----------------------------------------------------------------------------
(* Requests.                                                               *)

TxOK == tx \in [Request -> Tx] /\ \A q \in Request : Informed(tx[q])

LEMMA Closed == ASSUME TxOK, NEW q \in Request, Close(q) PROVE TxOK'
<1>1. PICK t \in Tx : t = NoTx /\ t.kind = "none"
  BY Blanks
<1>2. Informed(t)
  BY <1>1 DEF Informed
<1>3. tx' = [tx EXCEPT ![q] = t] /\ tx \in [Request -> Tx]
  BY <1>1 DEF Close, TxOK
<1>4. tx' \in [Request -> Tx]
  BY <1>3
<1>5. \A r \in Request : tx'[r] = IF r = q THEN t ELSE tx[r]
  BY <1>3
<1> QED
  BY <1>2, <1>4, <1>5 DEF TxOK

LEMMA Begins ==
  ASSUME IInv, NEW q \in Request, NEW kind \in {"build", "import", "screen", "send"},
         NEW from \in SUBSET Mobile, NEW batch \in Batch, Begin(q, kind, from, batch),
         kind \in {"build", "import", "screen"} => camp.status \in Editable,
         kind = "send" => camp.status = "ready",
         kind = "build" => Cardinality(from) <= MaxRecipients,
         kind = "import" => Cardinality(All(row)) + Len(batch) <= MaxRecipients
  PROVE  IInv'
<1>1. PICK t : t = [kind |-> kind, camp |-> camp, row |-> row, from |-> from, batch |-> batch,
                    gone |-> FALSE]
  OBVIOUS
<1>2. t \in Tx
  BY <1>1 DEF IInv, TypeOK, Tx
<1>3. Informed(t)
  BY <1>1 DEF Informed
<1>4. tx' = [tx EXCEPT ![q] = t] /\ tx \in [Request -> Tx]
  BY <1>1 DEF Begin, IInv, TypeOK
<1>5. tx' \in [Request -> Tx]
  BY <1>2, <1>4
<1>6. \A r \in Request : tx'[r] = IF r = q THEN t ELSE tx[r]
  BY <1>4
<1>7. \A r \in Request : Informed(tx'[r])
  BY <1>3, <1>6 DEF IInv
<1>8. TypeOK'
  BY <1>5, ConstantsAssumption DEF IInv, TypeOK, Begin
<1>9. Agreed => Agreed'
  BY DEF Agreed, Unsent, Ready, Passed, Once, Total, Skipped, NoneYet, Begin
<1> QED
  BY <1>7, <1>8, <1>9 DEF IInv, Begin

LEMMA StepsBegin ==
  ASSUME IInv, NEW q \in Request
  PROVE  /\ \A B \in SUBSET Book : BuildBegin(q, B) => IInv'
         /\ \A batch \in Batch : ImportBegin(q, batch) => IInv'
         /\ ScreenBegin(q) => IInv'
         /\ SendBegin(q) => IInv'
<1>1. <<>> \in Batch
  BY Blanks DEF NoTx, Tx
<1>2. ASSUME NEW B \in SUBSET Book, BuildBegin(q, B) PROVE IInv'
  <2>1. PICK from \in SUBSET Mobile : from = {m \in Mobile : \E b \in B : <<b, m>> \in contact}
    OBVIOUS
  <2> QED
    BY <1>1, <1>2, <2>1, Begins DEF BuildBegin
<1>3. ASSUME NEW batch \in Batch, ImportBegin(q, batch) PROVE IInv'
  BY <1>3, Begins DEF ImportBegin
<1>4. ASSUME ScreenBegin(q) PROVE IInv'
  <2>1. optout \cup US \in SUBSET Mobile
    BY ConstantsAssumption DEF IInv, TypeOK
  <2> QED
    BY <1>1, <1>4, <2>1, Begins DEF ScreenBegin
<1>5. ASSUME SendBegin(q) PROVE IInv'
  BY <1>1, <1>5, Begins DEF SendBegin
<1> QED
  BY <1>2, <1>3, <1>4, <1>5

\* The phonebooks and the opt-outs may change at any time.
LEMMA Elsewhere ==
  ASSUME IInv, contact' \subseteq Book \X Mobile, optout' \subseteq Mobile, edits' \in 0 .. MaxEdits,
         UNCHANGED <<camp, row, tx, passed, messages, overlapped, runs>>
  PROVE  IInv'
<1>1. TypeOK'
  BY DEF IInv, TypeOK
<1>2. Agreed => Agreed'
  BY DEF Agreed, Unsent, Ready, Passed, Once, Total, Skipped, NoneYet
<1> QED
  BY <1>1, <1>2 DEF IInv

LEMMA PhonebookSteps ==
  ASSUME IInv
  PROVE  /\ \A b \in Book, S \in SUBSET Mobile : ImportContacts(b, S) => IInv'
         /\ \A b \in Book, m \in Mobile : AddContact(b, m) => IInv'
         /\ \A b \in Book, m \in Mobile : DeleteContact(b, m) => IInv'
         /\ \A b \in Book, m, n \in Mobile : UpdateContact(b, m, n) => IInv'
         /\ \A B \in SUBSET Book : DeletePhonebooks(B) => IInv'
         /\ \A m \in Mobile : Opts(m) => IInv'
<1>1. contact \subseteq Book \X Mobile /\ optout \subseteq Mobile /\ edits \in 0 .. MaxEdits
  BY DEF IInv, TypeOK
<1>2. Edit => edits' \in 0 .. MaxEdits
  BY <1>1, ConstantsAssumption DEF Edit
<1>3. ASSUME NEW b \in Book, NEW S \in SUBSET Mobile, ImportContacts(b, S) PROVE IInv'
  <2>1. contact' \subseteq Book \X Mobile
    BY <1>1, <1>3 DEF ImportContacts
  <2> QED
    BY <1>1, <1>2, <1>3, <2>1, Elsewhere DEF ImportContacts
<1>4. ASSUME NEW b \in Book, NEW m \in Mobile, AddContact(b, m) PROVE IInv'
  BY <1>1, <1>2, <1>4, Elsewhere DEF AddContact
<1>5. ASSUME NEW b \in Book, NEW m \in Mobile, DeleteContact(b, m) PROVE IInv'
  BY <1>1, <1>2, <1>5, Elsewhere DEF DeleteContact
<1>6. ASSUME NEW b \in Book, NEW m \in Mobile, NEW n \in Mobile, UpdateContact(b, m, n) PROVE IInv'
  BY <1>1, <1>2, <1>6, Elsewhere DEF UpdateContact
<1>7. ASSUME NEW B \in SUBSET Book, DeletePhonebooks(B) PROVE IInv'
  BY <1>1, <1>2, <1>7, Elsewhere DEF DeletePhonebooks
<1>8. ASSUME NEW m \in Mobile, Opts(m) PROVE IInv'
  BY <1>1, <1>2, <1>8, Elsewhere DEF Opts
<1> QED
  BY <1>3, <1>4, <1>5, <1>6, <1>7, <1>8

-----------------------------------------------------------------------------
(* The steps of the campaign end.                                          *)

\* A request that is not noted has read what it writes to.
LEMMA Unnoted ==
  ASSUME IInv, NEW q \in Request, Noted(q), ~overlapped'
  PROVE  Agreed /\ tx[q].camp = camp /\ tx[q].row = row /\ ~tx[q].gone
BY DEF Noted, IInv

LEMMA NotedType == ASSUME TypeOK, NEW q \in Request, Noted(q) PROVE overlapped' \in BOOLEAN
BY DEF TypeOK, Noted, Tx

LEMMA Frame ==
  ASSUME IInv, TxOK', UNCHANGED <<contact, optout, edits, runs>>, messages' \in [Mobile -> Nat],
         camp' \in Campaign, row' \in [Mobile -> Status], passed' \subseteq Mobile,
         overlapped' \in BOOLEAN, ~overlapped' => Agreed'
  PROVE  IInv'
BY DEF IInv, TypeOK, TxOK

LEMMA Builds == ASSUME IInv, NEW q \in Request, BuildEnd(q) PROVE IInv'
<1>1. TypeOK /\ TxOK
  BY DEF IInv, TypeOK, TxOK
<1>2. PICK t \in Tx : t = tx[q] /\ Informed(t) /\ t.kind = "build"
  BY <1>1 DEF TxOK, BuildEnd
<1>3. PICK old \in Campaign, from \in SUBSET Mobile : old = t.camp /\ from = t.from
  BY <1>2 DEF Tx
<1>4. PICK n \in Nat : n = Cardinality(from)
  BY <1>3, SubCounts
<1>5. PICK c \in Campaign : c = camp
  BY <1>1 DEF TypeOK
<1>6. PICK d : d = [c EXCEPT !.status  = Written(old.status, "screening", c.status),
                             !.total   = Written(old.total, n, c.total),
                             !.skipped = Written(old.skipped, 0, c.skipped)]
  OBVIOUS
<1>7. d \in Campaign /\ (old = c => d.status = "screening" /\ d.total = n /\ d.skipped = 0)
  BY <1>4, <1>5, <1>6 DEF Campaign, Written
<1>8. camp' = d
  BY <1>2, <1>3, <1>4, <1>5, <1>6 DEF BuildEnd, Collected, Campaign
<1>9. row' = [m \in Mobile |-> IF m \in from THEN "draft" ELSE "absent"]
  BY <1>2, <1>3 DEF BuildEnd
<1>10. row' \in [Mobile -> Status] /\ \A m \in Mobile : row'[m] \in {"draft", "absent"}
  BY <1>9 DEF Status
<1>11. TxOK'
  <2>1. \A r \in Request : tx'[r] = IF r = q THEN NoTx ELSE [tx[r] EXCEPT !.gone = tx[r].kind # "none"]
    BY DEF BuildEnd
  <2>2. ASSUME NEW r \in Request PROVE tx'[r] \in Tx /\ Informed(tx'[r])
    <3>1. CASE r = q
      BY <2>1, <3>1, Blanks DEF Informed
    <3>2. CASE r # q
      <4>1. PICK z \in Tx : z = tx[r] /\ Informed(z)
        BY <1>1 DEF TxOK
      <4>2. PICK y : y = [z EXCEPT !.gone = z.kind # "none"]
        OBVIOUS
      <4>3. y \in Tx /\ y.kind = z.kind /\ y.camp = z.camp /\ y.row = z.row /\ y.from = z.from /\ y.batch = z.batch
        BY <4>2 DEF Tx
      <4>4. tx'[r] = y
        BY <2>1, <3>2, <4>1, <4>2
      <4> QED
        BY <4>1, <4>3, <4>4 DEF Informed
    <3> QED
      BY <3>1, <3>2
  <2>3. tx' \in [Request -> Tx]
    BY <2>2 DEF BuildEnd
  <2> QED
    BY <2>2, <2>3 DEF TxOK
<1>12. ASSUME ~overlapped' PROVE Agreed'
  <2>1. Agreed /\ old = c /\ t.camp = c
    BY <1>2, <1>3, <1>5, <1>12, Unnoted DEF BuildEnd
  <2>2. c.status \in Editable /\ n <= MaxRecipients
    BY <1>2, <1>3, <1>4, <2>1 DEF Informed
  <2>3. camp'.status = "screening" /\ camp'.total = n /\ camp'.skipped = 0
    BY <1>7, <1>8, <2>1
  <2>4. \A m \in Mobile : messages'[m] <= 1 /\ messages'[m] # 1
    BY <1>5, <2>1, <2>2 DEF Agreed, Unsent, Once, BuildEnd
  <2>5. Unsent' /\ Ready' /\ Passed' /\ Once'
    BY <1>10, <2>3, <2>4 DEF Unsent, Ready, Passed, Once
  <2>6. All(row') = from
    BY <1>9 DEF All, Rows, Status
  <2>7. Total' /\ Skipped' /\ NoneYet'
    BY <1>4, <2>2, <2>3, <2>6 DEF Total, Skipped, NoneYet
  <2> QED
    BY <2>5, <2>7 DEF Agreed
<1>13. overlapped' \in BOOLEAN
  BY <1>1, NotedType DEF BuildEnd
<1>14. messages' \in [Mobile -> Nat] /\ passed' \subseteq Mobile /\ UNCHANGED <<contact, optout, edits, runs>>
  BY <1>1 DEF BuildEnd, TypeOK
<1> QED
  BY <1>7, <1>8, <1>10, <1>11, <1>12, <1>13, <1>14, Frame

LEMMA Imports == ASSUME IInv, NEW q \in Request, ImportEnd(q) PROVE IInv'
<1>1. TypeOK /\ TxOK
  BY DEF IInv, TypeOK, TxOK
<1>2. PICK t \in Tx : t = tx[q] /\ Informed(t) /\ t.kind = "import"
  BY <1>1 DEF TxOK, ImportEnd
<1>3. PICK old \in Campaign, batch \in Batch, copy \in [Mobile -> Status] : old = t.camp /\ batch = t.batch /\ copy = t.row
  BY <1>2 DEF Tx
<1>4. PICK c \in Campaign, r \in [Mobile -> Status] : c = camp /\ r = row
  BY <1>1 DEF TypeOK
<1>5. PICK new \in SUBSET Mobile : new = {m \in Mobile : r[m] = "absent" /\ \E i \in DOMAIN batch : batch[i] = m}
  OBVIOUS
<1>6. PICK k \in Nat, a \in Nat : k = Cardinality(new) /\ a = Cardinality(All(copy))
  BY SubCounts, Counts DEF All
<1>7. PICK d : d = [c EXCEPT !.status = Written(old.status, "screening", c.status),
                             !.total  = Written(old.total, a + k, c.total)]
  OBVIOUS
<1>8. d \in Campaign /\ d.skipped = c.skipped /\ (old = c => d.status = "screening" /\ d.total = a + k)
  <2>1. PICK n \in Nat : n = a + k
    BY <1>6
  <2>2. d = [c EXCEPT !.status = Written(old.status, "screening", c.status),
                      !.total  = Written(old.total, n, c.total)]
    BY <1>7, <2>1
  <2>3. d \in Campaign /\ d.skipped = c.skipped /\ (old = c => d.status = "screening" /\ d.total = n)
    BY <1>4, <2>2 DEF Campaign, Written
  <2> QED
    BY <2>1, <2>3
<1>9. Imported(batch, r) = k
  BY <1>5, <1>6 DEF Imported
<1>10. camp' = d
  BY <1>2, <1>3, <1>4, <1>6, <1>7, <1>9 DEF ImportEnd, Collected, Campaign
<1>11. row' = [m \in Mobile |-> IF m \in new THEN "draft" ELSE r[m]]
  BY <1>2, <1>3, <1>4, <1>5 DEF ImportEnd
<1>12. row' \in [Mobile -> Status] /\ \A m \in Mobile : row'[m] = "draft" \/ row'[m] = r[m]
  BY <1>4, <1>11 DEF Status
<1>13. TxOK'
  BY <1>1, Closed DEF ImportEnd
<1>14. ASSUME ~overlapped' PROVE Agreed'
  <2>1. Agreed /\ old = c /\ t.camp = c /\ copy = r
    BY <1>2, <1>3, <1>4, <1>14, Unnoted DEF ImportEnd
  <2>2. c.status \in Editable /\ a + Len(batch) <= MaxRecipients
    BY <1>2, <1>3, <1>6, <2>1 DEF Informed
  <2>3. camp'.status = "screening" /\ camp'.total = a + k /\ camp'.skipped = c.skipped
    BY <1>8, <1>10, <2>1
  <2>4. (\A m \in Mobile : r[m] \notin {"pending", "sent"}) /\ UNCHANGED <<messages, passed>>
    BY <1>4, <2>1, <2>2 DEF Agreed, Unsent, ImportEnd
  <2>5. \A m \in Mobile : row'[m] \notin {"pending", "sent"}
    BY <1>12, <2>4
  <2>6. \A m \in Mobile : messages[m] <= 1 /\ messages[m] # 1
    BY <1>4, <2>1, <2>4 DEF Agreed, Once
  <2>7. Unsent' /\ Ready' /\ Passed' /\ Once'
    BY <2>3, <2>4, <2>5, <2>6 DEF Unsent, Ready, Passed, Once
  <2>8. All(row') = All(r) \cup new /\ All(r) \cap new = {}
    BY <1>5, <1>11 DEF All, Rows, Status
  <2>9. Cardinality(All(row')) = a + k
    <3>1. PICK X : X = All(r)
      OBVIOUS
    <3>2. IsFiniteSet(X) /\ IsFiniteSet(new) /\ Cardinality(X) = a /\ X \cap new = {} /\ All(row') = X \cup new
      BY <1>6, <2>1, <2>8, <3>1, Counts, SubCounts DEF All
    <3>3. Cardinality(X \cup new) = a + k - Cardinality({})
      BY <1>6, <3>2, FS_Union
    <3> QED
      BY <3>2, <3>3, FS_EmptySet
  <2>10. k <= Len(batch) /\ Len(batch) \in Nat
    <3>1. PICK N : N = {m \in Mobile : \E i \in DOMAIN batch : batch[i] = m}
      OBVIOUS
    <3>2. Len(batch) \in Nat /\ IsFiniteSet(N) /\ Cardinality(N) \in Nat /\ Cardinality(N) <= Len(batch)
      BY <3>1, FileLimit
    <3>3. new \in SUBSET N
      BY <1>5, <3>1
    <3>4. k <= Cardinality(N)
      BY <1>6, <3>2, <3>3, FS_Subset
    <3> QED
      BY <3>2, <3>4
  <2>11. Total' /\ Skipped'
    BY <2>2, <2>3, <2>9, <2>10, ConstantsAssumption DEF Total, Skipped
  <2>12. NoneYet'
    <3>1. All(row') = {} => All(r) = {}
      BY <2>8
    <3>2. All(r) = {} => c.skipped = 0
      BY <1>4, <2>1 DEF Agreed, NoneYet
    <3> QED
      BY <2>3, <3>1, <3>2 DEF NoneYet
  <2> QED
    BY <2>7, <2>11, <2>12 DEF Agreed
<1>15. overlapped' \in BOOLEAN
  BY <1>1, NotedType DEF ImportEnd
<1>16. messages' \in [Mobile -> Nat] /\ passed' \subseteq Mobile /\ UNCHANGED <<contact, optout, edits, runs>>
  BY <1>1 DEF ImportEnd, TypeOK
<1> QED
  BY <1>8, <1>10, <1>12, <1>13, <1>14, <1>15, <1>16, Frame

LEMMA Screens == ASSUME IInv, NEW q \in Request, ScreenEnd(q) PROVE IInv'
<1>1. TypeOK /\ TxOK
  BY DEF IInv, TypeOK, TxOK
<1>2. PICK t \in Tx : t = tx[q] /\ Informed(t) /\ t.kind = "screen"
  BY <1>1 DEF TxOK, ScreenEnd
<1>3. PICK copy \in [Mobile -> Status], own \in Campaign, from \in SUBSET Mobile :
        copy = t.row /\ own = t.camp /\ from = t.from
  BY <1>2 DEF Tx
<1>4. PICK c \in Campaign, r \in [Mobile -> Status] : c = camp /\ r = row
  BY <1>1 DEF TypeOK
<1>5. PICK S \in SUBSET Mobile : S = Screened(copy)
  BY DEF Screened, Rows
<1>6. PICK n \in Nat : n = Cardinality(S \cap from)
  BY SubCounts
<1>7. TxOK' /\ UNCHANGED <<contact, optout, messages, edits, runs>>
  BY <1>1, Closed DEF ScreenEnd
<1> DEFINE to(m) == IF m \in from THEN "skipped" ELSE "draft"
<1>8. CASE UNCHANGED <<row, camp, passed, overlapped>>
  <2>1. Agreed => Agreed'
    BY <1>7, <1>8 DEF Agreed, Unsent, Ready, Passed, Once, Total, Skipped, NoneYet
  <2> QED
    BY <1>1, <1>7, <1>8, <2>1, Frame DEF IInv, TypeOK
<1>9. CASE /\ row' = [m \in Mobile |-> IF m \in S THEN Written(copy[m], to(m), r[m]) ELSE r[m]]
           /\ camp' = [c EXCEPT !.status  = Written(own.status, "ready", c.status),
                                !.skipped = IF S = {} THEN c.skipped
                                            ELSE Written(own.skipped, n, c.skipped)]
           /\ passed' = IF t.gone THEN passed ELSE passed \cup (S \ from)
           /\ Noted(q)
  <2>1. camp' \in Campaign /\ camp'.total = c.total
    BY <1>4, <1>6, <1>9 DEF Campaign, Written
  <2>2. row' \in [Mobile -> Status]
    BY <1>4, <1>9 DEF Status, Written
  <2>3. passed' \subseteq Mobile /\ overlapped' \in BOOLEAN
    BY <1>1, <1>9, NotedType DEF TypeOK
  <2>4. ASSUME ~overlapped' PROVE Agreed'
    <3>1. Agreed /\ own = c /\ copy = r /\ ~t.gone
      BY <1>2, <1>3, <1>4, <1>9, <2>4, Unnoted
    <3>2. c.status \in Editable
      BY <1>2, <1>3, <3>1 DEF Informed
    <3>3. /\ \A m \in Mobile : row'[m] = IF m \in S THEN to(m) ELSE r[m]
          /\ camp'.status = "ready"
          /\ camp'.skipped = IF S = {} THEN c.skipped ELSE n
          /\ passed' = passed \cup (S \ from)
      BY <1>4, <1>9, <3>1 DEF Written, Campaign
    <3>4. \A m \in Mobile : r[m] \notin {"pending", "sent"}
      BY <1>4, <3>1, <3>2 DEF Agreed, Unsent
    <3>5. \A m \in Mobile : m \in S <=> r[m] \in {"draft", "skipped"}
      BY <1>5, <3>1 DEF Screened, Rows
    <3>6. \A m \in Mobile : row'[m] \in {"draft", "skipped", "absent"} /\ (row'[m] = "absent" <=> r[m] = "absent")
      BY <1>4, <3>3, <3>4, <3>5 DEF Status
    <3>7. \A m \in Mobile : messages'[m] <= 1 /\ messages'[m] # 1
      BY <1>4, <1>7, <3>1, <3>4 DEF Agreed, Once
    <3>8. \A m \in Mobile : row'[m] = "draft" => m \in S \ from
      BY <3>3, <3>5
    <3>9. Unsent' /\ Ready' /\ Passed' /\ Once'
      BY <3>3, <3>6, <3>7, <3>8 DEF Unsent, Ready, Passed, Once
    <3>10. All(row') = All(r)
      BY <1>4, <2>2, <3>6 DEF All, Rows, Status
    <3>11. Rows(row', {"skipped"}) = S \cap from
      BY <3>3, <3>5 DEF Rows
    <3>12. S = {} => All(r) = {}
      BY <1>4, <3>4, <3>5 DEF All, Rows, Status
    <3>13. c.total = Cardinality(All(r)) /\ c.total <= MaxRecipients /\ (All(r) = {} => c.skipped = 0)
      BY <1>4, <3>1 DEF Agreed, Total, NoneYet
    <3>14. Total'
      BY <2>1, <3>10, <3>13 DEF Total
    <3>15. camp'.skipped = n
      <4>1. CASE S = {}
        <5>1. S \cap from = {}
          BY <4>1
        <5>2. n = 0
          BY <1>6, <5>1, FS_EmptySet
        <5> QED
          BY <3>3, <3>12, <3>13, <4>1, <5>2
      <4>2. CASE S # {}
        BY <3>3, <4>2
      <4> QED
        BY <4>1, <4>2
    <3>16. Skipped'
      BY <1>6, <3>11, <3>15 DEF Skipped
    <3>17. NoneYet'
      <4>1. S # {} => All(r) # {}
        BY <3>5 DEF All, Rows, Status
      <4> QED
        BY <3>3, <3>10, <3>13, <4>1 DEF NoneYet
    <3> QED
      BY <3>9, <3>14, <3>16, <3>17 DEF Agreed
  <2> QED
    BY <1>1, <1>7, <2>1, <2>2, <2>3, <2>4, Frame DEF TypeOK
<1> QED
  BY <1>2, <1>3, <1>4, <1>5, <1>6, <1>8, <1>9 DEF ScreenEnd

\* What the send call and the worker do to the rows and to the campaign's status.
LEMMA Sends == ASSUME IInv, NEW q \in Request, SendEnd(q) PROVE IInv'
<1>1. TypeOK /\ TxOK
  BY DEF IInv, TypeOK, TxOK
<1>2. PICK t \in Tx : t = tx[q] /\ Informed(t) /\ t.kind = "send"
  BY <1>1 DEF TxOK, SendEnd
<1>3. PICK c \in Campaign, r \in [Mobile -> Status] : c = camp /\ r = row
  BY <1>1 DEF TypeOK
<1>4. TxOK' /\ UNCHANGED <<contact, optout, passed, messages, edits, runs>>
  BY <1>1, Closed DEF SendEnd
<1>5. CASE UNCHANGED <<row, camp, overlapped>>
  <2>1. Agreed => Agreed'
    BY <1>4, <1>5 DEF Agreed, Unsent, Ready, Passed, Once, Total, Skipped, NoneYet
  <2> QED
    BY <1>1, <1>4, <1>5, <2>1, Frame DEF IInv, TypeOK
<1>6. CASE /\ row' = [m \in Mobile |-> IF m \in Rows(r, {"draft"}) THEN "pending" ELSE r[m]]
           /\ camp' = [c EXCEPT !.status = "sending"]
           /\ Noted(q)
  <2>1. camp' \in Campaign /\ camp'.status = "sending" /\ camp'.total = c.total /\ camp'.skipped = c.skipped
    BY <1>6 DEF Campaign
  <2>2. row' \in [Mobile -> Status] /\ \A m \in Mobile : row'[m] = IF r[m] = "draft" THEN "pending" ELSE r[m]
    BY <1>3, <1>6 DEF Rows, Status
  <2>3. ASSUME ~overlapped' PROVE Agreed'
    <3>1. Agreed /\ t.camp = c
      BY <1>2, <1>3, <1>6, <2>3, Unnoted
    <3>2. c.status = "ready"
      BY <1>2, <3>1 DEF Informed
    <3>3. All(row') = All(r) /\ Rows(row', {"skipped"}) = Rows(r, {"skipped"})
      BY <1>3, <2>2 DEF All, Rows, Status
    <3>4. (\A m \in Mobile : r[m] = "draft" => m \in passed) /\ Passed /\ Once /\ Total /\ Skipped /\ NoneYet
      BY <1>3, <3>1, <3>2 DEF Agreed, Ready
    <3>5. Passed'
      BY <1>3, <1>4, <2>2, <3>4 DEF Passed
    <3>6. Once'
      BY <1>3, <1>4, <2>2, <3>4 DEF Once
    <3>7. Total' /\ Skipped' /\ NoneYet'
      BY <1>3, <2>1, <3>2, <3>3, <3>4 DEF Total, Skipped, NoneYet
    <3> QED
      BY <2>1, <3>5, <3>6, <3>7 DEF Agreed, Unsent, Ready, Editable
  <2> QED
    BY <1>1, <1>4, <1>6, <2>1, <2>2, <2>3, Frame, NotedType DEF TypeOK
<1> QED
  BY <1>3, <1>5, <1>6 DEF SendEnd

LEMMA WorkerSteps ==
  ASSUME IInv
  PROVE  /\ \A m \in Mobile : Dispatch(m) => IInv'
         /\ Dispatched => IInv'
<1>1. TypeOK /\ TxOK
  BY DEF IInv, TypeOK, TxOK
<1>2. tx' = tx => TxOK'
  BY <1>1 DEF TxOK
<1>3. ASSUME NEW k \in Mobile, Dispatch(k) PROVE IInv'
  <2>1. PICK r \in [Mobile -> Status] : r = row
    BY <1>1 DEF TypeOK
  <2>2. r[k] = "pending" /\ camp.status = "sending" /\ row' = [r EXCEPT ![k] = "sent"]
        /\ UNCHANGED <<contact, optout, camp, tx, passed, overlapped, edits, runs>>
    BY <1>3, <2>1 DEF Dispatch
  <2>3. row' \in [Mobile -> Status] /\ \A m \in Mobile : row'[m] = IF m = k THEN "sent" ELSE r[m]
    BY <2>1, <2>2 DEF Status
  <2>4. messages' \in [Mobile -> Nat] /\ \A m \in Mobile : messages'[m] = messages[m] + (IF m = k THEN 1 ELSE 0)
    <3>1. messages \in [Mobile -> Nat] /\ messages' = [messages EXCEPT ![k] = @ + 1]
      BY <1>1, <1>3 DEF TypeOK, Dispatch
    <3> QED
      BY <3>1
  <2>5. ASSUME Agreed PROVE Agreed'
    <3>1. messages[k] = 0
      BY <1>1, <2>1, <2>2, <2>5 DEF Agreed, Once, TypeOK
    <3>2. Once'
      <4>1. ASSUME NEW m \in Mobile PROVE messages'[m] <= 1 /\ (messages'[m] = 1 => row'[m] = "sent")
        <5>1. CASE m = k
          BY <2>3, <2>4, <3>1, <5>1
        <5>2. CASE m # k
          <6>1. messages'[m] = messages[m] /\ row'[m] = row[m]
            BY <1>1, <2>1, <2>3, <2>4, <5>2 DEF TypeOK
          <6> QED
            BY <2>5, <6>1 DEF Agreed, Once
        <5> QED
          BY <5>1, <5>2
      <4> QED
        BY <4>1 DEF Once
    <3>3. Passed'
      BY <2>1, <2>2, <2>3, <2>5 DEF Agreed, Passed
    <3>4. All(row') = All(r) /\ Rows(row', {"skipped"}) = Rows(r, {"skipped"})
      BY <2>2, <2>3 DEF All, Rows, Status
    <3>5. Total' /\ Skipped' /\ NoneYet'
      BY <2>1, <2>2, <2>5, <3>4 DEF Agreed, Total, Skipped, NoneYet
    <3> QED
      BY <2>2, <3>2, <3>3, <3>5 DEF Agreed, Unsent, Ready, Editable
  <2> QED
    BY <1>1, <1>2, <2>2, <2>3, <2>4, <2>5, Frame DEF IInv, TypeOK
<1>4. ASSUME Dispatched PROVE IInv'
  <2>1. camp.status = "sending" /\ Rows(row, {"pending"}) = {} /\ camp' = [camp EXCEPT !.status = "dispatched"]
        /\ UNCHANGED <<contact, optout, row, tx, passed, messages, overlapped, edits, runs>>
    BY <1>4 DEF Dispatched
  <2>2. camp' \in Campaign /\ camp'.status = "dispatched" /\ camp'.total = camp.total /\ camp'.skipped = camp.skipped
    BY <1>1, <2>1 DEF TypeOK, Campaign
  <2>3. Agreed => Agreed'
    BY <2>1, <2>2 DEF Agreed, Unsent, Ready, Passed, Once, Total, Skipped, NoneYet, Editable
  <2> QED
    BY <1>1, <1>2, <2>1, <2>2, <2>3, Frame DEF IInv, TypeOK
<1> QED
  BY <1>3, <1>4

-----------------------------------------------------------------------------
(* The invariant and the theorems.                                         *)

LEMMA InitInv == ASSUME Init PROVE IInv
<1>1. PICK b \in BOOLEAN : camp = New(b)
  BY DEF Init
<1>2. TypeOK
  <2>1. camp \in Campaign /\ row \in [Mobile -> Status] /\ tx \in [Request -> Tx]
    BY <1>1, Blanks DEF Init
  <2>2. messages \in [Mobile -> Nat] /\ 0 \in 0 .. MaxEdits /\ 0 \in 0 .. MaxRuns
    BY ConstantsAssumption DEF Init
  <2> QED
    BY <2>1, <2>2 DEF Init, TypeOK
<1>3. \A q \in Request : Informed(tx[q])
  BY Blanks DEF Init, Informed
<1>4. \A m \in Mobile : row[m] = "absent" /\ messages[m] = 0
  BY DEF Init, NoRows
<1>5. camp.status = "draft" /\ camp.total = 0 /\ camp.skipped = 0
  BY <1>1 DEF New
<1>6. All(row) = {}
  BY <1>4 DEF All, Rows
<1>7. Total /\ Skipped /\ NoneYet
  BY <1>5, <1>6, FS_EmptySet, ConstantsAssumption DEF Total, Skipped, NoneYet
<1>8. Unsent /\ Ready /\ Passed /\ Once
  BY <1>4, <1>5 DEF Unsent, Ready, Passed, Once
<1> QED
  BY <1>2, <1>3, <1>7, <1>8 DEF IInv, Agreed

LEMMA NextInv == ASSUME IInv, [Next]_vars PROVE IInv'
<1>1. CASE UNCHANGED vars
  BY <1>1, Elsewhere DEF vars, IInv, TypeOK
<1>2. CASE \/ \E b \in Book, S \in SUBSET Mobile : ImportContacts(b, S)
           \/ \E b \in Book, m \in Mobile :
                AddContact(b, m) \/ DeleteContact(b, m) \/ \E n \in Mobile : UpdateContact(b, m, n)
           \/ \E B \in SUBSET Book : DeletePhonebooks(B)
           \/ \E m \in Mobile : Opts(m)
  BY <1>2, PhonebookSteps
<1>3. CASE Dispatched \/ \E m \in Mobile : Dispatch(m)
  BY <1>3, WorkerSteps
<1>4. ASSUME NEW q \in Request,
             \/ \E B \in SUBSET Book : BuildBegin(q, B)
             \/ \E batch \in Batch : ImportBegin(q, batch)
             \/ BuildEnd(q) \/ ImportEnd(q)
             \/ ScreenBegin(q) \/ ScreenEnd(q) \/ SendBegin(q) \/ SendEnd(q)
      PROVE  IInv'
  BY <1>4, StepsBegin, Builds, Imports, Screens, Sends
<1> QED
  BY <1>1, <1>2, <1>3, <1>4 DEF Next

\* The phonebooks, the campaign, its rows and the requests keep their types
\* (phonebook_contacts, broadcast_campaigns, broadcast_recipients).
THEOREM TypeCorrect == Spec => []TypeOK
<1>1. IInv => TypeOK
  BY DEF IInv
<1> QED
  BY <1>1, InitInv, NextInv, PTL DEF Spec

\* Nobody is sent to whose row no screening let through, unless two steps of the
\* campaign overlapped (campaigns_api.py:283, 371, 744).
THEOREM OnlyScreenedAreSent == Spec => []SendsAreScreened
<1>1. IInv => SendsAreScreened
  BY DEF IInv, Agreed, Passed, SendsAreScreened, Rows
<1> QED
  BY <1>1, InitInv, NextInv, PTL DEF Spec

\* A number gets one message of a campaign, whatever is collected, screened and
\* sent again, unless two steps overlapped (campaigns_api.py:224).
THEOREM OneMessage == Spec => []OneMessageEach
<1>1. IInv => OneMessageEach
  BY DEF IInv, Agreed, Once, OneMessageEach
<1> QED
  BY <1>1, InitInv, NextInv, PTL DEF Spec

\* The counters are those of the rows, within the limit, unless two steps
\* overlapped (campaigns_api.py:282, 743; broadcast_screening.py:146).
THEOREM CountersHold == Spec => []CountersAreTheRows
<1>1. IInv => CountersAreTheRows
  BY DEF IInv, Agreed, Total, Skipped, CountersAreTheRows
<1> QED
  BY <1>1, InitInv, NextInv, PTL DEF Spec
=============================================================================
