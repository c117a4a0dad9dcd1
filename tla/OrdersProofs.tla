---------------------------- MODULE OrdersProofs ----------------------------
(***************************************************************************)
(* Proofs about Orders, for any services, workers and bounds: its type,    *)
(* and that a guarded step is repeated, or a decision contradicted, only   *)
(* after a stale copy was written back.                                    *)
(***************************************************************************)
EXTENDS Orders, FiniteSetTheorems, TLAPS

\* The workers that have sent template t of s and not committed yet.
Sending(s, t) == {w \in Worker : tx[w].svc = s /\ tx[w].sends = t}

\* Copies without a row are on the phone for as long as somebody may store them.
LooseCounted ==
  \A s \in Service :
    /\ status[s] = "sending" => phone[s]["first"].loose > 0
    /\ \A t \in {"confirm", "document"} : phone[s][t].loose >= Cardinality(Sending(s, t))

\* A transaction: the marker it adds was not there when it read, and the message
\* it sent goes with that marker; only Lizo's services are retried.
TxSound ==
  \A w \in Worker :
    LET t == tx[w] IN
    /\ t # NoTx => t.svc \in Service
    /\ t.svc = NoService => t = NoTx
    /\ t.retry => t.svc \in Lizo
    /\ t.sends # "first"
    /\ t.sends = "confirm" => t.adds = "asked"
    /\ t.sends = "document" => t.adds = "pdf"
    /\ t.adds # "none" => t.adds \notin t.base \/ t.adds = "media"

\* The newest invoice is one: a copy on a phone has a service behind it.
Traced ==
  \A s \in Service :
    /\ phone[s]["first"].loose > 0 => status[s] # "absent"
    /\ s \in Invoice /\ status[s] # "absent" => latest \in Invoice

TypeInv == TypeOK /\ LooseCounted /\ TxSound /\ Traced

LEMMA TypeInit == Init => TypeInv
<1> SUFFICES ASSUME Init PROVE TypeInv
  OBVIOUS
<1>1. TypeOK
  BY DEF Init, TypeOK, Status, Template, Copies, Tx, NoTx
<1>2. \A s \in Service, t \in Template : Cardinality(Sending(s, t)) = 0
  <2> SUFFICES ASSUME NEW s \in Service, NEW t \in Template PROVE Sending(s, t) = {}
    BY FS_EmptySet
  <2> QED
    BY ServicesAssumption DEF Init, Sending, NoTx
<1>3. LooseCounted
  BY <1>2 DEF LooseCounted, Init, Template
<1>4. TxSound
  BY DEF Init, TxSound, NoTx
<1>5. Traced
  BY DEF Init, Traced, Template
<1> QED
  BY <1>1, <1>3, <1>4, <1>5 DEF TypeInv

\* What a tap starts: the marker is new, and a message goes with its marker.
LEMMA EffectSound ==
  ASSUME NEW s \in Service, NEW t \in {"first", "confirm"}, NEW b \in Button,
         NEW ms \in SUBSET Marker
  PROVE  LET e == Effect(s, t, b, ms) IN
         /\ e[1] \in {"none", "asked", "confirmed", "cancelled", "pdf"}
         /\ e[2] \in {"none", "confirm", "document"}
         /\ e[1] \notin ms
         /\ e[2] = "confirm" <=> e[1] = "asked"
         /\ e[2] = "document" <=> e[1] = "pdf"
         /\ e[1] \in {"asked", "confirmed", "cancelled"} => s \in Order
         /\ e[1] = "asked" => t = "first" /\ b = "confirm"
         /\ e[1] = "confirmed" => t = "confirm" /\ b = "confirm"
         /\ e[1] \in {"confirmed", "cancelled"} => ~Decided(ms)
BY DEF Effect, Decided, Button, Marker

\* Only the starting worker's entry changes: it joins what it is sending.
LEMMA SendingStart ==
  ASSUME TypeOK, NEW w \in Worker, NEW s \in Service,
         NEW a, NEW m, NEW r, tx[w] = NoTx, Start(w, s, a, m, r),
         NEW x \in Service, NEW t \in Template
  PROVE  Sending(x, t)' = IF x = s /\ m = t THEN Sending(x, t) \cup {w} ELSE Sending(x, t)
<1> USE DEF TypeOK
<1>1. tx' = [tx EXCEPT ![w] = [svc |-> s, base |-> data[s], adds |-> a, sends |-> m, retry |-> r]]
  BY DEF Start
<1>2. w \notin Sending(x, t)
  BY ServicesAssumption DEF Sending, NoTx
<1> QED
  BY <1>1, <1>2 DEF Sending

\* ... and leaves it when it ends.
LEMMA SendingEnd ==
  ASSUME TypeOK, NEW w \in Worker, tx' = [tx EXCEPT ![w] = NoTx],
         NEW x \in Service, NEW t \in Template
  PROVE  Sending(x, t)' = Sending(x, t) \ {w}
BY ServicesAssumption DEF TypeOK, Sending, NoTx

LEMMA SendingFinite ==
  ASSUME NEW s, NEW t
  PROVE  IsFiniteSet(Sending(s, t)) /\ Cardinality(Sending(s, t)) \in Nat
BY WorkersAssumption, FS_Subset, FS_CardinalityType DEF Sending

\* Every step keeps the types and what they rest on.
LEMMA TypeStep == TypeInv /\ [Next]_vars => TypeInv'
<1> SUFFICES ASSUME TypeInv, [Next]_vars PROVE TypeInv'
  OBVIOUS
<1> USE ServicesAssumption, BoundsAssumption DEF TypeInv, TypeOK, Copies, Tx, Status, Template, Left, Kept
<1>0. UNCHANGED tx => \A s \in Service, t \in Template : Sending(s, t)' = Sending(s, t)
  BY DEF Sending
<1>1. ASSUME NEW s \in Service, Ingest(s) PROVE TypeInv'
  <2>1. TypeOK'
    BY <1>1 DEF Ingest
  <2>2. LooseCounted'
    BY <1>1, <1>0 DEF Ingest, LooseCounted
  <2>3. TxSound' /\ Traced'
    BY <1>1 DEF Ingest, TxSound, Traced
  <2> QED
    BY <2>1, <2>2, <2>3
<1>2. ASSUME NEW s \in Service, SendFirst(s) PROVE TypeInv'
  <2> DEFINE out == status' = [status EXCEPT ![s] = "sending"]
                    /\ phone' = [phone EXCEPT ![s]["first"] = Left(@)]
  <2> DEFINE bad == status' = [status EXCEPT ![s] = "failed"] /\ UNCHANGED phone
  <2>0. /\ out \/ bad
        /\ UNCHANGED <<data, latest, approvals, inert, refusals, tx, stale, taps, fetched,
                       tapped, retries, losses>>
    BY <1>2 DEF SendFirst
  <2>1. TypeOK'
    <3>1. CASE out
      BY <2>0, <3>1
    <3>2. CASE bad
      BY <2>0, <3>2
    <3> QED
      BY <2>0, <3>1, <3>2
  <2>2. LooseCounted'
    <3>0. \A x \in Service : \A t \in {"confirm", "document"} :
             phone'[x][t] = phone[x][t] /\ Sending(x, t)' = Sending(x, t)
      <4>1. \A x \in Service, t \in {"confirm", "document"} : Sending(x, t)' = Sending(x, t)
        BY <2>0, <1>0
      <4>2. \A x \in Service, t \in {"confirm", "document"} : phone'[x][t] = phone[x][t]
        <5>1. CASE out
          BY <5>1
        <5>2. CASE bad
          BY <5>2
        <5> QED
          BY <2>0, <5>1, <5>2
      <4> QED
        BY <4>1, <4>2
    <3>1. \A x \in Service : status'[x] = "sending" => phone'[x]["first"].loose > 0
      <4>1. CASE out
        BY <4>1 DEF LooseCounted
      <4>2. CASE bad
        BY <4>2 DEF LooseCounted
      <4> QED
        BY <2>0, <4>1, <4>2
    <3> QED
      BY <3>0, <3>1 DEF LooseCounted
  <2>3. TxSound' /\ Traced'
    BY <1>2 DEF SendFirst, TxSound, Traced
  <2> QED
    BY <2>1, <2>2, <2>3
<1>3. ASSUME NEW s \in Service, StoreFirst(s) PROVE TypeInv'
  <2>1. TypeOK'
    BY <1>3 DEF StoreFirst, LooseCounted
  <2>2. LooseCounted'
    BY <1>3, <1>0 DEF StoreFirst, LooseCounted
  <2>3. TxSound' /\ Traced'
    BY <1>3 DEF StoreFirst, TxSound, Traced
  <2> QED
    BY <2>1, <2>2, <2>3
<1>4. ASSUME NEW s \in Service, FailedReceipt(s) PROVE TypeInv'
  <2>1. TypeOK'
    BY <1>4 DEF FailedReceipt
  <2>2. LooseCounted'
    BY <1>4, <1>0 DEF FailedReceipt, LooseCounted
  <2>3. TxSound' /\ Traced'
    BY <1>4 DEF FailedReceipt, TxSound, Traced
  <2> QED
    BY <2>1, <2>2, <2>3
\* A worker starts: t is its transaction, m the message it has sent.
<1>5. ASSUME NEW w \in Worker, NEW s \in Service, NEW a \in Marker \cup {"none"},
             NEW m \in {"none", "confirm", "document"}, NEW r \in BOOLEAN,
             tx[w] = NoTx, Start(w, s, a, m, r),
             r => s \in Lizo, m = "confirm" => a = "asked", m = "document" => a = "pdf",
             a # "none" => a \notin data[s] \/ a = "media",
             UNCHANGED <<status, data, latest, approvals, inert, refusals, stale>>,
             taps' \subseteq Tap, fetched' \subseteq Invoice,
             tapped' \in Nat, retries' \in Nat, losses' \in Nat
      PROVE  TypeInv'
  <2>1. TypeOK'
    BY <1>5 DEF Start
  <2>2. LooseCounted'
    <3> SUFFICES ASSUME NEW x \in Service
                 PROVE  /\ status'[x] = "sending" => phone'[x]["first"].loose > 0
                        /\ \A t \in {"confirm", "document"} :
                             phone'[x][t].loose >= Cardinality(Sending(x, t)')
      BY DEF LooseCounted
    <3>1. status'[x] = "sending" => phone'[x]["first"].loose > 0
      BY <1>5 DEF Start, LooseCounted
    <3>2. ASSUME NEW t \in {"confirm", "document"}
          PROVE  phone'[x][t].loose >= Cardinality(Sending(x, t)')
      <4>1. Sending(x, t)' = IF x = s /\ m = t THEN Sending(x, t) \cup {w} ELSE Sending(x, t)
        BY <1>5, SendingStart
      <4>2. IsFiniteSet(Sending(x, t)) /\ Cardinality(Sending(x, t)) \in Nat
        BY SendingFinite
      <4>3. /\ Cardinality(Sending(x, t) \cup {w}) <= Cardinality(Sending(x, t)) + 1
            /\ Cardinality(Sending(x, t) \cup {w}) \in Nat
        <5>1. Cardinality(Sending(x, t) \cup {w}) =
                IF w \in Sending(x, t) THEN Cardinality(Sending(x, t)) ELSE Cardinality(Sending(x, t)) + 1
          BY <4>2, FS_AddElement
        <5> QED
          BY <4>2, <5>1
      <4>4. phone[x][t].loose >= Cardinality(Sending(x, t))
        BY DEF LooseCounted
      <4>5. phone'[x][t].loose = IF x = s /\ m = t THEN phone[x][t].loose + 1
                                                    ELSE phone[x][t].loose
        BY <1>5 DEF Start
      <4> QED
        BY <4>1, <4>2, <4>3, <4>4, <4>5
    <3> QED
      BY <3>1, <3>2
  <2>3. TxSound'
    BY <1>5 DEF Start, TxSound, NoTx
  <2>4. Traced'
    BY <1>5 DEF Start, Traced
  <2> QED
    BY <2>1, <2>2, <2>3, <2>4
<1>6. ASSUME NEW w \in Worker, NEW s \in Service, NEW t \in {"first", "confirm"},
             NEW b \in Button, TapOn(w, s, t, b)
      PROVE  TypeInv'
  <2> DEFINE e == Effect(s, t, b, data[s])
  <2>1. data[s] \in SUBSET Marker
    OBVIOUS
  <2>2. /\ e[1] \in {"none", "asked", "confirmed", "cancelled", "pdf"}
        /\ e[1] \in Marker \cup {"none"}
        /\ e[2] \in {"none", "confirm", "document"}
        /\ e[1] \notin data[s]
        /\ e[2] = "confirm" => e[1] = "asked"
        /\ e[2] = "document" => e[1] = "pdf"
    <3>1. /\ e[1] \in {"none", "asked", "confirmed", "cancelled", "pdf"}
          /\ e[2] \in {"none", "confirm", "document"}
          /\ e[1] \notin data[s]
          /\ e[2] = "confirm" <=> e[1] = "asked"
          /\ e[2] = "document" <=> e[1] = "pdf"
      BY <2>1, EffectSound
    <3> QED
      BY <3>1 DEF Marker
  <2> HIDE DEF e
  <2>3. /\ tx[w] = NoTx /\ Start(w, s, e[1], e[2], FALSE)
        /\ UNCHANGED <<status, data, latest, approvals, inert, refusals, stale>>
        /\ taps' = taps \cup {<<s, t, b>>} /\ tapped' = tapped + 1
        /\ UNCHANGED <<fetched, retries, losses>>
    BY <1>6 DEF TapOn, e
  <2>4. taps' \subseteq Tap
    BY <2>3 DEF Tap
  <2>5. /\ taps' \subseteq Tap /\ fetched' \subseteq Invoice
        /\ tapped' \in Nat /\ retries' \in Nat /\ losses' \in Nat
    BY <2>3, <2>4
  <2>6. /\ tx[w] = NoTx /\ Start(w, s, e[1], e[2], FALSE)
        /\ UNCHANGED <<status, data, latest, approvals, inert, refusals, stale>>
    BY <2>3
  <2> QED
    <3> DEFINE a == e[1]
    <3> DEFINE m == e[2]
    <3>1. a \in Marker \cup {"none"} /\ m \in {"none", "confirm", "document"}
      BY <2>2
    <3>2. /\ m = "confirm" => a = "asked"
          /\ m = "document" => a = "pdf"
          /\ a # "none" => a \notin data[s] \/ a = "media"
      BY <2>2
    <3>3. tx[w] = NoTx
      BY <2>6
    <3>4. UNCHANGED <<status, data, latest, approvals, inert, refusals, stale>>
      BY <2>6
    <3>5. PICK r \in BOOLEAN : Start(w, s, a, m, r) /\ (r => s \in Lizo)
      BY <2>6
    <3> HIDE DEF a, m, TypeInv
    <3> QED
      BY <1>5, <2>5, <3>1, <3>2, <3>3, <3>4, <3>5
<1>7. ASSUME NEW w \in Worker, NEW s \in Service, TapOnLoose(w, s) PROVE TypeInv'
  <2>1. latest \in Service /\ "pdf" \notin data[latest]
    BY <1>7 DEF TapOnLoose, Traced, Service
  <2>2. taps' \subseteq Tap
    BY <1>7 DEF TapOnLoose, Tap, Button
  <2>3. /\ tx[w] = NoTx /\ Start(w, latest, "pdf", "document", FALSE)
        /\ UNCHANGED <<status, data, latest, approvals, inert, refusals, stale>>
        /\ tapped' = tapped + 1 /\ UNCHANGED <<fetched, retries, losses>>
    BY <1>7 DEF TapOnLoose
  <2>4. /\ "pdf" \in Marker \cup {"none"}
        /\ tapped' \in Nat /\ retries' \in Nat /\ losses' \in Nat /\ fetched' \subseteq Invoice
    BY <2>3 DEF Marker
  <2> QED
    BY <1>5, <2>1, <2>2, <2>3, <2>4
<1>8. ASSUME NEW w \in Worker, NEW s \in Service, Prefetch(w, s) PROVE TypeInv'
  BY <1>5, <1>8 DEF Prefetch, Marker
<1>9. ASSUME NEW w \in Worker, NEW s \in Service, Retry(w, s) PROVE TypeInv'
  <2>0. tx[w] = NoTx /\ Start(w, s, "none", "none", TRUE)
    BY <1>9, Zenon DEF Retry
  <2>1. /\ UNCHANGED <<status, data, latest, approvals, inert, refusals, stale>>
        /\ taps' \subseteq Tap /\ fetched' \subseteq Invoice
        /\ tapped' \in Nat /\ retries' \in Nat /\ losses' \in Nat
    BY <1>9 DEF Retry
  <2>2. s \in Lizo
    BY <1>9 DEF Retry
  <2> QED
    BY <1>5, <2>0, <2>1, <2>2
<1>10. ASSUME NEW w \in Worker, tx[w] # NoTx, tx' = [tx EXCEPT ![w] = NoTx],
              (\E url \in Settings : Commit(w, url)) \/ Rollback(w)
       PROVE  TypeInv'
  <2> DEFINE s == tx[w].svc
  <2> DEFINE m == tx[w].sends
  <2>0. s \in Service /\ m # "first"
    BY <1>10 DEF TxSound
  <2>1. Cardinality(Sending(s, m)) > 0
    <3>1. w \in Sending(s, m)
      BY DEF Sending
    <3> QED
      BY <3>1, SendingFinite, FS_EmptySet
  <2>2. m # "none" => phone[s][m].loose > 0
    BY <2>0, <2>1, SendingFinite DEF LooseCounted
  <2>3. TypeOK'
    <3>1. CASE \E url \in Settings : Commit(w, url)
      BY <3>1, <2>0, <2>2 DEF Commit, Written, NoTx
    <3>2. CASE Rollback(w)
      BY <3>2 DEF Rollback, NoTx
    <3> QED
      BY <1>10, <3>1, <3>2
  <2>4. LooseCounted'
    <3> SUFFICES ASSUME NEW x \in Service
                 PROVE  /\ status'[x] = "sending" => phone'[x]["first"].loose > 0
                        /\ \A t \in {"confirm", "document"} :
                             phone'[x][t].loose >= Cardinality(Sending(x, t)')
      BY DEF LooseCounted
    <3>1. status'[x] = "sending" => phone'[x]["first"].loose > 0
      BY <1>10, <2>0 DEF Commit, Rollback, LooseCounted
    <3>2. ASSUME NEW t \in {"confirm", "document"}
          PROVE  phone'[x][t].loose >= Cardinality(Sending(x, t)')
      <4>1. Sending(x, t)' = Sending(x, t) \ {w}
        BY <1>10, SendingEnd
      <4>2. w \in Sending(x, t) <=> x = s /\ t = m
        BY DEF Sending
      <4>3. /\ Cardinality(Sending(x, t)) \in Nat
            /\ Cardinality(Sending(x, t) \ {w}) = IF w \in Sending(x, t)
                                                   THEN Cardinality(Sending(x, t)) - 1
                                                   ELSE Cardinality(Sending(x, t))
        BY SendingFinite, FS_RemoveElement
      <4>4. phone'[x][t].loose >= IF x = s /\ t = m THEN phone[x][t].loose - 1
                                                    ELSE phone[x][t].loose
        BY <1>10, <2>0 DEF Commit, Rollback
      <4>5. phone[x][t].loose >= Cardinality(Sending(x, t))
        BY DEF LooseCounted
      <4>6. phone'[x][t].loose \in Nat
        BY <2>3
      <4> QED
        BY <4>1, <4>2, <4>3, <4>4, <4>5, <4>6
    <3> QED
      BY <3>1, <3>2
  <2>5. TxSound'
    BY <1>10 DEF TxSound, NoTx
  <2>6. Traced'
    <3>1. \A x \in Service : /\ status'[x] = "absent" => status[x] = "absent"
                             /\ x \in Invoice => status'[x] = status[x]
                             /\ phone'[x]["first"] = phone[x]["first"]
      <4>1. CASE \E url \in Settings : Commit(w, url)
        <5>1. tx[w].retry => s \in Lizo
          BY DEF TxSound
        <5> QED
          BY <4>1, <5>1, <2>0 DEF Commit, Lizo
      <4>2. CASE Rollback(w)
        BY <4>2 DEF Rollback
      <4> QED
        BY <1>10, <4>1, <4>2
    <3>2. latest' = latest
      BY <1>10 DEF Commit, Rollback
    <3>3. \A x \in Service : /\ phone'[x]["first"].loose > 0 => status'[x] # "absent"
                             /\ x \in Invoice /\ status'[x] # "absent" => latest' \in Invoice
      BY <3>1, <3>2 DEF Traced
    <3> QED
      BY <3>3 DEF Traced
  <2> QED
    BY <2>3, <2>4, <2>5, <2>6
<1>11. CASE UNCHANGED vars
  BY <1>11, <1>0 DEF vars, LooseCounted, TxSound, Traced
<1> QED
  <2>1. ASSUME NEW w \in Worker, (\E url \in Settings : Commit(w, url)) \/ Rollback(w) PROVE TypeInv'
    BY <1>10, <2>1 DEF Commit, Rollback
  <2> QED
    BY <1>1, <1>2, <1>3, <1>4, <1>6, <1>7, <1>8, <1>9, <1>11, <2>1 DEF Next

\* Every marker, message and row keeps its type in every behaviour.
THEOREM TypeCorrect == Spec => []TypeOK
<1>1. Spec => []TypeInv
  BY TypeInit, TypeStep, PTL DEF Spec
<1> QED
  BY <1>1, PTL DEF TypeInv

-----------------------------------------------------------------------------
Has(s, m) == IF m \in data[s] THEN 1 ELSE 0

\* What a marker guards has happened once if it is there, and once more for
\* every commit of a copy that was not current.
Counted ==
  \A s \in Service :
    /\ approvals[s] <= stale[s] + Has(s, "confirmed")
    /\ refusals[s] <= stale[s] + Has(s, "cancelled")
    /\ phone[s]["confirm"].kept <= stale[s] + Has(s, "asked")
    /\ phone[s]["document"].kept <= stale[s] + Has(s, "pdf")

\* Without stale commits, an order says one thing only.
OneDecision ==
  \A s \in Service : stale[s] = 0 => ~("confirmed" \in data[s] /\ "cancelled" \in data[s])

\* Nothing happens to a service that was refused at ingest.
Ingested ==
  \A s \in Service :
    /\ status[s] # "absent" => s \notin Lacking
    /\ \A t \in Template : phone[s][t].kept > 0 => s \notin Lacking

\* The taps behind a message, and behind what a worker is about to write.
Walked ==
  /\ \A s \in Service : phone[s]["confirm"].kept > 0 => <<s, "first", "confirm">> \in taps
  /\ \A w \in Worker : tx[w] # NoTx =>
       LET t == tx[w] IN
       /\ t.svc \notin Lacking
       /\ t.adds \in {"asked", "confirmed", "cancelled"} => t.svc \in Order
       /\ t.adds \in {"asked", "confirmed"} => <<t.svc, "first", "confirm">> \in taps
       /\ t.adds = "confirmed" => <<t.svc, "confirm", "confirm">> \in taps
       /\ t.adds \in {"confirmed", "cancelled"} => "confirmed" \notin t.base /\ "cancelled" \notin t.base
       /\ "confirmed" \in t.base => approvals[t.svc] > 0 \/ t.svc \in inert

\* The inductive invariant.
IInv == TypeInv /\ Counted /\ OneDecision /\ Ingested /\ Walked /\ ConfirmedIsApproved

LEMMA InvInit == Init => IInv
<1> SUFFICES ASSUME Init PROVE IInv
  OBVIOUS
<1>1. TypeInv
  BY TypeInit
<1>2. Counted
  BY DEF Init, Counted, Has, Template
<1>3. OneDecision /\ ConfirmedIsApproved
  BY DEF Init, OneDecision, ConfirmedIsApproved
<1>4. Ingested /\ Walked
  BY DEF Init, Ingested, Walked, Template
<1> QED
  BY <1>1, <1>2, <1>3, <1>4 DEF IInv

\* Every step keeps the inductive invariant.
LEMMA InvStep == IInv /\ [Next]_vars => IInv'
<1> SUFFICES ASSUME IInv, [Next]_vars PROVE IInv'
  OBVIOUS
<1>0. TypeInv /\ TypeInv' /\ TypeOK /\ TypeOK'
  BY TypeStep DEF IInv, TypeInv
<1> USE <1>0, ServicesAssumption DEF IInv, TypeOK, Copies, Tx, Status, Template, Left, Kept
\* The steps up to the first message, and a failed receipt.
<1>1. ASSUME NEW s \in Service,
             UNCHANGED <<data, approvals, inert, refusals, tx, stale, taps>>,
             status' = [status EXCEPT ![s] = status'[s]],
             status'[s] # "absent" => s \notin Lacking,
             \A x \in Service : phone'[x]["confirm"] = phone[x]["confirm"],
             \A x \in Service : phone'[x]["document"] = phone[x]["document"],
             \A x \in Service : phone'[x]["first"].kept > 0 =>
                                  phone[x]["first"].kept > 0 \/ x \notin Lacking
      PROVE  IInv'
  <2>1. Counted' /\ OneDecision'
    BY <1>1 DEF Counted, Has, OneDecision
  <2>2. Ingested'
    BY <1>1 DEF Ingested
  <2>3. Walked' /\ ConfirmedIsApproved'
    BY <1>1 DEF Walked, ConfirmedIsApproved
  <2> QED
    BY <2>1, <2>2, <2>3
<1>2. ASSUME NEW s \in Service,
             Ingest(s) \/ SendFirst(s) \/ StoreFirst(s) \/ FailedReceipt(s)
      PROVE  IInv'
  <2>1. status' = [status EXCEPT ![s] = status'[s]]
    BY <1>2 DEF Ingest, SendFirst, StoreFirst, FailedReceipt
  <2>2. status'[s] # "absent" => s \notin Lacking
    BY <1>2 DEF Ingest, Accepts, Approvable, SendFirst, StoreFirst, FailedReceipt, Ingested
  <2>3. \A x \in Service : /\ phone'[x]["confirm"] = phone[x]["confirm"]
                           /\ phone'[x]["document"] = phone[x]["document"]
    BY <1>2 DEF Ingest, SendFirst, StoreFirst, FailedReceipt
  <2>4. \A x \in Service : phone'[x]["first"].kept > 0 =>
                             phone[x]["first"].kept > 0 \/ x \notin Lacking
    BY <1>2, <2>2 DEF Ingest, SendFirst, StoreFirst, FailedReceipt, Ingested
  <2>5. UNCHANGED <<data, approvals, inert, refusals, tx, stale, taps>>
    BY <1>2 DEF Ingest, SendFirst, StoreFirst, FailedReceipt
  <2> QED
    BY <1>1, <2>1, <2>2, <2>3, <2>4, <2>5
\* A worker starts, with the transaction u.
<1>3. ASSUME NEW w \in Worker, NEW u \in Tx, tx' = [tx EXCEPT ![w] = u],
             u.svc \in Service, u.svc \notin Lacking, u.base = data[u.svc],
             \A x \in Service, t \in Template : phone'[x][t].kept = phone[x][t].kept,
             taps \subseteq taps',
             u.adds \in {"asked", "confirmed", "cancelled"} => u.svc \in Order,
             u.adds \in {"asked", "confirmed"} => <<u.svc, "first", "confirm">> \in taps',
             u.adds = "confirmed" => <<u.svc, "confirm", "confirm">> \in taps',
             u.adds \in {"confirmed", "cancelled"} =>
               "confirmed" \notin u.base /\ "cancelled" \notin u.base,
             UNCHANGED <<status, data, approvals, inert, refusals, stale>>
      PROVE  IInv'
  <2>1. Counted' /\ OneDecision'
    BY <1>3 DEF Counted, Has, OneDecision
  <2>2. Ingested'
    BY <1>3 DEF Ingested
  <2>3. "confirmed" \in data[u.svc] => approvals[u.svc] > 0 \/ u.svc \in inert
    BY <1>3 DEF ConfirmedIsApproved
  <2>4. Walked'
    BY <1>3, <2>3 DEF Walked
  <2>5. ConfirmedIsApproved'
    BY <1>3 DEF ConfirmedIsApproved
  <2> QED
    BY <2>1, <2>2, <2>4, <2>5
<1>4. ASSUME NEW w \in Worker, NEW s \in Service, NEW t \in {"first", "confirm"},
             NEW b \in Button, TapOn(w, s, t, b)
      PROVE  IInv'
  <2> DEFINE e == Effect(s, t, b, data[s])
  <2> DEFINE u == [svc |-> s, base |-> data[s], adds |-> e[1], sends |-> e[2], retry |-> FALSE]
  <2>1. /\ e[1] \in {"none", "asked", "confirmed", "cancelled", "pdf"}
        /\ e[2] \in {"none", "confirm", "document"}
        /\ e[1] \in {"asked", "confirmed", "cancelled"} => s \in Order
        /\ e[1] = "asked" => t = "first" /\ b = "confirm"
        /\ e[1] = "confirmed" => t = "confirm" /\ b = "confirm"
    BY EffectSound
  <2>2. e[1] \in {"confirmed", "cancelled"} =>
          "confirmed" \notin data[s] /\ "cancelled" \notin data[s]
    BY DEF Effect, Decided
  <2>3. /\ phone[s][t].kept > 0 /\ taps' = taps \cup {<<s, t, b>>}
        /\ tx' = [tx EXCEPT ![w] = u]
        /\ phone' = IF e[2] = "none" THEN phone ELSE [phone EXCEPT ![s][e[2]] = Left(@)]
        /\ UNCHANGED <<status, data, approvals, inert, refusals, stale>>
    BY <1>4 DEF TapOn, Start
  <2> HIDE DEF e
  <2>4. u \in Tx
    BY <2>1 DEF Marker
  <2>5. s \notin Lacking
    BY <2>3 DEF Ingested
  <2>6. \A x \in Service, y \in Template : phone'[x][y].kept = phone[x][y].kept
    BY <2>1, <2>3
  <2>7. /\ e[1] \in {"asked", "confirmed"} => <<s, "first", "confirm">> \in taps'
        /\ e[1] = "confirmed" => <<s, "confirm", "confirm">> \in taps'
    BY <2>1, <2>3 DEF Walked
  <2>8. u.svc = s /\ u.base = data[s] /\ u.adds = e[1]
    OBVIOUS
  <2> HIDE DEF u, IInv
  <2> QED
    BY <1>3, <2>1, <2>2, <2>3, <2>4, <2>5, <2>6, <2>7, <2>8
<1>5. ASSUME NEW w \in Worker, NEW s \in Service, TapOnLoose(w, s) PROVE IInv'
  <2> DEFINE u == [svc |-> latest, base |-> data[latest], adds |-> "pdf",
                   sends |-> "document", retry |-> FALSE]
  <2>1. latest \in Service /\ latest \notin Lacking
    BY <1>5 DEF TapOnLoose, TypeInv, Traced, Service
  <2>2. /\ tx' = [tx EXCEPT ![w] = u] /\ taps \subseteq taps'
        /\ UNCHANGED <<status, data, approvals, inert, refusals, stale>>
    BY <1>5 DEF TapOnLoose, Start
  <2>3. \A x \in Service, y \in Template : phone'[x][y].kept = phone[x][y].kept
    BY <1>5, <2>1 DEF TapOnLoose, Start
  <2>4. u \in Tx /\ u.svc = latest /\ u.base = data[latest] /\ u.adds = "pdf"
    BY <2>1 DEF Marker
  <2> HIDE DEF u, IInv
  <2> QED
    BY <1>3, <2>1, <2>2, <2>3, <2>4
<1>6. ASSUME NEW w \in Worker, NEW s \in Service, Prefetch(w, s) \/ Retry(w, s) PROVE IInv'
  <2> DEFINE o(a, r) == [svc |-> s, base |-> data[s], adds |-> a, sends |-> "none", retry |-> r]
  <2>1. PICK u \in Tx : /\ tx' = [tx EXCEPT ![w] = u]
                        /\ u.svc = s /\ u.base = data[s] /\ u.adds \in {"media", "none"}
    <3>1. CASE Prefetch(w, s)
      <4>1. o("media", FALSE) \in Tx
        BY DEF Marker
      <4> QED
        BY <3>1, <4>1 DEF Prefetch, Start
    <3>2. CASE Retry(w, s)
      <4>1. o("none", TRUE) \in Tx
        BY DEF Marker
      <4> QED
        BY <3>2, <4>1 DEF Retry, Start
    <3> QED
      BY <1>6, <3>1, <3>2
  <2>2. /\ s \notin Lacking
        /\ UNCHANGED <<phone, status, data, approvals, inert, refusals, stale, taps>>
    BY <1>6 DEF Prefetch, Retry, Start, Ingested
  <2> HIDE DEF IInv
  <2> QED
    BY <1>3, <2>1, <2>2
<1>7. ASSUME NEW w \in Worker, NEW url \in Settings, Commit(w, url) PROVE IInv'
  <2> DEFINE t == tx[w]
  <2> DEFINE s == t.svc
  <2>0. /\ t # NoTx /\ s \in Service /\ s \notin Lacking
        /\ t.base \subseteq Marker /\ t.adds \in Marker \cup {"none"}
        /\ t.sends \in {"none", "confirm", "document"}
        /\ t.sends = "confirm" => t.adds = "asked"
        /\ t.sends = "document" => t.adds = "pdf"
        /\ t.adds # "none" => t.adds \notin t.base \/ t.adds = "media"
    BY <1>7 DEF Commit, TypeInv, TxSound, Walked
  <2>1. /\ data' = [data EXCEPT ![s] = t.base \cup ({t.adds} \ {"none"})]
        /\ stale' = [stale EXCEPT ![s] = IF t.base = data[s] THEN @ ELSE @ + 1]
        /\ approvals' = [approvals EXCEPT ![s] = IF t.adds = "confirmed" /\ url THEN @ + 1 ELSE @]
        /\ inert' = IF t.adds = "confirmed" /\ ~url THEN inert \cup {s} ELSE inert
        /\ refusals' = [refusals EXCEPT ![s] = IF t.adds = "cancelled" THEN @ + 1 ELSE @]
        /\ tx' = [tx EXCEPT ![w] = NoTx]
        /\ taps' = taps
    <3>1. Approves(t, url) <=> t.adds = "confirmed" /\ url
      BY <2>0 DEF Approves, Approvable
    <3> QED
      BY <1>7, <2>0, <3>1 DEF Commit, Written
  <2>2. \A x \in Service, y \in Template :
           phone'[x][y].kept = IF x = s /\ y = t.sends THEN phone[x][y].kept + 1
                                                       ELSE phone[x][y].kept
    <3>1. phone' = IF t.sends = "none" THEN phone ELSE [phone EXCEPT ![s][t.sends] = Kept(@)]
      BY <1>7 DEF Commit
    <3> QED
      BY <2>0, <3>1
  <2>3. \A x \in Service : status'[x] # status[x] => x = s
    BY <1>7, <2>0 DEF Commit
  <2> HIDE DEF t
  <2>4. Counted'
    <3> SUFFICES ASSUME NEW x \in Service
                 PROVE  /\ approvals'[x] <= stale'[x] + Has(x, "confirmed")'
                        /\ refusals'[x] <= stale'[x] + Has(x, "cancelled")'
                        /\ phone'[x]["confirm"].kept <= stale'[x] + Has(x, "asked")'
                        /\ phone'[x]["document"].kept <= stale'[x] + Has(x, "pdf")'
      BY DEF Counted
    <3>1. CASE x # s
      BY <2>0, <2>1, <2>2, <3>1 DEF Counted, Has
    <3>2. CASE x = s /\ t.base = data[s]
      BY <2>0, <2>1, <2>2, <3>2 DEF Counted, Has
    <3>3. CASE x = s /\ t.base # data[s]
      <4>1. /\ approvals[x] <= stale[x] + 1 /\ refusals[x] <= stale[x] + 1
            /\ phone[x]["confirm"].kept <= stale[x] + 1
            /\ phone[x]["document"].kept <= stale[x] + 1
        <5>1. stale[x] \in Nat /\ \A y \in Marker : Has(x, y) \in {0, 1}
          BY DEF Has
        <5> QED
          BY <5>1 DEF Counted, Marker
      <4>2. stale'[x] = stale[x] + 1
        BY <2>0, <2>1, <3>3
      <4>3. \A y \in Marker : Has(x, y)' \in Nat /\ (t.adds = y => Has(x, y)' = 1)
        BY <2>0, <2>1, <3>3 DEF Has, Marker
      <4>4. /\ approvals'[x] <= IF t.adds = "confirmed" THEN approvals[x] + 1 ELSE approvals[x]
            /\ refusals'[x] = IF t.adds = "cancelled" THEN refusals[x] + 1 ELSE refusals[x]
            /\ phone'[x]["confirm"].kept <= IF t.adds = "asked" THEN phone[x]["confirm"].kept + 1
                                                                ELSE phone[x]["confirm"].kept
            /\ phone'[x]["document"].kept <= IF t.adds = "pdf" THEN phone[x]["document"].kept + 1
                                                               ELSE phone[x]["document"].kept
        BY <2>0, <2>1, <2>2, <3>3
      <4>5. /\ Has(x, "confirmed")' \in Nat /\ (t.adds = "confirmed" => Has(x, "confirmed")' = 1)
            /\ Has(x, "cancelled")' \in Nat /\ (t.adds = "cancelled" => Has(x, "cancelled")' = 1)
            /\ Has(x, "asked")' \in Nat /\ (t.adds = "asked" => Has(x, "asked")' = 1)
            /\ Has(x, "pdf")' \in Nat /\ (t.adds = "pdf" => Has(x, "pdf")' = 1)
        BY <4>3 DEF Marker
      <4> QED
        BY <4>1, <4>2, <4>4, <4>5
    <3> QED
      BY <3>1, <3>2, <3>3
  <2>5. OneDecision'
    <3>1. t.adds \in {"confirmed", "cancelled"} =>
            "confirmed" \notin t.base /\ "cancelled" \notin t.base
      BY <2>0 DEF Walked, t
    <3> QED
      BY <2>0, <2>1, <3>1 DEF OneDecision
  <2>6. Ingested'
    BY <2>0, <2>2, <2>3 DEF Ingested
  <2>7. /\ t.adds \in {"asked", "confirmed", "cancelled"} => s \in Order
        /\ t.adds \in {"asked", "confirmed"} => <<s, "first", "confirm">> \in taps
        /\ t.adds = "confirmed" => <<s, "confirm", "confirm">> \in taps
        /\ "confirmed" \in t.base => approvals[s] > 0 \/ s \in inert
    BY <2>0 DEF Walked, t
  <2>8. /\ \A x \in Service : approvals'[x] >= approvals[x] /\ approvals'[x] \in Nat
        /\ inert \subseteq inert'
    BY <2>0, <2>1
  <2>9. Walked'
    <3>1. \A x \in Service : phone'[x]["confirm"].kept > 0 => <<x, "first", "confirm">> \in taps
      BY <2>0, <2>2, <2>7 DEF Walked
    <3>2. \A u \in Worker : tx'[u] # NoTx => tx'[u] = tx[u] /\ tx[u].svc \in Service
      BY <2>1 DEF TypeInv, TxSound
    <3>3. \A u \in Worker : tx'[u] # NoTx =>
             ("confirmed" \in tx[u].base => approvals'[tx[u].svc] > 0 \/ tx[u].svc \in inert')
      <4>1. \A u \in Worker : tx[u] # NoTx => ("confirmed" \in tx[u].base => approvals[tx[u].svc] > 0 \/ tx[u].svc \in inert)
        BY DEF Walked
      <4> QED
        BY <2>8, <3>2, <4>1
    <3> QED
      BY <2>1, <3>1, <3>2, <3>3 DEF Walked
  <2>10. ConfirmedIsApproved'
    <3> SUFFICES ASSUME NEW x \in Service
                 PROVE  /\ "confirmed" \in data'[x] => approvals'[x] > 0 \/ x \in inert'
                        /\ approvals'[x] > 0 \/ x \in inert' =>
                                                /\ x \in Order
                                                /\ <<x, "first", "confirm">> \in taps
                                                /\ <<x, "confirm", "confirm">> \in taps
      BY <2>1 DEF ConfirmedIsApproved
    <3>1. CASE x # s
      BY <2>0, <2>1, <3>1 DEF ConfirmedIsApproved
    <3>2. CASE x = s /\ t.adds = "confirmed"
      BY <2>0, <2>1, <2>7, <3>2
    <3>3. CASE x = s /\ t.adds # "confirmed"
      BY <2>0, <2>1, <2>7, <3>3 DEF ConfirmedIsApproved
    <3> QED
      BY <3>1, <3>2, <3>3
  <2> QED
    BY <2>4, <2>5, <2>6, <2>9, <2>10
<1>8. ASSUME NEW w \in Worker, Rollback(w) PROVE IInv'
  BY <1>8 DEF Rollback, Counted, Has, OneDecision, Ingested, Walked, ConfirmedIsApproved
<1>9. CASE UNCHANGED vars
  BY <1>9 DEF vars, Counted, Has, OneDecision, Ingested, Walked, ConfirmedIsApproved
<1> QED
  BY <1>2, <1>4, <1>5, <1>6, <1>7, <1>8, <1>9 DEF Next

LEMMA Invariance == Spec => []IInv
BY InvInit, InvStep, PTL DEF Spec

\* What a marker guards is repeated at most as often as stale copies of
\* Service.data were written back (handle_tap, _handle_pdf_request).
THEOREM RepeatsAreExplained == Spec => []RepeatsNeedOverlap
<1>1. IInv => RepeatsNeedOverlap
  BY SMTT(30) DEF IInv, TypeInv, TypeOK, Copies, Template, Counted, Has, RepeatsNeedOverlap
<1> QED
  BY <1>1, Invariance, PTL

\* An order is approved and also cancelled only after overlapping taps.
THEOREM FirstDecisionHolds == Spec => []FirstDecisionWins
<1>1. IInv => FirstDecisionWins
  BY DEF IInv, TypeInv, TypeOK, Counted, Has, OneDecision, FirstDecisionWins, Service
<1> QED
  BY <1>1, Invariance, PTL

\* An order that says confirmed has its approval queued, unless it was confirmed
\* while LIZO_APPROVE_ORDER_URL was unset; either way both taps came before.
THEOREM ConfirmedMeansApproved == Spec => []ConfirmedIsApproved
BY Invariance, PTL DEF IInv
=============================================================================
