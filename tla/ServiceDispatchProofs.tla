----------------------- MODULE ServiceDispatchProofs -----------------------
(***************************************************************************)
(* Proofs about ServiceDispatch, for any services, senders, workers and    *)
(* bounds: its type, that a service has one sender, that a live one is     *)
(* queued, that one that is out has the row of its message, that the end   *)
(* of a service is told, and that its calls to Meta are counted.           *)
(***************************************************************************)
EXTENDS ServiceDispatch, FiniteSetTheorems, TLAPS

\* What is under way is about a service; an answer "ok" came with an id.
Aimed ==
  /\ \A p \in Sender : /\ job[p].answer = "ok" => job[p].wamid \in Wamid
                       /\ job[p].svc = NoService => job[p].answer = "none"
  /\ \A p \in Worker : tx[p] # NoTx => tx[p].svc \in Service /\ tx[p].kind \in Kind

TypeInv == TypeOK /\ Aimed

\* The types of a sender's and of a worker's state.
JobRow == [svc : Service \cup {NoService}, answer : {"none", "ok", "error", "invalid"},
           wamid : Wamid \cup {NoWamid}]
TxRow  == [kind : Kind \cup {"none"}, svc : Service \cup {NoService}, code : Reason, copy : Svc]

LEMMA Blank == NoJob \in JobRow /\ NoTx \in TxRow /\ New \in Svc
<1>1. New \in Svc
  BY DEF New, Svc, Status, Terminal, Reason
<1>2. NoJob \in JobRow
  BY DEF NoJob, JobRow
<1>3. NoTx \in TxRow
  BY <1>1 DEF NoTx, TxRow, Reason
<1> QED
  BY <1>1, <1>2, <1>3

\* A row stays one after Meta's answer, with its attempt.
LEMMA AfterSendType ==
  ASSUME NEW c \in Svc, NEW answer \in {"ok", "error", "invalid"}, NEW s
  PROVE  /\ AfterSend(c, answer, c.sends + 1 >= MaxSends, s \in asking) \in Svc
         /\ AfterSend(c, answer, c.sends + 1 >= MaxSends, s \in asking).att = c.att
<1> DEFINE d    == [c EXCEPT !.sends = @ + 1, !.sent = TRUE]
           last == c.sends + 1 >= MaxSends
           asks == s \in asking
<1>1. d \in Svc /\ d.att = c.att
  <2>1. c.sends + 1 \in Nat
    BY DEF Svc
  <2>2. d.att = c.att
    BY DEF Svc
  <2>3. \A n \in Nat : [c EXCEPT !.sends = n, !.sent = TRUE] \in Svc
    BY DEF Svc
  <2>4. d \in Svc
    BY <2>1, <2>3
  <2> QED
    BY <2>2, <2>4
<1>2. AfterSend(c, answer, last, asks) \in
        {d, [d EXCEPT !.status = "completed"],
         [d EXCEPT !.status = "failed", !.reason = "whatsapp_number_invalid"],
         [d EXCEPT !.status = "failed", !.reason = "send_error"],
         [d EXCEPT !.sent = FALSE, !.reason = "send_error", !.next = "ahead"]}
  <2>1. CASE answer = "ok" /\ asks
    BY <2>1 DEF AfterSend
  <2>2. CASE answer = "ok" /\ ~asks
    BY <2>2 DEF AfterSend
  <2>3. CASE answer = "invalid"
    BY <2>3 DEF AfterSend
  <2>4. CASE answer = "error" /\ last
    BY <2>4 DEF AfterSend
  <2>5. CASE answer = "error" /\ ~last
    BY <2>5 DEF AfterSend
  <2> QED
    BY <2>1, <2>2, <2>3, <2>4, <2>5
<1> HIDE DEF d
<1> QED
  BY <1>1, <1>2 DEF Svc, Status, Terminal, Reason

LEMMA OneLessType == \A n \in Nat : OneLess(n) \in Nat /\ OneLess(n) <= n
BY DEF OneLess

\* Notifications are only added.
LEMMA ToldType ==
  ASSUME notified \in [Service -> Seq(Note)], NEW s \in Service, NEW att \in Nat, NEW st,
         NEW ev \in Event
  PROVE  Told(s, att, st, ev) \in [Service -> Seq(Note)]
<1>1. [att |-> att, ev |-> ev] \in Note
  BY DEF Note
<1>2. Append(notified[s], [att |-> att, ev |-> ev]) \in Seq(Note)
  BY <1>1
<1> QED
  BY <1>2 DEF Told

\* The ways the other handlers write a service.
LEMMA Writes ==
  ASSUME svc \in [Service -> Svc], NEW s \in Service
  PROVE  /\ \A st \in Status : [svc EXCEPT ![s].status = st] \in [Service -> Svc]
         /\ \A st \in Status, c \in Reason :
              [svc EXCEPT ![s].status = st, ![s].reason = c] \in [Service -> Svc]
         /\ \A b \in BOOLEAN, n \in Nat, a \in Nat, x \in {"null", "ahead", "past"} :
              [svc EXCEPT ![s] = [@ EXCEPT !.status = "in_progress", !.reason = "none", !.sent = b,
                                            !.sends = n, !.next = x, !.att = a]] \in [Service -> Svc]
         /\ [svc EXCEPT ![s].next = "past"] \in [Service -> Svc]
<1>1. \A st \in Status : [svc EXCEPT ![s].status = st] \in [Service -> Svc]
  BY DEF Svc
<1>2. \A st \in Status, c \in Reason :
        [svc EXCEPT ![s].status = st, ![s].reason = c] \in [Service -> Svc]
  BY DEF Svc
<1>3. \A b \in BOOLEAN, n \in Nat, a \in Nat, x \in {"null", "ahead", "past"} :
        [svc[s] EXCEPT !.status = "in_progress", !.reason = "none", !.sent = b,
                       !.sends = n, !.next = x, !.att = a] \in Svc
  BY DEF Svc, Status, Reason
<1>4. [svc EXCEPT ![s].next = "past"] \in [Service -> Svc]
  BY DEF Svc
<1> QED
  BY <1>1, <1>2, <1>3, <1>4

\* What the call to Meta leaves behind.
LEMMA CallForm ==
  ASSUME job \in [Sender -> JobRow], NEW p \in Sender, CallMeta(p)
  PROVE  \E z \in JobRow :
           /\ job' = [job EXCEPT ![p] = z] /\ z.svc = job[p].svc
           /\ z.answer = "ok" =>
                /\ z.wamid \in Wamid
                /\ accepted' = [accepted EXCEPT ![z.wamid] =
                                  [svc |-> job[p].svc, att |-> svc[job[p].svc].att]]
<1>1. CASE \E w \in Wamid :
             /\ accepted' = [accepted EXCEPT ![w] = [svc |-> job[p].svc, att |-> svc[job[p].svc].att]]
             /\ job' = [job EXCEPT ![p].answer = "ok", ![p].wamid = w]
  <2>1. PICK w \in Wamid :
          /\ accepted' = [accepted EXCEPT ![w] = [svc |-> job[p].svc, att |-> svc[job[p].svc].att]]
          /\ job' = [job EXCEPT ![p].answer = "ok", ![p].wamid = w]
    BY <1>1
  <2> DEFINE z == [job[p] EXCEPT !.answer = "ok", !.wamid = w]
  <2>2. z \in JobRow /\ z.svc = job[p].svc /\ z.answer = "ok" /\ z.wamid = w
    BY DEF JobRow
  <2>3. job' = [job EXCEPT ![p] = z]
    BY <2>1
  <2> HIDE DEF z
  <2> QED
    BY <2>1, <2>2, <2>3
<1>2. CASE \E a \in {"error", "invalid"} : job' = [job EXCEPT ![p].answer = a]
  <2>1. PICK a \in {"error", "invalid"} : job' = [job EXCEPT ![p].answer = a]
    BY <1>2
  <2> DEFINE z == [job[p] EXCEPT !.answer = a]
  <2>2. z \in JobRow /\ z.svc = job[p].svc /\ z.answer = a
    BY DEF JobRow
  <2>3. job' = [job EXCEPT ![p] = z]
    BY <2>1
  <2> HIDE DEF z
  <2> QED
    BY <2>2, <2>3
<1> QED
  BY <1>1, <1>2 DEF CallMeta

LEMMA InitType == Init => TypeInv
<1> SUFFICES ASSUME Init PROVE TypeInv
  OBVIOUS
<1>1. TypeOK
  <2>1. notified \in [Service -> Seq(Note)]
    BY DEF Init
  <2>2. accepted \in [Wamid -> [svc : Service \cup {NoService}, att : Nat]]
    BY DEF Init
  <2>3. /\ svc \in [Service -> Svc] /\ job \in [Sender -> JobRow] /\ tx \in [Worker -> TxRow]
    BY Blank DEF Init
  <2> QED
    BY <2>1, <2>2, <2>3 DEF Init, TypeOK, JobRow, TxRow
<1>2. Aimed
  BY DEF Init, Aimed, NoJob
<1> QED
  BY <1>1, <1>2 DEF TypeInv

LEMMA TypeStep == TypeInv /\ [Next]_vars => TypeInv'
<1> SUFFICES ASSUME TypeInv, [Next]_vars PROVE TypeInv'
  OBVIOUS
<1> USE DEF TypeInv, TypeOK, Aimed
<1>0. job \in [Sender -> JobRow] /\ tx \in [Worker -> TxRow]
  BY DEF JobRow, TxRow
<1>1. ASSUME NEW p \in Sender, NEW s \in Service, Claim(p, s) PROVE TypeInv'
  <2>1. job' = [job EXCEPT ![p].svc = s] /\ job[p].answer = "none"
    BY <1>1 DEF Claim, NoJob
  <2>2. UNCHANGED <<asking, svc, open, rows, accepted, notified, tx, calls, retries, outrun, losses>>
    BY <1>1 DEF Claim
  <2>3. s # NoService
    BY ConstantsAssumption
  <2> QED
    BY <2>1, <2>2, <2>3
<1>2. ASSUME NEW p \in Sender, CallMeta(p) PROVE TypeInv'
  <2> DEFINE s == job[p].svc
  <2>1. s \in Service /\ svc[s].att \in Nat
    BY <1>2 DEF CallMeta, Svc
  <2>2. UNCHANGED <<asking, svc, open, rows, notified, tx, retries, outrun, losses>>
    BY <1>2 DEF CallMeta
  <2>3. calls' \in [Service -> [0..MaxRetries -> Nat]]
    <3>1. calls' = [calls EXCEPT ![s][svc[s].att] = @ + 1]
      BY <1>2 DEF CallMeta
    <3> DEFINE f == [calls[s] EXCEPT ![svc[s].att] = @ + 1]
    <3>2. f \in [0..MaxRetries -> Nat]
      <4>1. PICK g \in [0..MaxRetries -> Nat] : g = calls[s]
        BY <2>1
      <4>2. PICK a \in Nat : a = svc[s].att
        BY <2>1
      <4>3. [g EXCEPT ![a] = @ + 1] \in [0..MaxRetries -> Nat]
        <5> HIDE DEF TypeInv, TypeOK, Aimed
        <5>1. CASE a \in 0..MaxRetries
          <6>1. g[a] + 1 \in Nat
            BY <5>1
          <6> QED
            BY <5>1, <6>1
        <5>2. CASE a \notin 0..MaxRetries
          <6>1. [g EXCEPT ![a] = @ + 1] = g
            BY <5>2
          <6> QED
            BY <6>1
        <5> QED
          BY <5>1, <5>2
      <4> QED
        BY <4>1, <4>2, <4>3
    <3>3. calls' = [calls EXCEPT ![s] = f]
      BY <3>1
    <3> HIDE DEF f
    <3> QED
      BY <3>2, <3>3
  <2>4. PICK z \in JobRow :
          /\ job' = [job EXCEPT ![p] = z] /\ z.svc = job[p].svc
          /\ z.answer = "ok" =>
               /\ z.wamid \in Wamid
               /\ accepted' = [accepted EXCEPT ![z.wamid] =
                                 [svc |-> job[p].svc, att |-> svc[job[p].svc].att]]
    <3> HIDE DEF TypeInv, TypeOK, Aimed, s
    <3> QED
      BY <1>0, <1>2, CallForm
  <2>5. accepted' \in [Wamid -> [svc : Service \cup {NoService}, att : Nat]]
    <3>1. PICK v \in [svc : Service \cup {NoService}, att : Nat] : v = [svc |-> s, att |-> svc[s].att]
      BY <2>1
    <3>2. accepted' = accepted \/ \E w \in Wamid : accepted' = [accepted EXCEPT ![w] = v]
      BY <1>2, <3>1 DEF CallMeta
    <3> QED
      BY <3>2
  <2>6. job' \in [Sender -> JobRow]
    BY <1>0, <2>4
  <2> HIDE DEF s
  <2>7. Aimed'
    <3>1. \A x \in Sender : /\ job'[x].answer = "ok" => job'[x].wamid \in Wamid
                            /\ job'[x].svc = NoService => job'[x].answer = "none"
      <4> SUFFICES ASSUME NEW x \in Sender
                   PROVE  /\ job'[x].answer = "ok" => job'[x].wamid \in Wamid
                          /\ job'[x].svc = NoService => job'[x].answer = "none"
        OBVIOUS
      <4>1. CASE x = p
        <5>1. job'[p] = z /\ z.svc \in Service
          BY <2>1, <2>4 DEF s
        <5> QED
          BY <2>4, <4>1, <5>1, ConstantsAssumption
      <4>2. CASE x # p
        BY <2>4, <4>2
      <4> QED
        BY <4>1, <4>2
    <3> QED
      BY <2>2, <3>1
  <2> QED
    BY <2>2, <2>3, <2>5, <2>6, <2>7 DEF JobRow
<1>3. ASSUME NEW p \in Sender, Settle(p) PROVE TypeInv'
  <2> DEFINE s == job[p].svc
             d == AfterSend(svc[s], job[p].answer, svc[s].sends + 1 >= MaxSends, s \in asking)
  <2>1. s \in Service /\ job[p].answer \in {"ok", "error", "invalid"}
    BY <1>3 DEF Settle
  <2>2. d \in Svc
    BY <2>1, AfterSendType
  <2>3. /\ UNCHANGED <<asking, accepted, tx, calls, retries, outrun, losses>>
        /\ svc' = [svc EXCEPT ![s] = d] /\ job' = [job EXCEPT ![p] = NoJob]
    BY <1>3 DEF Settle
  <2>4. rows' \subseteq Wamid
    BY <1>3, <2>1 DEF Settle
  <2>5. open' \in [Service -> Nat] /\ notified' \in [Service -> Seq(Note)]
    <3>1. CASE d.status \in Terminal
      <4>1. open' = [open EXCEPT ![s] = OneLess(@)]
        BY <1>3, <3>1 DEF Settle
      <4>2. notified' = Told(s, d.att, d.status, d.status)
        BY <1>3, <3>1 DEF Settle
      <4>3. d.att \in Nat /\ d.status \in Event
        BY <2>2, <3>1 DEF Svc, Terminal, Event
      <4> HIDE DEF s, d
      <4>4. open' \in [Service -> Nat]
        BY <2>1, <4>1, OneLessType DEF s
      <4> QED
        BY <2>1, <4>2, <4>3, <4>4, ToldType
    <3>2. CASE d.status \notin Terminal
      BY <1>3, <3>2 DEF Settle
    <3> QED
      BY <3>1, <3>2
  <2> HIDE DEF s, d
  <2>6. job' \in [Sender -> JobRow] /\ svc' \in [Service -> Svc]
    BY <1>0, <2>2, <2>3, Blank
  <2>7. Aimed'
    BY <2>3 DEF NoJob
  <2> QED
    BY <2>3, <2>4, <2>5, <2>6, <2>7 DEF JobRow
<1>4. ASSUME NEW p \in Sender, Lose(p) PROVE TypeInv'
  <2>1. job' = [job EXCEPT ![p] = NoJob] /\ losses' = losses + 1
        /\ UNCHANGED <<asking, svc, open, rows, accepted, notified, tx, calls, retries, outrun>>
    BY <1>4 DEF Lose
  <2>2. job' \in [Sender -> JobRow]
    BY <1>0, <2>1, Blank
  <2>3. Aimed'
    BY <2>1 DEF NoJob
  <2> QED
    BY <2>1, <2>2, <2>3 DEF JobRow
<1>5. ASSUME NEW s \in Service, BackoffOver(s) PROVE TypeInv'
  BY <1>5, Writes DEF BackoffOver
<1>6. ASSUME NEW p \in Worker, NEW k \in Kind, NEW s \in Service, NEW c \in Reason, Begin(p, k, s, c)
      PROVE  TypeInv'
  BY <1>6 DEF Begin
<1>7. ASSUME NEW p \in Worker, Finish(p) PROVE TypeInv'
  <2> DEFINE t == tx[p]
             s == t.svc
  <2>1. s \in Service /\ t.kind \in Kind /\ t.copy \in Svc /\ t.code \in Reason
    BY <1>7 DEF Finish
  <2>2. tx' = [tx EXCEPT ![p] = NoTx] /\ UNCHANGED <<asking, rows, accepted, job, calls, losses>>
    BY <1>7 DEF Finish
  <2>3. t.copy.att \in Nat /\ t.copy.sent \in BOOLEAN /\ t.copy.status \in Status
    BY <2>1 DEF Svc
  <2>4. /\ svc' \in [Service -> Svc] /\ open' \in [Service -> Nat] /\ retries' \in [Service -> Nat]
        /\ outrun' \subseteq Service /\ notified' \in [Service -> Seq(Note)]
    <3>1. CASE Retried(p)
      <4> DEFINE b == Column(svc[s].sent, t.copy.sent, FALSE)
                 n == Column(svc[s].sends, t.copy.sends, 0)
                 x == Column(svc[s].next, t.copy.next, "null")
                 a == NextAttempt(t.copy.att)
      <4>1. b \in BOOLEAN /\ n \in Nat /\ x \in {"null", "ahead", "past"} /\ a \in Nat
        <5>1. svc[s] \in Svc
          BY <2>1
        <5>2. b = svc[s].sent \/ b = FALSE
          BY DEF Column
        <5>3. b \in BOOLEAN
          BY <5>1, <5>2 DEF Svc
        <5>4. n \in Nat
          BY <5>1 DEF Column, Svc
        <5>5. x \in {"null", "ahead", "past"}
          BY <5>1 DEF Column, Svc
        <5>6. a \in Nat
          BY <2>3 DEF NextAttempt
        <5> QED
          BY <5>3, <5>4, <5>5, <5>6
      <4>2. svc' = [svc EXCEPT ![s] = [@ EXCEPT !.status = "in_progress", !.reason = "none",
                                                 !.sent = b, !.sends = n, !.next = x, !.att = a]]
        BY <2>1, <3>1 DEF Retried
      <4>3. /\ open' = [open EXCEPT ![s] = OneMoreRow(@)] /\ retries' = [retries EXCEPT ![s] = @ + 1]
            /\ outrun' = outrun \ {s} /\ notified' = notified
        BY <3>1 DEF Retried
      <4> HIDE DEF s, b, n, x, a
      <4>4. svc' \in [Service -> Svc]
        BY <2>1, <4>1, <4>2, Writes
      <4>5. open' \in [Service -> Nat] /\ retries' \in [Service -> Nat]
        <5>1. open[s] \in Nat /\ retries[s] \in Nat
          BY <2>1 DEF s
        <5>2. OneMoreRow(open[s]) \in Nat /\ retries[s] + 1 \in Nat
          BY <5>1 DEF OneMoreRow
        <5> QED
          BY <4>3, <5>2
      <4> QED
        BY <4>3, <4>4, <4>5
    <3>2. CASE Receipted(p)
      <4>1. t.kind \in Receipt /\ t.kind \in Event
        BY <3>2 DEF Receipted, Receipt, Event
      <4>2. notified' \in [Service -> Seq(Note)]
        BY <2>1, <2>3, <3>2, <4>1, ToldType DEF Receipted
      <4>3. CASE Fails(t)
        <5>1. PICK c \in Reason : svc' = [svc EXCEPT ![s].status = "failed", ![s].reason = c]
          <6> DEFINE c == Column(svc[s].reason, t.copy.reason, t.code)
          <6>1. c \in Reason
            BY <2>1 DEF Column, Svc
          <6>2. svc' = [svc EXCEPT ![s].status = "failed", ![s].reason = c]
            BY <2>1, <3>2, <4>3 DEF Receipted
          <6> HIDE DEF c
          <6> QED
            BY <6>1, <6>2
        <5>2. "failed" \in Status
          BY DEF Status, Terminal
        <5>3. svc' \in [Service -> Svc]
          BY <2>1, <5>1, <5>2, Writes
        <5>4. open' \in [Service -> Nat] /\ outrun' \subseteq Service /\ retries' = retries
          BY <2>1, <3>2, <4>3 DEF Receipted, Outrun, OneLess
        <5> QED
          BY <4>2, <5>3, <5>4
      <4>4. CASE ~Fails(t)
        BY <3>2, <4>2, <4>4 DEF Receipted
      <4> QED
        BY <4>3, <4>4
    <3>3. CASE Ended(p)
      <4> DEFINE st == IF t.kind = "reply" THEN "completed" ELSE "expired"
      <4>0. retries' = retries
        BY <3>3 DEF Ended
      <4>1. CASE t.copy.status = st
        BY <3>3, <4>0, <4>1 DEF Ended
      <4>2. CASE t.copy.status # st
        <5>1. st \in Status /\ st \in Event
          BY DEF Status, Terminal, Event
        <5>2. svc' = [svc EXCEPT ![s].status = st] /\ notified' = Told(s, t.copy.att, st, st)
              /\ outrun' = Outrun(t)
          BY <3>3, <4>2 DEF Ended
        <5>3. open' \in [Service -> Nat]
          <6>1. PICK n \in Nat : open' = [open EXCEPT ![s] = n]
            BY <2>1, <3>3, <4>2 DEF Ended, OneLess
          <6> QED
            BY <6>1
        <5> HIDE DEF st
        <5>4. svc' \in [Service -> Svc]
          BY <2>1, <5>1, <5>2, Writes
        <5>5. notified' \in [Service -> Seq(Note)]
          BY <2>1, <2>3, <5>1, <5>2, ToldType
        <5>6. outrun' \subseteq Service
          BY <2>1, <5>2 DEF Outrun
        <5> QED
          BY <4>0, <5>3, <5>4, <5>5, <5>6
      <4> QED
        BY <4>1, <4>2
    <3> QED
      BY <1>7, <3>1, <3>2, <3>3 DEF Finish
  <2> HIDE DEF t, s
  <2>5. tx' \in [Worker -> TxRow]
    BY <1>0, <2>2, Blank
  <2>6. Aimed'
    BY <2>2
  <2> QED
    BY <2>2, <2>4, <2>5, <2>6 DEF TxRow
<1>8. CASE UNCHANGED vars
  BY <1>8 DEF vars
<1> QED
  BY <1>1, <1>2, <1>3, <1>4, <1>5, <1>6, <1>7, <1>8 DEF Next, Send

\* Every variable of the send job and of the handlers keeps its type.
THEOREM TypeCorrect == Spec => []TypeOK
<1>1. TypeInv => TypeOK
  BY DEF TypeInv
<1> QED
  BY <1>1, InitType, TypeStep, PTL DEF Spec

-----------------------------------------------------------------------------
(* One sender, one message, one end.                                       *)

\* What a sender holds is live and not out yet; the id it got from Meta is of
\* the attempt it works for.
Claims ==
  \A p \in Sender :
    /\ job[p].svc # NoService =>
         svc[job[p].svc].status = "in_progress" /\ ~svc[job[p].svc].sent
    /\ job[p].answer = "ok" =>
         accepted[job[p].wamid] = [svc |-> job[p].svc, att |-> svc[job[p].svc].att]

\* No attempt without a retry; a handler whose copy is of the last attempt there
\* can be has been outrun by nobody, and if it retries, the service is still
\* over and its template_sent is the copy's.
Copies ==
  /\ \A s \in Service : svc[s].att <= retries[s]
  /\ \A p \in Worker : tx[p] # NoTx =>
       /\ tx[p].copy.att <= retries[tx[p].svc]
       /\ tx[p].copy.att = retries[tx[p].svc] =>
            /\ svc[tx[p].svc].att = tx[p].copy.att
            /\ tx[p].kind = "retry" => /\ svc[tx[p].svc].status \in Terminal
                                       /\ svc[tx[p].svc].sent = tx[p].copy.sent

IInv == OneSenderPerService /\ Claims /\ Copies /\ SentHasMessage /\ LiveIsQueued /\ EndIsTold

\* A row is only added to the notifications, and an end that is not added was
\* told before.
LEMMA ToldKeeps ==
  ASSUME notified \in [Service -> Seq(Note)], NEW s \in Service, NEW att \in Nat, NEW st,
         NEW ev \in Event
  PROVE  \A x \in Service : Range(notified[x]) \subseteq Range(Told(s, att, st, ev)[x])
<1> DEFINE n == [att |-> att, ev |-> ev]
<1>1. Range(notified[s]) \subseteq Range(Append(notified[s], n))
  <2>1. notified[s] \in Seq(Note)
    OBVIOUS
  <2> HIDE DEF n
  <2> QED
    BY <2>1 DEF Range
<1> QED
  BY <1>1 DEF Told

LEMMA ToldEnds ==
  ASSUME notified \in [Service -> Seq(Note)], NEW s \in Subscribed, NEW att \in Nat,
         NEW st, NEW ev \in Terminal
  PROVE  \E n \in Range(Told(s, att, st, ev)[s]) : n.att = att /\ n.ev \in Terminal
<1>0. s \in Service
  BY ConstantsAssumption
<1>1. CASE Enqueues(Range(notified[s]), att, st, ev)
  <2> DEFINE n == [att |-> att, ev |-> ev]
  <2>1. Told(s, att, st, ev)[s] = Append(notified[s], n)
    BY <1>0, <1>1 DEF Told
  <2>2. notified[s] \in Seq(Note)
    BY <1>0
  <2>3. n.att = att /\ n.ev \in Terminal /\ n \in Note
    BY DEF Note, Terminal, Event
  <2> HIDE DEF n
  <2>4. n \in Range(Append(notified[s], n))
    <3> DEFINE k == Len(notified[s]) + 1
    <3>1. k \in DOMAIN Append(notified[s], n) /\ Append(notified[s], n)[k] = n
      BY <2>2, <2>3
    <3> QED
      BY <3>1 DEF Range
  <2> QED
    BY <2>1, <2>3, <2>4
<1>2. CASE ~Enqueues(Range(notified[s]), att, st, ev)
  <2>1. Told(s, att, st, ev)[s] = notified[s]
    BY <1>0, <1>2 DEF Told
  <2>2. RankReached(Range(notified[s]), att, 6)
    <3>1. StatusRank[ev] = 6 /\ ev # "answered" /\ Passes(st, ev)
      BY DEF StatusRank, Terminal, Passes
    <3> QED
      BY <1>2, <3>1 DEF Enqueues
  <2>3. PICK n \in Range(notified[s]) : n.att = att /\ StatusRank[n.ev] >= 6
    BY <2>2 DEF RankReached
  <2>4. n \in Note
    BY <1>0, <2>3 DEF Range
  <2>5. n.ev \in Terminal
    BY <2>3, <2>4 DEF Note, Event, StatusRank, Terminal
  <2> QED
    BY <2>1, <2>3, <2>5
<1> QED
  BY <1>1, <1>2

\* Meta's ids are never given away twice.
LEMMA AcceptedKept ==
  ASSUME TypeOK, NEW p \in Sender, CallMeta(p)
  PROVE  \A w \in Wamid : accepted[w].svc # NoService => accepted'[w] = accepted[w]
BY DEF CallMeta, TypeOK

LEMMA InvInit == Init => IInv
<1> SUFFICES ASSUME Init PROVE IInv
  OBVIOUS
<1>1. \A s \in Service : svc[s].status = "in_progress" /\ ~svc[s].sent /\ svc[s].att = 0
                         /\ open[s] = 1 /\ retries[s] = 0
  BY DEF Init, New
<1>2. OneSenderPerService /\ Claims
  BY DEF Init, OneSenderPerService, Claims, NoJob
<1>3. Copies /\ SentHasMessage /\ LiveIsQueued
  BY <1>1 DEF Init, Copies, SentHasMessage, LiveIsQueued
<1>4. EndIsTold
  BY <1>1, ConstantsAssumption DEF EndIsTold, Terminal
<1> QED
  BY <1>2, <1>3, <1>4 DEF IInv

\* What ends a service behind its back, or starts it again.
LEMMA FinishForms ==
  ASSUME TypeInv, NEW p \in Worker, Finish(p)
  PROVE  /\ tx[p].svc \in Service /\ ~Locked(tx[p].svc)
         /\ tx' = [tx EXCEPT ![p] = NoTx] /\ UNCHANGED <<asking, rows, accepted, job>>
         /\ \A x \in Service \ {tx[p].svc} :
              svc'[x] = svc[x] /\ open'[x] = open[x] /\ retries'[x] = retries[x]
         /\ \A x \in Service : Range(notified[x]) \subseteq Range(notified'[x])
         /\ \/ /\ tx[p].kind = "retry"
               /\ svc'[tx[p].svc].status = "in_progress" /\ svc'[tx[p].svc].att = tx[p].copy.att + 1
               /\ svc'[tx[p].svc].sent = Column(svc[tx[p].svc].sent, tx[p].copy.sent, FALSE)
               /\ open'[tx[p].svc] = open[tx[p].svc] + 1
               /\ retries'[tx[p].svc] = retries[tx[p].svc] + 1
               /\ \A x \in Service \ {tx[p].svc} : x \in outrun' <=> x \in outrun
            \/ svc' = svc /\ open' = open /\ retries' = retries /\ outrun' = outrun
            \/ /\ svc'[tx[p].svc].status \in Terminal
               /\ svc'[tx[p].svc].att = svc[tx[p].svc].att /\ svc'[tx[p].svc].sent = svc[tx[p].svc].sent
               /\ retries' = retries
               /\ outrun' = Outrun(tx[p])
               /\ tx[p].svc \in Subscribed =>
                    \E n \in Range(notified'[tx[p].svc]) : n.att = tx[p].copy.att /\ n.ev \in Terminal
<1> USE DEF TypeInv, TypeOK, Aimed
<1> DEFINE t == tx[p]
           s == tx[p].svc
<1>1. /\ s \in Service /\ ~Locked(s) /\ t.copy \in Svc /\ t.copy.att \in Nat
      /\ tx' = [tx EXCEPT ![p] = NoTx] /\ UNCHANGED <<asking, rows, accepted, job>>
  BY DEF Finish, Svc
<1>2. CASE Retried(p)
  <2>1. /\ t.kind = "retry" /\ notified' = notified /\ open' = [open EXCEPT ![s] = OneMoreRow(@)]
        /\ retries' = [retries EXCEPT ![s] = @ + 1] /\ outrun' = outrun \ {s}
    BY <1>2 DEF Retried
  <2>2. /\ \A x \in Service \ {s} : svc'[x] = svc[x]
        /\ svc'[s].status = "in_progress" /\ svc'[s].att = NextAttempt(t.copy.att)
        /\ svc'[s].sent = Column(svc[s].sent, t.copy.sent, FALSE)
    BY <1>1, <1>2 DEF Retried, Svc
  <2> HIDE DEF t
  <2> QED
    BY <1>1, <2>1, <2>2 DEF OneMoreRow, NextAttempt, t
<1>3. CASE Receipted(p)
  <2>1. t.kind \in Event /\ retries' = retries
    BY <1>3 DEF Receipted, Receipt, Event
  <2>2. \A x \in Service : Range(notified[x]) \subseteq Range(notified'[x])
    BY <1>1, <1>3, <2>1, ToldKeeps DEF Receipted
  <2>3. CASE Fails(t)
    <3>1. /\ \A x \in Service \ {s} : svc'[x] = svc[x] /\ open'[x] = open[x]
          /\ svc'[s].status = "failed" /\ svc'[s].att = svc[s].att /\ svc'[s].sent = svc[s].sent
          /\ outrun' = Outrun(t)
      <4>1. PICK c : svc' = [svc EXCEPT ![s].status = "failed", ![s].reason = c]
        <5>1. svc' = [svc EXCEPT ![s].status = "failed",
                                 ![s].reason = Column(svc[s].reason, t.copy.reason, t.code)]
          BY <1>1, <1>3, <2>3 DEF Receipted
        <5> QED
          BY <5>1
      <4>2. open' = [open EXCEPT ![s] = OneLess(@)] /\ outrun' = Outrun(t)
        BY <1>3, <2>3 DEF Receipted
      <4>3. svc[s] \in Svc
        BY <1>1
      <4> HIDE DEF s, t
      <4> QED
        BY <1>1, <4>1, <4>2, <4>3 DEF Svc
    <3>2. s \in Subscribed => \E n \in Range(notified'[s]) : n.att = t.copy.att /\ n.ev \in Terminal
      <4>1. notified' = Told(s, t.copy.att, "failed", t.kind) /\ t.kind \in Terminal
        BY <1>3, <2>3 DEF Receipted, Fails, Terminal
      <4> QED
        BY <1>1, <4>1, ToldEnds
    <3>3. "failed" \in Terminal
      BY DEF Terminal
    <3> QED
      BY <1>1, <2>1, <2>2, <3>1, <3>2, <3>3
  <2>4. CASE ~Fails(t)
    <3>1. svc' = svc /\ open' = open /\ outrun' = outrun
      BY <1>3, <2>4 DEF Receipted
    <3> QED
      BY <1>1, <2>1, <2>2, <3>1
  <2> QED
    BY <2>3, <2>4
<1>4. CASE Ended(p)
  <2> DEFINE st == IF t.kind = "reply" THEN "completed" ELSE "expired"
  <2>1. st \in Terminal /\ st \in Event /\ retries' = retries
    BY <1>4 DEF Ended, Terminal, Event
  <2>2. CASE t.copy.status = st
    <3>1. svc' = svc /\ open' = open /\ notified' = notified /\ outrun' = outrun
      BY <1>4, <2>2 DEF Ended
    <3> QED
      BY <1>1, <2>1, <3>1
  <2>3. CASE t.copy.status # st
    <3>1. svc' = [svc EXCEPT ![s].status = st] /\ notified' = Told(s, t.copy.att, st, st)
          /\ outrun' = Outrun(t)
      BY <1>4, <2>3 DEF Ended
    <3>2. \A x \in Service \ {s} : open'[x] = open[x]
      BY <1>4, <2>3 DEF Ended
    <3> HIDE DEF st
    <3>3. /\ \A x \in Service \ {s} : svc'[x] = svc[x]
          /\ svc'[s].status = st /\ svc'[s].att = svc[s].att /\ svc'[s].sent = svc[s].sent
      BY <1>1, <3>1 DEF Svc
    <3>4. \A x \in Service : Range(notified[x]) \subseteq Range(notified'[x])
      BY <1>1, <2>1, <3>1, ToldKeeps
    <3>5. s \in Subscribed => \E n \in Range(notified'[s]) : n.att = t.copy.att /\ n.ev \in Terminal
      BY <1>1, <2>1, <3>1, ToldEnds
    <3> QED
      BY <1>1, <2>1, <3>1, <3>2, <3>3, <3>4, <3>5
  <2> QED
    BY <2>2, <2>3
<1> QED
  BY <1>2, <1>3, <1>4 DEF Finish

\* What a step must leave to the senders that go on.
LEMMA ClaimsKept ==
  ASSUME TypeInv, Claims, accepted' = accepted,
         \A x \in Sender : job'[x] = NoJob \/
           /\ job'[x] = job[x]
           /\ job[x].svc # NoService =>
                /\ svc'[job[x].svc].status = svc[job[x].svc].status
                /\ svc'[job[x].svc].sent = svc[job[x].svc].sent
                /\ svc'[job[x].svc].att = svc[job[x].svc].att
  PROVE  Claims'
<1> SUFFICES ASSUME NEW x \in Sender
             PROVE  /\ job'[x].svc # NoService =>
                         svc'[job'[x].svc].status = "in_progress" /\ ~svc'[job'[x].svc].sent
                    /\ job'[x].answer = "ok" =>
                         accepted'[job'[x].wamid] =
                           [svc |-> job'[x].svc, att |-> svc'[job'[x].svc].att]
  BY DEF Claims
<1>1. CASE job'[x] = NoJob
  BY <1>1 DEF NoJob
<1>2. CASE job'[x] # NoJob
  <2>1. job'[x] = job[x]
    BY <1>2
  <2>2. job[x].svc = NoService => job[x].answer = "none"
    BY DEF TypeInv, Aimed
  <2>3. CASE job[x].svc = NoService
    BY <2>1, <2>2, <2>3
  <2>4. CASE job[x].svc # NoService
    <3>1. /\ svc[job[x].svc].status = "in_progress" /\ ~svc[job[x].svc].sent
          /\ job[x].answer = "ok" =>
               accepted[job[x].wamid] = [svc |-> job[x].svc, att |-> svc[job[x].svc].att]
      BY <2>4 DEF Claims
    <3>2. /\ svc'[job[x].svc].status = svc[job[x].svc].status
          /\ svc'[job[x].svc].sent = svc[job[x].svc].sent
          /\ svc'[job[x].svc].att = svc[job[x].svc].att
      BY <1>2, <2>4
    <3> QED
      BY <2>1, <3>1, <3>2
  <2> QED
    BY <2>3, <2>4
<1> QED
  BY <1>1, <1>2

\* What a step must leave to the handlers that have read a service.
LEMMA CopiesKept ==
  ASSUME TypeInv, Copies, retries' = retries,
         \A x \in Worker : tx'[x] = NoTx \/ tx'[x] = tx[x],
         \A x \in Service : /\ svc'[x].att = svc[x].att
                            /\ svc[x].status \in Terminal =>
                                 svc'[x].status \in Terminal /\ svc'[x].sent = svc[x].sent
  PROVE  Copies'
<1>1. \A x \in Service : svc'[x].att <= retries'[x]
  BY DEF Copies
<1>2. ASSUME NEW x \in Worker, tx'[x] # NoTx
      PROVE  /\ tx'[x].copy.att <= retries'[tx'[x].svc]
             /\ tx'[x].copy.att = retries'[tx'[x].svc] =>
                  /\ svc'[tx'[x].svc].att = tx'[x].copy.att
                  /\ tx'[x].kind = "retry" => /\ svc'[tx'[x].svc].status \in Terminal
                                              /\ svc'[tx'[x].svc].sent = tx'[x].copy.sent
  <2>1. tx'[x] = tx[x]
    BY <1>2
  <2>2. tx[x].svc \in Service
    BY <1>2, <2>1 DEF TypeInv, Aimed
  <2>3. /\ tx[x].copy.att <= retries[tx[x].svc]
        /\ tx[x].copy.att = retries[tx[x].svc] =>
             /\ svc[tx[x].svc].att = tx[x].copy.att
             /\ tx[x].kind = "retry" => /\ svc[tx[x].svc].status \in Terminal
                                        /\ svc[tx[x].svc].sent = tx[x].copy.sent
    BY <1>2, <2>1 DEF Copies
  <2> QED
    BY <2>1, <2>2, <2>3
<1> QED
  BY <1>1, <1>2 DEF Copies

LEMMA InvStep == TypeInv /\ TypeInv' /\ IInv /\ [Next]_vars => IInv'
<1> SUFFICES ASSUME TypeInv, TypeInv', IInv, [Next]_vars PROVE IInv'
  OBVIOUS
<1> USE DEF TypeInv, TypeOK, Aimed
<1>0. NoService \notin Service /\ NoJob.svc = NoService /\ NoJob.answer = "none"
  BY ConstantsAssumption DEF NoJob
<1>1. ASSUME NEW p \in Sender, NEW s \in Service, Claim(p, s) PROVE IInv'
  <2>1. /\ UNCHANGED <<svc, open, rows, accepted, notified, tx, retries, outrun>>
        /\ job' = [job EXCEPT ![p].svc = s] /\ job[p] = NoJob
        /\ svc[s].status = "in_progress" /\ ~svc[s].sent /\ \A x \in Sender : job[x].svc # s
    BY <1>1 DEF Claim, Claimable, Locked
  <2>2. /\ \A x \in Sender : x # p => job'[x] = job[x]
        /\ job'[p].svc = s /\ job'[p].answer = "none"
    BY <1>0, <2>1
  <2>3. OneSenderPerService'
    BY <2>1, <2>2 DEF IInv, OneSenderPerService
  <2>4. Claims'
    BY <2>1, <2>2 DEF IInv, Claims
  <2>5. (Copies /\ SentHasMessage /\ LiveIsQueued /\ EndIsTold)'
    BY <2>1 DEF IInv, Copies, SentHasMessage, RetriedInTurn, LiveIsQueued, EndIsTold
  <2> QED
    BY <2>3, <2>4, <2>5 DEF IInv
<1>2. ASSUME NEW p \in Sender, CallMeta(p) PROVE IInv'
  <2>1. UNCHANGED <<svc, open, rows, notified, tx, retries, outrun>>
    BY <1>2 DEF CallMeta
  <2>2. \A w \in Wamid : accepted[w].svc # NoService => accepted'[w] = accepted[w]
    BY <1>2, AcceptedKept
  <2>3. PICK z \in JobRow :
          /\ job' = [job EXCEPT ![p] = z] /\ z.svc = job[p].svc
          /\ z.answer = "ok" =>
               /\ z.wamid \in Wamid
               /\ accepted' = [accepted EXCEPT ![z.wamid] =
                                 [svc |-> job[p].svc, att |-> svc[job[p].svc].att]]
    <3>1. job \in [Sender -> JobRow]
      BY DEF JobRow
    <3> HIDE DEF TypeInv, TypeOK, Aimed
    <3> QED
      BY <1>2, <3>1, CallForm
  <2>4. OneSenderPerService'
    BY <2>3 DEF IInv, OneSenderPerService
  <2>5. Claims'
    <3> SUFFICES ASSUME NEW x \in Sender
                 PROVE  /\ job'[x].svc # NoService =>
                             svc[job'[x].svc].status = "in_progress" /\ ~svc[job'[x].svc].sent
                        /\ job'[x].answer = "ok" =>
                             accepted'[job'[x].wamid] =
                               [svc |-> job'[x].svc, att |-> svc[job'[x].svc].att]
      BY <2>1 DEF Claims
    <3>1. CASE x = p
      BY <2>3, <3>1 DEF IInv, Claims
    <3>2. CASE x # p
      <4>1. job'[x] = job[x]
        BY <2>3, <3>2
      <4>2. job[x].answer = "ok" => accepted[job[x].wamid].svc # NoService /\ job[x].wamid \in Wamid
        <5> SUFFICES ASSUME job[x].answer = "ok"
                     PROVE  accepted[job[x].wamid].svc # NoService /\ job[x].wamid \in Wamid
          OBVIOUS
        <5>1. job[x].svc # NoService /\ job[x].wamid \in Wamid
          OBVIOUS
        <5>2. accepted[job[x].wamid] = [svc |-> job[x].svc, att |-> svc[job[x].svc].att]
          BY DEF IInv, Claims
        <5> QED
          BY <5>1, <5>2
      <4> QED
        BY <2>2, <4>1, <4>2 DEF IInv, Claims
    <3> QED
      BY <3>1, <3>2
  <2>6. SentHasMessage'
    <3> SUFFICES ASSUME NEW s \in Service, RetriedInTurn(s), svc[s].status = "in_progress", svc[s].sent
                 PROVE  \E w \in rows : accepted'[w] = [svc |-> s, att |-> svc[s].att]
      BY <2>1 DEF SentHasMessage, RetriedInTurn
    <3>1. PICK w \in rows : accepted[w] = [svc |-> s, att |-> svc[s].att]
      BY DEF IInv, SentHasMessage
    <3> QED
      BY <1>0, <2>2, <3>1
  <2>7. (Copies /\ LiveIsQueued /\ EndIsTold)'
    BY <2>1 DEF IInv, Copies, LiveIsQueued, EndIsTold
  <2> QED
    BY <2>4, <2>5, <2>6, <2>7 DEF IInv
<1>3. ASSUME NEW p \in Sender, Settle(p) PROVE IInv'
  <2> DEFINE s == job[p].svc
             d == AfterSend(svc[s], job[p].answer, svc[s].sends + 1 >= MaxSends, s \in asking)
  <2>1. s \in Service /\ job[p].answer \in {"ok", "error", "invalid"} /\ svc[s] \in Svc
    BY <1>3 DEF Settle
  <2>2. d \in Svc /\ d.att = svc[s].att
    <3> HIDE DEF TypeInv, TypeOK, Aimed, s
    <3> QED
      BY <2>1, AfterSendType, ZenonT(30)
  <2>3. /\ UNCHANGED <<accepted, tx, retries, outrun>>
        /\ svc' = [svc EXCEPT ![s] = d] /\ job' = [job EXCEPT ![p] = NoJob]
    BY <1>3 DEF Settle
  <2>4. /\ d.status \in Terminal \/ d.status = "in_progress"
        /\ d.status = "in_progress" /\ d.sent => job[p].answer = "ok"
    BY <2>1 DEF AfterSend, Svc, Terminal, IInv, Claims
  <2>5. \A x \in Sender : x # p => job[x].svc # s
    BY <2>1, <1>0 DEF IInv, OneSenderPerService
  <2>6. svc[s].status = "in_progress" /\ ~svc[s].sent
    BY <2>1, <1>0 DEF IInv, Claims
  <2>7. rows \subseteq rows' /\ (job[p].answer = "ok" => job[p].wamid \in rows')
    BY <1>3 DEF Settle
  <2>8. d.status \in Terminal => notified' = Told(s, d.att, d.status, d.status)
    BY <1>3 DEF Settle
  <2>9. IF d.status \in Terminal THEN open' = [open EXCEPT ![s] = OneLess(@)]
        ELSE open' = open /\ notified' = notified
    BY <1>3 DEF Settle
  <2>10. job[p].answer = "ok" => accepted[job[p].wamid] = [svc |-> s, att |-> svc[s].att]
    BY DEF IInv, Claims
  <2>11. d.status \in Terminal => d.status \in Event
    BY DEF Terminal, Event
  <2>12. "in_progress" \notin Terminal
    BY DEF Terminal
  <2> HIDE DEF s, d
  <2>13. /\ \A x \in Service : x # s => svc'[x] = svc[x] /\ open'[x] = open[x]
         /\ svc'[s] = d
    BY <2>1, <2>3, <2>9
  <2>14. OneSenderPerService'
    BY <1>0, <2>3 DEF IInv, OneSenderPerService
  <2>15. Claims'
    <3>1. \A x \in Sender : job[x].svc \in Service \cup {NoService}
      OBVIOUS
    <3>2. \A x \in Sender : x # p => job'[x] = job[x]
      BY <2>3
    <3>3. job'[p] = NoJob
      BY <2>3
    <3> HIDE DEF TypeInv, TypeOK, Aimed
    <3> QED
      BY <2>3, <2>5, <2>13, <3>1, <3>2, <3>3, ClaimsKept DEF IInv
  <2>16. Copies'
    <3>1. \A x \in Service : /\ svc'[x].att = svc[x].att
                             /\ svc[x].status \in Terminal =>
                                  svc'[x].status \in Terminal /\ svc'[x].sent = svc[x].sent
      <4> HIDE DEF TypeInv, TypeOK, Aimed
      <4>1. ASSUME NEW x \in Service
            PROVE  /\ svc'[x].att = svc[x].att
                   /\ svc[x].status \in Terminal =>
                        svc'[x].status \in Terminal /\ svc'[x].sent = svc[x].sent
        BY <2>2, <2>6, <2>12, <2>13, <4>1
      <4> QED
        BY <4>1
    <3> HIDE DEF TypeInv, TypeOK, Aimed
    <3> QED
      BY <2>3, <3>1, CopiesKept DEF IInv
  <2>17. SentHasMessage'
    <3> HIDE DEF TypeInv, TypeOK, Aimed
    <3> SUFFICES ASSUME NEW x \in Service, retries'[x] = svc'[x].att,
                        svc'[x].status = "in_progress", svc'[x].sent
                 PROVE  \E w \in rows' : accepted'[w] = [svc |-> x, att |-> svc'[x].att]
      BY DEF SentHasMessage, RetriedInTurn
    <3>1. CASE x = s
      BY <2>2, <2>3, <2>4, <2>7, <2>10, <2>13, <3>1
    <3>2. CASE x # s
      <4>1. retries[x] = svc[x].att /\ svc[x].status = "in_progress" /\ svc[x].sent
        BY <2>3, <2>13, <3>2
      <4>2. PICK w \in rows : accepted[w] = [svc |-> x, att |-> svc[x].att]
        BY <4>1 DEF IInv, SentHasMessage, RetriedInTurn
      <4> QED
        BY <2>3, <2>7, <2>13, <3>2, <4>2
    <3> QED
      BY <3>1, <3>2
  <2>18. LiveIsQueued'
    <3> SUFFICES ASSUME NEW x \in Service, svc'[x].status = "in_progress" PROVE open'[x] > 0
      BY DEF LiveIsQueued
    <3>1. CASE x = s
      BY <2>6, <2>9, <2>13, <2>12, <3>1 DEF IInv, LiveIsQueued
    <3>2. CASE x # s
      BY <2>13, <3>2 DEF IInv, LiveIsQueued
    <3> QED
      BY <3>1, <3>2
  <2>19. EndIsTold'
    <3> SUFFICES ASSUME NEW x \in Subscribed \ outrun, svc'[x].status \in Terminal
                 PROVE  \E n \in Range(notified'[x]) : n.att = svc'[x].att /\ n.ev \in Terminal
      BY <2>3 DEF EndIsTold
    <3>0. x \in Service
      BY ConstantsAssumption
    <3>1. CASE x = s
      <4>1. d.status \in Terminal /\ s \in Subscribed /\ d.att \in Nat
        BY <2>2, <2>13, <3>1 DEF Svc
      <4> QED
        <5>1. \E n \in Range(Told(s, d.att, d.status, d.status)[s]) : n.att = d.att /\ n.ev \in Terminal
          <6> HIDE DEF Aimed
          <6> QED
            BY <4>1, ToldEnds
        <5> QED
          BY <2>8, <2>13, <3>1, <4>1, <5>1
    <3>2. CASE x # s
      <4>1. Range(notified[x]) \subseteq Range(notified'[x])
        <5>1. CASE d.status \in Terminal
          <6>1. d.att \in Nat
            BY <2>2 DEF Svc
          <6> QED
            BY <2>1, <2>8, <2>11, <3>0, <5>1, <6>1, ToldKeeps
        <5>2. CASE d.status \notin Terminal
          BY <2>9, <5>2
        <5> QED
          BY <5>1, <5>2
      <4>2. PICK n \in Range(notified[x]) : n.att = svc[x].att /\ n.ev \in Terminal
        BY <2>13, <3>0, <3>2 DEF IInv, EndIsTold
      <4> QED
        BY <2>13, <3>0, <3>2, <4>1, <4>2
    <3> QED
      BY <3>1, <3>2
  <2> QED
    BY <2>14, <2>15, <2>16, <2>17, <2>18, <2>19 DEF IInv
<1>4. ASSUME NEW p \in Sender, Lose(p) PROVE IInv'
  <2>1. /\ UNCHANGED <<svc, open, rows, accepted, notified, tx, retries, outrun>>
        /\ job' = [job EXCEPT ![p] = NoJob]
    BY <1>4 DEF Lose
  <2>2. OneSenderPerService' /\ Claims'
    BY <1>0, <2>1 DEF IInv, OneSenderPerService, Claims
  <2>3. (Copies /\ SentHasMessage /\ LiveIsQueued /\ EndIsTold)'
    BY <2>1 DEF IInv, Copies, SentHasMessage, RetriedInTurn, LiveIsQueued, EndIsTold
  <2> QED
    BY <2>2, <2>3 DEF IInv
<1>5. ASSUME NEW s \in Service, BackoffOver(s) PROVE IInv'
  <2>1. /\ UNCHANGED <<open, rows, accepted, notified, job, tx, retries, outrun>>
        /\ \A x \in Service : /\ svc'[x].status = svc[x].status /\ svc'[x].sent = svc[x].sent
                              /\ svc'[x].att = svc[x].att
    BY <1>5 DEF BackoffOver, Svc
  <2>2. OneSenderPerService' /\ LiveIsQueued'
    BY <2>1 DEF IInv, OneSenderPerService, LiveIsQueued
  <2>3. Claims'
    <3>1. \A x \in Sender : job[x].svc \in Service \cup {NoService}
      OBVIOUS
    <3> HIDE DEF TypeInv, TypeOK, Aimed
    <3> QED
      BY <2>1, <3>1, ClaimsKept DEF IInv
  <2>4. Copies'
    <3> HIDE DEF TypeInv, TypeOK, Aimed
    <3> QED
      BY <2>1, CopiesKept DEF IInv
  <2>5. SentHasMessage'
    <3> SUFFICES ASSUME NEW x \in Service, retries[x] = svc'[x].att,
                        svc'[x].status = "in_progress", svc'[x].sent
                 PROVE  \E w \in rows : accepted[w] = [svc |-> x, att |-> svc'[x].att]
      BY <2>1 DEF SentHasMessage, RetriedInTurn
    <3>1. /\ retries[x] = svc[x].att /\ svc[x].status = "in_progress" /\ svc[x].sent
          /\ svc'[x].att = svc[x].att
      BY <2>1
    <3> QED
      BY <3>1 DEF IInv, SentHasMessage, RetriedInTurn
  <2>6. EndIsTold'
    BY <2>1, ConstantsAssumption DEF IInv, EndIsTold
  <2> QED
    BY <2>2, <2>3, <2>4, <2>5, <2>6 DEF IInv
<1>6. ASSUME NEW p \in Worker, NEW k \in Kind, NEW s \in Service, NEW c \in Reason, Begin(p, k, s, c)
      PROVE  IInv'
  <2>1. /\ UNCHANGED <<svc, open, rows, accepted, notified, job, retries, outrun>>
        /\ tx' = [tx EXCEPT ![p] = [kind |-> k, svc |-> s, code |-> c, copy |-> svc[s]]]
        /\ k = "retry" => svc[s].status = "failed"
    BY <1>6 DEF Begin, Receipt
  <2>2. OneSenderPerService' /\ Claims' /\ LiveIsQueued'
    BY <2>1 DEF IInv, OneSenderPerService, Claims, LiveIsQueued
  <2>3. (SentHasMessage /\ EndIsTold)'
    BY <2>1 DEF IInv, SentHasMessage, RetriedInTurn, EndIsTold
  <2>4. Copies'
    <3>1. /\ \A x \in Worker : x # p => tx'[x] = tx[x]
          /\ tx'[p].svc = s /\ tx'[p].kind = k /\ tx'[p].copy = svc[s]
      BY <2>1
    <3>2. svc[s].att <= retries[s] /\ "failed" \in Terminal
      BY DEF IInv, Copies, Terminal
    <3> QED
      BY <2>1, <3>1, <3>2 DEF IInv, Copies
  <2> QED
    BY <2>2, <2>3, <2>4 DEF IInv
<1>7. ASSUME NEW p \in Worker, Finish(p) PROVE IInv'
  <2> DEFINE t == tx[p]
             s == tx[p].svc
  <2>1. /\ s \in Service /\ ~Locked(s) /\ tx' = [tx EXCEPT ![p] = NoTx]
        /\ UNCHANGED <<asking, rows, accepted, job>>
        /\ \A x \in Service \ {s} : svc'[x] = svc[x] /\ open'[x] = open[x] /\ retries'[x] = retries[x]
        /\ \A x \in Service : Range(notified[x]) \subseteq Range(notified'[x])
    BY <1>7, FinishForms
  <2>2. \A x \in Sender : job[x].svc # s
    BY <2>1 DEF Locked
  <2>3. OneSenderPerService'
    BY <2>1 DEF IInv, OneSenderPerService
  <2>4. Claims'
    <3>1. \A x \in Sender : job[x].svc \in Service \cup {NoService}
      OBVIOUS
    <3> HIDE DEF TypeInv, TypeOK, Aimed, s
    <3> QED
      BY <2>1, <2>2, <3>1, ClaimsKept DEF IInv
  <2>5. tx[p] # NoTx /\ t.copy \in Svc /\ t.copy.att \in Nat
    BY <1>7 DEF Finish, Svc
  <2>6. \A x \in Service \ {s} : x \in outrun' <=> x \in outrun
    <3>1. \/ \A x \in Service \ {s} : x \in outrun' <=> x \in outrun
          \/ outrun' = outrun
          \/ outrun' = Outrun(t)
      <4> HIDE DEF TypeInv, TypeOK, Aimed
      <4> QED
        BY <1>7, FinishForms
    <3>2. outrun' = Outrun(t) => \A x \in Service \ {s} : x \in outrun' <=> x \in outrun
      BY DEF Outrun
    <3> QED
      BY <3>1, <3>2
  <2>7. t.copy.att <= retries[s] /\ retries[s] \in Nat
    BY <2>1, <2>5 DEF IInv, Copies
  <2>8. /\ \A x \in Service \ {s} : svc'[x].att <= retries'[x]
        /\ \A x \in Service \ {s} :
             retries'[x] = svc'[x].att /\ svc'[x].status = "in_progress" /\ svc'[x].sent
               => \E w \in rows' : accepted'[w] = [svc |-> x, att |-> svc'[x].att]
        /\ \A x \in Service \ {s} : svc'[x].status = "in_progress" => open'[x] > 0
        /\ \A x \in (Subscribed \ outrun') \ {s} : svc'[x].status \in Terminal =>
             \E n \in Range(notified'[x]) : n.att = svc'[x].att /\ n.ev \in Terminal
    <3>1. \A x \in Service \ {s} : svc'[x].att <= retries'[x]
      BY <2>1 DEF IInv, Copies
    <3>2. \A x \in Service \ {s} :
             retries'[x] = svc'[x].att /\ svc'[x].status = "in_progress" /\ svc'[x].sent
               => \E w \in rows' : accepted'[w] = [svc |-> x, att |-> svc'[x].att]
      <4> HIDE DEF t, s, TypeInv, TypeOK, Aimed
      <4> SUFFICES ASSUME NEW x \in Service \ {s}, retries'[x] = svc'[x].att,
                          svc'[x].status = "in_progress", svc'[x].sent
                   PROVE  \E w \in rows' : accepted'[w] = [svc |-> x, att |-> svc'[x].att]
        OBVIOUS
      <4>1. retries[x] = svc[x].att /\ svc[x].status = "in_progress" /\ svc[x].sent
        BY <2>1
      <4>2. PICK w \in rows : accepted[w] = [svc |-> x, att |-> svc[x].att]
        BY <4>1 DEF IInv, SentHasMessage, RetriedInTurn
      <4> QED
        BY <2>1, <4>2
    <3>3. \A x \in Service \ {s} : svc'[x].status = "in_progress" => open'[x] > 0
      BY <2>1 DEF IInv, LiveIsQueued
    <3>4. \A x \in (Subscribed \ outrun') \ {s} : svc'[x].status \in Terminal =>
             \E n \in Range(notified'[x]) : n.att = svc'[x].att /\ n.ev \in Terminal
      BY <2>1, <2>6, ConstantsAssumption DEF IInv, EndIsTold
    <3> QED
      BY <3>1, <3>2, <3>3, <3>4
  <2>9. CASE /\ t.kind = "retry"
             /\ svc'[s].status = "in_progress" /\ svc'[s].att = t.copy.att + 1
             /\ svc'[s].sent = Column(svc[s].sent, t.copy.sent, FALSE)
             /\ open'[s] = open[s] + 1
             /\ retries'[s] = retries[s] + 1
    <3>1. svc'[s].att = retries'[s] => ~svc'[s].sent
      <4> SUFFICES ASSUME svc'[s].att = retries'[s] PROVE ~svc'[s].sent
        OBVIOUS
      <4>1. t.copy.att = retries[s]
        <5>1. t.copy.att + 1 = retries[s] + 1
          BY <2>9
        <5> HIDE DEF t, s, TypeInv, TypeOK, Aimed
        <5> QED
          BY <2>5, <2>7, <5>1
      <4>2. svc[s].sent = t.copy.sent
        BY <2>5, <2>9, <4>1 DEF IInv, Copies
      <4>3. Column(svc[s].sent, t.copy.sent, FALSE) = FALSE
        BY <4>2 DEF Column
      <4> QED
        BY <2>9, <4>3
    <3>2. svc'[s].att <= retries'[s] /\ open'[s] > 0
      <4>1. open[s] \in Nat
        BY <2>1
      <4>2. svc'[s].att = t.copy.att + 1 /\ retries'[s] = retries[s] + 1 /\ open'[s] = open[s] + 1
        BY <2>9
      <4> HIDE DEF t, s, TypeInv, TypeOK, Aimed
      <4>3. svc'[s].att <= retries'[s]
        BY <2>5, <2>7, <4>2
      <4>4. open'[s] > 0
        BY <4>1, <4>2
      <4> QED
        BY <4>3, <4>4
    <3>3. Copies'
      <4>0. \A x \in Service : svc'[x].att <= retries'[x]
        BY <2>8, <3>2
      <4>1. ASSUME NEW x \in Worker, tx'[x] # NoTx
            PROVE  /\ tx'[x] = tx[x] /\ tx[x] # NoTx
                   /\ tx[x].svc \in Service /\ tx[x].copy.att \in Nat
        BY <2>1, <4>1 DEF Svc
      <4>2. ASSUME NEW x \in Worker, tx'[x] # NoTx
            PROVE  /\ tx'[x].copy.att <= retries'[tx'[x].svc]
                   /\ tx'[x].copy.att = retries'[tx'[x].svc] =>
                        /\ svc'[tx'[x].svc].att = tx'[x].copy.att
                        /\ tx'[x].kind = "retry" => /\ svc'[tx'[x].svc].status \in Terminal
                                                    /\ svc'[tx'[x].svc].sent = tx'[x].copy.sent
        <5> HIDE DEF t, s, TypeInv, TypeOK, Aimed
        <5>1. tx'[x] = tx[x] /\ tx[x] # NoTx /\ tx[x].svc \in Service /\ tx[x].copy.att \in Nat
          BY <4>1, <4>2
        <5>2. /\ tx[x].copy.att <= retries[tx[x].svc]
              /\ tx[x].copy.att = retries[tx[x].svc] =>
                   /\ svc[tx[x].svc].att = tx[x].copy.att
                   /\ tx[x].kind = "retry" => /\ svc[tx[x].svc].status \in Terminal
                                              /\ svc[tx[x].svc].sent = tx[x].copy.sent
          BY <5>1 DEF IInv, Copies
        <5>3. CASE tx[x].svc = s
          <6>1. tx[x].copy.att <= retries[s] /\ retries'[s] = retries[s] + 1
            BY <2>9, <5>2, <5>3
          <6>2. tx[x].copy.att < retries'[s]
            BY <2>7, <5>1, <6>1
          <6> QED
            BY <2>7, <5>1, <5>3, <6>1, <6>2
        <5>4. CASE tx[x].svc # s
          <6>1. retries'[tx[x].svc] = retries[tx[x].svc] /\ svc'[tx[x].svc] = svc[tx[x].svc]
            BY <2>1, <5>1, <5>4
          <6> QED
            BY <5>1, <5>2, <6>1
        <5> QED
          BY <5>3, <5>4
      <4> HIDE DEF TypeInv, TypeOK, Aimed
      <4> QED
        BY <4>0, <4>2 DEF Copies
    <3>4. SentHasMessage'
      BY <2>8, <3>1 DEF SentHasMessage, RetriedInTurn
    <3>5. LiveIsQueued'
      BY <2>8, <3>2 DEF LiveIsQueued
    <3>6. EndIsTold'
      BY <2>8, <2>9 DEF EndIsTold, Terminal
    <3> QED
      BY <2>3, <2>4, <3>3, <3>4, <3>5, <3>6 DEF IInv
  <2>10. CASE \/ svc' = svc /\ open' = open /\ retries' = retries /\ outrun' = outrun
              \/ /\ svc'[s].status \in Terminal
                 /\ svc'[s].att = svc[s].att /\ svc'[s].sent = svc[s].sent
                 /\ retries' = retries
                 /\ outrun' = Outrun(t)
                 /\ s \in Subscribed =>
                      \E n \in Range(notified'[s]) : n.att = t.copy.att /\ n.ev \in Terminal
    <3>1. /\ retries' = retries /\ svc'[s].att = svc[s].att /\ svc'[s].sent = svc[s].sent
          /\ svc'[s].status \in Terminal \/ (svc' = svc /\ open' = open)
      BY <2>10
    <3>2. Copies'
      <4>1. \A x \in Worker : tx'[x] = NoTx \/ tx'[x] = tx[x]
        BY <2>1
      <4>2. \A x \in Service : /\ svc'[x].att = svc[x].att
                               /\ svc[x].status \in Terminal =>
                                    svc'[x].status \in Terminal /\ svc'[x].sent = svc[x].sent
        BY <2>1, <3>1
      <4> HIDE DEF TypeInv, TypeOK, Aimed
      <4> QED
        BY <3>1, <4>1, <4>2, CopiesKept DEF IInv
    <3>3. SentHasMessage'
      <4>1. retries'[s] = svc'[s].att /\ svc'[s].status = "in_progress" /\ svc'[s].sent
              => \E w \in rows' : accepted'[w] = [svc |-> s, att |-> svc'[s].att]
        BY <2>1, <3>1 DEF IInv, SentHasMessage, RetriedInTurn, Terminal
      <4> QED
        BY <2>8, <4>1 DEF SentHasMessage, RetriedInTurn
    <3>4. LiveIsQueued'
      <4>1. svc'[s].status = "in_progress" => open'[s] > 0
        BY <2>1, <3>1 DEF IInv, LiveIsQueued, Terminal
      <4> QED
        BY <2>8, <4>1 DEF LiveIsQueued
    <3>5. EndIsTold'
      <4>1. s \in Subscribed /\ s \notin outrun' /\ svc'[s].status \in Terminal =>
              \E n \in Range(notified'[s]) : n.att = svc'[s].att /\ n.ev \in Terminal
        <5>1. CASE svc' = svc /\ outrun' = outrun
          BY <2>1, <5>1 DEF IInv, EndIsTold
        <5>2. CASE outrun' = Outrun(t) /\ svc'[s].att = svc[s].att /\ (s \in Subscribed =>
                      \E n \in Range(notified'[s]) : n.att = t.copy.att /\ n.ev \in Terminal)
          <6>1. s \notin outrun' => t.copy.att = svc[s].att
            BY <5>2 DEF Outrun
          <6> QED
            BY <5>2, <6>1
        <5> QED
          BY <2>10, <5>1, <5>2
      <4> QED
        BY <2>8, <4>1 DEF EndIsTold
    <3> QED
      BY <2>3, <2>4, <3>2, <3>3, <3>4, <3>5 DEF IInv
  <2> QED
    BY <1>7, <2>9, <2>10, FinishForms
<1>8. CASE UNCHANGED vars
  BY <1>8 DEF vars, IInv, OneSenderPerService, Claims, Copies, SentHasMessage, RetriedInTurn,
              LiveIsQueued, EndIsTold
<1> QED
  BY <1>1, <1>2, <1>3, <1>4, <1>5, <1>6, <1>7, <1>8 DEF Next, Send

LEMMA Invariant == Spec => [](TypeInv /\ IInv)
<1>1. Init => TypeInv /\ IInv
  BY InitType, InvInit
<1>2. TypeInv /\ IInv /\ [Next]_vars => (TypeInv /\ IInv)'
  BY TypeStep, InvStep
<1> QED
  BY <1>1, <1>2, PTL DEF Spec

\* Several instances of the send job never send the same service together.
THEOREM OneSender == Spec => []OneSenderPerService
<1>1. IInv => OneSenderPerService
  BY DEF IInv
<1> QED
  BY <1>1, Invariant, PTL

\* A service that is out has the row of its attempt's message, unless retry
\* calls overlapped.
THEOREM SentMessages == Spec => []SentHasMessage
<1>1. IInv => SentHasMessage
  BY DEF IInv
<1> QED
  BY <1>1, Invariant, PTL

\* A live service can be found by the expiry job.
THEOREM LiveQueued == Spec => []LiveIsQueued
<1>1. IInv => LiveIsQueued
  BY DEF IInv
<1> QED
  BY <1>1, Invariant, PTL

\* The end of a service has been told under the attempt it belongs to, unless a
\* handler wrote it that had read the service before a retry.
THEOREM EndTold == Spec => []EndIsTold
<1>1. IInv => EndIsTold
  BY DEF IInv
<1> QED
  BY <1>1, Invariant, PTL

-----------------------------------------------------------------------------
(* The calls to Meta.                                                      *)

\* Meta is being called, or has answered, for s.
InFlight(s) == IF \E p \in Sender : job[p].svc = s /\ job[p].answer # "none" THEN 1 ELSE 0

\* The calls of the current attempt against send_attempts, its cap, and what is
\* left of it: a service that may be claimed again has not used it up.
Tally(s) ==
  retries[s] = svc[s].att =>
    /\ calls[s][svc[s].att] <= svc[s].sends + losses + InFlight(s)
    /\ svc[s].sends <= MaxSends
    /\ svc[s].status = "in_progress" /\ ~svc[s].sent => svc[s].sends < MaxSends

\* Attempts that no retry has opened have no calls; a retry that nobody has
\* outrun resets the count it has read.
Counted ==
  /\ \A s \in Service : /\ svc[s].att <= MaxRetries /\ Tally(s)
                        /\ \A a \in 0..MaxRetries : a > retries[s] => calls[s][a] = 0
  /\ \A p \in Worker : tx[p] # NoTx /\ tx[p].kind = "retry" =>
       /\ tx[p].copy.att < MaxRetries
       /\ tx[p].copy.att = retries[tx[p].svc] => svc[tx[p].svc].sends = tx[p].copy.sends

\* The calls under way for a service are one or none.
LEMMA FlyingOne ==
  ASSUME OneSenderPerService, NEW s \in Service
  PROVE  Flying(s) = InFlight(s)
<1> DEFINE F == {p \in Sender : job[p].svc = s /\ job[p].answer # "none"}
<1>1. CASE F = {}
  BY <1>1, FS_EmptySet DEF Flying, InFlight
<1>2. CASE F # {}
  <2>1. PICK p \in Sender : job[p].svc = s /\ job[p].answer # "none"
    BY <1>2
  <2>2. F = {p}
    BY <2>1, ConstantsAssumption DEF OneSenderPerService
  <2> QED
    BY <2>1, <2>2, FS_Singleton DEF Flying, InFlight
<1> QED
  BY <1>1, <1>2

\* What Meta's answer does to the count.
LEMMA AfterSendSends ==
  ASSUME NEW c \in Svc, NEW answer \in {"ok", "error", "invalid"}, NEW s
  PROVE  LET d == AfterSend(c, answer, c.sends + 1 >= MaxSends, s \in asking) IN
         /\ d.sends = c.sends + 1
         /\ d.status = "in_progress" /\ ~d.sent => ~(c.sends + 1 >= MaxSends)
<1> DEFINE d    == [c EXCEPT !.sends = @ + 1, !.sent = TRUE]
           last == c.sends + 1 >= MaxSends
           asks == s \in asking
           a    == AfterSend(c, answer, last, asks)
<1>1. d.sends = c.sends + 1 /\ d.sent = TRUE
  BY DEF Svc
<1>2. /\ \A st \in Status : /\ [d EXCEPT !.status = st].sends = d.sends
                             /\ [d EXCEPT !.status = st].sent = d.sent
      /\ \A st \in Status, r \in Reason :
           /\ [d EXCEPT !.status = st, !.reason = r].sends = d.sends
           /\ [d EXCEPT !.status = st, !.reason = r].sent = d.sent
      /\ [d EXCEPT !.sent = FALSE, !.reason = "send_error", !.next = "ahead"].sends = d.sends
  BY DEF Svc
<1>3. /\ "completed" \in Status /\ "failed" \in Status
      /\ "whatsapp_number_invalid" \in Reason /\ "send_error" \in Reason
  BY DEF Status, Terminal, Reason
<1> HIDE DEF d, last, asks
<1>4. CASE answer = "ok" /\ asks
  <2>1. a = d
    BY <1>4 DEF AfterSend, d
  <2> QED
    BY <1>1, <2>1 DEF last, asks
<1>5. CASE answer = "ok" /\ ~asks
  <2>1. a = [d EXCEPT !.status = "completed"]
    BY <1>5 DEF AfterSend, d
  <2>2. a.sends = d.sends /\ a.sent = d.sent
    BY <1>2, <1>3, <2>1
  <2> QED
    BY <1>1, <2>2 DEF last, asks
<1>6. CASE answer = "invalid"
  <2>1. a = [d EXCEPT !.status = "failed", !.reason = "whatsapp_number_invalid"]
    BY <1>6 DEF AfterSend, d
  <2>2. a.sends = d.sends /\ a.sent = d.sent
    BY <1>2, <1>3, <2>1
  <2> QED
    BY <1>1, <2>2 DEF last, asks
<1>7. CASE answer = "error" /\ last
  <2>1. a = [d EXCEPT !.status = "failed", !.reason = "send_error"]
    BY <1>7 DEF AfterSend, d
  <2>2. a.sends = d.sends /\ a.sent = d.sent
    BY <1>2, <1>3, <2>1
  <2> QED
    BY <1>1, <2>2 DEF last, asks
<1>8. CASE answer = "error" /\ ~last
  <2>1. a = [d EXCEPT !.sent = FALSE, !.reason = "send_error", !.next = "ahead"]
    BY <1>8 DEF AfterSend, d
  <2>2. a.sends = d.sends
    BY <1>2, <1>3, <2>1
  <2> QED
    BY <1>1, <1>8, <2>2 DEF last, asks
<1> QED
  BY <1>4, <1>5, <1>6, <1>7, <1>8

\* No handler but a retry touches the count, and none starts a service again.
LEMMA FinishSends ==
  ASSUME TypeInv, NEW p \in Worker, Finish(p)
  PROVE  /\ tx[p].svc \in Service /\ UNCHANGED <<calls, losses, job>> /\ tx' = [tx EXCEPT ![p] = NoTx]
         /\ \A x \in Service \ {tx[p].svc} : svc'[x] = svc[x] /\ retries'[x] = retries[x]
         /\ \/ /\ tx[p].kind = "retry" /\ svc'[tx[p].svc].att = tx[p].copy.att + 1
               /\ svc'[tx[p].svc].sends = Column(svc[tx[p].svc].sends, tx[p].copy.sends, 0)
               /\ retries'[tx[p].svc] = retries[tx[p].svc] + 1
            \/ /\ retries' = retries
               /\ \A x \in Service : /\ svc'[x].sends = svc[x].sends /\ svc'[x].att = svc[x].att
                                     /\ svc'[x].status = "in_progress" => svc[x].status = "in_progress"
                                     /\ svc'[x].sent = svc[x].sent
<1> DEFINE t == tx[p]
           s == t.svc
<1>1. /\ s \in Service /\ tx' = [tx EXCEPT ![p] = NoTx]
      /\ \A x \in Service \ {s} : svc'[x] = svc[x] /\ retries'[x] = retries[x]
  BY FinishForms
<1>2. UNCHANGED <<calls, losses, job>>
  BY DEF Finish
<1>3. svc \in [Service -> Svc]
  BY DEF TypeInv, TypeOK
<1>4. CASE Retried(p)
  <2> DEFINE b == Column(svc[s].sent, t.copy.sent, FALSE)
             n == Column(svc[s].sends, t.copy.sends, 0)
             x == Column(svc[s].next, t.copy.next, "null")
             a == NextAttempt(t.copy.att)
  <2>1. svc' = [svc EXCEPT ![s] = [@ EXCEPT !.status = "in_progress", !.reason = "none",
                                             !.sent = b, !.sends = n, !.next = x, !.att = a]]
    BY <1>1, <1>3, <1>4 DEF Retried
  <2>2. /\ t.kind = "retry" /\ retries' = [retries EXCEPT ![s] = @ + 1]
    BY <1>4 DEF Retried
  <2>3. retries'[s] = retries[s] + 1
    BY <1>1, <2>2 DEF TypeInv, TypeOK
  <2> HIDE DEF b, n, x, a, s
  <2>4. svc'[s].sends = n /\ svc'[s].att = a
    BY <1>1, <1>3, <2>1 DEF Svc
  <2> QED
    BY <1>1, <1>2, <2>2, <2>3, <2>4 DEF n, a, s, NextAttempt
<1>5. CASE Receipted(p) \/ Ended(p)
  <2>1. retries' = retries
    BY <1>5 DEF Receipted, Ended
  <2> DEFINE Kept(x) == /\ svc'[x].sends = svc[x].sends /\ svc'[x].att = svc[x].att
                        /\ svc'[x].status = "in_progress" => svc[x].status = "in_progress"
                        /\ svc'[x].sent = svc[x].sent
  <2>2. \/ svc' = svc
        \/ \E st \in Terminal : svc' = [svc EXCEPT ![s].status = st]
        \/ \E c \in Reason : svc' = [svc EXCEPT ![s].status = "failed", ![s].reason = c]
    <3>1. Column(svc[s].reason, t.copy.reason, t.code) \in Reason
      BY <1>1, <1>3 DEF Column, TypeInv, TypeOK, Svc
    <3> QED
      BY <1>5, <3>1 DEF Receipted, Ended, Terminal
  <2>3. svc[s] \in Svc /\ "failed" # "in_progress" /\ "in_progress" \notin Terminal
    BY <1>1, <1>3 DEF Terminal
  <2>4. Kept(s)
    <3>1. CASE svc' = svc
      BY <3>1
    <3>2. ASSUME NEW st \in Terminal, svc' = [svc EXCEPT ![s].status = st] PROVE Kept(s)
      <4>1. svc'[s] = [svc[s] EXCEPT !.status = st]
        BY <1>1, <1>3, <3>2
      <4> HIDE DEF s
      <4>2. /\ svc'[s].status = st /\ svc'[s].sends = svc[s].sends
            /\ svc'[s].att = svc[s].att /\ svc'[s].sent = svc[s].sent
        BY <2>3, <4>1 DEF Svc
      <4> QED
        BY <2>3, <4>2
    <3>3. ASSUME NEW c \in Reason, svc' = [svc EXCEPT ![s].status = "failed", ![s].reason = c]
          PROVE  Kept(s)
      <4>1. svc'[s] = [svc[s] EXCEPT !.status = "failed", !.reason = c]
        BY <1>1, <1>3, <3>3
      <4> HIDE DEF s
      <4>2. /\ svc'[s].status = "failed" /\ svc'[s].sends = svc[s].sends
            /\ svc'[s].att = svc[s].att /\ svc'[s].sent = svc[s].sent
        BY <2>3, <4>1 DEF Svc
      <4> QED
        BY <2>3, <4>2
    <3> QED
      BY <2>2, <3>1, <3>2, <3>3
  <2>5. \A x \in Service : Kept(x)
    BY <1>1, <2>4
  <2> QED
    BY <1>1, <1>2, <2>1, <2>5
<1> QED
  BY <1>4, <1>5 DEF Finish

LEMMA CountedInit == Init => Counted
<1> SUFFICES ASSUME Init PROVE Counted
  OBVIOUS
<1>1. \A s \in Service : /\ svc[s].att = 0 /\ svc[s].sends = 0 /\ retries[s] = 0
                         /\ \A a \in 0..MaxRetries : calls[s][a] = 0
  BY DEF Init, New
<1>2. \A p \in Worker : tx[p] = NoTx
  BY DEF Init
<1>3. \A s \in Service : InFlight(s) = 0
  BY DEF Init, NoJob, InFlight
<1>4. losses = 0 /\ MaxRetries \in Nat /\ MaxSends \in Nat \ {0} /\ 0 \in 0..MaxRetries
  BY ConstantsAssumption DEF Init
<1> QED
  BY <1>1, <1>2, <1>3, <1>4 DEF Counted, Tally

\* A step that leaves a service, its calls and its senders alone leaves its
\* count; nothing forgets a loss.
LEMMA TallyKept ==
  ASSUME TypeInv, TypeInv', NEW s \in Service, Tally(s),
         svc'[s].sends = svc[s].sends, svc'[s].att = svc[s].att, retries'[s] = retries[s],
         calls'[s] = calls[s], InFlight(s) + losses <= InFlight(s)' + losses',
         svc'[s].status = "in_progress" /\ ~svc'[s].sent =>
           svc[s].status = "in_progress" /\ ~svc[s].sent,
         svc[s].att \in 0..MaxRetries
  PROVE  Tally(s)'
<1>1. /\ svc[s].sends \in Nat /\ calls[s][svc[s].att] \in Nat
      /\ losses \in Nat /\ losses' \in Nat /\ MaxSends \in Nat
  BY ConstantsAssumption DEF TypeInv, TypeOK, Svc
<1>2. InFlight(s) \in Nat /\ InFlight(s)' \in Nat
  BY DEF InFlight
<1> QED
  BY <1>1, <1>2 DEF Tally

\* What a step must leave to the retry calls that go on.
LEMMA RetriesKept ==
  ASSUME TypeInv, Counted, tx' = tx, retries' = retries,
         \A p \in Worker : tx[p] # NoTx /\ tx[p].kind = "retry" /\ tx[p].copy.att = retries[tx[p].svc]
           => svc'[tx[p].svc].sends = svc[tx[p].svc].sends
  PROVE  \A p \in Worker : tx'[p] # NoTx /\ tx'[p].kind = "retry" =>
           /\ tx'[p].copy.att < MaxRetries
           /\ tx'[p].copy.att = retries'[tx'[p].svc] => svc'[tx'[p].svc].sends = tx'[p].copy.sends
BY DEF Counted

\* Services whose senders a step leaves alone have as many calls under way.
LEMMA InFlightKept ==
  ASSUME NEW p \in Sender, NEW s \in Service, job[p].svc # s, job'[p].svc # s,
         \A x \in Sender : x # p => job'[x] = job[x]
  PROVE  InFlight(s)' = InFlight(s)
BY DEF InFlight

LEMMA CountedStep ==
  TypeInv /\ TypeInv' /\ IInv /\ IInv' /\ Counted /\ [Next]_vars => Counted'
<1> SUFFICES ASSUME TypeInv, TypeInv', IInv, IInv', Counted, [Next]_vars PROVE Counted'
  OBVIOUS
<1> DEFINE Unopened(s) == \A a \in 0..MaxRetries : a > retries[s] => calls[s][a] = 0
           Retrying ==
             \A p \in Worker : tx[p] # NoTx /\ tx[p].kind = "retry" =>
               /\ tx[p].copy.att < MaxRetries
               /\ tx[p].copy.att = retries[tx[p].svc] => svc[tx[p].svc].sends = tx[p].copy.sends
<1>0. /\ NoService \notin Service /\ NoJob.svc = NoService /\ NoJob.answer = "none"
      /\ MaxRetries \in Nat /\ MaxSends \in Nat \ {0}
      /\ svc \in [Service -> Svc] /\ calls \in [Service -> [0..MaxRetries -> Nat]]
      /\ retries \in [Service -> Nat] /\ losses \in Nat
      /\ job \in [Sender -> JobRow] /\ tx \in [Worker -> TxRow]
  BY ConstantsAssumption DEF NoJob, TypeInv, TypeOK, JobRow, TxRow
<1>k. /\ \A s \in Service : svc[s].att <= MaxRetries /\ Tally(s) /\ Unopened(s)
      /\ Retrying
  BY DEF Counted
<1>a. \A s \in Service : svc[s].att \in 0..MaxRetries /\ svc[s].att <= retries[s]
  BY <1>0, <1>k DEF IInv, Copies, Svc
<1>i. \A s \in Service : InFlight(s) \in Nat /\ InFlight(s) <= 1 /\ InFlight(s)' \in Nat
  BY DEF InFlight
<1>q. ASSUME \A s \in Service : /\ svc'[s].att <= MaxRetries /\ Tally(s)' /\ Unopened(s)',
             Retrying'
      PROVE  Counted'
  BY <1>q DEF Counted
<1> HIDE DEF Retrying, Unopened
<1>1. ASSUME NEW p \in Sender, NEW s \in Service, Claim(p, s) PROVE Counted'
  <2>1. UNCHANGED <<svc, tx, calls, retries, losses>>
    BY <1>1 DEF Claim
  <2>2. \A x \in Service : InFlight(x)' = InFlight(x)
    <3>1. job[p].answer = "none" /\ job' = [job EXCEPT ![p].svc = s]
      BY <1>0, <1>1 DEF Claim
    <3>2. job'[p].answer = "none" /\ \A x \in Sender : x # p => job'[x] = job[x]
      BY <1>0, <3>1 DEF JobRow
    <3> QED
      BY <3>1, <3>2 DEF InFlight
  <2>3. \A x \in Service : Tally(x)'
    BY <1>k, <2>1, <2>2 DEF Tally
  <2> QED
    BY <1>k, <1>q, <2>1, <2>3 DEF Unopened, Retrying
<1>2. ASSUME NEW p \in Sender, CallMeta(p) PROVE Counted'
  <2>0. PICK s \in Service : s = job[p].svc
    BY <1>0, <1>2 DEF CallMeta, JobRow
  <2>1. /\ job[p].answer = "none"
        /\ calls' = [calls EXCEPT ![s][svc[s].att] = @ + 1]
        /\ UNCHANGED <<svc, tx, retries, losses>>
    BY <1>0, <1>2, <2>0 DEF CallMeta, JobRow
  <2>2. /\ \A x \in Sender : x # p => job'[x] = job[x]
        /\ job'[p].svc = s /\ job'[p].answer # "none"
    BY <1>0, <1>2, <2>0 DEF CallMeta, JobRow
  <2>3. \A x \in Sender : x # p => job[x].svc # s
    BY <1>0, <2>0 DEF IInv, OneSenderPerService
  <2>4. InFlight(s) = 0 /\ InFlight(s)' = 1
    BY <2>0, <2>1, <2>2, <2>3 DEF InFlight
  <2>5. /\ \A x \in Service \ {s} : calls'[x] = calls[x]
        /\ \A a \in 0..MaxRetries : a # svc[s].att => calls'[s][a] = calls[s][a]
        /\ calls'[s][svc[s].att] = calls[s][svc[s].att] + 1
    BY <1>0, <1>a, <2>1
  <2>6. \A x \in Service : Tally(x)'
    <3>1. ASSUME NEW x \in Service, x # s PROVE Tally(x)'
      <4>1. InFlight(x)' = InFlight(x)
        BY <2>0, <2>2, <3>1, InFlightKept
      <4> QED
        BY <1>k, <2>1, <2>5, <3>1, <4>1 DEF Tally
    <3>2. Tally(s)'
      <4>1. /\ svc[s].sends \in Nat /\ calls[s][svc[s].att] \in Nat
        BY <1>0, <1>a, <2>1 DEF Svc
      <4>2. Tally(s)
        BY <1>k, <2>1
      <4> QED
        BY <1>0, <2>1, <2>4, <2>5, <4>1, <4>2 DEF Tally
    <3> QED
      BY <3>1, <3>2
  <2>7. \A x \in Service : Unopened(x)'
    <3>1. ASSUME NEW x \in Service, NEW a \in 0..MaxRetries, a > retries[x] PROVE calls'[x][a] = 0
      <4>1. calls[x][a] = 0
        BY <1>k, <3>1 DEF Unopened
      <4>2. CASE x = s
        <5>1. a # svc[s].att
          BY <1>0, <1>a, <2>1, <3>1, <4>2
        <5> QED
          BY <2>5, <4>1, <4>2, <5>1
      <4>3. CASE x # s
        BY <2>5, <4>1, <4>3
      <4> QED
        BY <4>2, <4>3
    <3> QED
      BY <2>1, <3>1 DEF Unopened
  <2>8. Retrying'
    BY <1>k, <2>1 DEF Retrying
  <2> QED
    BY <1>k, <1>q, <2>1, <2>6, <2>7, <2>8
<1>3. ASSUME NEW p \in Sender, Settle(p) PROVE Counted'
  <2>0. PICK s \in Service : s = job[p].svc
    BY <1>0, <1>3 DEF Settle, JobRow
  <2>d. PICK d \in Svc : d = AfterSend(svc[s], job[p].answer, svc[s].sends + 1 >= MaxSends, s \in asking)
    BY <1>0, <1>3, <2>0, AfterSendType DEF Settle, JobRow
  <2>1. /\ job[p].answer \in {"ok", "error", "invalid"} /\ svc[s] \in Svc
        /\ svc' = [svc EXCEPT ![s] = d] /\ job' = [job EXCEPT ![p] = NoJob]
        /\ UNCHANGED <<tx, calls, retries, losses>>
    BY <1>0, <1>3, <2>0, <2>d DEF Settle, JobRow
  <2>2. /\ \A x \in Sender : x # p => job'[x] = job[x] /\ job[x].svc # s
        /\ job'[p].svc = NoService /\ job'[p].answer = "none"
    BY <1>0, <2>0, <2>1 DEF IInv, OneSenderPerService
  <2>3. d.att = svc[s].att
    BY <2>1, <2>d, AfterSendType, ZenonT(30)
  <2>4. /\ d.sends = svc[s].sends + 1
        /\ d.status = "in_progress" /\ ~d.sent => ~(svc[s].sends + 1 >= MaxSends)
    BY <2>1, <2>d, AfterSendSends
  <2>5. svc[s].status = "in_progress" /\ ~svc[s].sent
    BY <1>0, <2>0 DEF IInv, Claims
  <2>6. InFlight(s) = 1 /\ InFlight(s)' = 0
    BY <1>0, <2>0, <2>1, <2>2 DEF InFlight
  <2>7. svc'[s] = d /\ \A x \in Service : x # s => svc'[x] = svc[x]
    BY <1>0, <2>1
  <2>8. \A x \in Service : Tally(x)'
    <3>1. ASSUME NEW x \in Service, x # s PROVE Tally(x)'
      <4>1. InFlight(x)' = InFlight(x)
        BY <1>0, <2>0, <2>2, <3>1, InFlightKept
      <4> QED
        BY <1>k, <2>1, <2>7, <3>1, <4>1 DEF Tally
    <3>2. Tally(s)'
      <4>1. svc[s].sends \in Nat /\ calls[s][svc[s].att] \in Nat
        BY <1>0, <1>a, <2>1 DEF Svc
      <4>2. Tally(s)
        BY <1>k, <2>1
      <4> QED
        BY <1>0, <2>1, <2>3, <2>4, <2>5, <2>6, <2>7, <4>1, <4>2, SMTT(30) DEF Tally
    <3> QED
      BY <3>1, <3>2
  <2>9. Retrying'
    <3>1. ASSUME NEW x \in Worker, tx[x] # NoTx, tx[x].kind = "retry",
                 tx[x].copy.att = retries[tx[x].svc]
          PROVE  svc'[tx[x].svc].sends = svc[tx[x].svc].sends
      <4>1. tx[x].svc \in Service /\ svc[tx[x].svc].status \in Terminal
        BY <3>1 DEF TypeInv, Aimed, IInv, Copies
      <4>2. tx[x].svc # s
        BY <2>5, <4>1 DEF Terminal
      <4> QED
        BY <2>7, <4>1, <4>2
    <3> QED
      BY <2>1, <3>1, RetriesKept DEF Retrying
  <2>10. \A x \in Service : svc'[x].att <= MaxRetries /\ Unopened(x)'
    BY <1>k, <2>1, <2>3, <2>7 DEF Unopened
  <2> QED
    BY <1>q, <2>8, <2>9, <2>10
<1>4. ASSUME NEW p \in Sender, Lose(p) PROVE Counted'
  <2>1. /\ losses' = losses + 1 /\ job' = [job EXCEPT ![p] = NoJob]
        /\ UNCHANGED <<svc, tx, calls, retries>>
    BY <1>4 DEF Lose
  <2>2. ASSUME NEW x \in Service PROVE Tally(x)'
    <3>1. InFlight(x) + losses <= InFlight(x)' + losses'
      BY <1>0, <1>i, <2>1
    <3> QED
      BY <1>a, <1>k, <2>1, <3>1, TallyKept
  <2> QED
    BY <1>k, <1>q, <2>1, <2>2 DEF Unopened, Retrying
<1>5. ASSUME NEW s \in Service, BackoffOver(s) PROVE Counted'
  <2>1. /\ svc' = [svc EXCEPT ![s].next = "past"]
        /\ UNCHANGED <<job, tx, calls, retries, losses>>
    BY <1>5 DEF BackoffOver
  <2>2. \A x \in Service : /\ svc'[x].sends = svc[x].sends /\ svc'[x].att = svc[x].att
                           /\ svc'[x].status = svc[x].status /\ svc'[x].sent = svc[x].sent
    BY <1>0, <2>1 DEF Svc
  <2>3. \A x \in Service : InFlight(x)' = InFlight(x)
    BY <2>1 DEF InFlight
  <2>4. \A x \in Service : Tally(x)'
    BY <1>k, <2>1, <2>2, <2>3 DEF Tally
  <2>5. Retrying'
    <3>1. \A x \in Worker : tx[x] # NoTx => tx[x].svc \in Service
      BY DEF TypeInv, Aimed
    <3> QED
      BY <2>1, <2>2, <3>1, RetriesKept DEF Retrying
  <2> QED
    BY <1>k, <1>q, <2>1, <2>2, <2>4, <2>5 DEF Unopened
<1>6. ASSUME NEW p \in Worker, NEW k \in Kind, NEW s \in Service, NEW c \in Reason, Begin(p, k, s, c)
      PROVE  Counted'
  <2>1. /\ UNCHANGED <<svc, job, calls, retries, losses>>
        /\ tx' = [tx EXCEPT ![p] = [kind |-> k, svc |-> s, code |-> c, copy |-> svc[s]]]
        /\ k = "retry" => retries[s] < MaxRetries
    BY <1>6 DEF Begin, Receipt
  <2>2. \A x \in Service : InFlight(x)' = InFlight(x)
    BY <2>1 DEF InFlight
  <2>3. \A x \in Service : Tally(x)'
    BY <1>k, <2>1, <2>2 DEF Tally
  <2>4. svc[s].att < MaxRetries \/ k # "retry"
    BY <1>0, <1>a, <2>1
  <2>5. Retrying'
    <3>1. /\ \A x \in Worker : x # p => tx'[x] = tx[x]
          /\ tx'[p].kind = k /\ tx'[p].svc = s /\ tx'[p].copy = svc[s]
      BY <1>0, <2>1
    <3> QED
      BY <1>k, <2>1, <2>4, <3>1 DEF Retrying
  <2> QED
    BY <1>k, <1>q, <2>1, <2>3, <2>5 DEF Unopened
<1>7. ASSUME NEW p \in Worker, Finish(p) PROVE Counted'
  <2>0. PICK s \in Service : s = tx[p].svc
    BY <1>7, FinishSends
  <2>r. PICK r \in Svc : r = tx[p].copy
    BY <1>0 DEF TxRow
  <2>1. /\ UNCHANGED <<calls, losses, job>> /\ tx' = [tx EXCEPT ![p] = NoTx]
        /\ \A x \in Service \ {s} : svc'[x] = svc[x] /\ retries'[x] = retries[x]
    BY <1>7, <2>0, FinishSends
  <2>2. \A x \in Service : InFlight(x)' = InFlight(x)
    BY <2>1 DEF InFlight
  <2>3. tx'[p] = NoTx /\ \A x \in Worker : x # p => tx'[x] = tx[x]
    BY <1>0, <2>1
  <2>4. tx[p] # NoTx /\ r \in Svc
    BY <1>0, <1>7, <2>r DEF Finish, TxRow
  <2>5. CASE /\ tx[p].kind = "retry" /\ svc'[s].att = r.att + 1
             /\ svc'[s].sends = Column(svc[s].sends, r.sends, 0)
             /\ retries'[s] = retries[s] + 1
    <3>1. /\ r.att < MaxRetries /\ r.att <= retries[s] /\ r.att \in Nat /\ r.sends \in Nat
          /\ r.att = retries[s] => svc[s].sends = r.sends
      BY <1>k, <2>0, <2>4, <2>5, <2>r DEF Retrying, IInv, Copies, Svc
    <3>2. Tally(s)'
      <4>1. CASE r.att = retries[s]
        <5>1. svc'[s].sends = 0
          BY <2>5, <3>1, <4>1 DEF Column
        <5>2. retries[s] + 1 \in 0..MaxRetries /\ svc'[s].att = retries[s] + 1
          BY <1>0, <2>5, <3>1, <4>1
        <5>3. calls[s][retries[s] + 1] = 0
          BY <1>0, <1>k, <2>1, <5>2 DEF Unopened
        <5> QED
          BY <1>0, <1>i, <2>1, <2>2, <5>1, <5>2, <5>3 DEF Tally
      <4>2. CASE r.att # retries[s]
        <5>1. retries'[s] # svc'[s].att
          BY <1>0, <2>1, <2>5, <3>1, <4>2
        <5> QED
          BY <5>1 DEF Tally
      <4> QED
        BY <4>1, <4>2
    <3>3. \A x \in Service : x # s => Tally(x)'
      BY <1>k, <2>1, <2>2 DEF Tally
    <3>4. \A x \in Service : svc'[x].att <= MaxRetries
      <4>1. svc'[s].att <= MaxRetries
        BY <1>0, <2>5, <3>1
      <4>2. \A x \in Service : x # s => svc'[x].att = svc[x].att
        BY <2>1
      <4> QED
        BY <1>k, <4>1, <4>2
    <3>5. ASSUME NEW x \in Service PROVE retries'[x] >= retries[x]
      <4>1. retries[x] \in Nat
        BY <1>0
      <4>2. retries'[x] = retries[x] \/ retries'[x] = retries[x] + 1
        <5>1. CASE x = s
          BY <2>5, <5>1
        <5>2. CASE x # s
          BY <2>1, <5>2
        <5> QED
          BY <5>1, <5>2
      <4> QED
        BY <4>1, <4>2
    <3>6. ASSUME NEW x \in Service PROVE Unopened(x)'
      <4>1. ASSUME NEW a \in 0..MaxRetries, a > retries'[x] PROVE calls'[x][a] = 0
        <5>1. a > retries[x]
          BY <1>0, <3>5, <4>1 DEF TypeInv, TypeOK
        <5> QED
          BY <1>k, <2>1, <5>1 DEF Unopened
      <4> QED
        BY <4>1 DEF Unopened
    <3>7. Retrying'
      <4>1. ASSUME NEW x \in Worker, tx'[x] # NoTx, tx'[x].kind = "retry"
            PROVE  /\ tx'[x].copy.att < MaxRetries
                   /\ tx'[x].copy.att = retries'[tx'[x].svc]
                        => svc'[tx'[x].svc].sends = tx'[x].copy.sends
        <5>1. tx'[x] = tx[x]
          BY <2>3, <4>1
        <5>2. /\ tx[x].svc \in Service /\ tx[x].copy.att \in Nat
              /\ tx[x].copy.att <= retries[tx[x].svc]
              /\ tx[x].copy.att < MaxRetries
              /\ tx[x].copy.att = retries[tx[x].svc]
                   => svc[tx[x].svc].sends = tx[x].copy.sends
          BY <1>0, <1>k, <4>1, <5>1 DEF Retrying, IInv, Copies, TypeInv, Aimed, TxRow, Svc
        <5>3. CASE tx[x].svc = s
          <6>1. tx[x].copy.att # retries'[s]
            BY <1>0, <2>1, <2>5, <5>2, <5>3
          <6> QED
            BY <5>1, <5>2, <5>3, <6>1
        <5>4. CASE tx[x].svc # s
          BY <2>1, <5>1, <5>2, <5>4
        <5> QED
          BY <5>3, <5>4
      <4> QED
        BY <4>1 DEF Retrying
    <3> QED
      BY <1>q, <3>2, <3>3, <3>4, <3>6, <3>7
  <2>6. CASE /\ retries' = retries
             /\ \A x \in Service : /\ svc'[x].sends = svc[x].sends /\ svc'[x].att = svc[x].att
                                   /\ svc'[x].status = "in_progress" => svc[x].status = "in_progress"
                                   /\ svc'[x].sent = svc[x].sent
    <3>1. ASSUME NEW x \in Service PROVE Tally(x)'
      <4>1. InFlight(x) + losses <= InFlight(x)' + losses'
        BY <1>0, <1>i, <2>1, <2>2
      <4> QED
        BY <1>a, <1>k, <2>1, <2>6, <4>1, TallyKept
    <3>2. Retrying'
      <4>1. \A x \in Worker : tx[x] # NoTx => tx[x].svc \in Service
        BY DEF TypeInv, Aimed
      <4> QED
        BY <1>k, <2>3, <2>6, <4>1 DEF Retrying
    <3> QED
      BY <1>k, <1>q, <2>1, <2>6, <3>1, <3>2 DEF Unopened
  <2> QED
    BY <1>7, <2>0, <2>5, <2>6, <2>r, FinishSends
<1>8. CASE UNCHANGED vars
  <2>1. UNCHANGED <<svc, job, tx, calls, retries, losses>>
    BY <1>8 DEF vars
  <2>2. \A x \in Service : InFlight(x)' = InFlight(x)
    BY <2>1 DEF InFlight
  <2> QED
    BY <1>k, <1>q, <2>1, <2>2 DEF Tally, Unopened, Retrying
<1> QED
  BY <1>1, <1>2, <1>3, <1>4, <1>5, <1>6, <1>7, <1>8 DEF Next, Send

\* A service's attempt costs as many calls to Meta as send_attempts counts and
\* never more than _MAX_SEND_ATTEMPTS, whatever fails, is lost, ends behind the
\* job's back or is retried (queue_manager.py:217): lost transactions add one
\* each, and retry calls that overlapped are outside it.
THEOREM CallsCounted == Spec => []CallsAreCounted
<1>1. TypeInv /\ IInv /\ Counted => CallsAreCounted
  BY FlyingOne DEF Counted, Tally, CallsAreCounted, RetriedInTurn, IInv
<1>2. Spec => []Counted
  BY CountedInit, CountedStep, Invariant, PTL DEF Spec
<1> QED
  BY <1>1, <1>2, Invariant, PTL
=============================================================================
