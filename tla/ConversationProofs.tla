------------------------- MODULE ConversationProofs -------------------------
(***************************************************************************)
(* Proofs about ConversationEngine, for any services, forms, threads and   *)
(* webhooks: its type, that one free text is outstanding, that answers are *)
(* complete and in order, that an end is told once and is final, and who   *)
(* can deadlock.                                                           *)
(*                                                                         *)
(* The invariant says what each transaction is about and what is left of   *)
(* its plan (Kinds), that its copy agrees with it (Sane), and what it may  *)
(* rely on under its locks whatever the others do (Backed); that the locks *)
(* of two transactions never conflict (Exclusion); and what holds of the   *)
(* committed rows (Db).                                                    *)
(***************************************************************************)
EXTENDS ConversationEngine, FiniteSetTheorems, TLAPS

-----------------------------------------------------------------------------
(* The transactions, by what they are about.                               *)

Asking     == <<"scan", "lock", "send", "commit">>
Completing == {<<"completed", "commit">>, <<"answered", "completed", "commit">>}
Led(e)     == {<<e, "scan", "lock", "send", "commit">>, <<e, "send", "commit">>, <<e, "commit">>}
Serving    == Completing \cup Led("answered") \cup Led("responded")
              \cup {Asking, <<"lock", "send", "commit">>, <<"send", "commit">>, <<"commit">>}

Silent(t, S) == \A s \in Service \ S : t.notes[s] = << >>

\* A plain text whose service is being looked for.
IsSearching(t) ==
  /\ t.kind \in {"text", "quote"} /\ t.hook \in Hook /\ ~t.fresh
  /\ t.plan \in {<<"scan", "lock", "commit">>, <<"lock", "commit">>}
  /\ t.svc = NoService /\ t.wrote = {} /\ t.rec = 0 /\ t.out = {} /\ ~t.linked
  /\ t.expire = {} /\ Silent(t, {})

\* A message of the customer that is being worked on.
IsServing(t) ==
  /\ t.kind \in Inbound /\ t.hook \in Hook /\ t.fresh
  /\ t.plan \in Serving /\ (t.plan \in Led("responded") => t.kind = "tap")
  /\ Silent(t, t.expire \cup {t.svc})
  /\ t.svc = NoService => /\ t.plan = <<"commit">> /\ t.wrote = {} /\ t.rec = 0
                          /\ t.out = {} /\ ~t.linked

\* A receipt of a message that has a row.
IsReceipt(t) ==
  /\ t.kind \in Receipt /\ t.svc \in Service /\ ~t.fresh
  /\ t.plan \in {<<t.kind, "commit">>, <<"commit">>}
  /\ t.plan = <<t.kind, "commit">> => Silent(t, {})
  /\ t.wrote \subseteq {"status"} /\ t.rec = 0 /\ t.out = {} /\ ~t.linked
  /\ t.expire = {} /\ Silent(t, {t.svc})

\* A service the sender has claimed.
IsSending(t) ==
  /\ t.kind = "template" /\ t.svc \in Service /\ t.hook = NoHook /\ ~t.fresh
  /\ t.plan \in {<<"template">>, <<"completed", "commit">>, <<"failed", "commit">>, <<"commit">>}
  /\ t.plan \in {<<"completed", "commit">>, <<"failed", "commit">>} => "status" \in t.wrote
  /\ t.wrote \subseteq {"status"} /\ t.rec = 0 /\ ~t.linked
  /\ t.expire = {} /\ Silent(t, {t.svc})

\* The candidates of the expiry job.
IsExpiring(t) ==
  /\ t.kind = "expiry" /\ t.hook = NoHook /\ ~t.fresh
  /\ t.plan \in {<<"expire", "commit">>, <<"expired", "expire", "commit">>, <<"commit">>}
  /\ t.svc # NoService => t.svc \in t.expire
  /\ t.plan = <<"expired", "expire", "commit">> => t.svc # NoService /\ t.status = "expired"
  /\ t.wrote = {} /\ t.rec = 0 /\ t.out = {} /\ ~t.linked /\ t.qs = NoTx.qs
  /\ Silent(t, t.expire)

Kinds(t) == \/ t = NoTx \/ IsSearching(t) \/ IsServing(t) \/ IsReceipt(t) \/ IsSending(t)
            \/ IsExpiring(t)

-----------------------------------------------------------------------------
(* What a transaction holds of its own copy.                               *)

Focused(f) == \A q \in f.dispatched : q <= f.answered + 1

AsksText(t) == NextQ(t.svc, t.qs) # 0 /\ Questions[t.svc][NextQ(t.svc, t.qs)] = 2

Sane(t) ==
  /\ "status" \in t.wrote => t.status \in Terminal
  /\ t.plan # << >> /\ Head(t.plan) = "completed" => "status" \in t.wrote /\ t.status = "completed"
  /\ t.plan # << >> /\ Head(t.plan) = "failed" => t.status \in Terminal
  /\ t.svc \in Service => /\ t.qs.answered <= Len(Questions[t.svc])
                          /\ t.plan \in Completing \/ ("status" \in t.wrote /\ t.status = "completed")
                                => t.qs.answered = Len(Questions[t.svc])
                          /\ (\E e \in Event : t.plan = <<e, "send", "commit">>) => ~AsksText(t)
  /\ t.rec # 0 => t.rec = t.qs.answered
  /\ Focused(t.qs)

-----------------------------------------------------------------------------
(* Locks.                                                                  *)

\* p may write the row r, and nobody else.
Strong(L, r) == \E k \in L : k.on = r /\ k.mode \in {"write", "update"}

Exclusion ==
  \A p \in Proc : \A o \in Proc \ {p} : \A k \in locks[p], l \in locks[o] :
    k.on = l.on => ~Conflict(k.mode, l.mode)

\* What a receipt locks: the message, the queue entry, the service, and the
\* service's key for a notification if it does not write the service.
MsgLock(t)   == Lock(MsgRow(t.svc, t.seq), "write")
QueueLock(t) == Lock(QueueRow(t.svc), "write")
RowLock(t)   == Lock(Row(t.svc), "write")
KeyLock(t)   == Lock(Row(t.svc), "share")

InOrder(t, L) ==
  /\ L \subseteq {MsgLock(t), QueueLock(t), RowLock(t), KeyLock(t)}
  /\ QueueLock(t) \in L => MsgLock(t) \in L
  /\ RowLock(t) \in L => MsgLock(t) \in L /\ QueueLock(t) \in L
  /\ KeyLock(t) \in L => MsgLock(t) \in L /\ t.wrote = {}

\* The sender never lets go of its claim, receipts lock in order, and taps and
\* replies lock the conversation before anything else.
Order(t, L) ==
  /\ t.plan = << >> => L = {}
  /\ t.kind = "template" => Lock(Row(t.svc), "update") \in L
  /\ t.kind \in Receipt => InOrder(t, L)
  /\ t.kind \in {"tap", "reply"} /\ L # {} => Lock(Conv, "write") \in L

-----------------------------------------------------------------------------
(* What it relies on in the database.                                      *)

Has(n, E)       == \E i \in DOMAIN n : n[i] \in E
AtMostOne(n, E) == \A i, j \in DOMAIN n : n[i] \in E /\ n[j] \in E => i = j

Answered(s, q) == \E i \in DOMAIN responses[s] : responses[s][i].seq = q

\* Answers: the copy's are recorded, but for the one that it records itself.
Answers(t) == t.svc \in Service =>
                \A q \in 1..t.qs.answered : q = t.rec \/ Answered(t.svc, q)

\* s ends when t commits.
Ending(t, s) == s \in t.expire \/ (s = t.svc /\ "status" \in t.wrote)

\* An end that t tells is its own and the first, under the lock of the row; one
\* that it writes is told, or will be by its next step; one that it has only
\* read was told by whoever wrote it.
EndTold(t, L, s) ==
  /\ AtMostOne(t.notes[s], Terminal)
  /\ Has(t.notes[s], Terminal) =>
       ~Has(notified[s], Terminal) /\ Strong(L, Row(s)) /\ Ending(t, s)
  /\ s \in Subscribed /\ Ending(t, s)
       => \/ Has(notified[s], Terminal) \/ Has(t.notes[s], Terminal)
          \/ s = t.svc /\ t.plan # << >> /\ Head(t.plan) \in Terminal
  /\ s \in Subscribed /\ s = t.svc /\ t.status \in Terminal /\ ~Ending(t, s)
       => Has(notified[s], Terminal)

EndsTold(t, L) == \A s \in Service : EndTold(t, L, s)

\* The first tap is told once, under the lock of the conversation.
TurnTold(t, L) ==
  \A s \in Service :
    /\ AtMostOne(t.notes[s], {"responded"})
    /\ Has(t.notes[s], {"responded"}) =>
          ~Has(notified[s], {"responded"}) /\ Strong(L, Conv)

Rival(s) == status[s] = "in_progress" /\ AwaitsText(s, form[s])

\* Who is about to ask for a free text, or has asked for one, holds the
\* conversation and expires whoever else waits for one; while the scan goes on,
\* every other live service is locked already or still among its targets.
Alone(t, L) ==
  /\ t.plan = <<"lock", "send", "commit">> =>
       /\ Strong(L, Conv)
       /\ \A s \in Service \ {t.svc} : status[s] = "in_progress" =>
            s \in t.targets \/ Lock(Row(s), "update") \in L
  /\ t.svc \in Service /\ (\/ t.plan = <<"send", "commit">> /\ AsksText(t)
                           \/ "questions" \in t.wrote /\ AwaitsText(t.svc, t.qs)) =>
       /\ Strong(L, Conv)
       /\ \A s \in Service \ {t.svc} : Rival(s) => s \in t.expire

Backed(t, L) == Order(t, L) /\ Answers(t) /\ EndsTold(t, L) /\ TurnTold(t, L) /\ Alone(t, L)

Db ==
  /\ \A s \in Service :
       /\ form[s].answered <= Len(Questions[s]) /\ Focused(form[s])
       /\ \A q \in 1..form[s].answered : Answered(s, q)
       /\ AtMostOne(notified[s], Terminal) /\ AtMostOne(notified[s], {"responded"})
       /\ s \in Subscribed => (status[s] \in Terminal <=> Has(notified[s], Terminal))
  /\ NoQuestionSkipped /\ CompletedHasAllAnswers /\ OneFreeTextOutstanding

IInv == TypeOK /\ Exclusion /\ Db
        /\ \A p \in Proc : Kinds(tx[p]) /\ Sane(tx[p]) /\ Backed(tx[p], locks[p])

-----------------------------------------------------------------------------
(* Plans.                                                                  *)

\* The first of a sequence, and what follows.
LEMMA Tails ==
  /\ \A a : Tail(<<a>>) = << >> /\ Head(<<a>>) = a /\ <<a>> # << >>
  /\ \A a, b : Tail(<<a, b>>) = <<b>> /\ Head(<<a, b>>) = a /\ <<a, b>> # << >>
  /\ \A a, b, c : Tail(<<a, b, c>>) = <<b, c>> /\ Head(<<a, b, c>>) = a /\ <<a, b, c>> # << >>
  /\ \A a, b, c, d : /\ Tail(<<a, b, c, d>>) = <<b, c, d>> /\ Head(<<a, b, c, d>>) = a
                     /\ <<a, b, c, d>> # << >>
  /\ \A a, b, c, d, e : /\ Tail(<<a, b, c, d, e>>) = <<b, c, d, e>>
                        /\ Head(<<a, b, c, d, e>>) = a /\ <<a, b, c, d, e>> # << >>
OBVIOUS

\* Sequences with the same elements are the same.
LEMMA SameSeq ==
  ASSUME NEW S, NEW a \in Seq(S), NEW b \in Seq(S), Len(a) = Len(b),
         \A i \in 1..Len(a) : a[i] = b[i]
  PROVE  a = b
OBVIOUS

LEMMA AddLast ==
  ASSUME NEW s \in Seq(Op), NEW x \in Op, NEW r \in Seq(Op), Len(r) = Len(s) + 1,
         r[Len(s) + 1] = x, \A i \in 1..Len(s) : r[i] = s[i]
  PROVE  s \o <<x>> = r
<1> DEFINE y == s \o <<x>>
<1>1. y \in Seq(Op) /\ Len(y) = Len(r)
  OBVIOUS
<1>2. \A i \in 1..Len(y) : y[i] = r[i]
  OBVIOUS
<1> HIDE DEF y
<1>3. y = r
  BY <1>1, <1>2, SameSeq
<1> QED
  BY <1>3 DEF y

LEMMA AddFirst ==
  ASSUME NEW s \in Seq(Op), NEW x \in Op, NEW r \in Seq(Op), Len(r) = Len(s) + 1,
         r[1] = x, \A i \in 1..Len(s) : r[i + 1] = s[i]
  PROVE  <<x>> \o s = r
<1> DEFINE y == <<x>> \o s
<1>1. y \in Seq(Op) /\ Len(y) = Len(r)
  OBVIOUS
<1>2. \A i \in 1..Len(y) : y[i] = r[i]
  <2> TAKE i \in 1..Len(y)
  <2>1. CASE i = 1
    BY <2>1
  <2>2. CASE i > 1
    <3>1. i - 1 \in 1..Len(s) /\ y[i] = s[i - 1] /\ (i - 1) + 1 = i
      BY <2>2
    <3> QED
      BY <3>1
  <2> QED
    BY <2>1, <2>2
<1> HIDE DEF y
<1>3. y = r
  BY <1>1, <1>2, SameSeq
<1> QED
  BY <1>3 DEF y

\* The plans that handlers put together.
LEMMA Joins ==
  /\ \A a, b \in Op : <<a>> \o <<b>> = <<a, b>>
  /\ \A a, b, c \in Op : <<a, b>> \o <<c>> = <<a, b, c>>
  /\ \A a, b, c, d \in Op : <<a, b, c>> \o <<d>> = <<a, b, c, d>>
  /\ \A a, b, c, d, e \in Op : <<a, b, c, d>> \o <<e>> = <<a, b, c, d, e>>
  /\ \A a, b, c \in Op : <<a>> \o <<b, c>> = <<a, b, c>>
  /\ \A a, b, c, d \in Op : <<a>> \o <<b, c, d>> = <<a, b, c, d>>
  /\ \A s \in Seq(Op) : << >> \o s = s /\ s \o << >> = s
<1>1. ASSUME NEW a \in Op, NEW b \in Op PROVE <<a>> \o <<b>> = <<a, b>>
  <2> DEFINE s == <<a>>
             r == <<a, b>>
  <2>1. s \in Seq(Op) /\ r \in Seq(Op) /\ Len(r) = Len(s) + 1
    OBVIOUS
  <2>2. r[Len(s) + 1] = b /\ \A i \in 1..Len(s) : r[i] = s[i]
    OBVIOUS
  <2> HIDE DEF s, r
  <2>3. s \o <<b>> = r
    BY <2>1, <2>2, AddLast
  <2> QED
    BY <2>3 DEF s, r
<1>2. ASSUME NEW a \in Op, NEW b \in Op, NEW c \in Op PROVE <<a, b>> \o <<c>> = <<a, b, c>>
  <2> DEFINE s == <<a, b>>
             r == <<a, b, c>>
  <2>1. s \in Seq(Op) /\ r \in Seq(Op) /\ Len(r) = Len(s) + 1
    OBVIOUS
  <2>2. r[Len(s) + 1] = c /\ \A i \in 1..Len(s) : r[i] = s[i]
    OBVIOUS
  <2> HIDE DEF s, r
  <2>3. s \o <<c>> = r
    BY <2>1, <2>2, AddLast
  <2> QED
    BY <2>3 DEF s, r
<1>3. ASSUME NEW a \in Op, NEW b \in Op, NEW c \in Op, NEW d \in Op PROVE <<a, b, c>> \o <<d>> = <<a, b, c, d>>
  <2> DEFINE s == <<a, b, c>>
             r == <<a, b, c, d>>
  <2>1. s \in Seq(Op) /\ r \in Seq(Op) /\ Len(r) = Len(s) + 1
    OBVIOUS
  <2>2. r[Len(s) + 1] = d /\ \A i \in 1..Len(s) : r[i] = s[i]
    OBVIOUS
  <2> HIDE DEF s, r
  <2>3. s \o <<d>> = r
    BY <2>1, <2>2, AddLast
  <2> QED
    BY <2>3 DEF s, r
<1>4. ASSUME NEW a \in Op, NEW b \in Op, NEW c \in Op, NEW d \in Op, NEW e \in Op PROVE <<a, b, c, d>> \o <<e>> = <<a, b, c, d, e>>
  <2> DEFINE s == <<a, b, c, d>>
             r == <<a, b, c, d, e>>
  <2>1. s \in Seq(Op) /\ r \in Seq(Op) /\ Len(r) = Len(s) + 1
    OBVIOUS
  <2>2. r[Len(s) + 1] = e /\ \A i \in 1..Len(s) : r[i] = s[i]
    OBVIOUS
  <2> HIDE DEF s, r
  <2>3. s \o <<e>> = r
    BY <2>1, <2>2, AddLast
  <2> QED
    BY <2>3 DEF s, r
<1>5. ASSUME NEW a \in Op, NEW b \in Op, NEW c \in Op PROVE <<a>> \o <<b, c>> = <<a, b, c>>
  <2> DEFINE s == <<b, c>>
             r == <<a, b, c>>
  <2>1. s \in Seq(Op) /\ r \in Seq(Op) /\ Len(r) = Len(s) + 1
    OBVIOUS
  <2>2. r[1] = a /\ \A i \in 1..Len(s) : r[i + 1] = s[i]
    OBVIOUS
  <2> HIDE DEF s, r
  <2>3. <<a>> \o s = r
    BY <2>1, <2>2, AddFirst
  <2> QED
    BY <2>3 DEF s, r
<1>6. ASSUME NEW a \in Op, NEW b \in Op, NEW c \in Op, NEW d \in Op PROVE <<a>> \o <<b, c, d>> = <<a, b, c, d>>
  <2> DEFINE s == <<b, c, d>>
             r == <<a, b, c, d>>
  <2>1. s \in Seq(Op) /\ r \in Seq(Op) /\ Len(r) = Len(s) + 1
    OBVIOUS
  <2>2. r[1] = a /\ \A i \in 1..Len(s) : r[i + 1] = s[i]
    OBVIOUS
  <2> HIDE DEF s, r
  <2>3. <<a>> \o s = r
    BY <2>1, <2>2, AddFirst
  <2> QED
    BY <2>3 DEF s, r
<1>7. ASSUME NEW s \in Seq(Op) PROVE << >> \o s = s /\ s \o << >> = s
  OBVIOUS
<1> QED
  BY <1>1, <1>2, <1>3, <1>4, <1>5, <1>6, <1>7
-----------------------------------------------------------------------------
(* What is told.                                                           *)

LEMMA AddedNote ==
  ASSUME NEW n \in Seq(Event), NEW ev \in Event, NEW E
  PROVE  /\ Append(n, ev) \in Seq(Event)
         /\ Has(Append(n, ev), E) <=> Has(n, E) \/ ev \in E
         /\ AtMostOne(n, E) /\ (ev \in E => ~Has(n, E)) => AtMostOne(Append(n, ev), E)
<1>1. /\ Append(n, ev) \in Seq(Event) /\ DOMAIN Append(n, ev) = 1..(Len(n) + 1)
      /\ DOMAIN n = 1..Len(n) /\ Append(n, ev)[Len(n) + 1] = ev
      /\ \A i \in DOMAIN n : Append(n, ev)[i] = n[i] /\ i \in DOMAIN Append(n, ev)
  OBVIOUS
<1>2. \A i \in DOMAIN Append(n, ev) : i \in DOMAIN n \/ i = Len(n) + 1
  BY <1>1
<1>3. Len(n) + 1 \in DOMAIN Append(n, ev)
  BY <1>1
<1> QED
  BY <1>1, <1>2, <1>3 DEF Has, AtMostOne

LEMMA JoinedNotes ==
  ASSUME NEW a \in Seq(Event), NEW b \in Seq(Event), NEW E
  PROVE  /\ a \o b \in Seq(Event)
         /\ Has(a \o b, E) <=> Has(a, E) \/ Has(b, E)
         /\ AtMostOne(a, E) /\ AtMostOne(b, E) /\ ~(Has(a, E) /\ Has(b, E))
              => AtMostOne(a \o b, E)
<1>1. /\ a \o b \in Seq(Event) /\ DOMAIN (a \o b) = 1..(Len(a) + Len(b))
      /\ DOMAIN a = 1..Len(a) /\ DOMAIN b = 1..Len(b) /\ Len(a) \in Nat /\ Len(b) \in Nat
  OBVIOUS
<1>2. \A i \in DOMAIN a : (a \o b)[i] = a[i] /\ i \in DOMAIN (a \o b)
  OBVIOUS
<1>3. \A i \in DOMAIN b : (a \o b)[Len(a) + i] = b[i] /\ Len(a) + i \in DOMAIN (a \o b)
  OBVIOUS
<1>4. \A i \in DOMAIN (a \o b) : i \in DOMAIN a \/ \E j \in DOMAIN b : i = Len(a) + j
  <2> TAKE i \in DOMAIN (a \o b)
  <2>1. CASE i <= Len(a)
    BY <1>1, <2>1
  <2>2. CASE i > Len(a)
    <3>1. i - Len(a) \in DOMAIN b /\ i = Len(a) + (i - Len(a))
      BY <1>1, <2>2
    <3> QED
      BY <3>1
  <2> QED
    BY <1>1, <2>1, <2>2
<1>5. \A j \in DOMAIN b, k \in DOMAIN b : Len(a) + j = Len(a) + k => j = k
  BY <1>1
<1> DEFINE c == a \o b
<1> HIDE DEF c
<1>6. Has(c, E) <=> Has(a, E) \/ Has(b, E)
  BY <1>2, <1>3, <1>4 DEF Has, c
<1>7. AtMostOne(a, E) /\ AtMostOne(b, E) /\ ~(Has(a, E) /\ Has(b, E)) => AtMostOne(c, E)
  BY <1>2, <1>3, <1>4, <1>5 DEF Has, AtMostOne, c
<1> QED
  BY <1>1, <1>6, <1>7 DEF c

LEMMA NothingTold == \A E : ~Has(<< >>, E) /\ AtMostOne(<< >>, E)
BY DEF Has, AtMostOne

\* The rank of an end is reached by ends only, that of the first tap by an earlier one.
LEMMA RanksReached ==
  ASSUME NEW n \in Seq(Event)
  PROVE  LET rows == {[att |-> 0, ev |-> e] : e \in Range(n)} IN
         /\ \A ev \in Terminal : RankReached(rows, 0, StatusRank[ev]) <=> Has(n, Terminal)
         /\ Has(n, {"responded"}) => RankReached(rows, 0, StatusRank["responded"])
<1> DEFINE rows == {[att |-> 0, ev |-> e] : e \in Range(n)}
<1>1. Range(n) = {n[i] : i \in DOMAIN n} /\ \A i \in DOMAIN n : n[i] \in Event
  BY DEF Range
<1>2. \A ev \in Event : StatusRank[ev] \in Nat /\ (StatusRank[ev] >= 6 <=> ev \in Terminal)
  BY DEF Event, StatusRank, Terminal
<1>3. \A r : RankReached(rows, 0, r) <=> \E i \in DOMAIN n : StatusRank[n[i]] >= r
  <2> TAKE r
  <2>1. RankReached(rows, 0, r) <=> \E x \in rows : x.att = 0 /\ StatusRank[x.ev] >= r
    BY DEF RankReached
  <2>2. \A i \in DOMAIN n : [att |-> 0, ev |-> n[i]] \in rows
    BY <1>1
  <2>3. \A x \in rows : x.att = 0 /\ \E i \in DOMAIN n : x.ev = n[i]
    BY <1>1
  <2>4. \A e : [att |-> 0, ev |-> e].att = 0 /\ [att |-> 0, ev |-> e].ev = e
    OBVIOUS
  <2> HIDE DEF rows
  <2> QED
    BY <2>1, <2>2, <2>3, <2>4
<1>4. \A ev \in Terminal : StatusRank[ev] = 6
  BY DEF StatusRank, Terminal
<1>5. StatusRank["responded"] = 4
  BY DEF StatusRank
<1> HIDE DEF rows
<1>6. \A ev \in Terminal : RankReached(rows, 0, StatusRank[ev]) <=> Has(n, Terminal)
  BY <1>1, <1>2, <1>3, <1>4 DEF Has
<1>7. Has(n, {"responded"}) => RankReached(rows, 0, StatusRank["responded"])
  BY <1>1, <1>3, <1>5 DEF Has
<1> QED
  BY <1>6, <1>7 DEF rows

-----------------------------------------------------------------------------
(* Locks.                                                                  *)

Locks == [on : Resource, mode : Mode]

LEMMA Resources ==
  /\ Conv \in Resource
  /\ \A s \in Service : Row(s) \in Resource /\ Row(s) # Conv /\ Row(s)[1] = "service"
  /\ \A s \in Service, q \in Nat : MsgRow(s, q) \in Resource /\ MsgRow(s, q) # Conv
                                   /\ MsgRow(s, q)[1] = "message"
  /\ \A e \in Hook : Wamid(e) \in Resource /\ Wamid(e) # Conv /\ Wamid(e)[1] = "wamid"
  /\ \A s, x \in Service : Row(s) = Row(x) => s = x
  /\ \A s, x, q, r : MsgRow(s, q) = MsgRow(x, r) => s = x /\ q = r
  /\ \A e, f : Wamid(e) = Wamid(f) => e = f
  /\ \A s, x, q : MsgRow(x, q) # Row(s)
  /\ \A s, e : Wamid(e) # Row(s)
  /\ \A s \in Service : QueueRow(s) \in Resource /\ QueueRow(s) # Conv
  /\ \A s, x : /\ QueueRow(s) = QueueRow(x) => s = x
               /\ QueueRow(s) # Row(x) /\ QueueRow(s)[1] = "queue"
  /\ \A s, x, q : QueueRow(s) # MsgRow(x, q) /\ QueueRow(s) # Wamid(x)
  /\ \A s, e, q : Wamid(e) # MsgRow(s, q)
  /\ {"service"} \X Service = {Row(s) : s \in Service}
<1>1. \A s, q : MsgRow(s, q)[1] = "message" /\ Row(s)[1] = "service" /\ Wamid(s)[1] = "wamid"
  BY DEF MsgRow, Row, Wamid
<1>2. Conv[1] = "conversation"
  BY DEF Conv
<1>3. \A s, x, q, r : MsgRow(s, q) = MsgRow(x, r) => s = x /\ q = r
  BY DEF MsgRow
<1>4. \A s, x : Row(s) = Row(x) => s = x
  BY DEF Row
<1>5. \A e, f : Wamid(e) = Wamid(f) => e = f
  BY DEF Wamid
<1>6. {"service"} \X Service = {Row(s) : s \in Service}
  BY DEF Row
<1>7. \A s \in Service, q \in Nat : MsgRow(s, q) \in Resource /\ Row(s) \in Resource
  BY DEF MsgRow, Row, Resource
<1>8. Conv \in Resource /\ \A e \in Hook : Wamid(e) \in Resource
  BY DEF Conv, Wamid, Resource
<1>9. \A s \in Service : Row(s) \in Resource /\ QueueRow(s) \in Resource
  BY DEF Row, QueueRow, Resource
<1>10. \A s, x : QueueRow(s)[1] = "queue" /\ (QueueRow(s) = QueueRow(x) => s = x)
  BY DEF QueueRow
<1> QED
  BY <1>1, <1>2, <1>3, <1>4, <1>5, <1>6, <1>7, <1>8, <1>9, <1>10, ZenonT(30)

LEMMA LockFields ==
  /\ \A r, m : Lock(r, m).on = r /\ Lock(r, m).mode = m
  /\ \A r, s, m, n : Lock(r, m) = Lock(s, n) => r = s /\ m = n
  /\ \A r \in Resource, m \in Mode : Lock(r, m) \in Locks
<1>1. \A r, m : Lock(r, m).on = r /\ Lock(r, m).mode = m
  BY DEF Lock
<1>2. \A r \in Resource, m \in Mode : Lock(r, m) \in Locks
  BY DEF Lock, Locks
<1> QED
  BY <1>1, <1>2

\* Who holds a lock that is strong enough to write holds the row against all writers.
LEMMA Held ==
  ASSUME NEW p \in Proc, locks \in [Proc -> SUBSET Locks], NEW r
  PROVE  /\ Holds(p, Lock(r, "write")) <=> Strong(locks[p], r)
         /\ Holds(p, Lock(r, "update")) <=> \E k \in locks[p] : k.on = r /\ k.mode = "update"
         /\ Holds(p, Lock(r, "share")) <=> \E k \in locks[p] : k.on = r
<1>1. \A k \in locks[p] : k.mode \in Mode
  BY DEF Locks
<1>2. Strength["share"] = 1 /\ Strength["write"] = 2 /\ Strength["update"] = 3
  BY DEF Strength
<1>3. \A m \in Mode : /\ Strength[m] >= 3 <=> m = "update"
                      /\ Strength[m] >= 2 <=> m \in {"write", "update"}
                      /\ Strength[m] >= 1
  BY <1>2 DEF Mode
<1>4. \A m : Holds(p, Lock(r, m)) <=> \E k \in locks[p] : k.on = r /\ Strength[k.mode] >= Strength[m]
  BY LockFields DEF Holds
<1>5. Holds(p, Lock(r, "write")) <=> \E k \in locks[p] : k.on = r /\ Strength[k.mode] >= 2
  BY <1>2, <1>4
<1>6. Holds(p, Lock(r, "update")) <=> \E k \in locks[p] : k.on = r /\ Strength[k.mode] >= 3
  BY <1>2, <1>4
<1>7. Holds(p, Lock(r, "share")) <=> \E k \in locks[p] : k.on = r /\ Strength[k.mode] >= 1
  BY <1>2, <1>4
<1> QED
  BY <1>1, <1>3, <1>5, <1>6, <1>7 DEF Strong

LEMMA Alone2 ==
  ASSUME Exclusion, NEW p \in Proc, NEW o \in Proc, NEW r, Strong(locks[p], r), Strong(locks[o], r)
  PROVE  p = o
BY DEF Exclusion, Strong, Conflict

\* Locks that were free when they were granted exclude each other.
LEMMA Granted ==
  ASSUME Exclusion, locks \in [Proc -> SUBSET Locks], NEW p \in Proc, NEW M \in SUBSET Locks,
         locks' = [locks EXCEPT ![p] = M], \A l \in M \ locks[p] : Free(p, l)
  PROVE  Exclusion'
<1> SUFFICES ASSUME NEW a \in Proc, NEW b \in Proc \ {a}, NEW k \in locks'[a], NEW l \in locks'[b],
                    k.on = l.on
             PROVE  ~Conflict(k.mode, l.mode)
  BY DEF Exclusion, Conflict
<1>1. locks'[p] = M /\ \A o \in Proc \ {p} : locks'[o] = locks[o]
  OBVIOUS
<1>2. \A m, n : Conflict(m, n) <=> Conflict(n, m)
  BY DEF Conflict
<1>3. \A x \in M, o \in Proc \ {p} : \A y \in locks[o] : y.on = x.on => ~Conflict(y.mode, x.mode)
  BY <1>2 DEF Exclusion, Free
<1>4. CASE a = p
  BY <1>1, <1>2, <1>3, <1>4
<1>5. CASE b = p
  BY <1>1, <1>3, <1>5
<1>6. CASE a # p /\ b # p
  BY <1>1, <1>6 DEF Exclusion
<1> QED
  BY <1>4, <1>5, <1>6
-----------------------------------------------------------------------------
(* Copies of transactions.                                                 *)

PlanOf == Serving \cup {<<"scan", "lock", "commit">>, <<"lock", "commit">>, <<"template">>,
                        <<"failed", "commit">>, <<"expire", "commit">>,
                        <<"expired", "expire", "commit">>}
                  \cup {<<k, "commit">> : k \in Receipt}

LEMMA PlanTypes ==
  /\ Event \subseteq Op /\ {"scan", "lock", "send", "template", "expire", "commit"} \subseteq Op
  /\ Receipt \subseteq Event /\ Terminal \subseteq Event
  /\ \A P \in PlanOf : P \in Seq(Op) /\ P # << >>
<1>1. /\ Event \subseteq Op /\ {"scan", "lock", "send", "template", "expire", "commit"} \subseteq Op
      /\ Receipt \subseteq Event /\ Terminal \subseteq Event
  BY DEF Event, Op, Receipt, Terminal
<1>2. \A a \in Op : <<a>> \in Seq(Op) /\ <<a>> # << >>
  OBVIOUS
<1>3. \A a, b \in Op : <<a, b>> \in Seq(Op) /\ <<a, b>> # << >>
  OBVIOUS
<1>4. \A a, b, c \in Op : <<a, b, c>> \in Seq(Op) /\ <<a, b, c>> # << >>
  OBVIOUS
<1>5. \A a, b, c, d \in Op : <<a, b, c, d>> \in Seq(Op) /\ <<a, b, c, d>> # << >>
  OBVIOUS
<1>6. \A a, b, c, d, e \in Op : <<a, b, c, d, e>> \in Seq(Op) /\ <<a, b, c, d, e>> # << >>
  OBVIOUS
<1>7. {"answered", "responded", "completed", "failed", "expired"} \subseteq Op
  BY DEF Event, Op
<1>8. \A P \in Serving : P \in Seq(Op) /\ P # << >>
  <2>1. \A P \in Completing : P \in Seq(Op) /\ P # << >>
    BY <1>1, <1>3, <1>4, <1>7 DEF Completing
  <2>2. \A e \in {"answered", "responded"} : \A P \in Led(e) : P \in Seq(Op) /\ P # << >>
    <3> TAKE e \in {"answered", "responded"}
    <3>1. e \in Op /\ "scan" \in Op /\ "lock" \in Op /\ "send" \in Op /\ "commit" \in Op
      BY <1>1, <1>7
    <3>2. /\ <<e, "scan", "lock", "send", "commit">> \in Seq(Op)
          /\ <<e, "send", "commit">> \in Seq(Op) /\ <<e, "commit">> \in Seq(Op)
      BY <3>1
    <3>3. \A P \in Led(e) : P # << >>
      BY DEF Led
    <3> QED
      BY <3>2, <3>3 DEF Led
  <2>3. \A P \in {Asking, <<"lock", "send", "commit">>, <<"send", "commit">>, <<"commit">>} :
          P \in Seq(Op) /\ P # << >>
    BY <1>1, <1>2, <1>3, <1>4, <1>5, ZenonT(30) DEF Asking
  <2> QED
    BY <2>1, <2>2, <2>3 DEF Serving
<1>9. \A k \in Receipt : <<k, "commit">> \in Seq(Op) /\ <<k, "commit">> # << >>
  BY <1>1, <1>3
<1>10. \A P \in {<<"scan", "lock", "commit">>, <<"lock", "commit">>, <<"template">>,
                 <<"failed", "commit">>, <<"expire", "commit">>, <<"expired", "expire", "commit">>} :
          P \in Seq(Op) /\ P # << >>
  BY <1>1, <1>2, <1>3, <1>4, <1>7, ZenonT(30)
<1> QED
  BY <1>1, <1>8, <1>9, <1>10 DEF PlanOf

\* What a step of the plan leaves alone.
Kept(t, u) ==
  /\ u.kind = t.kind /\ u.hook = t.hook /\ u.svc = t.svc /\ u.seq = t.seq /\ u.qs = t.qs
  /\ u.rec = t.rec /\ u.out = t.out /\ u.linked = t.linked /\ u.fresh = t.fresh

LEMMA Started ==
  ASSUME NEW t \in Tx
  PROVE  /\ Start(t) \in Tx /\ Kept(t, Start(t)) /\ Start(t).plan = t.plan
         /\ Start(t).expire = t.expire /\ Start(t).targets = t.targets /\ Start(t).notes = t.notes
         /\ IF t.plan # << >> /\ Head(t.plan) = "completed"
            THEN Start(t).status = "completed" /\ Start(t).wrote = t.wrote \cup {"status"}
            ELSE Start(t).status = t.status /\ Start(t).wrote = t.wrote
<1>1. "completed" \in Status
  BY DEF Status, Terminal
<1>2. CASE t.plan # << >> /\ Head(t.plan) = "completed"
  <2> DEFINE u == [t EXCEPT !.status = "completed", !.wrote = @ \cup {"status"}]
  <2>1. Start(t) = u
    BY <1>2 DEF Start
  <2>2. u \in Tx
    BY <1>1 DEF Tx
  <2>3. /\ Kept(t, u) /\ u.plan = t.plan /\ u.expire = t.expire /\ u.targets = t.targets
        /\ u.notes = t.notes /\ u.status = "completed" /\ u.wrote = t.wrote \cup {"status"}
    BY DEF Tx, Kept
  <2> HIDE DEF u
  <2> QED
    BY <1>2, <2>1, <2>2, <2>3
<1>3. CASE ~(t.plan # << >> /\ Head(t.plan) = "completed")
  <2>1. Start(t) = t
    BY <1>3 DEF Start
  <2> QED
    BY <1>3, <2>1 DEF Kept
<1> QED
  BY <1>2, <1>3

LEMMA Advanced ==
  ASSUME NEW t \in Tx, t.plan # << >>
  PROVE  LET u == Advance(t) IN
         /\ u \in Tx /\ Kept(t, u) /\ u.plan = Tail(t.plan)
         /\ u.expire = t.expire /\ u.targets = t.targets /\ u.notes = t.notes
         /\ IF Tail(t.plan) # << >> /\ Head(Tail(t.plan)) = "completed"
            THEN u.status = "completed" /\ u.wrote = t.wrote \cup {"status"}
            ELSE u.status = t.status /\ u.wrote = t.wrote
<1> DEFINE v == [t EXCEPT !.plan = Tail(@)]
<1>1. t.plan \in Seq(Op)
  BY DEF Tx
<1>2. Tail(t.plan) \in Seq(Op)
  BY <1>1
<1>3. v \in Tx
  BY <1>2 DEF Tx
<1>4. /\ Kept(t, v) /\ v.plan = Tail(t.plan) /\ v.expire = t.expire /\ v.targets = t.targets
      /\ v.notes = t.notes /\ v.status = t.status /\ v.wrote = t.wrote
  BY DEF Tx, Kept
<1> DEFINE u == Advance(t)
<1>5. u = Start(v)
  BY DEF Advance
<1> HIDE DEF u, v
<1>6. /\ u \in Tx /\ Kept(v, u) /\ u.plan = v.plan
      /\ u.expire = v.expire /\ u.targets = v.targets /\ u.notes = v.notes
      /\ IF v.plan # << >> /\ Head(v.plan) = "completed"
         THEN u.status = "completed" /\ u.wrote = v.wrote \cup {"status"}
         ELSE u.status = v.status /\ u.wrote = v.wrote
  BY <1>3, <1>5, Started
<1>7. Kept(t, u)
  BY <1>4, <1>6 DEF Kept
<1> QED
  BY <1>4, <1>6, <1>7 DEF u

LEMMA NoTxType == NoTx \in Tx /\ NoTx.plan = << >> /\ NoTx.kind = "none" /\ NoTx.svc = NoService
                  /\ NoTx.wrote = {} /\ NoTx.rec = 0 /\ NoTx.expire = {} /\ ~NoTx.fresh
                  /\ NoTx.out = {} /\ ~NoTx.linked /\ NoTx.targets = {} /\ NoTx.hook = NoHook
                  /\ (\A s \in Service : NoTx.notes[s] = << >>) /\ NoTx.status = "in_progress"
                  /\ NoTx.qs = [answered |-> 0, dispatched |-> {}] /\ Focused(NoTx.qs)
<1>1. [s \in Service |-> << >>] \in [Service -> Seq(Event)]
  OBVIOUS
<1>2. << >> \in Seq(Op)
  OBVIOUS
<1>3. [answered |-> 0, dispatched |-> {}] \in Form
  BY DEF Form
<1>4. NoTx \in Tx
  BY <1>1, <1>2, <1>3 DEF NoTx, Tx, Status
<1> QED
  BY <1>4 DEF NoTx, Focused

-----------------------------------------------------------------------------
(* Questions.                                                              *)

LEMMA NextQs ==
  ASSUME NEW s \in Service, NEW f \in Form
  PROVE  /\ Len(Questions[s]) \in Nat /\ f.answered \in Nat /\ NextQ(s, f) \in Nat
         /\ NextQ(s, f) = 0 <=> f.answered >= Len(Questions[s])
         /\ NextQ(s, f) # 0 => NextQ(s, f) = f.answered + 1
         /\ Focused(f) /\ AwaitsText(s, f) =>
              NextQ(s, f) # 0 /\ Questions[s][NextQ(s, f)] = 2 /\ NextQ(s, f) \in f.dispatched
<1>1. Questions[s] \in Seq(0..2) /\ f.answered \in Nat /\ f.dispatched \subseteq Nat
  BY ConstantsAssumption DEF Form
<1>2. Len(Questions[s]) \in Nat
  BY <1>1
<1>3. /\ NextQ(s, f) \in Nat
      /\ NextQ(s, f) = 0 <=> f.answered >= Len(Questions[s])
      /\ NextQ(s, f) # 0 => NextQ(s, f) = f.answered + 1
  BY <1>1, <1>2 DEF NextQ
<1>4. ASSUME Focused(f), AwaitsText(s, f)
      PROVE  NextQ(s, f) # 0 /\ Questions[s][NextQ(s, f)] = 2 /\ NextQ(s, f) \in f.dispatched
  <2>1. PICK q \in f.dispatched : q > f.answered /\ q <= Len(Questions[s]) /\ Questions[s][q] = 2
    BY <1>4 DEF AwaitsText
  <2>2. q \in Nat /\ q = f.answered + 1
    BY <1>1, <1>4, <2>1 DEF Focused
  <2> QED
    BY <1>1, <1>2, <1>3, <2>1, <2>2
<1> QED
  BY <1>1, <1>2, <1>3, <1>4

LEMMA FirePlans ==
  ASSUME NEW s \in Service, NEW f \in Form
  PROVE  \/ NextQ(s, f) = 0 /\ FirePlan(s, f) = << >>
         \/ NextQ(s, f) # 0 /\ Questions[s][NextQ(s, f)] = 2
            /\ FirePlan(s, f) = <<"scan", "lock", "send">>
         \/ NextQ(s, f) # 0 /\ Questions[s][NextQ(s, f)] # 2 /\ FirePlan(s, f) = <<"send">>
BY NextQs DEF FirePlan

\* The plans of _fire_next_question inside a handler.
LEMMA FiredPlans ==
  ASSUME NEW s \in Service, NEW f \in Form
  PROVE  /\ \/ NextQ(s, f) = 0 /\ FirePlan(s, f) \o <<"commit">> = <<"commit">>
            \/ NextQ(s, f) # 0 /\ Questions[s][NextQ(s, f)] = 2
               /\ FirePlan(s, f) \o <<"commit">> = Asking
            \/ NextQ(s, f) # 0 /\ Questions[s][NextQ(s, f)] # 2
               /\ FirePlan(s, f) \o <<"commit">> = <<"send", "commit">>
         /\ \A e \in {"answered", "responded"} :
            \/ NextQ(s, f) = 0 /\ <<e>> \o FirePlan(s, f) \o <<"commit">> = <<e, "commit">>
            \/ NextQ(s, f) # 0 /\ Questions[s][NextQ(s, f)] = 2
               /\ <<e>> \o FirePlan(s, f) \o <<"commit">> = <<e, "scan", "lock", "send", "commit">>
            \/ NextQ(s, f) # 0 /\ Questions[s][NextQ(s, f)] # 2
               /\ <<e>> \o FirePlan(s, f) \o <<"commit">> = <<e, "send", "commit">>
         /\ << >> \o FirePlan(s, f) \o <<"commit">> = FirePlan(s, f) \o <<"commit">>
<1>1. {"answered", "responded", "scan", "lock", "send", "commit"} \subseteq Op
  BY DEF Event, Op
<1>2. /\ <<"scan", "lock", "send">> \in Seq(Op) /\ <<"send">> \in Seq(Op) /\ <<"commit">> \in Seq(Op)
      /\ \A e \in {"answered", "responded"} : <<e>> \in Seq(Op)
  BY <1>1
<1>3. /\ << >> \o <<"commit">> = <<"commit">>
      /\ <<"scan", "lock", "send">> \o <<"commit">> = Asking
      /\ <<"send">> \o <<"commit">> = <<"send", "commit">>
  BY <1>1, <1>2, Joins DEF Asking
<1>4. ASSUME NEW e \in {"answered", "responded"}
      PROVE  /\ <<e>> \o << >> \o <<"commit">> = <<e, "commit">>
             /\ <<e>> \o <<"scan", "lock", "send">> \o <<"commit">> = <<e, "scan", "lock", "send", "commit">>
             /\ <<e>> \o <<"send">> \o <<"commit">> = <<e, "send", "commit">>
  <2>1. <<e>> \o << >> = <<e>> /\ <<e>> \o <<"send">> = <<e, "send">>
        /\ <<e>> \o <<"scan", "lock", "send">> = <<e, "scan", "lock", "send">>
    BY <1>1, <1>2, Joins
  <2>2. /\ <<e>> \o <<"commit">> = <<e, "commit">>
        /\ <<e, "send">> \o <<"commit">> = <<e, "send", "commit">>
        /\ <<e, "scan", "lock", "send">> \o <<"commit">> = <<e, "scan", "lock", "send", "commit">>
    BY <1>1, Joins
  <2> QED
    BY <2>1, <2>2
<1>5. << >> \o << >> = << >> /\ << >> \o <<"send">> = <<"send">>
      /\ << >> \o <<"scan", "lock", "send">> = <<"scan", "lock", "send">>
  BY <1>2, Joins
<1> QED
  BY <1>3, <1>4, <1>5, FirePlans
-----------------------------------------------------------------------------
(* The state a step starts from, and what it has to establish.             *)

LEMMA Facts ==
  ASSUME IInv, NEW p \in Proc
  PROVE  /\ tx[p] \in Tx /\ tx \in [Proc -> Tx] /\ locks \in [Proc -> SUBSET Locks]
         /\ locks[p] \in SUBSET Locks /\ Exclusion /\ Kinds(tx[p]) /\ Sane(tx[p])
         /\ Order(tx[p], locks[p]) /\ Answers(tx[p]) /\ EndsTold(tx[p], locks[p])
         /\ TurnTold(tx[p], locks[p]) /\ Alone(tx[p], locks[p])
<1>1. tx \in [Proc -> Tx] /\ locks \in [Proc -> SUBSET Locks]
  BY DEF IInv, TypeOK, Locks
<1>2. tx[p] \in Tx /\ locks[p] \in SUBSET Locks
  BY <1>1
<1> QED
  BY <1>1, <1>2 DEF IInv, Backed

\* The rest of the type: the database, and what lies outside it.
DbType ==
  /\ status \in [Service -> Status]
  /\ templateSent \subseteq Service /\ queued \subseteq Service
  /\ form \in [Service -> Form]
  /\ responses \in [Service -> Seq([seq : Nat, via : Inbound])]
  /\ asked \subseteq Service \X Nat
  /\ recency \subseteq Service \X Service
  /\ stored \subseteq Hook /\ failedHooks \subseteq Hook
  /\ notified \in [Service -> Seq(Event)]

MetaType ==
  /\ orphans \subseteq Service \X Nat /\ seen \subseteq Hook /\ lost \subseteq Hook
  /\ DOMAIN content \subseteq Hook /\ Range(content) \subseteq Contents
  /\ deliveries \in Nat /\ overdue \subseteq Service

LEMMA Types == TypeOK <=> DbType /\ MetaType /\ tx \in [Proc -> Tx] /\ locks \in [Proc -> SUBSET Locks]
BY DEF TypeOK, DbType, MetaType, Locks

LEMMA TypesNext ==
  DbType' /\ MetaType' /\ tx' \in [Proc -> Tx] /\ locks' \in [Proc -> SUBSET Locks] => TypeOK'
BY DEF TypeOK, DbType, MetaType, Locks

\* What a transaction relies on stays as it is while nobody commits.
LEMMA SameDb ==
  ASSUME UNCHANGED dbVars
  PROVE  /\ DbType => DbType'
         /\ Db => Db'
         /\ \A t, L : Backed(t, L) => Backed(t, L)'
<1> USE DEF dbVars
<1>1. DbType => DbType'
  BY DEF DbType
<1>2. \A s, q : Answered(s, q) <=> Answered(s, q)'
  BY DEF Answered
<1>3. Db => Db'
  <2>1. NoQuestionSkipped => NoQuestionSkipped'
    BY DEF NoQuestionSkipped
  <2>2. CompletedHasAllAnswers => CompletedHasAllAnswers'
    BY DEF CompletedHasAllAnswers
  <2>3. OneFreeTextOutstanding => OneFreeTextOutstanding'
    BY DEF OneFreeTextOutstanding
  <2> QED
    BY <1>2, <2>1, <2>2, <2>3 DEF Db
<1>4. \A t, L : EndsTold(t, L) => EndsTold(t, L)'
  BY DEF EndsTold, EndTold
<1>5. \A t, L : TurnTold(t, L) => TurnTold(t, L)'
  BY DEF TurnTold
<1>6. \A t, L : Alone(t, L) => Alone(t, L)'
  BY DEF Alone, Rival
<1>7. \A t : Answers(t) => Answers(t)'
  BY <1>2 DEF Answers
<1> QED
  BY <1>1, <1>3, <1>4, <1>5, <1>6, <1>7 DEF Backed

\* A step of p that commits nothing: u is its copy and M are its locks afterwards.
LEMMA WorkStep ==
  ASSUME IInv, NEW p \in Proc, NEW u \in Tx, NEW M \in SUBSET Locks,
         tx' = [tx EXCEPT ![p] = u], locks' = [locks EXCEPT ![p] = M],
         \A l \in M \ locks[p] : Free(p, l),
         UNCHANGED dbVars, MetaType', Kinds(u), Sane(u), Backed(u, M)
  PROVE  IInv'
<1>1. tx \in [Proc -> Tx] /\ locks \in [Proc -> SUBSET Locks] /\ DbType /\ Db /\ Exclusion
  BY Types DEF IInv
<1>2. Exclusion'
  BY <1>1, Granted
<1>3. TypeOK'
  BY <1>1, SameDb, TypesNext
<1>4. ASSUME NEW o \in Proc
      PROVE  Kinds(tx[o])' /\ Sane(tx[o])' /\ Backed(tx[o], locks[o])'
  <2>1. CASE o = p
    <3>1. tx'[o] = u /\ locks'[o] = M
      BY <1>1, <2>1
    <3> QED
      BY <3>1, SameDb
  <2>2. CASE o # p
    <3>1. tx'[o] = tx[o] /\ locks'[o] = locks[o]
      BY <1>1, <2>2
    <3>2. Kinds(tx[o]) /\ Sane(tx[o]) /\ Backed(tx[o], locks[o])
      BY DEF IInv
    <3> QED
      BY <3>1, <3>2, SameDb
  <2> QED
    BY <2>1, <2>2
<1> QED
  BY <1>1, <1>2, <1>3, <1>4, SameDb DEF IInv
-----------------------------------------------------------------------------
(* What a transaction still has to lock.                                   *)

\* Kinds tell transactions apart.
LEMMA Apart ==
  ASSUME NEW t, Kinds(t)
  PROVE  /\ t.kind = "template" => IsSending(t)
         /\ t.kind \in Receipt => IsReceipt(t)
         /\ t.kind \in {"tap", "reply"} => IsServing(t)
         /\ t.kind = "expiry" => IsExpiring(t)
         /\ t.kind \in Inbound => IsServing(t) \/ IsSearching(t)
         /\ t.fresh => IsServing(t)
         /\ t # NoTx => t.kind \in Inbound \cup Receipt \cup {"template", "expiry"}
         /\ t.plan = << >> <=> t = NoTx
<1>1. /\ NoTx.kind = "none" /\ NoTx.plan = << >> /\ ~NoTx.fresh
      /\ Inbound = {"tap", "reply", "quote", "text"} /\ Receipt = {"sent", "delivered", "read", "failed"}
  BY NoTxType DEF Inbound, Receipt
<1>2. IsSearching(t) => t.kind \in {"text", "quote"} /\ ~t.fresh /\ t.plan # << >>
  BY PlanTypes DEF IsSearching, PlanOf
<1>3. IsServing(t) => t.kind \in Inbound /\ t.fresh /\ t.plan # << >>
  BY PlanTypes DEF IsServing, PlanOf
<1>4. IsReceipt(t) => t.kind \in Receipt /\ ~t.fresh /\ t.plan # << >>
  BY Tails DEF IsReceipt
<1>5. IsSending(t) => t.kind = "template" /\ ~t.fresh /\ t.plan # << >>
  BY Tails DEF IsSending
<1>6. IsExpiring(t) => t.kind = "expiry" /\ ~t.fresh /\ t.plan # << >>
  BY PlanTypes DEF IsExpiring, PlanOf, Serving
<1> QED
  BY <1>1, <1>2, <1>3, <1>4, <1>5, <1>6 DEF Kinds

LEMMA ServingDirty ==
  ASSUME NEW t \in Tx, IsServing(t)
  PROVE  /\ Lock(Conv, "write") \in Dirty(t) /\ Lock(Wamid(t.hook), "write") \in Dirty(t)
         /\ \A l \in Dirty(t) : \/ l \in {Lock(Conv, "write"), Lock(Wamid(t.hook), "write")}
                                \/ \E s \in Service : l \in {Lock(Row(s), "write"), Lock(Row(s), "share")}
                                \/ \E s \in Ended(t) : l = Lock(QueueRow(s), "write")
<1>1. t.fresh /\ t.kind \notin Receipt
  BY DEF IsServing, Inbound, Receipt
<1> QED
  BY <1>1 DEF Dirty, Cited

LEMMA ReceiptDirty ==
  ASSUME NEW t \in Tx, IsReceipt(t)
  PROVE  /\ Cited(t) = {} /\ MsgLock(t) \in Dirty(t)
         /\ t.wrote # {} => RowLock(t) \in Dirty(t) /\ QueueLock(t) \in Dirty(t)
         /\ \A l \in Dirty(t) : \/ l = MsgLock(t)
                                \/ l \in {RowLock(t), QueueLock(t)} /\ t.wrote # {}
                                \/ l = KeyLock(t) /\ t.notes[t.svc] # << >>
<1>1. /\ t.kind \in Receipt /\ ~t.fresh /\ t.svc \in Service /\ t.expire = {} /\ ~t.linked
      /\ t.out = {} /\ \A s \in Service \ {t.svc} : t.notes[s] = << >>
      /\ t.wrote # {} => t.wrote = {"status"}
  BY DEF IsReceipt, Silent
<1>2. Cited(t) = {} /\ Ended(t) = IF t.wrote = {} THEN {} ELSE {t.svc}
  BY <1>1 DEF Cited, Ended
<1>3. /\ MsgLock(t) \in Dirty(t)
      /\ t.wrote # {} => RowLock(t) \in Dirty(t) /\ QueueLock(t) \in Dirty(t)
  BY <1>1, <1>2 DEF Dirty, MsgLock, RowLock, QueueLock
<1>4. \A l \in Dirty(t) : \/ l = MsgLock(t)
                          \/ l \in {RowLock(t), QueueLock(t)} /\ t.wrote # {}
                          \/ l = KeyLock(t) /\ t.notes[t.svc] # << >>
  BY <1>1, <1>2 DEF Dirty, MsgLock, RowLock, QueueLock, KeyLock
<1> QED
  BY <1>2, <1>3, <1>4

LEMMA OtherDirty ==
  ASSUME NEW t \in Tx, ~t.fresh, t.kind \notin Receipt
  PROVE  \A l \in Dirty(t) :
           \/ \E s \in Service :
                \/ l = Lock(Row(s), "write") /\ (s \in t.expire \/ (s = t.svc /\ t.wrote # {}))
                \/ l = Lock(Row(s), "share")
                   /\ (t.notes[s] # << >> \/ (s = t.svc /\ (t.linked \/ t.out # {})))
           \/ \E s \in Ended(t) : l = Lock(QueueRow(s), "write")
BY DEF Dirty, Cited

LEMMA DirtyLocks ==
  ASSUME NEW t \in Tx, Kinds(t), t # NoTx
  PROVE  Dirty(t) \subseteq Locks
<1>1. {"share", "write", "update"} = Mode
  BY DEF Mode
<1>2. \A s \in Service : /\ Lock(Row(s), "write") \in Locks /\ Lock(Row(s), "share") \in Locks
                         /\ Lock(QueueRow(s), "write") \in Locks
  BY <1>1, Resources, LockFields
<1>20. Ended(t) \subseteq Service
  BY DEF Ended
<1>3. CASE IsServing(t)
  <2>1. t.hook \in Hook
    BY <1>3 DEF IsServing
  <2>2. Lock(Conv, "write") \in Locks /\ Lock(Wamid(t.hook), "write") \in Locks
    BY <1>1, <2>1, Resources, LockFields
  <2> QED
    BY <1>2, <1>20, <1>3, <2>2, ServingDirty
<1>4. CASE IsReceipt(t)
  <2>1. t.svc \in Service /\ t.seq \in Nat
    BY <1>4 DEF IsReceipt, Tx
  <2>2. Lock(MsgRow(t.svc, t.seq), "write") \in Locks
    BY <1>1, <2>1, Resources, LockFields
  <2> QED
    BY <1>2, <1>4, <2>1, <2>2, ReceiptDirty DEF MsgLock, QueueLock, RowLock, KeyLock
<1>5. CASE ~t.fresh /\ t.kind \notin Receipt
  BY <1>2, <1>20, <1>5, OtherDirty
<1> QED
  BY <1>3, <1>4, <1>5, Apart

LEMMA MissingLocks ==
  ASSUME IInv, NEW p \in Proc
  PROVE  /\ Missing(p) \subseteq Locks
         /\ tx[p].plan = << >> => Missing(p) = {}
         /\ \A l \in Missing(p) : ~Holds(p, l)
         /\ At(p, "lock") => Missing(p) \subseteq {Lock(Row(s), "update") : s \in tx[p].targets}
         /\ ~At(p, "lock") => Missing(p) = {} \/ Missing(p) = {l \in Dirty(tx[p]) : ~Holds(p, l)}
         /\ ~At(p, "lock") /\ tx[p].plan # << >> /\ Flushes(tx[p])
               => Missing(p) = {l \in Dirty(tx[p]) : ~Holds(p, l)}
<1>1. tx[p] \in Tx /\ Kinds(tx[p])
  BY Facts
<1>2. tx[p].targets \subseteq Service
  BY <1>1 DEF Tx
<1>3. CASE tx[p].plan = << >>
  BY <1>3 DEF Missing, At
<1>4. CASE At(p, "lock")
  <2>1. Missing(p) = {l \in {Lock(Row(s), "update") : s \in tx[p].targets} : ~Holds(p, l)}
    BY <1>4 DEF Missing, At
  <2>2. \A s \in Service : Lock(Row(s), "update") \in Locks
    BY Resources, LockFields DEF Mode
  <2> QED
    BY <1>2, <1>4, <2>1, <2>2 DEF At
<1>5. CASE ~At(p, "lock") /\ tx[p].plan # << >>
  <2>1. Missing(p) = IF Flushes(tx[p]) THEN {l \in Dirty(tx[p]) : ~Holds(p, l)} ELSE {}
    BY <1>5 DEF Missing, At
  <2>2. tx[p] # NoTx
    BY <1>5, NoTxType
  <2> QED
    BY <1>1, <1>5, <2>1, <2>2, DirtyLocks
<1> QED
  BY <1>3, <1>4, <1>5

\* A sender that has ended nothing holds all it needs, and so does an expiry job.
LEMMA NothingEnded ==
  ASSUME IInv, NEW p \in Proc, tx[p].kind \in {"template", "expiry"}, Ended(tx[p]) = {}
  PROVE  Missing(p) = {}
<1> DEFINE t == tx[p]
<1>1. t \in Tx /\ Kinds(t) /\ Order(t, locks[p]) /\ t.kind \notin Receipt
  BY Facts DEF Receipt
<1>2. CASE t.kind = "template"
  <2>1. IsSending(t) /\ Lock(Row(t.svc), "update") \in locks[p]
    BY <1>1, <1>2, Apart DEF Order
  <2>2. ~t.fresh /\ t.svc \in Service /\ t.expire = {} /\ \A s \in Service \ {t.svc} : t.notes[s] = << >>
    BY <2>1 DEF IsSending, Silent
  <2>3. \A l \in Dirty(t) : l \in {Lock(Row(t.svc), "write"), Lock(Row(t.svc), "share")}
    BY <1>1, <2>2, OtherDirty
  <2>4. Holds(p, Lock(Row(t.svc), "write")) /\ Holds(p, Lock(Row(t.svc), "share"))
    BY <2>1, Facts, Held, LockFields DEF Strong
  <2>5. ~At(p, "lock")
    BY <2>1, Tails DEF At, IsSending
  <2> QED
    BY <2>3, <2>4, <2>5, MissingLocks
<1>3. CASE t.kind = "expiry"
  <2>1. IsExpiring(t) /\ t.expire \subseteq Service
    BY <1>1, <1>3, Apart DEF Tx
  <2>2. t.expire = {}
    BY <2>1 DEF Ended
  <2>3. ~t.fresh /\ t.wrote = {} /\ ~t.linked /\ t.out = {} /\ \A s \in Service : t.notes[s] = << >>
    BY <2>1, <2>2 DEF IsExpiring, Silent
  <2>4. Dirty(t) = {}
    BY <1>1, <2>2, <2>3, OtherDirty
  <2>5. ~At(p, "lock")
    BY <2>1, Tails DEF At, IsExpiring
  <2> QED
    BY <2>4, <2>5, MissingLocks
<1> QED
  BY <1>2, <1>3

LEMMA Ranks ==
  ASSUME NEW t
  PROVE  /\ FlushRank(t, Lock(Conv, "write")) = 1
         /\ \A l : l.on # Conv => FlushRank(t, l) \in 2..6
         /\ \A s \in Service, q \in Nat : FlushRank(t, Lock(MsgRow(s, q), "write")) = 2
         /\ \A s \in Service : /\ FlushRank(t, Lock(QueueRow(s), "write")) = 4
                               /\ FlushRank(t, Lock(Row(s), "write")) = 5
                               /\ Cited(t) = {} => FlushRank(t, Lock(Row(s), "share")) = 6
<1> DEFINE cited == {Lock(Row(s), "share") : s \in Cited(t)}
<1>1. \A l : FlushRank(t, l) = CASE l.on = Conv                       -> 1
                                 [] l.on[1] \in {"message", "wamid"} -> 2
                                 [] l \in cited                      -> 3
                                 [] l.on[1] = "queue"                -> 4
                                 [] l.on[1] = "service" /\ l.mode = "write" -> 5
                                 [] OTHER                            -> 6
  BY DEF FlushRank
<1>2. \A l \in cited : l.mode = "share" /\ l.on[1] = "service"
  BY LockFields, Resources DEF Cited
<1>3. Cited(t) = {} => cited = {}
  OBVIOUS
<1>4. ~(Conv[1] \in {"message", "wamid", "queue", "service"})
  BY DEF Conv
<1> HIDE DEF cited
<1>5. ASSUME NEW l
      PROVE  /\ l.on = Conv => FlushRank(t, l) = 1
             /\ l.on # Conv => FlushRank(t, l) \in 2..6
             /\ l.on[1] = "message" => FlushRank(t, l) = 2
             /\ l.on[1] = "queue" => FlushRank(t, l) = 4
             /\ l.on[1] = "service" /\ l.mode = "write" => FlushRank(t, l) = 5
             /\ l.on[1] = "service" /\ l.mode = "share" /\ cited = {} => FlushRank(t, l) = 6
  <2>1. FlushRank(t, l) = CASE l.on = Conv                       -> 1
                            [] l.on[1] \in {"message", "wamid"} -> 2
                            [] l \in cited                      -> 3
                            [] l.on[1] = "queue"                -> 4
                            [] l.on[1] = "service" /\ l.mode = "write" -> 5
                            [] OTHER                            -> 6
    BY <1>1
  <2> QED
    BY <1>2, <1>4, <2>1
<1>6. \A s \in Service, q \in Nat : MsgRow(s, q)[1] = "message"
  BY Resources
<1>7. \A s \in Service : QueueRow(s)[1] = "queue" /\ Row(s)[1] = "service"
  BY Resources
<1> QED
  BY <1>3, <1>5, <1>6, <1>7, LockFields

\* A receipt's locks, and what it has still to lock.
LEMMA ReceiptLocks ==
  ASSUME IInv, NEW p \in Proc, tx[p].kind \in Receipt
  PROVE  LET t == tx[p] IN
         /\ t \in Tx /\ IsReceipt(t) /\ t.svc \in Service /\ t.seq \in Nat /\ ~At(p, "lock")
         /\ InOrder(t, locks[p])
         /\ Holds(p, MsgLock(t)) => MsgLock(t) \in locks[p]
         /\ Holds(p, QueueLock(t)) => QueueLock(t) \in locks[p]
         /\ Holds(p, RowLock(t)) => RowLock(t) \in locks[p]
         /\ RowLock(t) \in locks[p] => Holds(p, KeyLock(t))
         /\ RowLock(t) # KeyLock(t) /\ MsgLock(t) \notin {QueueLock(t), RowLock(t), KeyLock(t)}
         /\ QueueLock(t) \notin {RowLock(t), KeyLock(t)}
<1> DEFINE t == tx[p]
<1>1. t \in Tx /\ IsReceipt(t) /\ Order(t, locks[p])
  BY Facts, Apart
<1>2. t.svc \in Service /\ t.seq \in Nat /\ t.kind \in Receipt
  BY <1>1 DEF IsReceipt, Tx
<1>3. ~At(p, "lock")
  BY <1>1, Tails DEF At, IsReceipt, Receipt
<1>4. InOrder(t, locks[p])
  BY <1>1, <1>2 DEF Order
<1>5. \A k \in locks[p] : k \in {MsgLock(t), QueueLock(t), RowLock(t), KeyLock(t)}
  BY <1>4 DEF InOrder
<1>6. /\ MsgRow(t.svc, t.seq) # Row(t.svc) /\ QueueRow(t.svc) # Row(t.svc)
      /\ QueueRow(t.svc) # MsgRow(t.svc, t.seq)
  BY Resources
<1> HIDE DEF t
<1>7. /\ MsgLock(t).on = MsgRow(t.svc, t.seq) /\ QueueLock(t).on = QueueRow(t.svc)
      /\ RowLock(t).on = Row(t.svc) /\ RowLock(t).mode = "write"
      /\ KeyLock(t).on = Row(t.svc) /\ KeyLock(t).mode = "share"
  BY LockFields DEF MsgLock, QueueLock, RowLock, KeyLock
<1>8. /\ Strong(locks[p], MsgRow(t.svc, t.seq)) => MsgLock(t) \in locks[p]
      /\ Strong(locks[p], QueueRow(t.svc)) => QueueLock(t) \in locks[p]
      /\ Strong(locks[p], Row(t.svc)) => RowLock(t) \in locks[p]
  BY <1>5, <1>6, <1>7 DEF Strong
<1>9. locks \in [Proc -> SUBSET Locks]
  BY Facts
<1>10. /\ Holds(p, MsgLock(t)) => MsgLock(t) \in locks[p]
       /\ Holds(p, QueueLock(t)) => QueueLock(t) \in locks[p]
       /\ Holds(p, RowLock(t)) => RowLock(t) \in locks[p]
  BY <1>8, <1>9, Held DEF MsgLock, QueueLock, RowLock
<1>11. RowLock(t) \in locks[p] => Holds(p, KeyLock(t))
  BY <1>7, <1>9, Held DEF KeyLock
<1> QED
  BY <1>1, <1>2, <1>3, <1>4, <1>6, <1>7, <1>10, <1>11 DEF t
-----------------------------------------------------------------------------
(* What comes next, by the head of the plan.                               *)

LEMMA ServingHeads ==
  ASSUME NEW t, IsServing(t)
  PROVE  /\ Head(t.plan) = "scan"   => t.plan = Asking
         /\ Head(t.plan) = "lock"   => t.plan = <<"lock", "send", "commit">>
         /\ Head(t.plan) = "send"   => t.plan = <<"send", "commit">>
         /\ Head(t.plan) = "commit" => t.plan = <<"commit">>
         /\ Head(t.plan) \in Event  => t.plan \in Completing \cup Led("answered") \cup Led("responded")
         /\ Head(t.plan) \in {"scan", "lock", "send", "commit"} \cup Event
         /\ t.plan # <<"commit">> => t.svc # NoService
<1>1. t.plan \in Serving /\ (t.plan # <<"commit">> => t.svc # NoService)
  BY DEF IsServing
<1>2. {"scan", "lock", "send", "commit"} \cap Event = {}
  BY DEF Event
<1>3. \A P \in Completing : Head(P) \in {"answered", "completed"}
  BY Tails DEF Completing
<1>4. \A e : \A P \in Led(e) : Head(P) = e
  BY Tails DEF Led
<1>5. "answered" \in Event /\ "responded" \in Event /\ "completed" \in Event
  BY DEF Event
<1>6. /\ Head(Asking) = "scan" /\ Head(<<"lock", "send", "commit">>) = "lock"
      /\ Head(<<"send", "commit">>) = "send" /\ Head(<<"commit">>) = "commit"
  BY Tails DEF Asking
<1> QED
  BY <1>1, <1>2, <1>3, <1>4, <1>5, <1>6 DEF Serving

LEMMA Heads ==
  ASSUME NEW t, Kinds(t), t.plan # << >>
  PROVE  /\ Head(t.plan) = "scan" =>
              \/ IsSearching(t) /\ t.plan = <<"scan", "lock", "commit">>
              \/ IsServing(t) /\ t.plan = Asking /\ t.svc # NoService
         /\ Head(t.plan) = "lock" =>
              \/ IsSearching(t) /\ t.plan = <<"lock", "commit">>
              \/ IsServing(t) /\ t.plan = <<"lock", "send", "commit">> /\ t.svc # NoService
         /\ Head(t.plan) = "send" => IsServing(t) /\ t.plan = <<"send", "commit">> /\ t.svc # NoService
         /\ Head(t.plan) = "template" => IsSending(t) /\ t.plan = <<"template">>
         /\ Head(t.plan) = "expire" => IsExpiring(t) /\ t.plan = <<"expire", "commit">>
         /\ Head(t.plan) = "commit" => t.plan = <<"commit">>
         /\ Head(t.plan) \in Event =>
              \/ IsServing(t) /\ t.svc # NoService
                 /\ t.plan \in Completing \cup Led("answered") \cup Led("responded")
              \/ IsReceipt(t) /\ t.plan = <<t.kind, "commit">>
              \/ IsSending(t) /\ t.plan \in {<<"completed", "commit">>, <<"failed", "commit">>}
              \/ IsExpiring(t) /\ t.plan = <<"expired", "expire", "commit">>
<1>1. {"scan", "lock", "send", "commit", "template", "expire"} \cap Event = {}
      /\ Receipt \subseteq Event /\ {"completed", "failed", "expired"} \subseteq Event
  BY DEF Event, Receipt
<1>2. CASE IsServing(t)
  <2>1. \A e : \A P \in Led(e) : Len(P) # 1
    BY DEF Led
  <2>2. \A P \in Completing : Len(P) # 1
    BY DEF Completing
  <2>3. Len(<<"commit">>) = 1
    OBVIOUS
  <2>4. t.plan = Asking \/ t.plan = <<"lock", "send", "commit">> \/ t.plan = <<"send", "commit">>
          => t.plan # <<"commit">>
    BY DEF Asking
  <2> QED
    BY <1>1, <1>2, <2>1, <2>2, <2>3, <2>4, ServingHeads
<1>3. CASE IsSearching(t)
  <2>1. t.plan \in {<<"scan", "lock", "commit">>, <<"lock", "commit">>}
    BY <1>3 DEF IsSearching
  <2>2. Head(<<"scan", "lock", "commit">>) = "scan" /\ Head(<<"lock", "commit">>) = "lock"
    BY Tails
  <2> QED
    BY <1>1, <1>3, <2>1, <2>2
<1>4. CASE IsReceipt(t)
  <2>1. t.plan \in {<<t.kind, "commit">>, <<"commit">>} /\ t.kind \in Receipt
    BY <1>4 DEF IsReceipt
  <2>2. Head(<<t.kind, "commit">>) = t.kind /\ Head(<<"commit">>) = "commit"
    BY Tails
  <2> QED
    BY <1>1, <1>4, <2>1, <2>2
<1>5. CASE IsSending(t)
  <2>1. t.plan \in {<<"template">>, <<"completed", "commit">>, <<"failed", "commit">>, <<"commit">>}
    BY <1>5 DEF IsSending
  <2>2. /\ Head(<<"template">>) = "template" /\ Head(<<"completed", "commit">>) = "completed"
        /\ Head(<<"failed", "commit">>) = "failed" /\ Head(<<"commit">>) = "commit"
    BY Tails
  <2> QED
    BY <1>1, <1>5, <2>1, <2>2
<1>6. CASE IsExpiring(t)
  <2>1. t.plan \in {<<"expire", "commit">>, <<"expired", "expire", "commit">>, <<"commit">>}
    BY <1>6 DEF IsExpiring
  <2>2. /\ Head(<<"expire", "commit">>) = "expire" /\ Head(<<"expired", "expire", "commit">>) = "expired"
        /\ Head(<<"commit">>) = "commit"
    BY Tails
  <2> QED
    BY <1>1, <1>6, <2>1, <2>2
<1> QED
  BY <1>2, <1>3, <1>4, <1>5, <1>6, NoTxType DEF Kinds

\* No plan but that of a plain text or of a question waits for rows FOR UPDATE.
LEMMA NotLocking ==
  ASSUME NEW t, Kinds(t), t.plan # << >>, ~(Head(t.plan) = "lock")
  PROVE  t.plan # <<"lock", "send", "commit">>
BY Tails

-----------------------------------------------------------------------------
(* The locks after a step.                                                 *)

LEMMA StrongMore == \A L, M, r : L \subseteq M /\ Strong(L, r) => Strong(M, r)
BY DEF Strong

\* A flush that blocks has taken its locks in the order of the unit of work.
LEMMA BlockOrder ==
  ASSUME IInv, NEW p \in Proc, ~At(p, "lock"), NEW l \in Wanted(p)
  PROVE  Order(tx[p], locks[p] \cup {l})
<1> DEFINE t == tx[p]
           L == locks[p]
           M == locks[p] \cup {l}
<1>1. l \in Missing(p) /\ \A k \in Missing(p) : FlushRank(t, k) >= FlushRank(t, l)
  BY DEF Wanted
<1>2. t \in Tx /\ Kinds(t) /\ Order(t, L) /\ t # NoTx /\ t.plan # << >>
  BY <1>1, Facts, MissingLocks, Apart, NoTxType
<1>3. l \in Dirty(t) /\ ~Holds(p, l) /\ \A k \in Dirty(t) : Holds(p, k) \/ FlushRank(t, k) >= FlushRank(t, l)
  BY <1>1, MissingLocks
<1>4. t.kind = "template" => Lock(Row(t.svc), "update") \in M
  BY <1>2 DEF Order
<1>5. ASSUME t.kind \in Receipt
      PROVE  InOrder(t, M)
  <2>1. /\ IsReceipt(t) /\ t.svc \in Service /\ t.seq \in Nat /\ InOrder(t, L)
        /\ Holds(p, MsgLock(t)) => MsgLock(t) \in L
        /\ Holds(p, QueueLock(t)) => QueueLock(t) \in L
        /\ Holds(p, RowLock(t)) => RowLock(t) \in L
        /\ RowLock(t) \in L => Holds(p, KeyLock(t))
        /\ RowLock(t) # KeyLock(t) /\ MsgLock(t) \notin {QueueLock(t), RowLock(t), KeyLock(t)}
        /\ QueueLock(t) \notin {RowLock(t), KeyLock(t)}
    BY <1>5, ReceiptLocks
  <2>2. /\ Cited(t) = {} /\ MsgLock(t) \in Dirty(t)
        /\ t.wrote # {} => RowLock(t) \in Dirty(t) /\ QueueLock(t) \in Dirty(t)
        /\ l = MsgLock(t) \/ (l \in {RowLock(t), QueueLock(t)} /\ t.wrote # {}) \/ l = KeyLock(t)
    BY <1>2, <1>3, <2>1, ReceiptDirty
  <2>3. /\ FlushRank(t, MsgLock(t)) = 2 /\ FlushRank(t, QueueLock(t)) = 4
        /\ FlushRank(t, RowLock(t)) = 5 /\ FlushRank(t, KeyLock(t)) = 6
    BY <2>1, <2>2, Ranks DEF MsgLock, QueueLock, RowLock, KeyLock
  <2> DEFINE msg == MsgLock(t)
             queue == QueueLock(t)
             row == RowLock(t)
             key == KeyLock(t)
  <2>4. /\ L \subseteq {msg, queue, row, key}
        /\ queue \in L => msg \in L
        /\ row \in L => msg \in L /\ queue \in L
        /\ key \in L => msg \in L /\ t.wrote = {}
    BY <2>1 DEF InOrder
  <2> HIDE DEF msg, queue, row, key, L, t
  <2>5. l # msg => msg \in L
    BY <1>3, <2>1, <2>2, <2>3 DEF msg, queue, row, key
  <2>6. l = row => queue \in L
    BY <1>3, <2>1, <2>2, <2>3 DEF msg, queue, row, key
  <2>7. l = key => t.wrote = {}
    BY <1>3, <2>1, <2>2, <2>3 DEF msg, queue, row, key
  <2>8. l \in {msg, queue, row, key}
    BY <2>2 DEF msg, queue, row, key
  <2>9. row # key /\ msg \notin {queue, row, key} /\ queue \notin {row, key}
    BY <2>1 DEF msg, queue, row, key
  <2>10. /\ M \subseteq {msg, queue, row, key}
         /\ queue \in M => msg \in M
         /\ row \in M => msg \in M /\ queue \in M
         /\ key \in M => msg \in M /\ t.wrote = {}
    BY <2>4, <2>5, <2>6, <2>7, <2>8, <2>9 DEF L
  <2> QED
    BY <2>10 DEF InOrder, msg, queue, row, key
<1>6. ASSUME t.kind \in {"tap", "reply"}
      PROVE  Lock(Conv, "write") \in M
  <2> DEFINE conv == Lock(Conv, "write")
  <2>1. IsServing(t) /\ conv \in Dirty(t)
    BY <1>2, <1>6, Apart, ServingDirty
  <2>2. L # {} => conv \in L
    BY <1>2, <1>6 DEF Order
  <2>3. L = {} => ~Holds(p, conv)
    BY DEF Holds
  <2>4. L = {} => FlushRank(t, l) <= 1
    BY <1>3, <2>1, <2>3, Ranks
  <2>5. L = {} => l.on = Conv
    BY <2>4, Ranks
  <2>6. ASSUME l.on = Conv PROVE l = conv
    <3>2. \A s \in Service : Row(s) # Conv /\ QueueRow(s) # Conv
      BY Resources
    <3>3. Wamid(t.hook) # Conv
      BY <2>1, Resources DEF IsServing
    <3>4. \/ l \in {conv, Lock(Wamid(t.hook), "write")}
          \/ \E s \in Service : l \in {Lock(Row(s), "write"), Lock(Row(s), "share")}
          \/ \E s \in Ended(t) : l = Lock(QueueRow(s), "write")
      BY <1>2, <1>3, <2>1, ServingDirty
    <3>5. Ended(t) \subseteq Service
      BY DEF Ended
    <3> HIDE DEF t
    <3> QED
      BY <2>6, <3>2, <3>3, <3>4, <3>5, LockFields
  <2> QED
    BY <2>2, <2>5, <2>6
<1> HIDE DEF M
<1>7. Order(t, M)
  BY <1>2, <1>4, <1>5, <1>6 DEF Order
<1> QED
  BY <1>7 DEF M

\* A flush that goes through leaves the locks in order; u is the copy after it.
LEMMA FlushOrder ==
  ASSUME IInv, NEW p \in Proc, ~At(p, "lock"), tx[p].plan # << >>, NEW u, u.kind = tx[p].kind,
         u.svc = tx[p].svc, u.seq = tx[p].seq, u.plan # << >>,
         tx[p].kind \in Receipt => u.wrote = tx[p].wrote /\ tx[p].plan = <<tx[p].kind, "commit">>
  PROVE  Order(u, locks[p] \cup Missing(p))
<1> DEFINE t == tx[p]
           L == locks[p]
           M == locks[p] \cup Missing(p)
<1>1. t \in Tx /\ Kinds(t) /\ Order(t, L) /\ t # NoTx
  BY Facts, Apart, NoTxType
<1>2. Missing(p) = {} \/ Missing(p) = {k \in Dirty(t) : ~Holds(p, k)}
  BY MissingLocks
<1>3. t.kind = "template" => Lock(Row(t.svc), "update") \in M
  BY <1>1 DEF Order
<1>4. ASSUME t.kind \in Receipt
      PROVE  InOrder(t, M)
  <2>1. /\ IsReceipt(t) /\ InOrder(t, L)
        /\ Holds(p, MsgLock(t)) => MsgLock(t) \in L
        /\ Holds(p, QueueLock(t)) => QueueLock(t) \in L
        /\ RowLock(t) # KeyLock(t) /\ MsgLock(t) \notin {QueueLock(t), RowLock(t), KeyLock(t)}
        /\ QueueLock(t) \notin {RowLock(t), KeyLock(t)}
    BY <1>4, ReceiptLocks
  <2>2. t.notes[t.svc] = << >>
    BY <1>4, <2>1 DEF IsReceipt, Silent
  <2>3. /\ MsgLock(t) \in Dirty(t)
        /\ t.wrote # {} => RowLock(t) \in Dirty(t) /\ QueueLock(t) \in Dirty(t)
        /\ \A l \in Dirty(t) : l = MsgLock(t) \/ (l \in {RowLock(t), QueueLock(t)} /\ t.wrote # {})
    BY <1>1, <2>1, <2>2, ReceiptDirty
  <2> DEFINE msg == MsgLock(t)
             queue == QueueLock(t)
             row == RowLock(t)
             key == KeyLock(t)
  <2>4. /\ L \subseteq {msg, queue, row, key}
        /\ queue \in L => msg \in L
        /\ row \in L => msg \in L /\ queue \in L
        /\ key \in L => msg \in L /\ t.wrote = {}
    BY <2>1 DEF InOrder
  <2>5. /\ Missing(p) # {} => msg \in M /\ (t.wrote # {} => queue \in M)
        /\ \A l \in Missing(p) : l = msg \/ (l \in {row, queue} /\ t.wrote # {})
    BY <1>2, <2>1, <2>3
  <2>6. row # key /\ msg \notin {queue, row, key} /\ queue \notin {row, key}
    BY <2>1
  <2> HIDE DEF msg, queue, row, key, L, t
  <2>7. /\ M \subseteq {msg, queue, row, key}
        /\ queue \in M => msg \in M
        /\ row \in M => msg \in M /\ queue \in M
        /\ key \in M => msg \in M /\ t.wrote = {}
    BY <2>4, <2>5, <2>6 DEF L
  <2> QED
    BY <2>7 DEF InOrder, msg, queue, row, key
<1>5. ASSUME t.kind \in {"tap", "reply"}, M # {}
      PROVE  Lock(Conv, "write") \in M
  <2>1. Lock(Conv, "write") \in Dirty(t)
    BY <1>1, <1>5, Apart, ServingDirty
  <2>2. L # {} => Lock(Conv, "write") \in L
    BY <1>1, <1>5 DEF Order
  <2>3. L = {} => ~Holds(p, Lock(Conv, "write"))
    BY DEF Holds
  <2> QED
    BY <1>2, <1>5, <2>1, <2>2, <2>3
<1>6. ASSUME t.kind \in Receipt
      PROVE  InOrder(u, M)
  BY <1>4, <1>6 DEF InOrder, MsgLock, QueueLock, RowLock, KeyLock
<1> HIDE DEF M
<1>7. Order(u, M)
  BY <1>3, <1>5, <1>6 DEF Order
<1> QED
  BY <1>7 DEF M

\* The locks a flush that goes through adds are free.
LEMMA FlushFree ==
  ASSUME NEW p, Ready(p)
  PROVE  \A l \in (locks[p] \cup Missing(p)) \ locks[p] : Free(p, l)
BY DEF Ready

\* What was told is still backed by the locks after more of them were taken.
LEMMA StillTold ==
  ASSUME NEW t, NEW u, NEW L, NEW M, L \subseteq M,
         u.svc = t.svc, u.expire = t.expire, u.notes = t.notes, u.status = t.status,
         "status" \in u.wrote <=> "status" \in t.wrote,
         u.plan = t.plan \/ ~(Head(t.plan) \in Terminal)
  PROVE  /\ EndsTold(t, L) => EndsTold(u, M)
         /\ TurnTold(t, L) => TurnTold(u, M)
<1>1. \A r : Strong(L, r) => Strong(M, r)
  BY StrongMore
<1>2. \A s : Ending(u, s) <=> Ending(t, s)
  BY DEF Ending
<1>3. EndsTold(t, L) => EndsTold(u, M)
  BY <1>1, <1>2 DEF EndsTold, EndTold
<1>4. TurnTold(t, L) => TurnTold(u, M)
  BY <1>1 DEF TurnTold
<1> QED
  BY <1>3, <1>4

LEMMA AloneMore == \A t, L, M : L \subseteq M /\ Alone(t, L) => Alone(t, M)
BY StrongMore DEF Alone

-----------------------------------------------------------------------------
(* What enqueue_notification adds.                                         *)

LEMMA Notes ==
  ASSUME IInv, NEW p \in Proc, NEW s \in Service, NEW st, NEW ev \in Event
  PROVE  LET n == Noted(p, s, st, ev)
             m == tx[p].notes[s] IN
         /\ n \in Seq(Event) /\ m \in Seq(Event)
         /\ n # m => s \in Subscribed /\ Passes(st, ev)
         /\ AtMostOne(m, Terminal) => AtMostOne(n, Terminal)
         /\ Has(m, Terminal) => Has(n, Terminal)
         /\ Has(n, Terminal) => Has(m, Terminal) \/ (ev \in Terminal /\ ~Has(notified[s], Terminal))
         /\ ev \in Terminal /\ s \in Subscribed => Has(n, Terminal) \/ Has(notified[s], Terminal)
         /\ AtMostOne(m, {"responded"}) => AtMostOne(n, {"responded"})
         /\ Has(n, {"responded"}) => \/ Has(m, {"responded"})
                                     \/ ev = "responded" /\ ~Has(notified[s], {"responded"})
<1> DEFINE n == Noted(p, s, st, ev)
           m == tx[p].notes[s]
           told == notified[s] \o m
           rows == {[att |-> 0, ev |-> e] : e \in Range(told)}
           adds == s \in Subscribed /\ Enqueues(rows, 0, st, ev)
<1>1. m \in Seq(Event) /\ notified[s] \in Seq(Event)
  <2>1. tx[p] \in Tx /\ DbType
    BY Facts, Types DEF IInv
  <2> QED
    BY <2>1 DEF Tx, DbType
<1>2. n = IF adds THEN Append(m, ev) ELSE m
  BY DEF Noted
<1>3. /\ told \in Seq(Event)
      /\ \A E : Has(told, E) <=> Has(notified[s], E) \/ Has(m, E)
  BY <1>1, JoinedNotes
<1>4. /\ \A x \in Terminal : RankReached(rows, 0, StatusRank[x]) <=> Has(told, Terminal)
      /\ Has(told, {"responded"}) => RankReached(rows, 0, StatusRank["responded"])
  <2> HIDE DEF told
  <2> QED
    BY <1>3, RanksReached
<1> HIDE DEF rows, told, n, m
<1>5. /\ "answered" \notin Terminal /\ "responded" \notin Terminal /\ "responded" # "answered"
      /\ Terminal \subseteq Event
  BY DEF Terminal, Event
<1>6. adds => s \in Subscribed /\ Passes(st, ev)
              /\ (ev = "answered" \/ ~RankReached(rows, 0, StatusRank[ev]))
  BY DEF Enqueues
<1>7. ev \in Terminal => (adds <=> s \in Subscribed /\ ~Has(told, Terminal))
  <2>1. ev \in Terminal => Passes(st, ev)
    BY DEF Passes
  <2> QED
    BY <1>4, <1>5, <1>6, <2>1 DEF Enqueues
<1>8. ev = "responded" /\ adds => ~Has(told, {"responded"})
  BY <1>4, <1>5, <1>6
<1> HIDE DEF adds
<1>9. /\ Append(m, ev) \in Seq(Event)
      /\ \A E : /\ Has(Append(m, ev), E) <=> Has(m, E) \/ ev \in E
                /\ AtMostOne(m, E) /\ (ev \in E => ~Has(m, E)) => AtMostOne(Append(m, ev), E)
  BY <1>1, AddedNote
<1>10. CASE ~adds
  BY <1>1, <1>2, <1>3, <1>7, <1>10 DEF n, m
<1>11. CASE adds
  <2>1. n = Append(m, ev)
    BY <1>2, <1>11
  <2>2. ev \in Terminal => ~Has(m, Terminal) /\ ~Has(notified[s], Terminal)
    BY <1>3, <1>7, <1>11
  <2>3. ev = "responded" => ~Has(m, {"responded"}) /\ ~Has(notified[s], {"responded"})
    BY <1>3, <1>8, <1>11
  <2>4. /\ n \in Seq(Event)
        /\ AtMostOne(m, Terminal) => AtMostOne(n, Terminal)
        /\ Has(n, Terminal) <=> Has(m, Terminal) \/ ev \in Terminal
        /\ AtMostOne(m, {"responded"}) => AtMostOne(n, {"responded"})
        /\ Has(n, {"responded"}) <=> Has(m, {"responded"}) \/ ev = "responded"
    BY <1>9, <2>1, <2>2, <2>3
  <2> QED
    BY <1>1, <1>6, <1>11, <2>2, <2>3, <2>4 DEF n, m
<1> QED
  BY <1>10, <1>11

\* The services that are superseded end with the transaction, and are told so.
LEMMA Superseded ==
  ASSUME IInv, NEW p \in Proc, NEW B \in SUBSET Awaiting(p),
         Silent(tx[p], tx[p].expire \cup {tx[p].svc}),
         tx[p].plan # << >>, ~(Head(tx[p].plan) \in Terminal)
  PROVE  LET t == tx[p]
             u == Superseding(p, B) IN
         /\ u \in Tx /\ Kept(t, u) /\ u.plan = t.plan /\ u.targets = t.targets
         /\ u.status = t.status /\ u.wrote = t.wrote /\ u.expire = t.expire \cup B
         /\ Silent(u, u.expire \cup {u.svc})
         /\ \A s \in Service \ B : u.notes[s] = t.notes[s]
         /\ EndsTold(u, locks[p]) /\ TurnTold(u, locks[p])
<1> DEFINE t == tx[p]
           L == locks[p]
           u == Superseding(p, B)
<1>1. t \in Tx /\ EndsTold(t, L) /\ TurnTold(t, L) /\ locks \in [Proc -> SUBSET Locks] /\ Db
  BY Facts DEF IInv
<1>2. \A s \in B : /\ s \in Service /\ s \notin t.expire /\ s # t.svc
                   /\ Strong(L, Row(s)) /\ status[s] = "in_progress"
  <2> TAKE s \in B
  <2>1. s \in Service /\ s \notin t.expire /\ s # t.svc /\ Holds(p, Lock(Row(s), "update"))
        /\ status[s] = "in_progress"
    BY DEF Awaiting
  <2>2. Strong(L, Row(s))
    BY <1>1, <2>1, Held DEF Strong
  <2> QED
    BY <2>1, <2>2
<1>3. "expired" \in Event /\ "expired" \in Terminal /\ "expired" # "responded"
      /\ "in_progress" \notin Terminal
  BY DEF Event, Terminal
<1>4. ASSUME NEW s \in Service
      PROVE  /\ Noted(p, s, "expired", "expired") \in Seq(Event)
             /\ AtMostOne(t.notes[s], Terminal) => AtMostOne(Noted(p, s, "expired", "expired"), Terminal)
             /\ Has(Noted(p, s, "expired", "expired"), Terminal) =>
                  Has(t.notes[s], Terminal) \/ ~Has(notified[s], Terminal)
             /\ s \in Subscribed => \/ Has(Noted(p, s, "expired", "expired"), Terminal)
                                    \/ Has(notified[s], Terminal)
             /\ AtMostOne(t.notes[s], {"responded"})
                  => AtMostOne(Noted(p, s, "expired", "expired"), {"responded"})
             /\ Has(Noted(p, s, "expired", "expired"), {"responded"})
                  => Has(t.notes[s], {"responded"})
  BY <1>3, Notes
<1>5. [s \in Service |-> IF s \in B THEN Noted(p, s, "expired", "expired") ELSE t.notes[s]]
        \in [Service -> Seq(Event)]
  BY <1>1, <1>4 DEF Tx
<1>6. u = [t EXCEPT !.expire = t.expire \cup B,
             !.notes = [s \in Service |-> IF s \in B THEN Noted(p, s, "expired", "expired")
                                                     ELSE t.notes[s]]]
  BY DEF Superseding
<1>7. t.expire \cup B \in SUBSET Service
  BY <1>1, <1>2 DEF Tx
<1>8. u \in Tx
  BY <1>1, <1>5, <1>6, <1>7 DEF Tx
<1>9. /\ Kept(t, u) /\ u.plan = t.plan /\ u.targets = t.targets /\ u.status = t.status
      /\ u.wrote = t.wrote /\ u.expire = t.expire \cup B
      /\ \A s \in Service : u.notes[s] = IF s \in B THEN Noted(p, s, "expired", "expired")
                                                    ELSE t.notes[s]
  BY <1>1, <1>6 DEF Tx, Kept
<1> HIDE DEF u
<1>10. u.svc = t.svc
  BY <1>9 DEF Kept
<1>11. Silent(u, u.expire \cup {u.svc})
  BY <1>9, <1>10 DEF Silent
<1>12. \A s \in B : t.notes[s] = << >> /\ ~Has(t.notes[s], Terminal) /\ ~Has(t.notes[s], {"responded"})
  BY <1>2, NothingTold DEF Silent
<1>13. \A s : Ending(u, s) <=> s \in B \/ Ending(t, s)
  BY <1>9, <1>10 DEF Ending
<1>14. EndsTold(u, L)
  <2> SUFFICES ASSUME NEW s \in Service PROVE EndTold(u, L, s)
    BY DEF EndsTold
  <2>1. EndTold(t, L, s)
    BY <1>1 DEF EndsTold
  <2>2. CASE s \in B
    <3>1. u.notes[s] = Noted(p, s, "expired", "expired") /\ Ending(u, s) /\ Strong(L, Row(s))
      BY <1>2, <1>9, <1>13, <2>2
    <3>2. AtMostOne(t.notes[s], Terminal)
      BY <2>1 DEF EndTold
    <3> QED
      BY <1>4, <1>12, <2>2, <3>1, <3>2 DEF EndTold
  <2>3. CASE s \notin B
    BY <1>9, <1>10, <1>13, <2>1, <2>3 DEF EndTold
  <2> QED
    BY <2>2, <2>3
<1>15. TurnTold(u, L)
  BY <1>1, <1>4, <1>9, <1>12 DEF TurnTold
<1> QED
  BY <1>8, <1>9, <1>11, <1>14, <1>15 DEF u

-----------------------------------------------------------------------------
(* The steps of a transaction.                                             *)

LEMMA SameMeta == IInv /\ UNCHANGED metaVars => MetaType'
BY Types DEF IInv, MetaType, metaVars

LEMMA BlockStep ==
  ASSUME IInv, NEW p \in Proc, Block(p)
  PROVE  IInv'
<1> DEFINE t == tx[p]
<1>1. ~At(p, "lock") /\ UNCHANGED <<dbVars, metaVars, tx>>
  BY DEF Block
<1>2. PICK l \in Wanted(p) : Free(p, l) /\ locks' = [locks EXCEPT ![p] = @ \cup {l}]
  BY DEF Block
<1>20. l \in Missing(p)
  BY DEF Wanted
<1> DEFINE M == locks[p] \cup {l}
<1>3. t \in Tx /\ tx \in [Proc -> Tx] /\ locks \in [Proc -> SUBSET Locks] /\ M \in SUBSET Locks
      /\ Kinds(t) /\ Sane(t)
  BY <1>20, Facts, MissingLocks
<1>4. tx' = [tx EXCEPT ![p] = t] /\ locks' = [locks EXCEPT ![p] = M]
  BY <1>1, <1>2, <1>3
<1>5. \A k \in M \ locks[p] : Free(p, k)
  BY <1>2
<1>6. Order(t, M)
  BY <1>1, <1>2, BlockOrder
<1>7. locks[p] \subseteq M
  OBVIOUS
<1>8. Answers(t) /\ EndsTold(t, M) /\ TurnTold(t, M) /\ Alone(t, M)
  <2> HIDE DEF M
  <2> QED
    BY <1>7, Facts, StillTold, AloneMore
<1> HIDE DEF M, t
<1>9. Backed(t, M)
  BY <1>6, <1>8 DEF Backed
<1>10. MetaType'
  BY <1>1, SameMeta
<1> QED
  BY <1>1, <1>3, <1>4, <1>5, <1>9, <1>10, WorkStep

\* Without a free-text question of its own a transaction relies on no other service.
LEMMA NotAsking ==
  ASSUME NEW t, NEW L, t.plan # <<"lock", "send", "commit">>, t.plan # <<"send", "commit">>,
         "questions" \notin t.wrote
  PROVE  Alone(t, L)
BY DEF Alone

LEMMA ScanStep ==
  ASSUME IInv, NEW p \in Proc, Scan(p)
  PROVE  IInv'
<1> DEFINE t == tx[p]
           live == {s \in Service \ {t.svc} : status[s] = "in_progress"}
           v == Advance(t)
           u == [v EXCEPT !.targets = live]
           M == locks[p] \cup Missing(p)
<1>1. /\ t.plan # << >> /\ Head(t.plan) = "scan" /\ Ready(p) /\ UNCHANGED <<dbVars, metaVars>>
      /\ tx' = [tx EXCEPT ![p] = u] /\ locks' = [locks EXCEPT ![p] = M]
  BY DEF Scan, Flush, At
<1>2. t \in Tx /\ Kinds(t) /\ Sane(t) /\ M \in SUBSET Locks /\ ~At(p, "lock")
  BY <1>1, Facts, MissingLocks DEF At
<1>3. \/ IsSearching(t) /\ t.plan = <<"scan", "lock", "commit">>
      \/ IsServing(t) /\ t.plan = <<"scan", "lock", "send", "commit">> /\ t.svc # NoService
  BY <1>1, <1>2, Heads DEF Asking
<1>4. /\ Tail(t.plan) # << >> /\ Head(Tail(t.plan)) = "lock"
      /\ IsSearching(t) => Tail(t.plan) = <<"lock", "commit">>
      /\ IsServing(t) => Tail(t.plan) = <<"lock", "send", "commit">>
  <2>1. IsSearching(t) => ~IsServing(t)
    BY DEF IsSearching, IsServing
  <2>2. CASE IsSearching(t)
    <3>1. t.plan = <<"scan", "lock", "commit">> /\ ~IsServing(t)
      BY <1>3, <2>1, <2>2
    <3>2. Tail(t.plan) = <<"lock", "commit">>
      BY <3>1, Tails
    <3> QED
      BY <2>2, <3>1, <3>2, Tails
  <2>3. CASE ~IsSearching(t)
    <3>1. t.plan = <<"scan", "lock", "send", "commit">>
      BY <1>3, <2>3
    <3>2. Tail(t.plan) = <<"lock", "send", "commit">>
      BY <3>1, Tails
    <3>3. Head(<<"lock", "send", "commit">>) = "lock" /\ <<"lock", "send", "commit">> # << >>
      BY Tails
    <3> QED
      BY <2>3, <3>2, <3>3
  <2> QED
    BY <2>2, <2>3
<1>5. /\ v \in Tx /\ Kept(t, v) /\ v.plan = Tail(t.plan) /\ v.expire = t.expire
      /\ v.notes = t.notes /\ v.status = t.status /\ v.wrote = t.wrote
  BY <1>1, <1>2, <1>4, Advanced
<1> HIDE DEF v
<1>6. /\ u \in Tx /\ Kept(t, u) /\ u.plan = Tail(t.plan) /\ u.expire = t.expire
      /\ u.notes = t.notes /\ u.status = t.status /\ u.wrote = t.wrote /\ u.targets = live
  BY <1>5 DEF Tx, Kept
<1> HIDE DEF u
<1>7. Kinds(u)
  <2>1. CASE IsSearching(t)
    BY <1>4, <1>6, <2>1 DEF Kinds, IsSearching, Kept, Silent
  <2>2. CASE IsServing(t)
    <3>1. u.plan \in Serving /\ u.plan \notin Led("responded")
      BY <1>4, <1>6, <2>2, Tails DEF Serving, Led
    <3> QED
      BY <1>3, <1>6, <2>1, <2>2, <3>1, <2>2 DEF Kinds, IsServing, IsSearching, Kept, Silent
  <2> QED
    BY <1>3, <2>1, <2>2
<1>8. Sane(u)
  <2>1. u.plan \notin Completing /\ \A e \in Event : u.plan # <<e, "send", "commit">>
    <3>1. \A P \in Completing : Head(P) # "lock"
      BY Tails DEF Completing
    <3>2. \A e \in Event : Head(<<e, "send", "commit">>) = e /\ e # "lock"
      BY Tails DEF Event
    <3> QED
      BY <1>4, <1>6, <3>1, <3>2
  <2>2. u.plan # << >> /\ Head(u.plan) = "lock"
    BY <1>4, <1>6
  <2> QED
    BY <1>2, <1>6, <2>1, <2>2 DEF Sane, Kept
<1>9. Order(u, M)
  <2>1. t.kind \notin Receipt /\ u.plan # << >>
    BY <1>3, <1>4, <1>6 DEF IsSearching, IsServing, Inbound, Receipt
  <2> QED
    BY <1>1, <1>2, <1>6, <2>1, FlushOrder DEF Kept
<1>10. EndsTold(u, M) /\ TurnTold(u, M)
  <2>1. locks[p] \subseteq M /\ ~(Head(t.plan) \in Terminal)
    BY <1>1 DEF Terminal
  <2> HIDE DEF M
  <2> QED
    BY <1>6, <2>1, Facts, StillTold DEF Kept
<1>11. Answers(u)
  BY <1>6, Facts DEF Answers, Kept
<1>12. Alone(u, M)
  <2>1. CASE IsSearching(t)
    <3>1. u.plan = <<"lock", "commit">> /\ "questions" \notin u.wrote
      BY <1>4, <1>6, <2>1 DEF IsSearching
    <3>2. u.plan # <<"lock", "send", "commit">> /\ u.plan # <<"send", "commit">>
      BY <3>1, Tails
    <3> QED
      BY <3>1, <3>2, NotAsking
  <2>2. CASE IsServing(t)
    <3>1. u.plan = <<"lock", "send", "commit">> /\ u.plan # <<"send", "commit">>
      BY <1>4, <1>6, <2>2, Tails
    <3>2. Lock(Conv, "write") \in Dirty(t)
      BY <1>2, <2>2, ServingDirty
    <3>3. Holds(p, Lock(Conv, "write")) \/ Lock(Conv, "write") \in Missing(p)
      BY <1>1, <1>2, <3>2, MissingLocks DEF Flushes
    <3>4. Strong(M, Conv)
      <4>1. CASE Holds(p, Lock(Conv, "write"))
        BY <4>1, Facts, Held, StrongMore
      <4>2. CASE Lock(Conv, "write") \in Missing(p)
        BY <4>2, LockFields DEF Strong
      <4> QED
        BY <3>3, <4>1, <4>2
    <3>5. \A s \in Service \ {u.svc} : status[s] = "in_progress" => s \in u.targets
      BY <1>6 DEF Kept
    <3>6. "questions" \in u.wrote /\ AwaitsText(u.svc, u.qs) /\ u.svc \in Service =>
             \A s \in Service \ {u.svc} : Rival(s) => s \in u.expire
      BY <1>6, Facts DEF Alone, Kept
    <3> QED
      BY <3>1, <3>4, <3>5, <3>6 DEF Alone
  <2> QED
    BY <1>3, <2>1, <2>2
<1>13. \A l \in M \ locks[p] : Free(p, l)
  BY <1>1, FlushFree
<1> HIDE DEF M
<1>14. Backed(u, M) /\ MetaType'
  BY <1>1, <1>9, <1>10, <1>11, <1>12, SameMeta DEF Backed
<1> QED
  BY <1>1, <1>2, <1>6, <1>7, <1>8, <1>13, <1>14, WorkStep

LEMMA LockRowStep ==
  ASSUME IInv, NEW p \in Proc, NEW s \in Service, LockRow(p, s)
  PROVE  IInv'
<1> DEFINE t == tx[p]
           l == Lock(Row(s), "update")
           u == [t EXCEPT !.targets = @ \ {s}]
           M == locks[p] \cup {l}
<1>1. /\ t.plan # << >> /\ Head(t.plan) = "lock" /\ s \in t.targets /\ Free(p, l)
      /\ tx' = [tx EXCEPT ![p].targets = @ \ {s}] /\ locks' = [locks EXCEPT ![p] = @ \cup {l}]
      /\ UNCHANGED <<dbVars, metaVars>>
  BY DEF LockRow, At
<1>2. t \in Tx /\ Kinds(t) /\ Sane(t) /\ tx \in [Proc -> Tx] /\ locks \in [Proc -> SUBSET Locks]
  BY Facts
<1>3. l \in Locks
  BY Resources, LockFields DEF Mode
<1>4. tx' = [tx EXCEPT ![p] = u] /\ locks' = [locks EXCEPT ![p] = M] /\ M \in SUBSET Locks
  BY <1>1, <1>2, <1>3
<1>5. /\ u \in Tx /\ Kept(t, u) /\ u.plan = t.plan /\ u.expire = t.expire /\ u.notes = t.notes
      /\ u.status = t.status /\ u.wrote = t.wrote /\ u.targets = t.targets \ {s}
  BY <1>2 DEF Tx, Kept
<1> HIDE DEF u
<1>6. \/ IsSearching(t) /\ t.plan = <<"lock", "commit">>
      \/ IsServing(t) /\ t.plan = <<"lock", "send", "commit">> /\ t.svc # NoService
  BY <1>1, <1>2, Heads
<1>7. Kinds(u)
  BY <1>5, <1>6 DEF Kinds, IsSearching, IsServing, Kept, Silent
<1>8. Sane(u)
  BY <1>2, <1>5 DEF Sane, Kept, AsksText
<1>9. Alone(u, M)
  <2>1. Alone(t, M)
    BY Facts, AloneMore
  <2>2. l \in M
    OBVIOUS
  <2> HIDE DEF M
  <2> QED
    BY <1>5, <2>1, <2>2 DEF Alone, Kept, AsksText
<1>10. Order(u, M)
  <2>1. t.kind \notin Receipt /\ t.kind # "template"
    BY <1>6 DEF IsSearching, IsServing, Inbound, Receipt
  <2>2. ASSUME t.kind \in {"tap", "reply"}
        PROVE  Lock(Conv, "write") \in M
    <3>1. t.plan = <<"lock", "send", "commit">>
      BY <1>6, <2>2 DEF IsSearching
    <3>2. locks[p] # {}
      BY <3>1, Facts DEF Alone, Strong
    <3> QED
      BY <2>2, <3>2, Facts DEF Order
  <2> HIDE DEF M
  <2> QED
    BY <1>1, <1>5, <2>1, <2>2 DEF Order, Kept
<1>11. EndsTold(u, M) /\ TurnTold(u, M)
  <2>1. locks[p] \subseteq M /\ ~(Head(t.plan) \in Terminal)
    BY <1>1 DEF Terminal
  <2> HIDE DEF M
  <2> QED
    BY <1>5, <2>1, Facts, StillTold DEF Kept
<1>12. Answers(u)
  BY <1>5, Facts DEF Answers, Kept
<1>13. \A k \in M \ locks[p] : Free(p, k)
  BY <1>1
<1> HIDE DEF M
<1>14. Backed(u, M) /\ MetaType'
  BY <1>1, <1>9, <1>10, <1>11, <1>12, SameMeta DEF Backed
<1> QED
  BY <1>1, <1>4, <1>5, <1>7, <1>8, <1>13, <1>14, WorkStep

LEMMA SupersedeStep ==
  ASSUME IInv, NEW p \in Proc, Supersede(p)
  PROVE  IInv'
<1> DEFINE t == tx[p]
           L == locks[p]
           v == Superseding(p, Awaiting(p))
           u == Advance(v)
<1>1. /\ t.plan # << >> /\ Head(t.plan) = "lock" /\ t.targets = {} /\ t.fresh
      /\ tx' = [tx EXCEPT ![p] = u] /\ UNCHANGED <<dbVars, locks, metaVars>>
  BY DEF Supersede, At
<1>2. t \in Tx /\ Kinds(t) /\ Sane(t) /\ locks \in [Proc -> SUBSET Locks] /\ L \in SUBSET Locks
  BY Facts
<1>3. IsServing(t) /\ t.plan = <<"lock", "send", "commit">> /\ t.svc # NoService /\ t.svc \in Service
  <2>1. ~IsSearching(t)
    BY <1>1 DEF IsSearching
  <2>2. IsServing(t) /\ t.plan = <<"lock", "send", "commit">> /\ t.svc # NoService
    BY <1>1, <1>2, <2>1, Heads
  <2> QED
    BY <1>2, <2>2 DEF Tx
<1>4. Silent(t, t.expire \cup {t.svc}) /\ ~(Head(t.plan) \in Terminal)
  BY <1>1, <1>3 DEF IsServing, Terminal
<1>5. /\ v \in Tx /\ Kept(t, v) /\ v.plan = t.plan
      /\ v.status = t.status /\ v.wrote = t.wrote /\ v.expire = t.expire \cup Awaiting(p)
      /\ Silent(v, v.expire \cup {v.svc})
      /\ EndsTold(v, L) /\ TurnTold(v, L)
  BY <1>1, <1>4, Superseded
<1> HIDE DEF v
<1>6. /\ Tail(v.plan) = <<"send", "commit">> /\ Tail(v.plan) # << >>
      /\ Head(Tail(v.plan)) = "send" /\ v.plan # << >>
  <2>1. v.plan = <<"lock", "send", "commit">>
    BY <1>3, <1>5
  <2> QED
    BY <2>1, Tails
<1>7. /\ u \in Tx /\ Kept(v, u) /\ u.plan = <<"send", "commit">> /\ u.expire = v.expire
      /\ u.notes = v.notes /\ u.status = v.status /\ u.wrote = v.wrote
  BY <1>5, <1>6, Advanced
<1> HIDE DEF u
<1>8. Kept(t, u) /\ u.wrote = t.wrote /\ u.status = t.status
      /\ u.expire = t.expire \cup Awaiting(p)
  BY <1>5, <1>7 DEF Kept
<1>9. Kinds(u)
  <2>1. u.plan \in Serving /\ u.plan \notin Led("responded")
    BY <1>7, Tails DEF Serving, Led
  <2>2. Silent(u, u.expire \cup {u.svc})
    BY <1>5, <1>7 DEF Silent, Kept
  <2> QED
    BY <1>3, <1>8, <2>1, <2>2 DEF Kinds, IsServing, Kept
<1>10. Sane(u)
  <2>1. u.plan \notin Completing /\ \A e \in Event : u.plan # <<e, "send", "commit">>
    <3>1. \A P \in Completing : Head(P) # "send"
      BY Tails DEF Completing
    <3>2. \A e \in Event : Head(<<e, "send", "commit">>) = e /\ e # "send"
      BY Tails DEF Event
    <3> QED
      BY <1>5, <1>6, <1>7, <3>1, <3>2
  <2>2. u.plan # << >> /\ Head(u.plan) = "send"
    BY <1>5, <1>6, <1>7
  <2> QED
    BY <1>2, <1>8, <2>1, <2>2 DEF Sane, Kept
<1>11. Order(u, L)
  <2>1. t.kind \notin Receipt /\ t.kind # "template"
    BY <1>3 DEF IsServing, Inbound, Receipt
  <2>2. u.plan # << >>
    BY <1>7, Tails
  <2> QED
    BY <1>8, <2>1, <2>2, Facts DEF Order, Kept
<1>12. EndsTold(u, L) /\ TurnTold(u, L)
  <2>1. ~(Head(v.plan) \in Terminal)
    BY <1>4, <1>5
  <2> QED
    BY <1>5, <1>7, <2>1, StillTold DEF Kept
<1>13. Answers(u)
  BY <1>8, Facts DEF Answers, Kept
<1>14. Alone(u, L)
  <2>1. Strong(L, Conv) /\ \A s \in Service \ {t.svc} : status[s] = "in_progress" =>
                              Lock(Row(s), "update") \in L
    BY <1>1, <1>3, Facts DEF Alone
  <2>2. ASSUME NEW s \in Service \ {t.svc}, Rival(s)
        PROVE  s \in u.expire
    <3>1. status[s] = "in_progress" /\ AwaitsText(s, form[s]) /\ Lock(Row(s), "update") \in L
      BY <2>1, <2>2 DEF Rival
    <3>2. Holds(p, Lock(Row(s), "update"))
      BY <1>2, <3>1, Held, LockFields
    <3>3. s \in t.expire \/ s \in Awaiting(p)
      BY <3>1, <3>2 DEF Awaiting
    <3> QED
      BY <1>8, <3>3
  <2>3. u.plan # <<"lock", "send", "commit">>
    BY <1>7, Tails
  <2> QED
    BY <1>8, <2>1, <2>2, <2>3 DEF Alone, Kept
<1> HIDE DEF L
<1>15. Backed(u, L) /\ MetaType'
  BY <1>1, <1>11, <1>12, <1>13, <1>14, SameMeta DEF Backed
<1>16. locks' = [locks EXCEPT ![p] = L]
  BY <1>1, <1>2 DEF L
<1>17. \A l \in L \ locks[p] : Free(p, l)
  BY DEF L
<1> QED
  BY <1>1, <1>2, <1>7, <1>9, <1>10, <1>15, <1>16, <1>17, WorkStep

LEMMA SendStep ==
  ASSUME IInv, NEW p \in Proc, Send(p)
  PROVE  IInv'
<1> DEFINE t == tx[p]
           L == locks[p]
           n == NextQ(t.svc, t.qs)
           ok == [t EXCEPT !.qs.dispatched = @ \cup {n}, !.out = @ \cup {n},
                           !.wrote = @ \cup {"questions"}]
<1>1. /\ t.plan # << >> /\ Head(t.plan) = "send" /\ UNCHANGED <<dbVars, locks, metaVars>>
  BY DEF Send, At
<1>2. PICK r \in {t, ok} : tx' = [tx EXCEPT ![p] = Advance(r)]
  BY DEF Send
<1>3. t \in Tx /\ Kinds(t) /\ Sane(t) /\ locks \in [Proc -> SUBSET Locks] /\ L \in SUBSET Locks
  BY Facts
<1>4. IsServing(t) /\ t.plan = <<"send", "commit">> /\ t.svc # NoService
  BY <1>1, <1>3, Heads
<1>5. t.svc \in Service /\ t.qs \in Form /\ t.qs.answered \in Nat /\ n \in Nat
      /\ n <= t.qs.answered + 1
  <2>1. t.svc \in Service /\ t.qs \in Form
    BY <1>3, <1>4 DEF Tx
  <2> QED
    BY <2>1, NextQs
<1> DEFINE f == [t.qs EXCEPT !.dispatched = @ \cup {n}]
<1>6. /\ ok = [t EXCEPT !.qs = f, !.out = t.out \cup {n}, !.wrote = t.wrote \cup {"questions"}]
  BY <1>3 DEF Tx
<1>7. f \in Form /\ f.answered = t.qs.answered /\ f.dispatched = t.qs.dispatched \cup {n}
  BY <1>5 DEF Form
<1> HIDE DEF f, n
<1>8. /\ ok \in Tx /\ ok.kind = t.kind /\ ok.hook = t.hook /\ ok.svc = t.svc /\ ok.seq = t.seq
      /\ ok.rec = t.rec /\ ok.linked = t.linked /\ ok.fresh = t.fresh /\ ok.plan = t.plan
      /\ ok.qs = f /\ ok.expire = t.expire /\ ok.notes = t.notes /\ ok.status = t.status
      /\ ok.wrote = t.wrote \cup {"questions"}
  <2>1. t.out \cup {n} \in SUBSET Nat /\ t.wrote \cup {"questions"} \in SUBSET {"status", "questions"}
    BY <1>3, <1>5 DEF Tx
  <2> QED
    BY <1>3, <1>6, <1>7, <2>1, ZenonT(30) DEF Tx
<1> HIDE DEF ok
<1>9. /\ r \in Tx /\ r.kind = t.kind /\ r.hook = t.hook /\ r.svc = t.svc /\ r.seq = t.seq
      /\ r.rec = t.rec /\ r.linked = t.linked /\ r.fresh = t.fresh /\ r.plan = t.plan
      /\ r.expire = t.expire /\ r.notes = t.notes /\ r.status = t.status
      /\ r.wrote \in {t.wrote, t.wrote \cup {"questions"}}
      /\ r.qs.answered = t.qs.answered /\ r.qs \in Form
      /\ Focused(r.qs)
      /\ AwaitsText(r.svc, r.qs) => AsksText(t)
  <2>1. CASE r = t
    <3>1. Focused(t.qs) /\ AwaitsText(t.svc, t.qs) => AsksText(t)
      BY <1>5, NextQs DEF AsksText
    <3> QED
      BY <1>3, <1>5, <2>1, <3>1 DEF Sane
  <2>2. CASE r = ok
    <3>1. Focused(f)
      BY <1>3, <1>5, <1>7 DEF Sane, Focused
    <3>2. NextQ(t.svc, f) = NextQ(t.svc, t.qs)
      BY <1>7 DEF NextQ
    <3>3. AwaitsText(t.svc, f) => AsksText(t)
      BY <1>5, <1>7, <3>1, <3>2, NextQs DEF AsksText
    <3> QED
      BY <1>7, <1>8, <2>2, <3>1, <3>3
  <2> QED
    BY <1>2, <2>1, <2>2
<1> DEFINE u == Advance(r)
<1>10. r.plan # << >> /\ Tail(r.plan) = <<"commit">> /\ Head(<<"commit">>) = "commit"
       /\ <<"commit">> # << >>
  BY <1>4, <1>9, Tails
<1>11. /\ u \in Tx /\ Kept(r, u) /\ u.plan = <<"commit">> /\ u.expire = r.expire
       /\ u.notes = r.notes /\ u.status = r.status /\ u.wrote = r.wrote
  BY <1>9, <1>10, Advanced
<1> HIDE DEF u
<1>12. Kinds(u)
  <2>1. u.plan \in Serving /\ u.plan \notin Led("responded")
    BY <1>11, Tails DEF Serving, Led
  <2> QED
    BY <1>4, <1>9, <1>11, <2>1 DEF Kinds, IsServing, Kept, Silent
<1>13. Sane(u)
  <2>1. u.plan \notin Completing /\ \A e \in Event : u.plan # <<e, "send", "commit">>
    <3>1. \A P \in Completing : Head(P) # "commit"
      BY Tails DEF Completing
    <3>2. \A e \in Event : Head(<<e, "send", "commit">>) = e /\ e # "commit"
      BY Tails DEF Event
    <3> QED
      BY <1>10, <1>11, <3>1, <3>2
  <2>2. u.plan # << >> /\ Head(u.plan) = "commit"
    BY <1>10, <1>11
  <2>3. u.qs = r.qs /\ u.rec = t.rec /\ u.svc = t.svc /\ u.status = t.status
        /\ ("status" \in u.wrote <=> "status" \in t.wrote)
    BY <1>9, <1>11 DEF Kept
  <2> QED
    BY <1>3, <1>9, <2>1, <2>2, <2>3 DEF Sane
<1>14. Order(u, L)
  <2>1. t.kind \notin Receipt /\ t.kind # "template"
    BY <1>4 DEF IsServing, Inbound, Receipt
  <2>2. u.plan # << >>
    BY <1>10, <1>11
  <2>3. u.kind = t.kind /\ u.hook = t.hook
    BY <1>9, <1>11 DEF Kept
  <2> QED
    BY <2>1, <2>2, <2>3, Facts DEF Order
<1>15. EndsTold(u, L) /\ TurnTold(u, L)
  <2>1. ~(Head(t.plan) \in Terminal)
    BY <1>1 DEF Terminal
  <2>2. /\ u.svc = t.svc /\ u.expire = t.expire /\ u.notes = t.notes /\ u.status = t.status
        /\ "status" \in u.wrote <=> "status" \in t.wrote
    BY <1>9, <1>11 DEF Kept
  <2> QED
    BY <2>1, <2>2, Facts, StillTold
<1>16. Answers(u)
  BY <1>9, <1>11, Facts DEF Answers, Kept
<1>17. Alone(u, L)
  <2>1. u.plan # <<"lock", "send", "commit">> /\ u.plan # <<"send", "commit">>
    BY <1>11, Tails
  <2>2. ASSUME AwaitsText(u.svc, u.qs)
        PROVE  Strong(L, Conv) /\ \A s \in Service \ {t.svc} : Rival(s) => s \in t.expire
    <3>1. AsksText(t)
      BY <1>9, <1>11, <2>2 DEF Kept
    <3> QED
      BY <1>4, <1>5, <3>1, Facts DEF Alone
  <2>3. u.svc = t.svc /\ u.expire = t.expire
    BY <1>9, <1>11 DEF Kept
  <2> QED
    BY <2>1, <2>2, <2>3 DEF Alone
<1> HIDE DEF L
<1>18. Backed(u, L) /\ MetaType'
  BY <1>1, <1>14, <1>15, <1>16, <1>17, SameMeta DEF Backed
<1>19. locks' = [locks EXCEPT ![p] = L] /\ tx' = [tx EXCEPT ![p] = u]
  BY <1>1, <1>2, <1>3 DEF L, u
<1>20. \A l \in L \ locks[p] : Free(p, l)
  BY DEF L
<1> QED
  BY <1>1, <1>3, <1>11, <1>12, <1>13, <1>18, <1>19, <1>20, WorkStep

LEMMA SendTemplateStep ==
  ASSUME IInv, NEW p \in Proc, SendTemplate(p)
  PROVE  IInv'
<1> DEFINE t == tx[p]
           L == locks[p]
           ended(st) == [t EXCEPT !.status = st, !.wrote = {"status"}, !.plan = <<st, "commit">>]
           over == [t EXCEPT !.plan = <<"commit">>]
           ok == IF Questions[t.svc] = << >> THEN ended("completed") ELSE over
<1>1. /\ t.plan # << >> /\ Head(t.plan) = "template" /\ UNCHANGED <<dbVars, locks, metaVars>>
  BY DEF SendTemplate, At
<1>2. PICK u \in {[ok EXCEPT !.out = {0}], ended("failed"), over} : tx' = [tx EXCEPT ![p] = u]
  BY DEF SendTemplate
<1>3. t \in Tx /\ Kinds(t) /\ Sane(t) /\ locks \in [Proc -> SUBSET Locks] /\ L \in SUBSET Locks
  BY Facts
<1>4. IsSending(t) /\ t.plan = <<"template">> /\ t.svc \in Service
  BY <1>1, <1>3, Heads DEF IsSending
<1>5. <<"completed", "commit">> \in Seq(Op) /\ <<"failed", "commit">> \in Seq(Op)
      /\ <<"commit">> \in Seq(Op)
  BY PlanTypes DEF PlanOf, Serving, Completing
<1> DEFINE Over(x) == x.status = t.status /\ x.wrote = t.wrote /\ x.plan = <<"commit">>
           Closed(x) == \E st \in {"completed", "failed"} :
                         /\ x.status = st /\ x.wrote = {"status"} /\ x.plan = <<st, "commit">>
                         /\ st = "completed" => Questions[t.svc] = << >>
           Same(x) == /\ x \in Tx /\ x.kind = t.kind /\ x.hook = t.hook /\ x.svc = t.svc
                      /\ x.seq = t.seq /\ x.rec = t.rec /\ x.linked = t.linked /\ x.fresh = t.fresh
                      /\ x.expire = t.expire /\ x.notes = t.notes /\ x.qs = t.qs
<1>6. Same(over) /\ Over(over)
  BY <1>3, <1>5 DEF Tx
<1>7. Same(ended("failed")) /\ Closed(ended("failed"))
  BY <1>3, <1>5 DEF Tx, Status, Terminal
<1>8. Same(ended("completed")) /\ (Questions[t.svc] = << >> => Closed(ended("completed")))
  BY <1>3, <1>5 DEF Tx, Status, Terminal
<1>9. Same(ok) /\ (Over(ok) \/ Closed(ok))
  <2> HIDE DEF Same, Over, Closed, ended, over, t
  <2> QED
    BY <1>6, <1>8
<1>10. Same([ok EXCEPT !.out = {0}]) /\ (Over([ok EXCEPT !.out = {0}]) \/ Closed([ok EXCEPT !.out = {0}]))
  <2> HIDE DEF ok, t
  <2>1. ok \in Tx
    BY <1>9
  <2> DEFINE w == [ok EXCEPT !.out = {0}]
  <2>2. w \in Tx
    <3>1. {0} \in SUBSET Nat
      OBVIOUS
    <3> QED
      BY <2>1, <3>1 DEF Tx
  <2>3. /\ w.kind = ok.kind /\ w.hook = ok.hook /\ w.svc = ok.svc /\ w.seq = ok.seq /\ w.rec = ok.rec
        /\ w.linked = ok.linked /\ w.fresh = ok.fresh /\ w.expire = ok.expire
        /\ w.notes = ok.notes /\ w.qs = ok.qs
        /\ w.status = ok.status /\ w.wrote = ok.wrote /\ w.plan = ok.plan
    BY <2>1 DEF Tx
  <2> HIDE DEF w
  <2>4. Same(w) /\ (Over(ok) => Over(w)) /\ (Closed(ok) => Closed(w))
    BY <1>9, <2>2, <2>3
  <2> QED
    BY <1>9, <2>4 DEF w
<1>11. Same(u) /\ (Over(u) \/ Closed(u))
  <2> HIDE DEF Same, Over, Closed, ok, ended, over, t
  <2> QED
    BY <1>2, <1>6, <1>7, <1>10
<1> HIDE DEF ok, ended, over
<1>12. Kinds(u)
  <2>1. Silent(u, {u.svc})
    BY <1>4, <1>11 DEF IsSending, Silent
  <2>2. u.plan \in {<<"completed", "commit">>, <<"failed", "commit">>} => "status" \in u.wrote
    <3>1. Over(u) => u.plan # <<"completed", "commit">> /\ u.plan # <<"failed", "commit">>
      OBVIOUS
    <3> QED
      BY <1>11, <3>1
  <2>3. u.wrote \subseteq {"status"}
        /\ u.plan \in {<<"completed", "commit">>, <<"failed", "commit">>, <<"commit">>}
    BY <1>4, <1>11 DEF IsSending
  <2>4. IsSending(u)
    BY <1>4, <1>11, <2>1, <2>2, <2>3 DEF IsSending
  <2> QED
    BY <2>4 DEF Kinds
<1>13. u.plan # << >> /\ Head(u.plan) \in {"commit", "completed", "failed"}
       /\ (Over(u) => Head(u.plan) = "commit") /\ (Closed(u) => Head(u.plan) = u.status)
  <2>1. Over(u) => u.plan # << >> /\ Head(u.plan) = "commit"
    BY Tails
  <2>2. Closed(u) => u.plan # << >> /\ Head(u.plan) = u.status /\ u.status \in {"completed", "failed"}
    BY Tails
  <2>3. ~(Over(u) /\ Closed(u))
    <3>1. \A st : <<st, "commit">> # <<"commit">>
      OBVIOUS
    <3> QED
      BY <3>1
  <2> QED
    BY <1>11, <2>1, <2>2, <2>3
<1>14. Sane(u)
  <2>1. \A P \in Completing : Head(P) # "commit" /\ Head(P) # "failed"
    BY Tails DEF Completing
  <2>2. \A e \in Event : <<e, "send", "commit">> # u.plan
    BY <1>11 DEF Event
  <2>3. CASE Over(u)
    BY <1>3, <1>4, <1>11, <1>13, <2>1, <2>2, <2>3 DEF Sane, IsSending
  <2>4. CASE Closed(u)
    <3>1. u.status = "completed" => u.qs.answered = Len(Questions[u.svc])
      <4>1. ASSUME u.status = "completed" PROVE Questions[t.svc] = << >>
        BY <2>4, <4>1
      <4>2. t.qs.answered \in Nat /\ t.qs.answered <= Len(Questions[t.svc])
        BY <1>3, <1>4 DEF Tx, Form, Sane
      <4>3. Questions[t.svc] = << >> => Len(Questions[t.svc]) = 0
        OBVIOUS
      <4> QED
        BY <1>11, <4>1, <4>2, <4>3
    <3>2. u.plan \in Completing => u.status = "completed"
      BY <1>13, <2>1, <2>4
    <3>3. u.status \in Terminal
      BY <2>4 DEF Terminal
    <3> QED
      BY <1>3, <1>4, <1>11, <1>13, <2>2, <2>4, <3>1, <3>2, <3>3 DEF Sane, IsSending
  <2> QED
    BY <1>11, <2>3, <2>4
<1>15. Order(u, L)
  BY <1>3, <1>4, <1>11, <1>13, Facts DEF Order, IsSending, Receipt
<1>16. EndsTold(u, L)
  <2>1. CASE Over(u)
    <3>1. ~(Head(t.plan) \in Terminal)
      BY <1>1 DEF Terminal
    <3> QED
      BY <1>11, <2>1, <3>1, Facts, StillTold
  <2>2. CASE Closed(u)
    <3>1. Head(u.plan) \in Terminal /\ "status" \in u.wrote
      BY <1>13, <2>2 DEF Terminal
    <3>2. \A s \in Service : Ending(u, s) <=> s = t.svc
      BY <1>4, <1>11, <2>2 DEF Ending, IsSending
    <3>3. \A s \in Service : Ending(t, s) => s = t.svc
      BY <1>4 DEF Ending, IsSending
    <3> SUFFICES ASSUME NEW s \in Service PROVE EndTold(u, L, s)
      BY DEF EndsTold
    <3>4. EndTold(t, L, s)
      BY Facts DEF EndsTold
    <3> QED
      BY <1>11, <1>13, <3>1, <3>2, <3>3, <3>4 DEF EndTold
  <2> QED
    BY <1>11, <2>1, <2>2
<1>17. TurnTold(u, L)
  BY <1>11, Facts DEF TurnTold
<1>18. Answers(u)
  BY <1>11, Facts DEF Answers
<1>19. Alone(u, L)
  <2>1. u.plan # <<"lock", "send", "commit">> /\ u.plan # <<"send", "commit">>
    BY <1>13, Tails
  <2>2. "questions" \notin u.wrote
    BY <1>4, <1>11 DEF IsSending
  <2> QED
    BY <2>1, <2>2, NotAsking
<1>20. u \in Tx
  BY <1>11
<1> HIDE DEF L, Same, Over, Closed
<1>21. Backed(u, L) /\ MetaType'
  BY <1>1, <1>15, <1>16, <1>17, <1>18, <1>19, SameMeta DEF Backed
<1>22. locks' = [locks EXCEPT ![p] = L]
  BY <1>1, <1>3 DEF L
<1>23. \A l \in L \ locks[p] : Free(p, l)
  BY DEF L
<1> QED
  BY <1>1, <1>2, <1>3, <1>12, <1>14, <1>20, <1>21, <1>22, <1>23, WorkStep

LEMMA ExpireNextStep ==
  ASSUME IInv, NEW p \in Proc, ExpireNext(p)
  PROVE  IInv'
<1> DEFINE t == tx[p]
           L == locks[p]
<1>1. /\ t.plan # << >> /\ Head(t.plan) = "expire" /\ UNCHANGED <<dbVars, locks, metaVars>>
  BY DEF ExpireNext, At
<1>2. t \in Tx /\ Kinds(t) /\ Sane(t) /\ locks \in [Proc -> SUBSET Locks] /\ L \in SUBSET Locks
      /\ EndsTold(t, L) /\ TurnTold(t, L) /\ Answers(t)
  BY Facts
<1>3. IsExpiring(t) /\ t.plan = <<"expire", "commit">>
  BY <1>1, <1>2, Heads
<1>4. ASSUME NEW s \in t.targets,
             tx' = [tx EXCEPT ![p] = [t EXCEPT !.svc = s, !.status = "expired", !.expire = @ \cup {s},
                                              !.targets = @ \ {s}, !.plan = <<"expired">> \o @]]
      PROVE  IInv'
  <2> DEFINE u == [t EXCEPT !.svc = s, !.status = "expired", !.expire = @ \cup {s},
                            !.targets = @ \ {s}, !.plan = <<"expired">> \o @]
  <2>1. s \in Service /\ t.expire \cup {s} \in SUBSET Service /\ t.targets \ {s} \in SUBSET Service
    BY <1>2 DEF Tx
  <2>2. <<"expired">> \o t.plan = <<"expired", "expire", "commit">>
    <3>1. "expired" \in Op /\ "expire" \in Op /\ "commit" \in Op
      BY DEF Op, Event
    <3> QED
      BY <1>3, <3>1, Joins
  <2>3. <<"expired", "expire", "commit">> \in Seq(Op) /\ "expired" \in Status /\ "expired" \in Terminal
        /\ "expired" \in Event
    BY PlanTypes DEF PlanOf, Status, Terminal, Event
  <2>4. u = [t EXCEPT !.svc = s, !.status = "expired", !.expire = t.expire \cup {s},
                      !.targets = t.targets \ {s}, !.plan = <<"expired", "expire", "commit">>]
    BY <2>2
  <2> HIDE DEF u
  <2>50. u \in Tx
    BY <1>2, <2>1, <2>3, <2>4 DEF Tx
  <2>5. /\ u.svc = s /\ u.status = "expired" /\ u.expire = t.expire \cup {s}
        /\ u.plan = <<"expired", "expire", "commit">> /\ u.kind = t.kind /\ u.hook = t.hook
        /\ u.fresh = t.fresh /\ u.wrote = t.wrote /\ u.rec = t.rec /\ u.out = t.out
        /\ u.linked = t.linked /\ u.qs = t.qs /\ u.notes = t.notes
    BY <1>2, <2>4 DEF Tx
  <2>6. u.plan # << >> /\ Head(u.plan) = "expired"
    BY <2>5, Tails
  <2>7. Kinds(u)
    BY <1>3, <2>1, <2>5, ConstantsAssumption DEF Kinds, IsExpiring, Silent
  <2>8. Sane(u)
    <3>1. \A P \in Completing : Head(P) # "expired"
      BY Tails DEF Completing
    <3>2. \A e \in Event : <<e, "send", "commit">> # u.plan
      BY <2>5 DEF Event
    <3>3. u.qs.answered <= Len(Questions[u.svc])
      BY <1>3, <2>1, <2>5, NextQs, NoTxType DEF IsExpiring, Form, Tx
    <3>4. u.wrote = {} /\ u.rec = 0 /\ Focused(u.qs)
      BY <1>2, <1>3, <2>5 DEF Sane, IsExpiring
    <3>5. u.plan \notin Completing
      BY <2>6, <3>1
    <3>6. u.plan # << >> /\ Head(u.plan) # "completed" /\ Head(u.plan) # "failed"
      BY <2>6
    <3>7. "status" \notin u.wrote
      BY <3>4
    <3>8. ~\E e \in Event : u.plan = <<e, "send", "commit">>
      BY <3>2
    <3> QED
      BY <3>3, <3>4, <3>5, <3>6, <3>7, <3>8 DEF Sane
  <2>9. Order(u, L)
    BY <1>3, <2>5, <2>6 DEF Order, IsExpiring, Receipt
  <2>10. EndsTold(u, L)
    <3>1. \A x \in Service : /\ Ending(t, x) <=> x \in t.expire
                             /\ Ending(u, x) <=> x \in t.expire \cup {s}
      BY <1>3, <2>5 DEF Ending, IsExpiring
    <3> SUFFICES ASSUME NEW x \in Service PROVE EndTold(u, L, x)
      BY DEF EndsTold
    <3>2. EndTold(t, L, x)
      BY <1>2 DEF EndsTold
    <3>3. ~(Head(t.plan) \in Terminal)
      BY <1>1 DEF Terminal
    <3> QED
      BY <2>3, <2>5, <2>6, <3>1, <3>2, <3>3 DEF EndTold
  <2>11. TurnTold(u, L)
    BY <1>2, <2>5 DEF TurnTold
  <2>12. Answers(u)
    <3>1. t.qs.answered = 0
      BY <1>3, NoTxType DEF IsExpiring
    <3> QED
      BY <2>5, <3>1 DEF Answers
  <2>13. Alone(u, L)
    <3>1. "questions" \notin u.wrote
      BY <1>3, <2>5 DEF IsExpiring
    <3>2. u.plan # <<"lock", "send", "commit">> /\ u.plan # <<"send", "commit">>
      BY <2>6, Tails
    <3> QED
      BY <3>1, <3>2, NotAsking
  <2> HIDE DEF L
  <2>14. Backed(u, L) /\ MetaType'
    BY <1>1, <2>9, <2>10, <2>11, <2>12, <2>13, SameMeta DEF Backed
  <2>15. locks' = [locks EXCEPT ![p] = L] /\ tx' = [tx EXCEPT ![p] = u]
    BY <1>1, <1>2, <1>4 DEF L, u
  <2>16. \A l \in L \ locks[p] : Free(p, l)
    BY DEF L
  <2> QED
    BY <1>1, <1>2, <2>50, <2>7, <2>8, <2>14, <2>15, <2>16, WorkStep
<1>5. ASSUME tx' = [tx EXCEPT ![p] = Advance(t)]
      PROVE  IInv'
  <2> DEFINE u == Advance(t)
  <2>1. Tail(t.plan) = <<"commit">> /\ <<"commit">> # << >> /\ Head(<<"commit">>) = "commit"
    BY <1>3, Tails
  <2>2. /\ u \in Tx /\ Kept(t, u) /\ u.plan = <<"commit">> /\ u.expire = t.expire
        /\ u.notes = t.notes /\ u.status = t.status /\ u.wrote = t.wrote
    BY <1>1, <1>2, <2>1, Advanced
  <2> HIDE DEF u
  <2>3. Kinds(u)
    <3>1. u.plan # <<"expired", "expire", "commit">>
      BY <2>2, Tails
    <3> QED
      BY <1>3, <2>2, <3>1 DEF Kinds, IsExpiring, Silent, Kept
  <2>4. Sane(u)
    <3>1. \A P \in Completing : Head(P) # "commit"
      BY Tails DEF Completing
    <3>2. \A e \in Event : <<e, "send", "commit">> # u.plan
      BY <2>2 DEF Event
    <3> QED
      BY <1>2, <1>3, <2>1, <2>2, <3>1, <3>2 DEF Sane, Kept
  <2>5. Order(u, L)
    BY <1>3, <2>1, <2>2 DEF Order, IsExpiring, Receipt, Kept
  <2>6. EndsTold(u, L) /\ TurnTold(u, L)
    <3>1. ~(Head(t.plan) \in Terminal)
      BY <1>1 DEF Terminal
    <3> QED
      BY <1>2, <2>2, <3>1, StillTold DEF Kept
  <2>7. Answers(u)
    BY <1>2, <2>2 DEF Answers, Kept
  <2>8. Alone(u, L)
    <3>1. "questions" \notin u.wrote
      BY <1>3, <2>2 DEF IsExpiring
    <3>2. u.plan # <<"lock", "send", "commit">> /\ u.plan # <<"send", "commit">>
      BY <2>2, Tails
    <3> QED
      BY <3>1, <3>2, NotAsking
  <2> HIDE DEF L
  <2>9. Backed(u, L) /\ MetaType'
    BY <1>1, <2>5, <2>6, <2>7, <2>8, SameMeta DEF Backed
  <2>10. locks' = [locks EXCEPT ![p] = L] /\ tx' = [tx EXCEPT ![p] = u]
    BY <1>1, <1>2, <1>5 DEF L, u
  <2>11. \A l \in L \ locks[p] : Free(p, l)
    BY DEF L
  <2> QED
    BY <1>1, <1>2, <2>2, <2>3, <2>4, <2>9, <2>10, <2>11, WorkStep
<1> QED
  BY <1>4, <1>5 DEF ExpireNext

-----------------------------------------------------------------------------
(* What starts a transaction.                                              *)

\* A transaction that starts has told nothing, and relies on what it has read.
LEMMA Untold ==
  ASSUME NEW u, NEW L, Silent(u, {}), u.expire = {},
         "status" \in u.wrote => u.plan # << >> /\ Head(u.plan) \in Terminal,
         u.svc \in Subscribed /\ u.status \in Terminal /\ "status" \notin u.wrote
            => Has(notified[u.svc], Terminal)
  PROVE  EndsTold(u, L) /\ TurnTold(u, L)
<1>1. \A s \in Service : u.notes[s] = << >>
  BY DEF Silent
<1>2. \A s : Ending(u, s) <=> s = u.svc /\ "status" \in u.wrote
  BY DEF Ending
<1>3. EndsTold(u, L)
  BY <1>1, <1>2, NothingTold DEF EndsTold, EndTold
<1>4. TurnTold(u, L)
  BY <1>1, NothingTold DEF TurnTold
<1> QED
  BY <1>3, <1>4

\* What an idle process is.
LEMMA Idling ==
  ASSUME IInv, NEW p \in Proc, Idle(p)
  PROVE  tx[p] = NoTx /\ locks[p] = {}
BY Facts, Apart DEF Idle, Order

LEMMA ClaimStep ==
  ASSUME IInv, NEW p \in Proc, NEW s \in Service, Claim(p, s)
  PROVE  IInv'
<1> DEFINE x == [NoTx EXCEPT !.kind = "template", !.svc = s, !.plan = <<"template">>]
           u == Load(x, s)
           M == {Lock(Row(s), "update")}
<1>1. /\ Idle(p) /\ status[s] = "in_progress" /\ Free(p, Lock(Row(s), "update"))
      /\ tx' = [tx EXCEPT ![p] = u] /\ locks' = [locks EXCEPT ![p] = M]
      /\ UNCHANGED <<dbVars, metaVars>>
  BY DEF Claim
<1>2. tx[p] = NoTx /\ locks[p] = {}
  BY <1>1, Idling
<1>3. <<"template">> \in Seq(Op) /\ <<"template">> # << >> /\ Head(<<"template">>) = "template"
  BY PlanTypes, Tails DEF PlanOf
<1>4. form[s] \in Form /\ status[s] \in Status /\ Db
  BY Types DEF IInv, DbType
<1>5. x \in Tx
  BY <1>3, NoTxType DEF Tx
<1>6. /\ x.kind = "template" /\ x.svc = s /\ x.plan = <<"template">> /\ x.wrote = {} /\ x.rec = 0
      /\ x.expire = {} /\ ~x.fresh /\ ~x.linked /\ x.hook = NoHook /\ x.notes = NoTx.notes
  BY NoTxType DEF Tx
<1> HIDE DEF x
<1>7. u \in Tx
  BY <1>4, <1>5 DEF Load, Tx
<1>8. /\ u.kind = "template" /\ u.svc = s /\ u.plan = <<"template">> /\ u.wrote = {} /\ u.rec = 0
      /\ u.expire = {} /\ ~u.fresh /\ ~u.linked /\ u.hook = NoHook /\ u.notes = NoTx.notes
      /\ u.status = "in_progress" /\ u.qs = form[s]
  BY <1>1, <1>5, <1>6 DEF Load, Tx
<1> HIDE DEF u
<1>9. Silent(u, {}) /\ Silent(u, {u.svc})
  BY <1>8, NoTxType DEF Silent
<1>10. Kinds(u)
  <2>1. u.plan \notin {<<"completed", "commit">>, <<"failed", "commit">>}
    BY <1>8, Tails
  <2> QED
    BY <1>8, <1>9, <2>1 DEF Kinds, IsSending
<1>11. Sane(u)
  <2>1. u.plan \notin Completing /\ \A e \in Event : u.plan # <<e, "send", "commit">>
    <3>1. \A P \in Completing : Head(P) # "template"
      BY Tails DEF Completing
    <3>2. \A e \in Event : <<e, "send", "commit">> # <<"template">>
      OBVIOUS
    <3> QED
      BY <1>3, <1>8, <3>1, <3>2
  <2>2. form[s].answered <= Len(Questions[s]) /\ Focused(form[s])
    BY <1>4 DEF Db
  <2> QED
    BY <1>3, <1>8, <2>1, <2>2 DEF Sane
<1>12. Order(u, M)
  BY <1>3, <1>8 DEF Order, Receipt
<1>13. EndsTold(u, M) /\ TurnTold(u, M)
  BY <1>8, <1>9, Untold DEF Terminal
<1>14. Answers(u)
  BY <1>4, <1>8 DEF Answers, Db
<1>15. Alone(u, M)
  <2>1. u.plan # <<"lock", "send", "commit">> /\ u.plan # <<"send", "commit">>
    BY <1>8, Tails
  <2> QED
    BY <1>8, <2>1, NotAsking
<1>16. M \in SUBSET Locks /\ \A l \in M \ locks[p] : Free(p, l)
  BY <1>1, Resources, LockFields DEF Mode
<1> HIDE DEF M
<1>17. Backed(u, M) /\ MetaType'
  BY <1>1, <1>12, <1>13, <1>14, <1>15, SameMeta DEF Backed
<1> QED
  BY <1>1, <1>7, <1>10, <1>11, <1>16, <1>17, WorkStep

LEMMA BeginExpiryStep ==
  ASSUME IInv, NEW p \in Proc, BeginExpiry(p)
  PROVE  IInv'
<1> DEFINE due == {s \in overdue \cap templateSent \cap queued :
                     status[s] = "in_progress" /\ Questions[s] # << >>}
           u == [NoTx EXCEPT !.kind = "expiry", !.targets = due, !.plan = <<"expire", "commit">>]
           M == {}
<1>1. /\ Idle(p) /\ tx' = [tx EXCEPT ![p] = u] /\ UNCHANGED <<dbVars, locks, metaVars>>
  BY DEF BeginExpiry
<1>2. tx[p] = NoTx /\ locks[p] = {} /\ locks \in [Proc -> SUBSET Locks]
  BY <1>1, Idling, Facts
<1>3. <<"expire", "commit">> \in Seq(Op) /\ <<"expire", "commit">> # << >>
      /\ Head(<<"expire", "commit">>) = "expire"
  BY PlanTypes, Tails DEF PlanOf
<1>4. due \in SUBSET Service
  BY Types DEF IInv, DbType
<1> HIDE DEF due
<1>5. u \in Tx
  BY <1>3, <1>4, NoTxType DEF Tx
<1>6. /\ u.kind = "expiry" /\ u.svc = NoService /\ u.plan = <<"expire", "commit">> /\ u.wrote = {}
      /\ u.rec = 0 /\ u.expire = {} /\ ~u.fresh /\ ~u.linked /\ u.hook = NoHook /\ u.out = {}
      /\ u.notes = NoTx.notes /\ u.qs = NoTx.qs
  BY NoTxType DEF Tx
<1> HIDE DEF u
<1>7. Silent(u, {}) /\ Silent(u, u.expire)
  BY <1>6, NoTxType DEF Silent
<1>8. Kinds(u)
  <2>1. u.plan # <<"expired", "expire", "commit">>
    BY <1>6, Tails
  <2> QED
    BY <1>6, <1>7, <2>1 DEF Kinds, IsExpiring
<1>9. u.svc \notin Service
  BY <1>6, ConstantsAssumption
<1>10. Sane(u)
  <2>1. Focused(u.qs)
    BY <1>6, NoTxType
  <2> QED
    BY <1>3, <1>6, <1>9, <2>1 DEF Sane
<1>11. Order(u, M)
  BY <1>3, <1>6 DEF Order, Receipt
<1>12. EndsTold(u, M) /\ TurnTold(u, M)
  <2>1. u.svc \notin Subscribed
    BY <1>9, ConstantsAssumption
  <2> QED
    BY <1>6, <1>7, <2>1, Untold
<1>13. Answers(u)
  BY <1>9 DEF Answers
<1>14. Alone(u, M)
  <2>1. u.plan # <<"lock", "send", "commit">> /\ u.plan # <<"send", "commit">>
    BY <1>6, Tails
  <2> QED
    BY <1>6, <2>1, NotAsking
<1>15. locks' = [locks EXCEPT ![p] = M]
  BY <1>1, <1>2
<1>16. M \in SUBSET Locks /\ \A l \in M \ locks[p] : Free(p, l)
  OBVIOUS
<1> HIDE DEF M
<1>17. Backed(u, M) /\ MetaType'
  BY <1>1, <1>11, <1>12, <1>13, <1>14, SameMeta DEF Backed
<1> QED
  BY <1>1, <1>5, <1>8, <1>10, <1>15, <1>16, <1>17, WorkStep

\* Steps that touch neither rows nor transactions.
LEMMA IdleStep ==
  ASSUME IInv, UNCHANGED <<dbVars, tx, locks>>, MetaType'
  PROVE  IInv'
<1>1. tx \in [Proc -> Tx] /\ locks \in [Proc -> SUBSET Locks] /\ DbType /\ Db /\ Exclusion
  BY Types DEF IInv
<1>2. DbType' /\ Db'
  BY <1>1, SameDb
<1>3. TypeOK'
  BY <1>1, <1>2, TypesNext
<1>4. Exclusion'
  BY <1>1 DEF Exclusion
<1>5. \A o \in Proc : Kinds(tx[o])' /\ Sane(tx[o])' /\ Backed(tx[o], locks[o])'
  <2> TAKE o \in Proc
  <2>1. Kinds(tx[o]) /\ Sane(tx[o]) /\ Backed(tx[o], locks[o]) /\ tx'[o] = tx[o] /\ locks'[o] = locks[o]
    BY DEF IInv
  <2> QED
    BY <2>1, SameDb
<1> QED
  BY <1>2, <1>3, <1>4, <1>5 DEF IInv

LEMMA DeadlineStep ==
  ASSUME IInv, NEW s \in Service, Deadline(s)
  PROVE  IInv'
<1>1. MetaType'
  BY Types DEF IInv, MetaType, Deadline
<1>2. UNCHANGED <<dbVars, tx, locks>>
  BY DEF Deadline
<1> QED
  BY <1>1, <1>2, IdleStep

-----------------------------------------------------------------------------
(* Telling the client.                                                     *)

LEMMA NextPlans ==
  ASSUME NEW t, Kinds(t), t.plan # << >>, Head(t.plan) \in Event
  PROVE  LET rest == Tail(t.plan) IN
         /\ rest # << >> /\ Head(rest) \in {"commit", "completed", "scan", "send", "expire"}
         /\ rest # <<"lock", "send", "commit">> /\ rest \notin Led("responded")
         /\ \A e \in Event : rest # <<e, "send", "commit">>
         /\ Head(rest) = "completed" => rest = <<"completed", "commit">> /\ t.plan \in Completing
         /\ rest \in Completing => Head(rest) = "completed"
         /\ rest = <<"send", "commit">> => \E e \in Event : t.plan = <<e, "send", "commit">>
         /\ \/ IsServing(t) /\ t.svc # NoService /\ rest \in Serving
            \/ IsReceipt(t) /\ rest = <<"commit">> /\ Head(rest) = "commit" /\ t.plan = <<t.kind, "commit">>
            \/ IsSending(t) /\ rest = <<"commit">> /\ Head(rest) = "commit"
            \/ IsExpiring(t) /\ rest = <<"expire", "commit">> /\ Head(t.plan) = "expired"
               /\ Head(rest) = "expire" /\ t.plan = <<"expired", "expire", "commit">>
<1> DEFINE rest == Tail(t.plan)
<1>1. \/ IsServing(t) /\ t.svc # NoService
         /\ t.plan \in Completing \cup Led("answered") \cup Led("responded")
      \/ IsReceipt(t) /\ t.plan = <<t.kind, "commit">>
      \/ IsSending(t) /\ t.plan \in {<<"completed", "commit">>, <<"failed", "commit">>}
      \/ IsExpiring(t) /\ t.plan = <<"expired", "expire", "commit">>
  BY Heads
<1> DEFINE C == <<"completed", "commit">>
<1>2. /\ <<"commit">> # << >> /\ Head(<<"commit">>) = "commit"
      /\ C # << >> /\ Head(C) = "completed"
      /\ Asking # << >> /\ Head(Asking) = "scan"
      /\ <<"send", "commit">> # << >> /\ Head(<<"send", "commit">>) = "send"
      /\ <<"expire", "commit">> # << >> /\ Head(<<"expire", "commit">>) = "expire"
      /\ Head(<<"lock", "send", "commit">>) = "lock"
  BY Tails DEF Asking
<1>3. /\ \A P \in Led("responded") : Head(P) = "responded"
      /\ \A P \in Completing : Head(P) \in {"completed", "answered"}
  BY Tails DEF Led, Completing
<1>4. \A e : <<"commit">> # <<e, "send", "commit">> /\ C # <<e, "send", "commit">>
             /\ <<"send", "commit">> # <<e, "send", "commit">>
             /\ <<"expire", "commit">> # <<e, "send", "commit">>
             /\ Asking # <<e, "send", "commit">>
  BY DEF Asking
<1>5. Event \cap {"commit", "scan", "send", "expire", "lock"} = {}
      /\ {"answered", "responded", "completed"} \subseteq Event
  BY DEF Event
<1>6. ASSUME t.plan \in Completing
      PROVE  rest = <<"commit">> \/ rest = C
  <2>1. CASE t.plan = C
    BY <2>1, Tails
  <2>2. CASE t.plan = <<"answered", "completed", "commit">>
    BY <2>2, Tails
  <2> QED
    BY <1>6, <2>1, <2>2 DEF Completing
<1>7. ASSUME NEW e \in {"answered", "responded"}, t.plan \in Led(e)
      PROVE  \/ rest = <<"commit">> \/ rest = Asking
             \/ rest = <<"send", "commit">> /\ t.plan = <<e, "send", "commit">>
  <2>1. CASE t.plan = <<e, "scan", "lock", "send", "commit">>
    BY <2>1, Tails DEF Asking
  <2>2. CASE t.plan = <<e, "send", "commit">>
    BY <2>2, Tails
  <2>3. CASE t.plan = <<e, "commit">>
    BY <2>3, Tails
  <2> QED
    BY <1>7, <2>1, <2>2, <2>3 DEF Led
<1>8. CASE IsServing(t) /\ t.svc # NoService
           /\ t.plan \in Completing \cup Led("answered") \cup Led("responded")
  <2>1. \/ rest = <<"commit">> \/ rest = Asking \/ (rest = C /\ t.plan \in Completing)
        \/ rest = <<"send", "commit">> /\ \E e \in Event : t.plan = <<e, "send", "commit">>
    <3>1. CASE t.plan \in Completing
      BY <1>6, <3>1
    <3>2. CASE t.plan \in Led("answered")
      BY <1>5, <1>7, <3>2
    <3>3. CASE t.plan \in Led("responded")
      BY <1>5, <1>7, <3>3
    <3> QED
      BY <1>8, <3>1, <3>2, <3>3
  <2>2. <<"commit">> \in Serving /\ Asking \in Serving /\ C \in Serving /\ <<"send", "commit">> \in Serving
    BY DEF Serving, Completing
  <2>3. <<"commit">> # <<"send", "commit">> /\ Asking # <<"send", "commit">> /\ C # <<"send", "commit">>
    BY <1>2
  <2> HIDE DEF rest, C
  <2> QED
    BY <1>2, <1>3, <1>4, <1>5, <1>8, <2>1, <2>2, <2>3 DEF rest, C
<1>9. CASE IsReceipt(t) /\ t.plan = <<t.kind, "commit">>
  <2>1. rest = <<"commit">>
    BY <1>9, Tails
  <2> HIDE DEF rest, C
  <2> QED
    BY <1>2, <1>3, <1>4, <1>5, <1>9, <2>1 DEF rest
<1>10. CASE IsSending(t) /\ t.plan \in {<<"completed", "commit">>, <<"failed", "commit">>}
  <2>1. rest = <<"commit">>
    BY <1>10, Tails, ZenonT(30)
  <2> HIDE DEF rest, C
  <2> QED
    BY <1>2, <1>3, <1>4, <1>5, <1>10, <2>1 DEF rest
<1>11. CASE IsExpiring(t) /\ t.plan = <<"expired", "expire", "commit">>
  <2>1. rest = <<"expire", "commit">> /\ Head(t.plan) = "expired"
    BY <1>11, Tails
  <2> HIDE DEF rest, C
  <2> QED
    BY <1>2, <1>3, <1>4, <1>5, <1>11, <2>1 DEF rest
<1> QED
  BY <1>1, <1>8, <1>9, <1>10, <1>11

LEMMA DirtyRow ==
  ASSUME NEW t \in Tx, NEW s \in Service, Ending(t, s)
  PROVE  Lock(Row(s), "write") \in Dirty(t)
BY DEF Ending, Dirty

\* A flush that goes through leaves its transaction with what it changes locked.
LEMMA Flushed ==
  ASSUME IInv, NEW p \in Proc, ~At(p, "lock"), tx[p].plan # << >>, Flushes(tx[p]),
         NEW r, Lock(r, "write") \in Dirty(tx[p])
  PROVE  Strong(locks[p] \cup Missing(p), r)
<1>1. Holds(p, Lock(r, "write")) \/ Lock(r, "write") \in Missing(p)
  BY MissingLocks
<1>2. CASE Holds(p, Lock(r, "write"))
  BY <1>2, Facts, Held, StrongMore
<1>3. CASE Lock(r, "write") \in Missing(p)
  BY <1>3, LockFields DEF Strong
<1> QED
  BY <1>1, <1>2, <1>3

LEMMA NotifyStep ==
  ASSUME IInv, NEW p \in Proc, Notify(p)
  PROVE  IInv'
<1> DEFINE t == tx[p]
           L == locks[p]
           M == locks[p] \cup Missing(p)
           ev == Head(t.plan)
           n == Noted(p, t.svc, t.status, ev)
           v == [t EXCEPT !.notes[t.svc] = n]
           u == Advance(v)
<1>1. /\ t.plan # << >> /\ ev \in Event /\ Ready(p) /\ UNCHANGED <<dbVars, metaVars>>
      /\ tx' = [tx EXCEPT ![p] = u] /\ locks' = [locks EXCEPT ![p] = M]
  BY DEF Notify, Flush
<1>2. /\ t \in Tx /\ Kinds(t) /\ Sane(t) /\ Order(t, L) /\ EndsTold(t, L) /\ TurnTold(t, L)
      /\ Answers(t) /\ Alone(t, L) /\ M \in SUBSET Locks
  BY Facts, MissingLocks
<1>3. ~At(p, "lock") /\ L \subseteq M
  BY <1>1 DEF At, Event
<1> DEFINE rest == Tail(t.plan)
<1>4. /\ rest # << >> /\ Head(rest) \in {"commit", "completed", "scan", "send", "expire"}
      /\ rest # <<"lock", "send", "commit">> /\ rest \notin Led("responded")
      /\ \A e \in Event : rest # <<e, "send", "commit">>
      /\ Head(rest) = "completed" => rest = <<"completed", "commit">> /\ t.plan \in Completing
      /\ rest \in Completing => Head(rest) = "completed"
      /\ rest = <<"send", "commit">> => \E e \in Event : t.plan = <<e, "send", "commit">>
      /\ \/ IsServing(t) /\ t.svc # NoService /\ rest \in Serving
         \/ IsReceipt(t) /\ rest = <<"commit">> /\ Head(rest) = "commit" /\ t.plan = <<t.kind, "commit">>
         \/ IsSending(t) /\ rest = <<"commit">> /\ Head(rest) = "commit"
         \/ IsExpiring(t) /\ rest = <<"expire", "commit">> /\ Head(t.plan) = "expired"
            /\ Head(rest) = "expire" /\ t.plan = <<"expired", "expire", "commit">>
  BY <1>1, <1>2, NextPlans
<1>5. t.svc \in Service
  <2>1. t.svc # NoService
    BY <1>4, ConstantsAssumption DEF IsReceipt, IsSending, IsExpiring
  <2> QED
    BY <1>2, <2>1 DEF Tx
<1> DEFINE m == t.notes[t.svc]
<1>6. /\ n \in Seq(Event)
      /\ n # m => t.svc \in Subscribed /\ Passes(t.status, ev)
      /\ AtMostOne(m, Terminal) => AtMostOne(n, Terminal)
      /\ Has(m, Terminal) => Has(n, Terminal)
      /\ Has(n, Terminal) => Has(m, Terminal) \/ (ev \in Terminal /\ ~Has(notified[t.svc], Terminal))
      /\ ev \in Terminal /\ t.svc \in Subscribed => Has(n, Terminal) \/ Has(notified[t.svc], Terminal)
      /\ AtMostOne(m, {"responded"}) => AtMostOne(n, {"responded"})
      /\ Has(n, {"responded"}) => \/ Has(m, {"responded"})
                                  \/ ev = "responded" /\ ~Has(notified[t.svc], {"responded"})
  BY <1>1, <1>5, Notes
<1> HIDE DEF n, rest, ev
<1>7. v \in Tx
  BY <1>2, <1>5, <1>6 DEF Tx
<1>8. /\ Kept(t, v) /\ v.plan = t.plan /\ v.expire = t.expire /\ v.status = t.status
      /\ v.wrote = t.wrote /\ \A s \in Service : v.notes[s] = IF s = t.svc THEN n ELSE t.notes[s]
  BY <1>2, <1>5 DEF Tx, Kept
<1> HIDE DEF v
<1>9. /\ u \in Tx /\ Kept(v, u) /\ u.plan = rest /\ u.expire = v.expire /\ u.notes = v.notes
      /\ IF Head(rest) = "completed" THEN u.status = "completed" /\ u.wrote = v.wrote \cup {"status"}
                                     ELSE u.status = v.status /\ u.wrote = v.wrote
  BY <1>1, <1>4, <1>7, <1>8, Advanced DEF rest
<1> HIDE DEF u, M
<1>10. /\ Kept(t, u) /\ u.expire = t.expire /\ u.svc = t.svc /\ u.qs = t.qs
       /\ \A s \in Service : u.notes[s] = IF s = t.svc THEN n ELSE t.notes[s]
       /\ IF Head(rest) = "completed" THEN u.status = "completed" /\ u.wrote = t.wrote \cup {"status"}
                                      ELSE u.status = t.status /\ u.wrote = t.wrote
  BY <1>8, <1>9 DEF Kept
<1>11. Kinds(u)
  <2>1. CASE IsServing(t) /\ t.svc # NoService /\ rest \in Serving
    <3>1. Silent(u, u.expire \cup {u.svc})
      BY <1>10, <2>1 DEF IsServing, Silent
    <3> QED
      BY <1>4, <1>9, <1>10, <2>1, <3>1 DEF Kinds, IsServing, Kept
  <2>2. CASE IsReceipt(t) /\ rest = <<"commit">> /\ Head(rest) = "commit"
    <3>1. Silent(u, {u.svc})
      BY <1>10, <2>2 DEF IsReceipt, Silent
    <3>2. rest # <<t.kind, "commit">>
      BY <2>2
    <3> QED
      BY <1>9, <1>10, <2>2, <3>1, <3>2 DEF Kinds, IsReceipt, Kept
  <2>3. CASE IsSending(t) /\ rest = <<"commit">> /\ Head(rest) = "commit"
    <3>1. Silent(u, {u.svc})
      BY <1>10, <2>3 DEF IsSending, Silent
    <3>2. rest \notin {<<"completed", "commit">>, <<"failed", "commit">>}
      BY <2>3, Tails
    <3> QED
      BY <1>9, <1>10, <2>3, <3>1, <3>2 DEF Kinds, IsSending, Kept
  <2>4. CASE IsExpiring(t) /\ rest = <<"expire", "commit">> /\ Head(rest) = "expire"
    <3>1. Silent(u, u.expire)
      BY <1>5, <1>10, <2>4, ConstantsAssumption DEF IsExpiring, Silent
    <3>2. rest # <<"expired", "expire", "commit">>
      BY <2>4, Tails
    <3> QED
      BY <1>9, <1>10, <2>4, <3>1, <3>2 DEF Kinds, IsExpiring, Kept
  <2> QED
    BY <1>4, <2>1, <2>2, <2>3, <2>4
<1>12. Sane(u)
  <2>1. u.rec = t.rec /\ u.plan # << >> /\ u.plan = rest
    BY <1>4, <1>9, <1>10 DEF Kept
  <2>2. Head(u.plan) # "failed" /\ (Head(u.plan) = "completed" <=> Head(rest) = "completed")
    BY <1>4, <2>1
  <2>3. "completed" \in Terminal
    BY DEF Terminal
  <2>4. Head(rest) = "completed" => t.qs.answered = Len(Questions[t.svc])
    BY <1>2, <1>4, <1>5 DEF Sane
  <2> HIDE DEF t
  <2>5. "status" \in u.wrote => u.status \in Terminal
    BY <1>2, <1>10, <2>3 DEF Sane
  <2>6. u.plan \in Completing \/ ("status" \in u.wrote /\ u.status = "completed")
          => u.qs.answered = Len(Questions[u.svc])
    BY <1>2, <1>4, <1>5, <1>10, <2>1, <2>4 DEF Sane
  <2>7. ~\E e \in Event : u.plan = <<e, "send", "commit">>
    BY <1>4, <2>1
  <2>8. Focused(u.qs) /\ (u.rec # 0 => u.rec = u.qs.answered) /\ u.qs.answered <= Len(Questions[u.svc])
    BY <1>2, <1>5, <1>10, <2>1 DEF Sane
  <2>9. Head(u.plan) = "completed" => "status" \in u.wrote /\ u.status = "completed"
    BY <1>10, <2>2
  <2> QED
    BY <2>2, <2>5, <2>6, <2>7, <2>8, <2>9 DEF Sane
<1>13. Order(u, M)
  <2>1. t.kind \in Receipt => u.wrote = t.wrote /\ t.plan = <<t.kind, "commit">>
    BY <1>4, <1>10 DEF IsServing, IsSending, IsExpiring, Inbound, Receipt
  <2>2. u.plan # << >>
    BY <1>4, <1>9
  <2> QED
    BY <1>1, <1>3, <1>10, <2>1, <2>2, FlushOrder DEF Kept, M
<1>14. ASSUME t.svc \in Subscribed, Passes(t.status, ev)
       PROVE  Flushes(t)
  BY <1>1, <1>14 DEF Flushes, ev
<1>15. ASSUME NEW s \in Service
       PROVE  EndTold(u, M, s)
  <2>1. EndTold(t, L, s) /\ \A r : Strong(L, r) => Strong(M, r)
    BY <1>2, <1>3, StrongMore DEF EndsTold
  <2>2. /\ Ending(t, s) => Ending(u, s)
        /\ Ending(u, s) => Ending(t, s) \/ (s = t.svc /\ Head(rest) = "completed")
        /\ Head(rest) = "completed" => Ending(u, t.svc)
    BY <1>10 DEF Ending
  <2>3. CASE s # t.svc
    BY <1>10, <2>1, <2>2, <2>3 DEF EndTold
  <2>4. CASE s = t.svc
    <3>1. u.notes[s] = n /\ m = t.notes[s]
      BY <1>10, <2>4
    <3>2. AtMostOne(n, Terminal)
      BY <1>6, <2>1, <2>4 DEF EndTold
    <3>3. ASSUME Has(n, Terminal)
          PROVE  ~Has(notified[s], Terminal) /\ Strong(M, Row(s)) /\ Ending(u, s)
      <4>1. CASE Has(m, Terminal)
        BY <2>1, <2>2, <3>1, <4>1 DEF EndTold
      <4>2. CASE ~Has(m, Terminal)
        <5>1. ev \in Terminal /\ ~Has(notified[s], Terminal) /\ s \in Subscribed /\ Passes(t.status, ev)
          BY <1>6, <2>4, <3>3, <4>2
        <5>2. t.status \in Terminal
          <6>1. ev = "completed" \/ ev = "failed" \/ ev = "expired"
            BY <5>1 DEF Terminal
          <6>2. CASE ev = "expired"
            <7>1. IsExpiring(t) /\ t.plan = <<"expired", "expire", "commit">>
              <8>1. \A P \in Completing : Head(P) # "expired"
                BY Tails DEF Completing
              <8>2. \A e : \A P \in Led(e) : Head(P) = e
                BY Tails DEF Led
              <8>3. /\ Head(<<"completed", "commit">>) = "completed"
                    /\ Head(<<"failed", "commit">>) = "failed"
                    /\ \A k \in Receipt : Head(<<k, "commit">>) = k /\ k # "expired"
                BY Tails DEF Receipt
              <8> QED
                BY <1>1, <1>2, <6>2, <8>1, <8>2, <8>3, Heads DEF ev, IsReceipt
            <7> QED
              BY <7>1 DEF IsExpiring, Terminal
          <6>3. CASE ev = "completed" \/ ev = "failed"
            BY <1>1, <1>2, <6>3 DEF ev, Sane, Terminal
          <6> QED
            BY <6>1, <6>2, <6>3
        <5>3. Ending(t, s)
          BY <2>1, <2>4, <5>1, <5>2 DEF EndTold
        <5>4. Lock(Row(s), "write") \in Dirty(t) /\ Flushes(t)
          BY <1>2, <1>14, <2>4, <5>1, <5>3, DirtyRow
        <5>5. Strong(M, Row(s))
          BY <1>1, <1>3, <5>4, Flushed DEF M
        <5> QED
          BY <2>2, <5>1, <5>3, <5>5
      <4> QED
        BY <4>1, <4>2
    <3>4. ASSUME s \in Subscribed, Ending(u, s)
          PROVE  Has(notified[s], Terminal) \/ Has(n, Terminal) \/ Head(u.plan) = "completed"
      <4>1. CASE ev \in Terminal
        BY <1>6, <2>4, <3>4, <4>1
      <4>2. CASE ev \notin Terminal /\ Head(rest) # "completed"
        BY <1>6, <2>1, <2>2, <2>4, <3>1, <3>4, <4>2 DEF EndTold, ev
      <4>3. CASE Head(rest) = "completed"
        BY <1>9, <4>3
      <4> QED
        BY <4>1, <4>2, <4>3
    <3>5. ASSUME s \in Subscribed, u.status \in Terminal, ~Ending(u, s)
          PROVE  Has(notified[s], Terminal)
      BY <1>10, <2>1, <2>2, <2>4, <3>5 DEF EndTold
    <3>6. u.plan # << >> /\ "completed" \in Terminal
      BY <1>4, <1>9 DEF Terminal
    <3> QED
      BY <1>10, <2>4, <3>1, <3>2, <3>3, <3>4, <3>5, <3>6 DEF EndTold
  <2> QED
    BY <2>3, <2>4
<1>16. TurnTold(u, M)
  <2> SUFFICES ASSUME NEW s \in Service
               PROVE  /\ AtMostOne(u.notes[s], {"responded"})
                      /\ Has(u.notes[s], {"responded"}) =>
                           ~Has(notified[s], {"responded"}) /\ Strong(M, Conv)
    BY DEF TurnTold
  <2>1. /\ AtMostOne(t.notes[s], {"responded"})
        /\ Has(t.notes[s], {"responded"}) => ~Has(notified[s], {"responded"}) /\ Strong(M, Conv)
    BY <1>2, <1>3, StrongMore DEF TurnTold
  <2>2. CASE s # t.svc
    BY <1>10, <2>1, <2>2
  <2>3. CASE s = t.svc
    <3>1. u.notes[s] = n /\ m = t.notes[s]
      BY <1>10, <2>3
    <3>2. ASSUME Has(n, {"responded"}), ~Has(m, {"responded"})
          PROVE  ~Has(notified[s], {"responded"}) /\ Strong(M, Conv)
      <4>1. ev = "responded" /\ ~Has(notified[s], {"responded"}) /\ n # m
        BY <1>6, <2>3, <3>2
      <4>2. Flushes(t)
        BY <1>6, <1>14, <4>1
      <4>3. IsServing(t)
        <5>1. /\ Head(<<"completed", "commit">>) = "completed"
              /\ Head(<<"failed", "commit">>) = "failed"
              /\ Head(<<"expired", "expire", "commit">>) = "expired"
              /\ \A k \in Receipt : Head(<<k, "commit">>) = k /\ k # "responded"
          BY Tails DEF Receipt
        <5> QED
          BY <1>1, <1>2, <4>1, <5>1, Heads, ZenonT(30) DEF ev, IsReceipt
      <4>4. Strong(M, Conv)
        BY <1>1, <1>2, <1>3, <4>2, <4>3, ServingDirty, Flushed DEF M
      <4> QED
        BY <4>1, <4>4
    <3> QED
      BY <1>6, <2>1, <2>3, <3>1, <3>2
  <2> QED
    BY <2>2, <2>3
<1>17. Answers(u)
  BY <1>2, <1>10 DEF Answers, Kept
<1>18. Alone(u, M)
  <2>1. Alone(t, M)
    BY <1>2, <1>3, AloneMore
  <2>2. u.plan = <<"send", "commit">> => ~AsksText(u)
    BY <1>2, <1>4, <1>5, <1>9, <1>10 DEF Sane, AsksText
  <2>3. "questions" \in u.wrote <=> "questions" \in t.wrote
    BY <1>10
  <2> QED
    BY <1>4, <1>9, <1>10, <2>1, <2>2, <2>3 DEF Alone
<1>19. \A l \in M \ locks[p] : Free(p, l)
  BY <1>1, FlushFree DEF M
<1>20. Backed(u, M) /\ MetaType'
  BY <1>1, <1>13, <1>15, <1>16, <1>17, <1>18, SameMeta DEF Backed, EndsTold
<1> QED
  BY <1>1, <1>2, <1>9, <1>11, <1>12, <1>19, <1>20, WorkStep

-----------------------------------------------------------------------------
(* A customer message that has been linked to its service.                 *)

\* s has been read for t, which holds the locks L and has done nothing for s yet.
Loaded(t, s, L) ==
  /\ t \in Tx /\ s \in Service /\ t.svc = s /\ t.kind \in Inbound /\ t.hook \in Hook /\ t.fresh
  /\ t.wrote = {} /\ t.rec = 0 /\ t.status = status[s] /\ t.qs = form[s]
  /\ s \notin t.expire /\ Silent(t, t.expire) /\ EndsTold(t, L) /\ TurnTold(t, L)
  /\ t.kind \in {"tap", "reply"} => L = {}

\* u does what handle_inbound decides for it: to ask or to confirm, to complete
\* the service, or to record an answer.
Asks(t, u) == /\ u.wrote = {} /\ u.rec = 0 /\ u.qs = t.qs /\ u.status = t.status
              /\ u.plan \notin Completing
Completes(t, u) == /\ u.wrote = {"status"} /\ u.rec = 0 /\ u.qs = t.qs /\ u.status = "completed"
                   /\ u.qs.answered = Len(Questions[t.svc])
                   /\ u.plan = <<"completed", "commit">>
Records(t, u) == /\ u.wrote = {"questions"} /\ u.status = t.status
                 /\ u.qs.answered = t.qs.answered + 1 /\ u.rec = u.qs.answered
                 /\ u.qs.dispatched = t.qs.dispatched
                 /\ u.qs.answered <= Len(Questions[t.svc])
                 /\ u.plan \in Completing => u.qs.answered = Len(Questions[t.svc])
                 /\ Head(u.plan) = "answered"

LEMMA Serves ==
  ASSUME IInv, NEW t, NEW s, NEW L, Loaded(t, s, L), NEW u \in Tx,
         u.kind = t.kind, u.hook = t.hook, u.svc = t.svc, u.fresh = t.fresh,
         u.expire = t.expire, u.notes = t.notes,
         u.plan \in Serving, u.plan # <<"lock", "send", "commit">>,
         u.plan \in Led("responded") => u.kind = "tap",
         u.plan = <<"send", "commit">> => ~AsksText(u),
         (\E e \in Event : u.plan = <<e, "send", "commit">>) => ~AsksText(u),
         Asks(t, u) \/ Completes(t, u) \/ Records(t, u)
  PROVE  Kinds(u) /\ Sane(u) /\ Backed(u, L)
<1>1. /\ t \in Tx /\ s \in Service /\ t.svc = s /\ t.kind \in Inbound /\ t.hook \in Hook /\ t.fresh
      /\ t.wrote = {} /\ t.rec = 0 /\ t.status = status[s] /\ t.qs = form[s]
      /\ s \notin t.expire /\ Silent(t, t.expire) /\ EndsTold(t, L) /\ TurnTold(t, L)
      /\ t.kind \in {"tap", "reply"} => L = {}
  BY DEF Loaded
<1>2. Db /\ form[s] \in Form /\ form[s].answered \in Nat
  BY <1>1, Types DEF IInv, DbType, Form
<1>3. /\ form[s].answered <= Len(Questions[s]) /\ Focused(form[s])
      /\ \A q \in 1..form[s].answered : Answered(s, q)
      /\ s \in Subscribed => (status[s] \in Terminal <=> Has(notified[s], Terminal))
  BY <1>1, <1>2 DEF Db
<1>4. s # NoService
  BY <1>1, ConstantsAssumption
<1>5. u.plan # << >> /\ Head(<<"completed", "commit">>) = "completed"
      /\ \A P \in Serving : Head(P) # "failed"
  <2>1. \A P \in Completing : Head(P) # "failed"
    BY Tails DEF Completing
  <2>2. \A e \in {"answered", "responded"} : \A P \in Led(e) : Head(P) # "failed"
    BY Tails DEF Led
  <2>3. \A P \in {Asking, <<"lock", "send", "commit">>, <<"send", "commit">>, <<"commit">>} :
          Head(P) # "failed"
    BY Tails DEF Asking
  <2>4. u.plan # << >>
    BY PlanTypes DEF PlanOf
  <2> QED
    BY <2>1, <2>2, <2>3, <2>4, Tails DEF Serving
<1>6. \A P \in Serving : Head(P) = "completed" => P = <<"completed", "commit">>
  <2>1. \A P \in Completing : Head(P) = "completed" => P = <<"completed", "commit">>
    BY Tails DEF Completing
  <2>2. \A e \in {"answered", "responded"} : \A P \in Led(e) : Head(P) # "completed"
    BY Tails DEF Led
  <2>3. \A P \in {Asking, <<"lock", "send", "commit">>, <<"send", "commit">>, <<"commit">>} :
          Head(P) # "completed"
    BY Tails DEF Asking
  <2> QED
    BY <2>1, <2>2, <2>3 DEF Serving
<1>7. Kinds(u)
  <2>1. Silent(u, u.expire \cup {u.svc})
    BY <1>1 DEF Silent
  <2> QED
    BY <1>1, <1>4, <2>1 DEF Kinds, IsServing
<1>8. Focused(u.qs) /\ u.qs.answered <= Len(Questions[s])
  <2>1. CASE u.qs = t.qs
    BY <1>1, <1>3, <2>1
  <2>2. CASE Records(t, u)
    <3>1. \A q \in form[s].dispatched : q <= form[s].answered + 1 /\ q \in Nat
      BY <1>2, <1>3 DEF Focused, Form
    <3> QED
      BY <1>1, <1>2, <2>2, <3>1 DEF Records, Focused
  <2> QED
    BY <2>1, <2>2 DEF Asks, Completes
<1>9. Sane(u)
  <2>1. "completed" \in Terminal
    BY DEF Terminal
  <2>2. CASE Asks(t, u)
    <3>1. Head(u.plan) # "completed"
      BY <1>6, <2>2 DEF Asks, Completing
    <3> QED
      BY <1>1, <1>5, <1>8, <2>2, <3>1 DEF Asks, Sane
  <2>3. CASE Completes(t, u)
    <3>1. u.wrote = {"status"} /\ u.rec = 0 /\ u.status = "completed"
          /\ u.qs.answered = Len(Questions[u.svc]) /\ Head(u.plan) = "completed"
      BY <1>5, <2>3 DEF Completes
    <3> QED
      BY <1>1, <1>5, <1>8, <2>1, <3>1 DEF Sane
  <2>4. CASE Records(t, u)
    BY <1>1, <1>5, <1>8, <2>4 DEF Records, Sane
  <2> QED
    BY <2>2, <2>3, <2>4
<1>10. Order(u, L)
  BY <1>1, <1>5 DEF Order, Inbound, Receipt
<1>11. Answers(u)
  <2>1. CASE u.qs = t.qs /\ u.rec = 0
    BY <1>1, <1>3, <2>1 DEF Answers
  <2>2. CASE Records(t, u)
    <3>1. \A q \in 1..(form[s].answered + 1) : q = form[s].answered + 1 \/ q \in 1..form[s].answered
      BY <1>2
    <3> QED
      BY <1>1, <1>3, <2>2, <3>1 DEF Records, Answers
  <2> QED
    BY <2>1, <2>2 DEF Asks, Completes
<1>12. EndsTold(u, L)
  <2> SUFFICES ASSUME NEW x \in Service PROVE EndTold(u, L, x)
    BY DEF EndsTold
  <2>1. EndTold(t, L, x) /\ (Ending(t, x) <=> x \in t.expire)
    BY <1>1 DEF EndsTold, Ending
  <2>2. CASE x # s
    <3>1. Ending(u, x) <=> x \in t.expire
      BY <1>1, <2>2 DEF Ending
    <3> QED
      BY <1>1, <2>1, <2>2, <3>1 DEF EndTold
  <2>3. CASE x = s
    <3>1. u.notes[x] = << >>
      BY <1>1, <2>3 DEF Silent
    <3>2. Ending(u, x) <=> "status" \in u.wrote
      BY <1>1, <2>3 DEF Ending
    <3>3. "status" \in u.wrote => Head(u.plan) \in Terminal
      BY <1>5 DEF Asks, Completes, Records, Terminal
    <3>4. "status" \notin u.wrote => u.status = status[s]
      BY <1>1 DEF Asks, Completes, Records
    <3> QED
      BY <1>1, <1>3, <1>5, <2>3, <3>1, <3>2, <3>3, <3>4, NothingTold DEF EndTold
  <2> QED
    BY <2>2, <2>3
<1>13. TurnTold(u, L)
  BY <1>1 DEF TurnTold
<1>14. Alone(u, L)
  <2>1. ~("questions" \in u.wrote /\ AwaitsText(u.svc, u.qs))
    <3>1. CASE Records(t, u)
      <4>1. \A q \in form[s].dispatched : q <= form[s].answered + 1 /\ q \in Nat
        BY <1>2, <1>3 DEF Focused, Form
      <4> QED
        BY <1>1, <1>2, <3>1, <4>1 DEF Records, AwaitsText
    <3>2. CASE Asks(t, u) \/ Completes(t, u)
      BY <3>2 DEF Asks, Completes
    <3> QED
      BY <3>1, <3>2
  <2> QED
    BY <2>1 DEF Alone
<1> QED
  BY <1>7, <1>9, <1>10, <1>11, <1>12, <1>13, <1>14 DEF Backed

LEMMA AnsweringServes ==
  ASSUME IInv, NEW t, NEW s, NEW L, Loaded(t, s, L)
  PROVE  LET u == Answering(t) IN u \in Tx /\ Kinds(u) /\ Sane(u) /\ Backed(u, L)
<1> DEFINE n == NextQ(s, t.qs)
<1>1. /\ t \in Tx /\ s \in Service /\ t.svc = s /\ t.wrote = {} /\ t.rec = 0 /\ t.qs = form[s]
      /\ t.status = status[s] /\ t.qs \in Form /\ t.qs.answered \in Nat /\ Len(Questions[s]) \in Nat
      /\ t.qs.answered <= Len(Questions[s]) /\ Focused(t.qs)
  BY NextQs, Types DEF Loaded, IInv, Db, DbType
<1>2. /\ n \in Nat /\ (n = 0 <=> t.qs.answered >= Len(Questions[s]))
      /\ n # 0 => n = t.qs.answered + 1
  BY <1>1, NextQs
<1> HIDE DEF n
<1>3. <<"commit">> \in Seq(Op) /\ <<"completed", "commit">> \in Seq(Op)
      /\ <<"commit">> \in Serving /\ <<"completed", "commit">> \in Serving
      /\ <<"commit">> # << >> /\ <<"completed", "commit">> # << >>
      /\ Head(<<"commit">>) = "commit" /\ Head(<<"completed", "commit">>) = "completed"
      /\ \A P \in Completing : Head(P) \in {"completed", "answered"}
  <2>1. <<"commit">> \in Serving /\ <<"completed", "commit">> \in Serving
    BY DEF Serving, Completing
  <2>2. <<"commit">> \in Seq(Op) /\ <<"completed", "commit">> \in Seq(Op)
    BY <2>1, PlanTypes DEF PlanOf
  <2>3. \A P \in Completing : Head(P) \in {"completed", "answered"}
    BY Tails DEF Completing
  <2> QED
    BY <2>1, <2>2, <2>3, Tails
<1>4. \A e : \A P \in Led(e) : Head(P) = e
  BY Tails DEF Led
<1>5. CASE n = 0 /\ t.status = "completed"
  <2> DEFINE u == [t EXCEPT !.plan = <<"commit">>]
  <2>1. u \in Tx /\ u.plan = <<"commit">>
    BY <1>1, <1>3 DEF Tx
  <2>2. /\ u.kind = t.kind /\ u.hook = t.hook /\ u.svc = t.svc /\ u.fresh = t.fresh
        /\ u.expire = t.expire /\ u.notes = t.notes
        /\ u.wrote = t.wrote /\ u.rec = t.rec /\ u.qs = t.qs /\ u.status = t.status
    BY <1>1 DEF Tx
  <2>3. Answering(t) = u
    <3>1. Answering(t) = Start(u)
      BY <1>1, <1>5 DEF Answering, n
    <3> QED
      BY <1>3, <2>1, <3>1 DEF Start
  <2> HIDE DEF u
  <2>4. Asks(t, u)
    BY <1>1, <1>3, <2>1, <2>2 DEF Asks
  <2>5. /\ u.plan # <<"lock", "send", "commit">> /\ u.plan # <<"send", "commit">>
        /\ u.plan \notin Led("responded") /\ \A e \in Event : u.plan # <<e, "send", "commit">>
    BY <1>3, <1>4, <2>1, Tails
  <2> QED
    BY <1>3, <2>1, <2>2, <2>3, <2>4, <2>5, Serves
<1>6. CASE n = 0 /\ t.status # "completed"
  <2> DEFINE v == [t EXCEPT !.plan = <<"completed", "commit">>]
             u == Start(v)
  <2>1. v \in Tx /\ v.plan = <<"completed", "commit">>
    BY <1>1, <1>3 DEF Tx
  <2>2. /\ v.kind = t.kind /\ v.hook = t.hook /\ v.svc = t.svc /\ v.fresh = t.fresh
        /\ v.expire = t.expire /\ v.notes = t.notes
        /\ v.wrote = t.wrote /\ v.rec = t.rec /\ v.qs = t.qs
    BY <1>1 DEF Tx
  <2>3. Answering(t) = u
    BY <1>1, <1>6 DEF Answering, n
  <2> HIDE DEF v
  <2>4. /\ u \in Tx /\ Kept(v, u) /\ u.plan = v.plan /\ u.expire = v.expire /\ u.notes = v.notes
        /\ u.status = "completed" /\ u.wrote = v.wrote \cup {"status"}
    BY <1>3, <2>1, Started
  <2> HIDE DEF u
  <2>5. Completes(t, u)
    BY <1>1, <1>2, <1>6, <2>1, <2>2, <2>4 DEF Completes, Kept
  <2>6. /\ u.plan # <<"lock", "send", "commit">> /\ u.plan # <<"send", "commit">>
        /\ u.plan \notin Led("responded") /\ \A e \in Event : u.plan # <<e, "send", "commit">>
    BY <1>3, <1>4, <2>1, <2>4, Tails
  <2> QED
    BY <1>3, <2>1, <2>2, <2>3, <2>4, <2>5, <2>6, Serves DEF Kept
<1> DEFINE r == Record(t, n)
           valid == IF t.kind = "reply" THEN t.seq = n /\ Questions[s][n] # 2 ELSE Questions[s][n] = 2
           rest == IF n = Len(Questions[s]) THEN <<"completed">> ELSE FirePlan(s, r.qs)
<1>7. CASE n # 0 /\ valid
  <2> DEFINE plan == <<"answered">> \o rest \o <<"commit">>
             u == [r EXCEPT !.plan = plan]
  <2>1. Answering(t) = u
    BY <1>1, <1>7 DEF Answering, n
  <2> DEFINE f == [t.qs EXCEPT !.answered = n]
  <2>2. r = [t EXCEPT !.qs = f, !.rec = n, !.wrote = {"questions"}]
    BY <1>1 DEF Record, Tx
  <2>3. f \in Form /\ f.answered = n /\ f.dispatched = t.qs.dispatched
    BY <1>1, <1>2 DEF Form
  <2> HIDE DEF f, r
  <2>4. r \in Tx
    <3>1. {"questions"} \in SUBSET {"status", "questions"}
      OBVIOUS
    <3> QED
      BY <1>1, <1>2, <2>2, <2>3, <3>1 DEF Tx
  <2>5. /\ r.kind = t.kind /\ r.hook = t.hook /\ r.svc = t.svc /\ r.fresh = t.fresh
        /\ r.expire = t.expire /\ r.notes = t.notes
        /\ r.wrote = {"questions"} /\ r.rec = n /\ r.qs = f /\ r.status = t.status
    BY <1>1, <2>2 DEF Tx
  <2>6. \/ n = Len(Questions[s]) /\ plan = <<"answered", "completed", "commit">>
        \/ plan \in {<<"answered", "commit">>, <<"answered", "scan", "lock", "send", "commit">>}
        \/ /\ plan = <<"answered", "send", "commit">>
           /\ NextQ(s, f) # 0 /\ Questions[s][NextQ(s, f)] # 2
    <3>1. CASE n = Len(Questions[s])
      <4>1. /\ <<"answered">> \o <<"completed">> = <<"answered", "completed">>
            /\ <<"answered", "completed">> \o <<"commit">> = <<"answered", "completed", "commit">>
        BY Joins DEF Op, Event
      <4> QED
        BY <3>1, <4>1
    <3>2. CASE n # Len(Questions[s])
      <4>1. plan = <<"answered">> \o FirePlan(s, f) \o <<"commit">>
        BY <2>5, <3>2
      <4> HIDE DEF plan
      <4> QED
        BY <1>1, <2>3, <4>1, FiredPlans
    <3> QED
      BY <3>1, <3>2
  <2> HIDE DEF plan
  <2>7. /\ plan \in Seq(Op) /\ plan \in Serving /\ Head(plan) = "answered"
        /\ plan \in Completing => plan = <<"answered", "completed", "commit">>
    <3>1. /\ <<"answered", "completed", "commit">> \in Completing
          /\ <<"answered", "commit">> \in Led("answered")
          /\ <<"answered", "scan", "lock", "send", "commit">> \in Led("answered")
          /\ <<"answered", "send", "commit">> \in Led("answered")
      BY DEF Completing, Led
    <3>2. plan \in Serving
      BY <2>6, <3>1 DEF Serving
    <3>3. Head(plan) = "answered"
      BY <1>4, <2>6, <3>1, Tails
    <3>4. plan \in Completing => plan = <<"answered", "completed", "commit">>
      BY <1>3, <3>3 DEF Completing
    <3> QED
      BY <3>2, <3>3, <3>4, PlanTypes DEF PlanOf
  <2>8. /\ u \in Tx /\ u.plan = plan
        /\ u.kind = t.kind /\ u.hook = t.hook /\ u.svc = t.svc /\ u.fresh = t.fresh
        /\ u.expire = t.expire /\ u.notes = t.notes
        /\ u.wrote = {"questions"} /\ u.rec = n /\ u.qs = f /\ u.status = t.status
    BY <2>4, <2>5, <2>7 DEF Tx
  <2> HIDE DEF u
  <2>9. Records(t, u)
    <3>1. plan \in Completing => n = Len(Questions[s])
      <4>1. /\ <<"answered", "completed", "commit">> # <<"answered", "commit">>
            /\ <<"answered", "completed", "commit">> # <<"answered", "scan", "lock", "send", "commit">>
            /\ <<"answered", "completed", "commit">> # <<"answered", "send", "commit">>
        OBVIOUS
      <4> QED
        BY <2>6, <2>7, <4>1
    <3>2. n = t.qs.answered + 1 /\ n <= Len(Questions[s])
      BY <1>1, <1>2, <1>7
    <3> QED
      BY <1>1, <2>3, <2>7, <2>8, <3>1, <3>2 DEF Records
  <2>10. /\ plan # <<"lock", "send", "commit">> /\ plan # <<"send", "commit">>
         /\ plan \notin Led("responded")
    BY <1>4, <2>7, Tails
  <2>11. (\E e \in Event : plan = <<e, "send", "commit">>) => ~AsksText(u)
    <3>1. /\ \A e : <<e, "send", "commit">> # <<"answered", "completed", "commit">>
          /\ \A e : <<e, "send", "commit">> # <<"answered", "commit">>
          /\ \A e : <<e, "send", "commit">> # <<"answered", "scan", "lock", "send", "commit">>
      OBVIOUS
    <3> QED
      BY <1>1, <2>6, <2>8, <3>1 DEF AsksText
  <2>12. u.plan \in Serving
    BY <2>7, <2>8
  <2> QED
    BY <2>1, <2>8, <2>9, <2>10, <2>11, <2>12, Serves
<1>8. CASE n # 0 /\ ~valid
  <2> DEFINE plan == FirePlan(s, t.qs) \o <<"commit">>
             u == [t EXCEPT !.linked = FALSE, !.plan = plan]
  <2>1. Answering(t) = u
    BY <1>1, <1>8 DEF Answering, n
  <2>2. plan = Asking \/ (plan = <<"send", "commit">> /\ Questions[s][n] # 2)
    BY <1>1, <1>8, FiredPlans DEF n
  <2> HIDE DEF plan
  <2>3. plan \in Serving /\ plan \in Seq(Op) /\ Head(plan) \in {"scan", "send"}
    BY <2>2, PlanTypes, Tails DEF Serving, PlanOf, Asking
  <2>4. /\ u \in Tx /\ u.plan = plan
        /\ u.kind = t.kind /\ u.hook = t.hook /\ u.svc = t.svc /\ u.fresh = t.fresh
        /\ u.expire = t.expire /\ u.notes = t.notes
        /\ u.wrote = t.wrote /\ u.rec = t.rec /\ u.qs = t.qs /\ u.status = t.status
    BY <1>1, <2>3 DEF Tx
  <2> HIDE DEF u
  <2>5. Asks(t, u)
    BY <1>1, <1>3, <2>3, <2>4 DEF Asks
  <2>6. /\ plan # <<"lock", "send", "commit">> /\ plan \notin Led("responded")
        /\ \A e \in Event : plan # <<e, "send", "commit">>
    <3>1. \A e \in Event : Head(<<e, "send", "commit">>) = e /\ e # "scan" /\ e # "send"
      BY Tails DEF Event
    <3> QED
      BY <1>4, <2>3, <3>1, Tails
  <2>7. plan = <<"send", "commit">> => ~AsksText(u)
    <3>1. Asking # <<"send", "commit">>
      BY DEF Asking
    <3> QED
      BY <1>1, <2>2, <2>4, <3>1 DEF AsksText, n
  <2> QED
    BY <2>1, <2>3, <2>4, <2>5, <2>6, <2>7, Serves
<1> QED
  BY <1>5, <1>6, <1>7, <1>8

LEMMA TappingServes ==
  ASSUME IInv, NEW t, NEW s, NEW L, Loaded(t, s, L), t.kind = "tap"
  PROVE  LET u == Tapping(t) IN u \in Tx /\ Kinds(u) /\ Sane(u) /\ Backed(u, L)
<1> DEFINE fire == FirePlan(s, t.qs) \o <<"commit">>
           lead == <<"responded">> \o FirePlan(s, t.qs) \o <<"commit">>
           nothing == << >> \o FirePlan(s, t.qs) \o <<"commit">>
           u == Tapping(t)
<1>1. /\ t \in Tx /\ s \in Service /\ t.svc = s /\ t.wrote = {} /\ t.rec = 0 /\ t.qs = form[s]
      /\ t.qs \in Form
  BY Types DEF Loaded, IInv, DbType
<1>2. /\ \/ fire \in {<<"commit">>, Asking}
         \/ fire = <<"send", "commit">> /\ Questions[s][NextQ(s, t.qs)] # 2
      /\ \/ lead \in {<<"responded", "commit">>, <<"responded", "scan", "lock", "send", "commit">>}
         \/ lead = <<"responded", "send", "commit">> /\ Questions[s][NextQ(s, t.qs)] # 2
      /\ nothing = fire
  BY <1>1, FiredPlans
<1> DEFINE engaged == \E q \in DOMAIN Questions[s] : <<s, q>> \in asked
           plan == IF engaged THEN fire ELSE lead
<1>3. u = [t EXCEPT !.plan = plan]
  <2>1. CASE engaged
    BY <1>1, <1>2, <2>1 DEF Tapping
  <2>2. CASE ~engaged
    BY <1>1, <2>2 DEF Tapping
  <2> QED
    BY <2>1, <2>2
<1> HIDE DEF u, engaged, fire, lead
<1>4. /\ plan \in {<<"commit">>, Asking, <<"send", "commit">>} \cup Led("responded")
      /\ plan \in {<<"send", "commit">>, <<"responded", "send", "commit">>}
           => Questions[s][NextQ(s, t.qs)] # 2
  <2>1. /\ <<"responded", "commit">> \in Led("responded")
        /\ <<"responded", "scan", "lock", "send", "commit">> \in Led("responded")
        /\ <<"responded", "send", "commit">> \in Led("responded")
    BY DEF Led
  <2>2. /\ \A x \in {<<"commit">>, Asking} : x # <<"send", "commit">> /\ x # <<"responded", "send", "commit">>
        /\ \A x \in {<<"responded", "commit">>, <<"responded", "scan", "lock", "send", "commit">>} :
              x # <<"send", "commit">> /\ x # <<"responded", "send", "commit">>
    BY DEF Asking
  <2> QED
    BY <1>2, <2>1, <2>2
<1> HIDE DEF plan
<1>5. plan \in Serving
  BY <1>4 DEF Serving
<1>6. plan \in Seq(Op)
  BY <1>5, PlanTypes DEF PlanOf
<1>7. /\ u \in Tx /\ u.plan = plan
      /\ u.kind = t.kind /\ u.hook = t.hook /\ u.svc = t.svc /\ u.fresh = t.fresh
      /\ u.expire = t.expire /\ u.notes = t.notes
      /\ u.wrote = t.wrote /\ u.rec = t.rec /\ u.qs = t.qs /\ u.status = t.status
  BY <1>1, <1>3, <1>6 DEF Tx
<1>8. /\ Head(plan) \in {"commit", "scan", "send", "responded"}
      /\ Head(plan) = "responded" => plan \in Led("responded")
  <2>1. \A P \in Led("responded") : Head(P) = "responded"
    BY Tails DEF Led
  <2>2. Head(<<"commit">>) = "commit" /\ Head(Asking) = "scan" /\ Head(<<"send", "commit">>) = "send"
    BY Tails DEF Asking
  <2> QED
    BY <1>4, <2>1, <2>2
<1>9. plan \notin Completing /\ plan # <<"lock", "send", "commit">>
  BY <1>8, Tails DEF Completing
<1>10. Asks(t, u)
  BY <1>1, <1>7, <1>9 DEF Asks
<1>11. (\E e \in Event : plan = <<e, "send", "commit">>) => ~AsksText(u)
  <2>1. \A e \in Event : Head(<<e, "send", "commit">>) = e /\ e \notin {"commit", "scan", "send"}
    BY Tails DEF Event
  <2>2. ASSUME NEW e \in Event, plan = <<e, "send", "commit">> PROVE e = "responded"
    BY <1>8, <2>1, <2>2
  <2> QED
    BY <1>1, <1>4, <1>7, <2>2 DEF AsksText
<1>12. plan = <<"send", "commit">> => ~AsksText(u)
  BY <1>1, <1>4, <1>7 DEF AsksText
<1> HIDE DEF u
<1>13. /\ u.plan \in Serving /\ u.plan # <<"lock", "send", "commit">>
       /\ u.plan \in Led("responded") => u.kind = "tap"
       /\ u.plan = <<"send", "commit">> => ~AsksText(u)
       /\ (\E e \in Event : u.plan = <<e, "send", "commit">>) => ~AsksText(u)
  BY <1>5, <1>7, <1>9, <1>11, <1>12
<1>14. Kinds(u) /\ Sane(u) /\ Backed(u, L)
  BY <1>7, <1>10, <1>13, Serves
<1> QED
  BY <1>7, <1>14 DEF u

LEMMA RouteTextStep ==
  ASSUME IInv, NEW p \in Proc, RouteText(p)
  PROVE  IInv'
<1> DEFINE t == tx[p]
           L == locks[p]
           W == Awaiting(p)
<1>1. /\ t.plan # << >> /\ Head(t.plan) = "lock" /\ ~t.fresh /\ UNCHANGED <<dbVars, locks, metaVars>>
  BY DEF RouteText, At
<1>2. /\ t \in Tx /\ Kinds(t) /\ Sane(t) /\ locks \in [Proc -> SUBSET Locks] /\ L \in SUBSET Locks
      /\ EndsTold(t, L) /\ TurnTold(t, L)
  BY Facts
<1>3. /\ IsSearching(t) /\ t.plan = <<"lock", "commit">>
      /\ t.kind \in {"text", "quote"} /\ t.hook \in Hook /\ t.svc = NoService /\ t.wrote = {} /\ t.rec = 0
      /\ t.out = {} /\ t.expire = {} /\ Silent(t, {}) /\ NoService \notin Service
  <2>1. ~IsServing(t)
    BY <1>1 DEF IsServing
  <2> QED
    BY <1>1, <1>2, <2>1, Heads, ConstantsAssumption DEF IsSearching
<1>4. ~(Head(t.plan) \in Terminal)
  BY <1>1 DEF Terminal
<1>5. locks' = [locks EXCEPT ![p] = L] /\ MetaType' /\ \A l \in L \ locks[p] : Free(p, l)
  BY <1>1, <1>2, SameMeta
<1>6. ASSUME tx' = [tx EXCEPT ![p] = Advance(Linked(t, NoService))]
      PROVE  IInv'
  <2> DEFINE x == Linked(t, NoService)
             u == Advance(x)
  <2>1. /\ x \in Tx /\ x.svc = NoService /\ x.fresh /\ ~x.linked /\ x.plan = t.plan /\ x.kind = t.kind
        /\ x.hook = t.hook /\ x.wrote = {} /\ x.rec = 0 /\ x.out = {} /\ x.expire = {}
        /\ x.notes = t.notes /\ x.qs = t.qs /\ x.status = t.status
    BY <1>2, <1>3, ZenonT(30) DEF Linked, Tx
  <2> HIDE DEF x
  <2>2. x.plan # << >> /\ Tail(x.plan) = <<"commit">> /\ <<"commit">> # << >> /\ Head(<<"commit">>) = "commit"
    BY <1>3, <2>1, Tails
  <2>3. /\ u \in Tx /\ Kept(x, u) /\ u.plan = <<"commit">> /\ u.expire = x.expire
        /\ u.notes = x.notes /\ u.status = x.status /\ u.wrote = x.wrote
    BY <2>1, <2>2, Advanced
  <2> HIDE DEF u
  <2>4. /\ u.svc = NoService /\ u.fresh /\ ~u.linked /\ u.kind = t.kind /\ u.hook = t.hook
        /\ u.rec = 0 /\ u.out = {} /\ u.qs = t.qs /\ u.wrote = {} /\ u.expire = {} /\ u.notes = t.notes
    BY <2>1, <2>3 DEF Kept
  <2>5. Kinds(u)
    <3>1. u.plan \in Serving /\ u.plan \notin Led("responded")
      BY <2>3, Tails DEF Serving, Led
    <3>2. Silent(u, u.expire \cup {u.svc})
      BY <1>3, <2>4 DEF Silent
    <3> QED
      BY <1>3, <2>3, <2>4, <3>1, <3>2 DEF Kinds, IsServing, Inbound
  <2>6. Sane(u)
    BY <1>2, <1>3, <2>2, <2>3, <2>4 DEF Sane
  <2>7. Order(u, L)
    BY <1>3, <2>2, <2>3, <2>4 DEF Order, Receipt
  <2>8. EndsTold(u, L) /\ TurnTold(u, L)
    BY <1>2, <1>3, <1>4, <2>1, <2>3, <2>4, StillTold
  <2>9. Answers(u) /\ Alone(u, L)
    <3>1. u.plan # <<"lock", "send", "commit">> /\ u.plan # <<"send", "commit">>
      BY <2>3, Tails
    <3> QED
      BY <1>3, <2>4, <3>1, NotAsking DEF Answers
  <2> HIDE DEF L
  <2>10. Backed(u, L)
    BY <2>7, <2>8, <2>9 DEF Backed
  <2>11. tx' = [tx EXCEPT ![p] = u]
    BY <1>6 DEF u, x
  <2> QED
    BY <1>1, <1>2, <1>5, <2>3, <2>5, <2>6, <2>10, <2>11, WorkStep
<1>7. ASSUME NEW s \in W,
             tx' = [tx EXCEPT ![p] = Answering(Load(Linked(Superseding(p, W \ {s}), s), s))]
      PROVE  IInv'
  <2> DEFINE v == Superseding(p, W \ {s})
             y == Linked(v, s)
             z == Load(y, s)
             u == Answering(z)
  <2>1. s \in Service /\ status[s] = "in_progress" /\ s # NoService /\ W \ {s} \in SUBSET W
    BY <1>3 DEF Awaiting
  <2>2. Silent(t, t.expire \cup {t.svc})
    BY <1>3 DEF Silent
  <2>3. /\ v \in Tx /\ Kept(t, v) /\ v.plan = t.plan /\ v.targets = t.targets
        /\ v.status = t.status /\ v.wrote = t.wrote /\ v.expire = t.expire \cup (W \ {s})
        /\ Silent(v, v.expire \cup {v.svc})
        /\ EndsTold(v, L) /\ TurnTold(v, L)
    BY <1>1, <1>4, <2>1, <2>2, Superseded
  <2>4. /\ v.kind = t.kind /\ v.hook = t.hook /\ v.svc = NoService /\ v.rec = 0 /\ v.wrote = {}
        /\ s \notin v.expire
    BY <1>3, <2>3 DEF Kept
  <2> HIDE DEF v
  <2>5. /\ y \in Tx /\ y.svc = s /\ y.fresh /\ y.kind = t.kind /\ y.hook = t.hook /\ y.wrote = {}
        /\ y.rec = 0 /\ y.expire = v.expire /\ y.notes = v.notes
    BY <2>1, <2>3, <2>4 DEF Linked, Tx
  <2> HIDE DEF y
  <2>6. form[s] \in Form /\ status[s] \in Status
    BY <2>1, Types DEF IInv, DbType
  <2>7. /\ z \in Tx /\ z.svc = s /\ z.fresh /\ z.kind = t.kind /\ z.hook = t.hook /\ z.wrote = {}
        /\ z.rec = 0 /\ z.expire = v.expire /\ z.notes = v.notes
        /\ z.status = status[s] /\ z.qs = form[s]
    BY <2>5, <2>6 DEF Load, Tx
  <2> HIDE DEF z
  <2>8. Silent(z, z.expire)
    BY <1>3, <2>3, <2>4, <2>7 DEF Silent
  <2>9. EndsTold(z, L)
    <3> SUFFICES ASSUME NEW x \in Service PROVE EndTold(z, L, x)
      BY DEF EndsTold
    <3>1. EndTold(v, L, x) /\ x # v.svc
      BY <1>3, <2>3, <2>4 DEF EndsTold
    <3>2. (Ending(v, x) <=> x \in v.expire) /\ (Ending(z, x) <=> x \in v.expire)
      BY <2>4, <2>7 DEF Ending
    <3>3. z.status \notin Terminal
      BY <2>1, <2>7 DEF Terminal
    <3> QED
      BY <2>7, <3>1, <3>2, <3>3 DEF EndTold
  <2>10. TurnTold(z, L)
    BY <2>3, <2>7 DEF TurnTold
  <2>11. Loaded(z, s, L)
    BY <1>3, <2>1, <2>4, <2>7, <2>8, <2>9, <2>10 DEF Loaded, Inbound
  <2> HIDE DEF L
  <2>12. u \in Tx /\ Kinds(u) /\ Sane(u) /\ Backed(u, L)
    BY <2>11, AnsweringServes
  <2>13. tx' = [tx EXCEPT ![p] = u]
    BY <1>7 DEF u, z, y, v
  <2> HIDE DEF u
  <2> QED
    BY <1>1, <1>2, <1>5, <2>12, <2>13, WorkStep
<1>8. \/ tx' = [tx EXCEPT ![p] = Advance(Linked(t, NoService))]
      \/ \E s \in W : tx' = [tx EXCEPT ![p] = Answering(Load(Linked(Superseding(p, W \ {s}), s), s))]
  BY <1>2 DEF RouteText
<1> QED
  BY <1>6, <1>7, <1>8

\* What a new transaction has read, and nothing more.
LEMMA LoadedNew ==
  ASSUME IInv, NEW t \in Tx, NEW s \in Service, t.svc = s, t.kind \in Inbound, t.hook \in Hook, t.fresh,
         t.wrote = {}, t.rec = 0, t.expire = {}, Silent(t, {}),
         t.status = status[s], t.qs = form[s]
  PROVE  Loaded(t, s, {})
<1>1. s \in Subscribed /\ status[s] \in Terminal => Has(notified[s], Terminal)
  BY DEF IInv, Db
<1>2. EndsTold(t, {}) /\ TurnTold(t, {})
  BY <1>1, Untold
<1>3. Silent(t, t.expire)
  OBVIOUS
<1> QED
  BY <1>2, <1>3 DEF Loaded

LEMMA RoutedStarts ==
  ASSUME IInv, NEW e \in Hook, NEW k \in Inbound, NEW n \in Nat, NEW s \in Service \cup {NoService}
  PROVE  LET u == Routed([NoTx EXCEPT !.kind = k, !.hook = e, !.seq = n], s) IN
         u \in Tx /\ Kinds(u) /\ Sane(u) /\ Backed(u, {})
<1> DEFINE t == [NoTx EXCEPT !.kind = k, !.hook = e, !.seq = n]
           u == Routed(t, s)
<1>1. t \in Tx
  BY NoTxType DEF Tx
<1>2. /\ t.kind = k /\ t.hook = e /\ t.svc = NoService /\ t.wrote = {} /\ t.rec = 0 /\ t.out = {}
      /\ t.expire = {} /\ ~t.fresh /\ ~t.linked /\ t.notes = NoTx.notes /\ t.qs = NoTx.qs
      /\ t.status = "in_progress"
  BY NoTxType DEF Tx
<1> HIDE DEF t
<1>3. Silent(t, {}) /\ NoService \notin Service /\ NoService \notin Subscribed /\ Focused(t.qs)
  BY <1>2, NoTxType, ConstantsAssumption DEF Silent
<1>4. k \in {"tap", "reply", "quote", "text"}
  BY DEF Inbound
<1>5. ASSUME s = NoService, k \in {"text", "quote"}
      PROVE  u \in Tx /\ Kinds(u) /\ Sane(u) /\ Backed(u, {})
  <2> DEFINE x == [t EXCEPT !.plan = <<"scan", "lock", "commit">>]
  <2>1. u = x
    BY <1>2, <1>5 DEF Routed
  <2>2. <<"scan", "lock", "commit">> \in Seq(Op) /\ <<"scan", "lock", "commit">> # << >>
        /\ Head(<<"scan", "lock", "commit">>) = "scan"
    BY PlanTypes, Tails DEF PlanOf
  <2>3. x \in Tx
    BY <1>1, <2>2 DEF Tx
  <2>4. /\ x.plan = <<"scan", "lock", "commit">> /\ x.kind = k /\ x.hook = e /\ x.svc = NoService
        /\ x.wrote = {} /\ x.rec = 0 /\ x.out = {} /\ x.expire = {} /\ ~x.fresh /\ ~x.linked
        /\ x.notes = t.notes /\ x.qs = t.qs /\ x.status = "in_progress"
    BY <1>1, <1>2 DEF Tx
  <2> HIDE DEF x
  <2>5. Silent(x, {})
    BY <1>3, <2>4 DEF Silent
  <2>6. Kinds(x)
    BY <1>5, <2>4, <2>5 DEF Kinds, IsSearching
  <2>7. Sane(x)
    BY <1>3, <2>2, <2>4 DEF Sane
  <2>8. Order(x, {})
    BY <1>5, <2>2, <2>4 DEF Order, Receipt
  <2>9. EndsTold(x, {}) /\ TurnTold(x, {})
    BY <1>3, <2>4, <2>5, Untold
  <2>10. Answers(x) /\ Alone(x, {})
    <3>1. x.plan # <<"lock", "send", "commit">> /\ x.plan # <<"send", "commit">>
      BY <2>4, Tails
    <3> QED
      BY <1>3, <2>4, <3>1, NotAsking DEF Answers
  <2> QED
    BY <2>1, <2>3, <2>6, <2>7, <2>8, <2>9, <2>10 DEF Backed
<1>6. ASSUME s = NoService, k \in {"tap", "reply"}
      PROVE  u \in Tx /\ Kinds(u) /\ Sane(u) /\ Backed(u, {})
  <2> DEFINE y == Linked(t, NoService)
             x == [y EXCEPT !.plan = <<"commit">>]
  <2>1. u = x
    BY <1>2, <1>6 DEF Routed
  <2>2. /\ y \in Tx /\ y.kind = k /\ y.hook = e /\ y.svc = NoService
        /\ y.wrote = {} /\ y.rec = 0 /\ y.out = {} /\ y.expire = {} /\ y.fresh /\ ~y.linked
        /\ y.notes = t.notes /\ y.qs = t.qs /\ y.status = "in_progress"
    BY <1>1, <1>2 DEF Linked, Tx
  <2> HIDE DEF y
  <2>3. /\ <<"commit">> \in Serving /\ <<"commit">> # << >> /\ Head(<<"commit">>) = "commit"
        /\ <<"commit">> \notin Led("responded")
    BY Tails DEF Serving, Led
  <2>4. <<"commit">> \in Seq(Op)
    BY <2>3, PlanTypes DEF PlanOf
  <2>5. x \in Tx
    BY <2>2, <2>4 DEF Tx
  <2>6. /\ x.plan = <<"commit">> /\ x.kind = k /\ x.hook = e /\ x.svc = NoService
        /\ x.wrote = {} /\ x.rec = 0 /\ x.out = {} /\ x.expire = {} /\ x.fresh /\ ~x.linked
        /\ x.notes = t.notes /\ x.qs = t.qs /\ x.status = "in_progress"
    BY <2>2 DEF Tx
  <2> HIDE DEF x
  <2>7. Silent(x, {}) /\ Silent(x, x.expire \cup {x.svc})
    BY <1>3, <2>6 DEF Silent
  <2>8. Kinds(x)
    BY <1>6, <2>3, <2>6, <2>7 DEF Kinds, IsServing, Inbound
  <2>9. Sane(x)
    BY <1>3, <2>3, <2>6 DEF Sane
  <2>10. Order(x, {})
    BY <1>6, <2>3, <2>6 DEF Order, Receipt
  <2>11. EndsTold(x, {}) /\ TurnTold(x, {})
    BY <1>3, <2>6, <2>7, Untold
  <2>12. Answers(x) /\ Alone(x, {})
    <3>1. x.plan # <<"lock", "send", "commit">> /\ x.plan # <<"send", "commit">>
      BY <2>6, Tails
    <3> QED
      BY <1>3, <2>6, <3>1, NotAsking DEF Answers
  <2> QED
    BY <2>1, <2>5, <2>8, <2>9, <2>10, <2>11, <2>12 DEF Backed
<1>7. ASSUME s # NoService
      PROVE  u \in Tx /\ Kinds(u) /\ Sane(u) /\ Backed(u, {})
  <2> DEFINE y == Linked(t, s)
             x == Load(y, s)
  <2>1. s \in Service /\ form[s] \in Form /\ status[s] \in Status
    BY <1>7, Types DEF IInv, DbType
  <2>2. /\ y \in Tx /\ y.kind = k /\ y.hook = e /\ y.svc = s /\ y.wrote = {} /\ y.rec = 0
        /\ y.expire = {} /\ y.fresh /\ y.notes = t.notes
    BY <1>1, <1>2, <2>1 DEF Linked, Tx
  <2> HIDE DEF y
  <2>3. /\ x \in Tx /\ x.kind = k /\ x.hook = e /\ x.svc = s /\ x.wrote = {} /\ x.rec = 0
        /\ x.expire = {} /\ x.fresh /\ x.notes = t.notes /\ x.status = status[s] /\ x.qs = form[s]
    BY <2>1, <2>2 DEF Load, Tx
  <2> HIDE DEF x
  <2>4. Silent(x, {})
    BY <1>3, <2>3 DEF Silent
  <2>5. Loaded(x, s, {})
    BY <2>1, <2>3, <2>4, LoadedNew
  <2>6. u = IF k = "tap" THEN Tapping(x) ELSE Answering(x)
    BY <1>2, <1>7 DEF Routed, x, y
  <2> HIDE DEF u
  <2>7. CASE k = "tap"
    BY <2>3, <2>5, <2>6, <2>7, TappingServes
  <2>8. CASE k # "tap"
    BY <2>5, <2>6, <2>8, AnsweringServes
  <2> QED
    BY <2>7, <2>8
<1> HIDE DEF u
<1>8. u \in Tx /\ Kinds(u) /\ Sane(u) /\ Backed(u, {})
  BY <1>4, <1>5, <1>6, <1>7
<1> QED
  BY <1>8 DEF u, t

LEMMA ReceiptStarts ==
  ASSUME IInv, NEW e \in Hook, NEW k \in Receipt, NEW n \in Nat, NEW s \in Service,
         NEW u, NEW t, t = Load([NoTx EXCEPT !.kind = k, !.hook = e, !.svc = s,
                                             !.seq = n, !.plan = <<k, "commit">>], s),
         u = IF k = "failed" /\ t.status = "in_progress"
             THEN [t EXCEPT !.status = "failed", !.wrote = {"status"}] ELSE t
  PROVE  u \in Tx /\ Kinds(u) /\ Sane(u) /\ Backed(u, {})
<1> DEFINE y == [NoTx EXCEPT !.kind = k, !.hook = e, !.svc = s, !.seq = n, !.plan = <<k, "commit">>]
<1>1. /\ <<k, "commit">> \in Seq(Op) /\ <<k, "commit">> # << >> /\ Head(<<k, "commit">>) = k
      /\ k \in {"sent", "delivered", "read", "failed"} /\ <<k, "commit">> # <<"commit">>
  BY PlanTypes, Tails DEF PlanOf, Receipt
<1>2. y \in Tx
  BY <1>1, NoTxType DEF Tx
<1>3. /\ y.kind = k /\ y.hook = e /\ y.svc = s /\ y.plan = <<k, "commit">> /\ y.wrote = {} /\ y.rec = 0
      /\ y.out = {} /\ y.expire = {} /\ ~y.fresh /\ ~y.linked /\ y.notes = NoTx.notes
  BY NoTxType DEF Tx
<1>4. t = Load(y, s)
  OBVIOUS
<1> HIDE DEF y
<1>5. /\ form[s] \in Form /\ status[s] \in Status /\ form[s].answered <= Len(Questions[s])
      /\ Focused(form[s]) /\ \A q \in 1..form[s].answered : Answered(s, q)
      /\ s \in Subscribed => (status[s] \in Terminal <=> Has(notified[s], Terminal))
  BY Types DEF IInv, DbType, Db
<1>60. t = [y EXCEPT !.status = status[s], !.qs = form[s]]
  BY <1>4 DEF Load
<1>61. t \in Tx
  BY <1>2, <1>5, <1>60 DEF Tx
<1>62. /\ t.kind = y.kind /\ t.hook = y.hook /\ t.svc = y.svc /\ t.plan = y.plan /\ t.wrote = y.wrote
       /\ t.rec = y.rec /\ t.out = y.out /\ t.expire = y.expire /\ t.fresh = y.fresh
       /\ t.linked = y.linked /\ t.notes = y.notes /\ t.status = status[s] /\ t.qs = form[s]
  BY <1>2, <1>60 DEF Tx
<1>6. /\ t \in Tx /\ t.kind = k /\ t.hook = e /\ t.svc = s /\ t.plan = <<k, "commit">> /\ t.wrote = {}
      /\ t.rec = 0 /\ t.out = {} /\ t.expire = {} /\ ~t.fresh /\ ~t.linked /\ t.notes = NoTx.notes
      /\ t.status = status[s] /\ t.qs = form[s]
  BY <1>3, <1>61, <1>62
<1>7. /\ u \in Tx /\ u.kind = k /\ u.hook = e /\ u.svc = s /\ u.plan = <<k, "commit">>
      /\ u.rec = 0 /\ u.out = {} /\ u.expire = {} /\ ~u.fresh /\ ~u.linked /\ u.notes = NoTx.notes
      /\ u.qs = form[s]
      /\ \/ u.wrote = {} /\ u.status = status[s] /\ (k = "failed" => status[s] \in Terminal)
         \/ u.wrote = {"status"} /\ u.status = "failed" /\ k = "failed"
  <2>1. CASE k = "failed" /\ t.status = "in_progress"
    <3>1. "failed" \in Status /\ {"status"} \in SUBSET {"status", "questions"}
      BY DEF Status, Terminal
    <3>2. u = [t EXCEPT !.status = "failed", !.wrote = {"status"}]
      BY <2>1
    <3>3. u \in Tx
      BY <1>6, <3>1, <3>2, ZenonT(30) DEF Tx
    <3> QED
      BY <1>6, <2>1, <3>2, <3>3 DEF Tx
  <2>2. CASE ~(k = "failed" /\ t.status = "in_progress")
    BY <1>5, <1>6, <2>2 DEF Status
  <2> QED
    BY <2>1, <2>2
<1>8. Silent(u, {}) /\ Silent(u, {u.svc})
  BY <1>7, NoTxType DEF Silent
<1>9. Kinds(u)
  BY <1>1, <1>7, <1>8 DEF Kinds, IsReceipt
<1>10. u.plan \notin Completing /\ \A x \in Event : u.plan # <<x, "send", "commit">>
  <2>1. \A P \in Completing : Head(P) \in {"completed", "answered"}
    BY Tails DEF Completing
  <2>2. \A x : <<x, "send", "commit">> # <<k, "commit">>
    OBVIOUS
  <2> QED
    BY <1>1, <1>7, <2>1, <2>2
<1>11. Sane(u)
  BY <1>1, <1>5, <1>7, <1>10 DEF Sane, Terminal
<1>12. Order(u, {})
  <2>1. InOrder(u, {})
    BY DEF InOrder
  <2> QED
    BY <1>1, <1>7, <2>1 DEF Order
<1>13. EndsTold(u, {}) /\ TurnTold(u, {})
  <2>1. "status" \in u.wrote => u.plan # << >> /\ Head(u.plan) \in Terminal
    BY <1>1, <1>7 DEF Terminal
  <2>2. u.svc \in Subscribed /\ u.status \in Terminal /\ "status" \notin u.wrote
            => Has(notified[u.svc], Terminal)
    BY <1>5, <1>7
  <2> QED
    BY <1>7, <1>8, <2>1, <2>2, Untold
<1>14. Answers(u)
  BY <1>5, <1>7 DEF Answers
<1>15. Alone(u, {})
  <2>1. u.plan # <<"lock", "send", "commit">> /\ u.plan # <<"send", "commit">>
    BY <1>1, <1>7, Tails
  <2> QED
    BY <1>7, <2>1, NotAsking
<1> QED
  BY <1>7, <1>9, <1>11, <1>12, <1>13, <1>14, <1>15 DEF Backed

LEMMA DeliverStep ==
  ASSUME IInv, NEW p \in Worker, NEW e \in Hook, NEW c \in Contents, Deliver(p, e, c)
  PROVE  IInv'
<1>1. /\ Idle(p) /\ CanArrive(c) /\ UNCHANGED <<dbVars, locks, orphans, overdue, lost>>
      /\ content' = [h \in DOMAIN content \cup {e} |-> IF h = e THEN c ELSE content[h]]
      /\ deliveries' = deliveries + 1
  BY DEF Deliver
<1>2. PICK known \in BOOLEAN :
        /\ known => <<c.svc, c.seq>> \in asked
        /\ IF c.kind \in Receipt THEN Receive(p, e, c, known)
           ELSE \E up \in Redis : Inbox(p, e, c, known, up)
  BY DEF Deliver
<1>3. p \in Proc /\ tx[p] = NoTx /\ locks[p] = {} /\ tx \in [Proc -> Tx]
      /\ locks \in [Proc -> SUBSET Locks]
  <2>1. p \in Proc
    BY DEF Proc
  <2> QED
    BY <1>1, <2>1, Idling, Facts
<1>4. c.kind \in Inbound \cup Receipt /\ c.seq \in Nat
  <2>1. CASE c = [kind |-> "text", svc |-> NoService, seq |-> 0]
    BY <2>1 DEF Inbound
  <2>2. CASE \E s \in Service : c \in [kind : (Inbound \cup Receipt) \ {"text"}, svc : {s},
                                       seq : 0..Len(Questions[s])]
    BY <2>2
  <2> QED
    BY <2>1, <2>2 DEF Contents
<1>5. known => c.svc \in Service
  BY <1>2, Types DEF IInv, DbType
<1>6. MetaType'
  <2>1. MetaType
    BY Types DEF IInv
  <2>2. seen' \subseteq Hook
    BY <1>2, <2>1 DEF MetaType, Receive, Inbox
  <2>3. DOMAIN content' \subseteq Hook /\ Range(content') \subseteq Contents
    <3>1. DOMAIN content' = DOMAIN content \cup {e}
      BY <1>1
    <3>2. \A h \in DOMAIN content' : content'[h] \in Contents
      <4> TAKE h \in DOMAIN content'
      <4>1. CASE h = e
        BY <1>1, <4>1
      <4>2. CASE h # e
        BY <1>1, <2>1, <4>2 DEF MetaType, Range
      <4> QED
        BY <4>1, <4>2
    <3> QED
      BY <2>1, <3>1, <3>2 DEF MetaType, Range
  <2>4. deliveries' \in Nat
    BY <1>1, <2>1 DEF MetaType
  <2> QED
    BY <1>1, <2>1, <2>2, <2>3, <2>4 DEF MetaType
<1>7. CASE tx' = tx
  BY <1>1, <1>6, <1>7, IdleStep
<1>8. ASSUME NEW u \in Tx, tx' = [tx EXCEPT ![p] = u], Kinds(u), Sane(u), Backed(u, {})
      PROVE  IInv'
  <2> DEFINE M == {}
  <2>1. locks' = [locks EXCEPT ![p] = M] /\ M \in SUBSET Locks
    BY <1>1, <1>3
  <2>2. \A l \in M \ locks[p] : Free(p, l)
    OBVIOUS
  <2>3. Backed(u, M)
    BY <1>8
  <2> HIDE DEF M
  <2> QED
    BY <1>1, <1>3, <1>6, <1>8, <2>1, <2>2, <2>3, WorkStep
<1>9. CASE c.kind \in Receipt
  <2>1. Receive(p, e, c, known)
    BY <1>2, <1>9
  <2>2. CASE ~known
    BY <1>7, <2>1, <2>2 DEF Receive
  <2>3. CASE known
    <3> DEFINE t == Load([NoTx EXCEPT !.kind = c.kind, !.hook = e, !.svc = c.svc,
                             !.seq = c.seq, !.plan = <<c.kind, "commit">>], c.svc)
               u == IF c.kind = "failed" /\ t.status = "in_progress"
                    THEN [t EXCEPT !.status = "failed", !.wrote = {"status"}] ELSE t
    <3>1. tx' = [tx EXCEPT ![p] = u]
      BY <2>1, <2>3 DEF Receive
    <3> HIDE DEF u, t
    <3>2. u \in Tx /\ Kinds(u) /\ Sane(u) /\ Backed(u, {})
      BY <1>4, <1>5, <1>9, <2>3, ReceiptStarts DEF u, t
    <3> QED
      BY <1>8, <3>1, <3>2
  <2> QED
    BY <2>2, <2>3
<1>10. CASE c.kind \notin Receipt
  <2>1. PICK up \in Redis : Inbox(p, e, c, known, up)
    BY <1>2, <1>10
  <2> DEFINE s == IF known THEN c.svc ELSE NoService
             u == Routed([NoTx EXCEPT !.kind = c.kind, !.hook = e, !.seq = c.seq], s)
  <2>2. tx' = tx \/ tx' = [tx EXCEPT ![p] = u]
    BY <2>1 DEF Inbox
  <2>3. s \in Service \cup {NoService} /\ c.kind \in Inbound
    BY <1>4, <1>5, <1>10
  <2> HIDE DEF s
  <2>4. u \in Tx /\ Kinds(u) /\ Sane(u) /\ Backed(u, {})
    BY <1>4, <2>3, RoutedStarts
  <2> HIDE DEF u
  <2> QED
    BY <1>7, <1>8, <2>2, <2>4
<1> QED
  BY <1>9, <1>10

-----------------------------------------------------------------------------
(* The end of a transaction.                                               *)

\* p has ended.  The others go on in the state that it leaves.
LEMMA EndStep ==
  ASSUME IInv, NEW p \in Proc, tx' = [tx EXCEPT ![p] = NoTx], locks' = [locks EXCEPT ![p] = {}],
         DbType', MetaType', Db',
         \A o \in Proc \ {p} : Backed(tx[o], locks[o]) => Backed(tx[o], locks[o])'
  PROVE  IInv'
<1> DEFINE M == {}
<1>1. tx \in [Proc -> Tx] /\ locks \in [Proc -> SUBSET Locks] /\ Exclusion
  BY Types DEF IInv
<1>2. NoTx \in Tx
  BY NoTxType
<1>3. Exclusion'
  <2>1. M \in SUBSET Locks /\ \A l \in M \ locks[p] : Free(p, l)
    OBVIOUS
  <2>2. locks' = [locks EXCEPT ![p] = M]
    OBVIOUS
  <2> HIDE DEF M
  <2> QED
    BY <1>1, <2>1, <2>2, Granted
<1>4. TypeOK'
  <2>1. tx' \in [Proc -> Tx] /\ locks' \in [Proc -> SUBSET Locks]
    BY <1>1, <1>2
  <2> QED
    BY <2>1, TypesNext
<1>5. Kinds(NoTx) /\ Sane(NoTx)
  <2>1. NoTx.svc \notin Service
    BY NoTxType, ConstantsAssumption
  <2> QED
    BY <2>1, NoTxType DEF Kinds, Sane
<1>6. (Backed(NoTx, {}))'
  <2>1. NoTx.svc \notin Service /\ NoTx.svc \notin Subscribed
    BY NoTxType, ConstantsAssumption
  <2>2. Order(NoTx, {})
    BY NoTxType DEF Order, Receipt
  <2>3. \A s \in Service : NoTx.notes[s] = << >> /\ ~Ending(NoTx, s)
    BY <2>1, NoTxType DEF Ending
  <2>4. (EndsTold(NoTx, {}))' /\ (TurnTold(NoTx, {}))'
    BY <2>1, <2>3, NothingTold DEF EndsTold, EndTold, TurnTold
  <2>5. (Answers(NoTx))'
    BY <2>1 DEF Answers
  <2>6. (Alone(NoTx, {}))'
    <3>1. NoTx.plan # <<"lock", "send", "commit">>
      BY NoTxType, Tails
    <3> QED
      BY <2>1, <3>1 DEF Alone
  <2> QED
    BY <2>2, <2>4, <2>5, <2>6 DEF Backed
<1>7. ASSUME NEW o \in Proc
      PROVE  Kinds(tx[o])' /\ Sane(tx[o])' /\ Backed(tx[o], locks[o])'
  <2>1. CASE o = p
    <3>1. tx'[o] = NoTx /\ locks'[o] = {}
      BY <1>1, <2>1
    <3> QED
      BY <1>5, <1>6, <3>1
  <2>2. CASE o # p
    <3>1. tx'[o] = tx[o]
      BY <1>1, <2>2
    <3>2. Kinds(tx[o]) /\ Sane(tx[o]) /\ Backed(tx[o], locks[o])
      BY DEF IInv
    <3> QED
      BY <2>2, <3>1, <3>2
  <2> QED
    BY <2>1, <2>2
<1> QED
  BY <1>3, <1>4, <1>7 DEF IInv

\* What is written is written for a service of the conversation.
LEMMA Writers ==
  ASSUME NEW t \in Tx, Kinds(t)
  PROVE  /\ t.out # {} \/ t.kind = "template" \/ t.rec # 0 \/ t.wrote # {} => t.svc \in Service
         /\ t.rec # 0 => t.kind \in Inbound
         /\ t.fresh => t.hook \in Hook
         /\ "questions" \in t.wrote => IsServing(t)
<1>1. t.svc # NoService => t.svc \in Service
  BY DEF Tx
<1>2. CASE t = NoTx
  BY <1>2, NoTxType
<1>3. CASE IsSearching(t)
  <2>1. t.kind \in {"text", "quote"} /\ ~t.fresh /\ t.wrote = {} /\ t.rec = 0 /\ t.out = {}
    BY <1>3 DEF IsSearching
  <2> QED
    BY <2>1
<1>4. CASE IsServing(t)
  <2>1. /\ t.kind \in Inbound /\ t.hook \in Hook
        /\ t.svc = NoService => t.wrote = {} /\ t.rec = 0 /\ t.out = {}
    BY <1>4 DEF IsServing
  <2> QED
    BY <1>1, <1>4, <2>1 DEF Inbound
<1>5. CASE IsReceipt(t)
  <2>1. t.svc \in Service /\ t.wrote \subseteq {"status"} /\ t.rec = 0 /\ ~t.fresh
    BY <1>5 DEF IsReceipt
  <2> QED
    BY <2>1
<1>6. CASE IsSending(t)
  <2>1. t.svc \in Service /\ t.wrote \subseteq {"status"} /\ t.rec = 0 /\ ~t.fresh
    BY <1>6 DEF IsSending
  <2> QED
    BY <2>1
<1>7. CASE IsExpiring(t)
  <2>1. t.kind = "expiry" /\ t.wrote = {} /\ t.rec = 0 /\ t.out = {} /\ ~t.fresh
    BY <1>7 DEF IsExpiring
  <2> QED
    BY <2>1
<1> QED
  BY <1>2, <1>3, <1>4, <1>5, <1>6, <1>7 DEF Kinds

\* Nothing that a transaction did remains when it is rolled back.
LEMMA RollbackStep ==
  ASSUME IInv, NEW p \in Proc, Rollback(p),
         failedHooks' \subseteq failedHooks \cup ({tx[p].hook} \ {NoHook}),
         lost' \subseteq lost \cup ({tx[p].hook} \ {NoHook})
  PROVE  IInv'
<1> DEFINE t == tx[p]
<1>1. /\ UNCHANGED <<status, templateSent, form, queued, responses, asked, recency, stored, notified>>
      /\ UNCHANGED <<seen, content, deliveries, overdue>>
      /\ tx' = [tx EXCEPT ![p] = NoTx] /\ locks' = [locks EXCEPT ![p] = {}]
      /\ orphans' = orphans \cup {<<t.svc, q>> : q \in t.out}
      /\ failedHooks' \subseteq failedHooks \cup ({t.hook} \ {NoHook})
      /\ lost' \subseteq lost \cup ({t.hook} \ {NoHook})
  BY DEF Rollback
<1>2. t \in Tx /\ Kinds(t) /\ DbType /\ MetaType /\ Db /\ locks \in [Proc -> SUBSET Locks]
      /\ tx \in [Proc -> Tx]
  BY Facts, Types DEF IInv
<1>3. t.out # {} => t.svc \in Service
  BY <1>2, Writers
<1>4. DbType'
  <2>1. t.hook \in Hook \cup {NoHook}
    BY <1>2 DEF Tx
  <2> QED
    BY <1>1, <1>2, <2>1 DEF DbType
<1>5. MetaType'
  <2>1. t.out \subseteq Nat
    BY <1>2 DEF Tx
  <2>2. {<<t.svc, q>> : q \in t.out} \subseteq Service \X Nat
    BY <1>3, <2>1
  <2>3. t.hook \in Hook \cup {NoHook}
    BY <1>2 DEF Tx
  <2> HIDE DEF t
  <2> QED
    BY <1>1, <1>2, <2>2, <2>3 DEF MetaType
<1>6. \A s, q : Answered(s, q) <=> Answered(s, q)'
  BY <1>1 DEF Answered
<1>7. Db'
  <2>1. NoQuestionSkipped => NoQuestionSkipped'
    BY <1>1 DEF NoQuestionSkipped
  <2>2. CompletedHasAllAnswers => CompletedHasAllAnswers'
    BY <1>1 DEF CompletedHasAllAnswers
  <2>3. OneFreeTextOutstanding => OneFreeTextOutstanding'
    BY <1>1 DEF OneFreeTextOutstanding
  <2> QED
    BY <1>1, <1>2, <1>6, <2>1, <2>2, <2>3 DEF Db
<1>8. \A o \in Proc \ {p} : Backed(tx[o], locks[o]) => Backed(tx[o], locks[o])'
  <2> TAKE o \in Proc \ {p}
  <2>1. tx'[o] = tx[o] /\ locks'[o] = locks[o]
    BY <1>1, <1>2
  <2>2. \A x, L : EndsTold(x, L) => EndsTold(x, L)'
    BY <1>1 DEF EndsTold, EndTold
  <2>3. \A x, L : TurnTold(x, L) => TurnTold(x, L)'
    BY <1>1 DEF TurnTold
  <2>4. \A x, L : Alone(x, L) => Alone(x, L)'
    BY <1>1 DEF Alone, Rival
  <2>5. \A x : Answers(x) => Answers(x)'
    BY <1>6 DEF Answers
  <2> QED
    BY <2>1, <2>2, <2>3, <2>4, <2>5 DEF Backed
<1> QED
  BY <1>1, <1>4, <1>5, <1>7, <1>8, EndStep

LEMMA AbortStep ==
  ASSUME IInv, NEW p \in Proc, Abort(p)
  PROVE  IInv'
<1>1. /\ failedHooks' \subseteq failedHooks \cup ({tx[p].hook} \ {NoHook})
      /\ lost' \subseteq lost \cup ({tx[p].hook} \ {NoHook})
  BY DEF Abort
<1> QED
  BY <1>1, RollbackStep DEF Abort

LEMMA DieStep ==
  ASSUME IInv, NEW p \in Proc, Die(p)
  PROVE  IInv'
BY RollbackStep DEF Die

-----------------------------------------------------------------------------
(* Commits.                                                                *)

\* What p's commit leaves of each service: of its status, answers, and notes.
LEMMA Committed ==
  ASSUME IInv, NEW p \in Proc, Commit(p)
  PROVE  LET t == tx[p] IN
         /\ t.plan = <<"commit">> /\ UNCHANGED metaVars
         /\ tx' = [tx EXCEPT ![p] = NoTx] /\ locks' = [locks EXCEPT ![p] = {}]
         /\ \A s \in Service :
              /\ status'[s] \in Status
              /\ status'[s] \in Terminal <=> status[s] \in Terminal \/ Ending(t, s)
              /\ status'[s] = "completed" => \/ status[s] = "completed"
                                             \/ s = t.svc /\ "status" \in t.wrote /\ t.status = "completed"
              /\ form'[s] = IF s = t.svc /\ "questions" \in t.wrote THEN t.qs ELSE form[s]
              /\ responses'[s] = IF s = t.svc /\ t.rec # 0
                   THEN Append(responses[s], [seq |-> t.rec, via |-> t.kind]) ELSE responses[s]
              /\ notified'[s] = notified[s] \o t.notes[s]
<1> DEFINE t == tx[p]
<1>1. t \in Tx /\ Kinds(t) /\ Sane(t) /\ DbType
  BY Facts, Types DEF IInv
<1>2. t.plan # << >> /\ Head(t.plan) = "commit"
  BY DEF Commit, At
<1>3. t.plan = <<"commit">>
  BY <1>1, <1>2, Heads
<1>4. ASSUME NEW s \in Service
      PROVE  /\ status'[s] \in Status
             /\ status'[s] \in Terminal <=> status[s] \in Terminal \/ Ending(t, s)
             /\ status'[s] = "completed" => \/ status[s] = "completed"
                                            \/ s = t.svc /\ "status" \in t.wrote /\ t.status = "completed"
  <2>1. status'[s] = StatusAfter(t, s)
    BY DEF Commit
  <2>2. status[s] \in Status /\ t.status \in Status /\ ("status" \in t.wrote => t.status \in Terminal)
    BY <1>1 DEF DbType, Tx, Sane
  <2>3. "expired" \in Terminal /\ Terminal \subseteq Status /\ "expired" # "completed"
    BY DEF Terminal, Status
  <2> HIDE DEF t
  <2> QED
    BY <2>1, <2>2, <2>3 DEF StatusAfter, Ending
<1>5. ASSUME NEW s \in Service
      PROVE  /\ form'[s] = IF s = t.svc /\ "questions" \in t.wrote THEN t.qs ELSE form[s]
             /\ responses'[s] = IF s = t.svc /\ t.rec # 0
                   THEN Append(responses[s], [seq |-> t.rec, via |-> t.kind]) ELSE responses[s]
             /\ notified'[s] = notified[s] \o t.notes[s]
  BY DEF Commit
<1>6. /\ UNCHANGED metaVars
      /\ tx' = [tx EXCEPT ![p] = NoTx] /\ locks' = [locks EXCEPT ![p] = {}]
  BY DEF Commit
<1> QED
  BY <1>3, <1>4, <1>5, <1>6

\* The rows that p's commit writes have their types.
LEMMA CommitTypes ==
  ASSUME IInv, NEW p \in Proc, Commit(p)
  PROVE  DbType'
<1> DEFINE t == tx[p]
<1>1. t \in Tx /\ Kinds(t) /\ DbType
  BY Facts, Types DEF IInv
<1>2. /\ t.svc \in Service \cup {NoService} /\ t.qs \in Form /\ t.rec \in Nat /\ t.out \subseteq Nat
      /\ t.notes \in [Service -> Seq(Event)]
  BY <1>1 DEF Tx
<1>3. /\ t.out # {} \/ t.kind = "template" => t.svc \in Service
      /\ t.rec # 0 => t.kind \in Inbound
      /\ t.fresh => t.hook \in Hook
  BY <1>1, Writers
<1>4. status' \in [Service -> Status]
  <2>1. status' = [s \in Service |-> StatusAfter(t, s)]
    BY DEF Commit
  <2>2. \A s \in Service : status'[s] \in Status
    BY Committed
  <2> QED
    BY <2>1, <2>2
<1>5. templateSent' \subseteq Service
  <2>1. templateSent' = templateSent \cup (IF t.kind = "template" /\
                          (0 \in t.out \/ "status" \in t.wrote) THEN {t.svc} ELSE {})
    BY DEF Commit
  <2> HIDE DEF t
  <2> QED
    BY <1>1, <1>3, <2>1 DEF DbType
<1>6. queued' \subseteq Service
  <2>1. queued' \subseteq queued
    BY DEF Commit
  <2> QED
    BY <1>1, <2>1 DEF DbType
<1>7. form' \in [Service -> Form]
  <2>1. form' = [s \in Service |-> IF s = t.svc /\ "questions" \in t.wrote THEN t.qs ELSE form[s]]
    BY DEF Commit
  <2> HIDE DEF t
  <2> QED
    BY <1>1, <1>2, <2>1 DEF DbType
<1>8. responses' \in [Service -> Seq([seq : Nat, via : Inbound])]
  <2> DEFINE r == [seq |-> t.rec, via |-> t.kind]
             R == [seq : Nat, via : Inbound]
  <2>1. responses' = [s \in Service |-> IF s = t.svc /\ t.rec # 0
                        THEN Append(responses[s], r) ELSE responses[s]]
    BY DEF Commit
  <2>2. t.rec # 0 => r \in R
    BY <1>2, <1>3
  <2>3. \A s \in Service : responses[s] \in Seq(R)
    BY <1>1 DEF DbType
  <2> HIDE DEF t, r, R
  <2>4. \A s \in Service : t.rec # 0 => Append(responses[s], r) \in Seq(R)
    BY <2>2, <2>3
  <2>5. responses' \in [Service -> Seq(R)]
    BY <2>1, <2>3, <2>4
  <2> QED
    BY <2>5 DEF R
<1>9. asked' \subseteq Service \X Nat
  <2>1. asked' = asked \cup {<<t.svc, q>> : q \in t.out}
    BY DEF Commit
  <2> HIDE DEF t
  <2>2. {<<t.svc, q>> : q \in t.out} \subseteq Service \X Nat
    BY <1>2, <1>3
  <2> QED
    BY <1>1, <2>1, <2>2 DEF DbType
<1>10. recency' \subseteq Service \X Service
  <2>1. recency' = IF t.out = {} THEN recency
                   ELSE {r \in recency : r[2] # t.svc} \cup ({t.svc} \X (Service \ {t.svc}))
    BY DEF Commit
  <2> HIDE DEF t
  <2> QED
    BY <1>1, <1>3, <2>1 DEF DbType
<1>11. stored' \subseteq Hook /\ failedHooks' \subseteq Hook
  <2>1. stored' = (IF t.fresh THEN stored \cup {t.hook} ELSE stored) /\ failedHooks' = failedHooks
    BY DEF Commit
  <2> HIDE DEF t
  <2> QED
    BY <1>1, <1>3, <2>1 DEF DbType
<1>12. notified' \in [Service -> Seq(Event)]
  <2>1. notified' = [s \in Service |-> notified[s] \o t.notes[s]]
    BY DEF Commit
  <2>2. \A s \in Service : notified[s] \in Seq(Event) /\ t.notes[s] \in Seq(Event)
    BY <1>1, <1>2 DEF DbType
  <2> HIDE DEF t
  <2>3. \A s \in Service : notified[s] \o t.notes[s] \in Seq(Event)
    BY <2>2, JoinedNotes
  <2> QED
    BY <2>1, <2>3
<1> QED
  BY <1>4, <1>5, <1>6, <1>7, <1>8, <1>9, <1>10, <1>11, <1>12 DEF DbType

\* An answer that is recorded stays recorded, and p's own is from now on.
LEMMA CommitAnswers ==
  ASSUME IInv, NEW p \in Proc, Commit(p)
  PROVE  /\ \A s \in Service : \A q : Answered(s, q) => Answered(s, q)'
         /\ \A s \in Service : s = tx[p].svc => \A q \in 1..tx[p].qs.answered : Answered(s, q)'
<1> DEFINE t == tx[p]
<1>1. DbType /\ Answers(t) /\ t \in Tx
  BY Facts, Types DEF IInv
<1>2. ASSUME NEW s \in Service
      PROVE  /\ Len(responses[s]) \in Nat /\ DOMAIN responses[s] = 1..Len(responses[s])
             /\ \A i \in DOMAIN responses[s] : i \in DOMAIN responses'[s] /\ responses'[s][i] = responses[s][i]
             /\ s = t.svc /\ t.rec # 0 => /\ Len(responses[s]) + 1 \in DOMAIN responses'[s]
                                          /\ responses'[s][Len(responses[s]) + 1].seq = t.rec
  <2> DEFINE r == [seq |-> t.rec, via |-> t.kind]
             R == [seq : Nat, via : Inbound]
             n == responses[s]
  <2>1. n \in Seq(R) /\ r.seq = t.rec
    BY <1>1 DEF DbType
  <2>2. responses'[s] = IF s = t.svc /\ t.rec # 0 THEN Append(n, r) ELSE n
    BY Committed
  <2> HIDE DEF t, r, R, n
  <2>3. /\ Len(n) \in Nat /\ DOMAIN n = 1..Len(n)
        /\ DOMAIN Append(n, r) = 1..(Len(n) + 1) /\ Append(n, r)[Len(n) + 1] = r
        /\ \A i \in 1..Len(n) : Append(n, r)[i] = n[i]
    BY <2>1
  <2>4. DOMAIN n \subseteq DOMAIN Append(n, r) /\ Len(n) + 1 \in DOMAIN Append(n, r)
    BY <2>3
  <2>5. /\ Len(n) \in Nat /\ DOMAIN n = 1..Len(n)
        /\ \A i \in DOMAIN n : i \in DOMAIN responses'[s] /\ responses'[s][i] = n[i]
        /\ s = t.svc /\ t.rec # 0 => Len(n) + 1 \in DOMAIN responses'[s] /\ responses'[s][Len(n) + 1].seq = t.rec
    BY <2>1, <2>2, <2>3, <2>4
  <2> QED
    BY <2>5 DEF n
<1>3. ASSUME NEW s \in Service, NEW q, Answered(s, q)
      PROVE  Answered(s, q)'
  <2>1. PICK i \in DOMAIN responses[s] : responses[s][i].seq = q
    BY <1>3 DEF Answered
  <2>2. i \in DOMAIN responses'[s] /\ responses'[s][i].seq = q
    BY <1>2, <2>1
  <2> QED
    BY <2>2 DEF Answered
<1>4. ASSUME NEW s \in Service, s = t.svc, NEW q \in 1..t.qs.answered
      PROVE  Answered(s, q)'
  <2>1. CASE Answered(s, q)
    BY <1>3, <2>1
  <2>2. CASE ~Answered(s, q)
    <3>1. q = t.rec /\ q # 0
      BY <1>1, <1>4, <2>2 DEF Answers
    <3>2. Len(responses[s]) + 1 \in DOMAIN responses'[s]
          /\ responses'[s][Len(responses[s]) + 1].seq = q
      BY <1>2, <1>4, <3>1
    <3> QED
      BY <3>2 DEF Answered
  <2> QED
    BY <2>1, <2>2
<1> QED
  BY <1>3, <1>4

\* What p's commit leaves the database in.
LEMMA CommitDb ==
  ASSUME IInv, NEW p \in Proc, Commit(p)
  PROVE  Db'
<1> DEFINE t == tx[p]
<1>1. t \in Tx /\ Sane(t) /\ Answers(t) /\ EndsTold(t, locks[p]) /\ TurnTold(t, locks[p])
      /\ Alone(t, locks[p]) /\ DbType /\ Db
  BY Facts, Types DEF IInv
<1>2. t.plan # << >> /\ Head(t.plan) = "commit" /\ "commit" \notin Terminal
  BY DEF Commit, At, Terminal
<1>3. \A s \in Service : notified[s] \in Seq(Event) /\ t.notes[s] \in Seq(Event)
  BY <1>1 DEF DbType, Tx
<1>4. ASSUME NEW s \in Service
      PROVE  /\ form[s].answered <= Len(Questions[s]) /\ Focused(form[s])
             /\ \A q \in 1..form[s].answered : Answered(s, q)
             /\ AtMostOne(notified[s], Terminal) /\ AtMostOne(notified[s], {"responded"})
             /\ s \in Subscribed => (status[s] \in Terminal <=> Has(notified[s], Terminal))
  BY <1>1 DEF Db
<1>5. ASSUME NEW s \in Service
      PROVE  form'[s].answered <= Len(Questions[s]) /\ Focused(form'[s])
             /\ \A q \in 1..form'[s].answered : Answered(s, q)'
  <2>1. CASE s = t.svc /\ "questions" \in t.wrote
    <3>1. form'[s] = t.qs
      BY <2>1, Committed
    <3>2. t.qs.answered <= Len(Questions[s]) /\ Focused(t.qs)
      BY <1>1, <2>1 DEF Sane
    <3>3. \A q \in 1..t.qs.answered : Answered(s, q)'
      BY <2>1, CommitAnswers
    <3> QED
      BY <3>1, <3>2, <3>3
  <2>2. CASE ~(s = t.svc /\ "questions" \in t.wrote)
    <3>1. form'[s] = form[s]
      BY <2>2, Committed
    <3>2. \A q \in 1..form[s].answered : Answered(s, q)'
      BY <1>4, CommitAnswers
    <3> QED
      BY <1>4, <3>1, <3>2
  <2> QED
    BY <2>1, <2>2
<1>6. ASSUME NEW s \in Service
      PROVE  /\ AtMostOne(notified'[s], Terminal) /\ AtMostOne(notified'[s], {"responded"})
             /\ s \in Subscribed => (status'[s] \in Terminal <=> Has(notified'[s], Terminal))
  <2> DEFINE a == notified[s]
             b == t.notes[s]
  <2>1. notified'[s] = a \o b /\ (status'[s] \in Terminal <=> status[s] \in Terminal \/ Ending(t, s))
    BY Committed
  <2>2. EndTold(t, locks[p], s)
    BY <1>1 DEF EndsTold
  <2>3. /\ AtMostOne(b, Terminal) /\ (Has(b, Terminal) => ~Has(a, Terminal) /\ Ending(t, s))
        /\ s \in Subscribed /\ Ending(t, s) => Has(a, Terminal) \/ Has(b, Terminal)
    BY <1>2, <2>2 DEF EndTold
  <2>4. AtMostOne(b, {"responded"}) /\ (Has(b, {"responded"}) => ~Has(a, {"responded"}))
    BY <1>1 DEF TurnTold
  <2>5. a \in Seq(Event) /\ b \in Seq(Event)
    BY <1>3
  <2>6. /\ AtMostOne(a, Terminal) /\ AtMostOne(a, {"responded"})
        /\ s \in Subscribed => (status[s] \in Terminal <=> Has(a, Terminal))
    BY <1>4
  <2> HIDE DEF a, b, t
  <2>7. Has(a \o b, Terminal) <=> Has(a, Terminal) \/ Has(b, Terminal)
    BY <2>5, JoinedNotes
  <2>8. AtMostOne(a \o b, Terminal) /\ AtMostOne(a \o b, {"responded"})
    BY <2>3, <2>4, <2>5, <2>6, JoinedNotes
  <2> QED
    BY <2>1, <2>3, <2>6, <2>7, <2>8
<1>7. NoQuestionSkipped'
  <2> SUFFICES ASSUME NEW s \in Service, NEW i \in DOMAIN responses'[s],
                      NEW q \in 1..(responses'[s][i].seq - 1)
               PROVE  \E j \in 1..(i - 1) : responses'[s][j].seq = q
    BY DEF NoQuestionSkipped
  <2> DEFINE R == [seq : Nat, via : Inbound]
             r == [seq |-> t.rec, via |-> t.kind]
             n == responses[s]
  <2>1. n \in Seq(R) /\ r.seq = t.rec
    BY <1>1 DEF DbType
  <2>2. responses'[s] = IF s = t.svc /\ t.rec # 0 THEN Append(n, r) ELSE n
    BY Committed
  <2>3. NoQuestionSkipped
    BY <1>1 DEF Db
  <2>4. ASSUME NEW k \in DOMAIN n, NEW x \in 1..(n[k].seq - 1)
        PROVE  \E j \in 1..(k - 1) : n[j].seq = x
    BY <2>3 DEF NoQuestionSkipped
  <2>5. s = t.svc /\ t.rec # 0 => \A x \in 1..(t.rec - 1) : \E j \in DOMAIN n : n[j].seq = x
    <3> SUFFICES ASSUME s = t.svc, t.rec # 0, NEW x \in 1..(t.rec - 1)
                 PROVE  \E j \in DOMAIN n : n[j].seq = x
      OBVIOUS
    <3>1. t.rec = t.qs.answered /\ t.rec \in Nat
      BY <1>1 DEF Sane, Tx
    <3>2. x \in 1..t.qs.answered /\ x # t.rec
      BY <3>1
    <3> QED
      BY <1>1, <3>2 DEF Answers, Answered
  <2> HIDE DEF t, R, r, n
  <2>6. CASE ~(s = t.svc /\ t.rec # 0)
    BY <2>2, <2>4, <2>6
  <2>7. CASE s = t.svc /\ t.rec # 0
    <3>1. /\ Len(n) \in Nat /\ DOMAIN n = 1..Len(n)
          /\ DOMAIN Append(n, r) = 1..(Len(n) + 1) /\ Append(n, r)[Len(n) + 1] = r
          /\ \A k \in 1..Len(n) : Append(n, r)[k] = n[k]
      BY <2>1
    <3>2. responses'[s] = Append(n, r) /\ i \in 1..(Len(n) + 1)
      BY <2>2, <2>7, <3>1
    <3>3. CASE i = Len(n) + 1
      <4>1. responses'[s][i].seq = t.rec /\ i - 1 = Len(n)
        BY <2>1, <3>1, <3>2, <3>3
      <4>2. PICK j \in DOMAIN n : n[j].seq = q
        BY <2>5, <2>7, <4>1
      <4>3. j \in 1..(i - 1) /\ responses'[s][j].seq = q
        BY <3>1, <3>2, <4>1, <4>2
      <4> QED
        BY <4>3
    <3>4. CASE i # Len(n) + 1
      <4>1. i \in DOMAIN n /\ responses'[s][i] = n[i]
        BY <3>1, <3>2, <3>4
      <4>2. PICK j \in 1..(i - 1) : n[j].seq = q
        BY <2>4, <4>1
      <4>3. responses'[s][j] = n[j]
        BY <3>1, <3>2, <4>1, <4>2
      <4> QED
        BY <4>2, <4>3
    <3> QED
      BY <3>3, <3>4
  <2> QED
    BY <2>6, <2>7
<1>8. CompletedHasAllAnswers'
  <2> SUFFICES ASSUME NEW s \in Service, status'[s] = "completed", NEW q \in DOMAIN Questions[s]
               PROVE  \E r \in Range(responses'[s]) : r.seq = q
    BY DEF CompletedHasAllAnswers
  <2>1. Answered(s, q)'
    <3>1. CASE status[s] = "completed"
      <4>1. \E r \in Range(responses[s]) : r.seq = q
        BY <1>1, <3>1 DEF Db, CompletedHasAllAnswers
      <4>2. Answered(s, q)
        BY <4>1 DEF Answered, Range
      <4> QED
        BY <4>2, CommitAnswers
    <3>2. CASE status[s] # "completed"
      <4>1. s = t.svc /\ "status" \in t.wrote /\ t.status = "completed"
        BY <3>2, Committed
      <4>2. t.qs.answered = Len(Questions[s])
        BY <1>1, <4>1 DEF Sane
      <4>3. q \in 1..t.qs.answered
        BY <4>2, ConstantsAssumption
      <4> QED
        BY <4>1, <4>3, CommitAnswers
    <3> QED
      BY <3>1, <3>2
  <2> QED
    BY <2>1 DEF Answered, Range
<1>9. OneFreeTextOutstanding'
  <2> SUFFICES ASSUME NEW s \in Service, NEW x \in Service, Rival(s)', Rival(x)', s # x
               PROVE  FALSE
    BY DEF OneFreeTextOutstanding, Rival
  <2>1. ASSUME NEW y \in Service, Rival(y)'
        PROVE  /\ status[y] = "in_progress" /\ ~Ending(t, y)
               /\ IF y = t.svc /\ "questions" \in t.wrote THEN AwaitsText(y, t.qs)
                                                          ELSE Rival(y)
    <3>1. status'[y] = "in_progress" /\ AwaitsText(y, form'[y])
      BY <2>1 DEF Rival, AwaitsText
    <3>2. status[y] \in Status /\ "in_progress" \notin Terminal
      BY <1>1 DEF DbType, Terminal
    <3>3. status[y] = "in_progress" /\ ~Ending(t, y)
      BY <3>1, <3>2, Committed DEF Status
    <3>4. form'[y] = IF y = t.svc /\ "questions" \in t.wrote THEN t.qs ELSE form[y]
      BY Committed
    <3> QED
      BY <3>1, <3>3, <3>4 DEF Rival
  <2>2. \A y, z \in Service : y # z /\ Rival(y)' /\ Rival(z)' => ~(y = t.svc /\ "questions" \in t.wrote)
    <3> SUFFICES ASSUME NEW y \in Service, NEW z \in Service, y # z, Rival(y)', Rival(z)',
                        y = t.svc, "questions" \in t.wrote
                 PROVE  FALSE
      OBVIOUS
    <3>1. AwaitsText(t.svc, t.qs)
      BY <2>1
    <3>2. Rival(z) /\ ~Ending(t, z)
      BY <2>1
    <3>3. z \in t.expire
      BY <1>1, <3>1, <3>2 DEF Alone
    <3> QED
      BY <3>2, <3>3 DEF Ending
  <2>3. Rival(s) /\ Rival(x)
    BY <2>1, <2>2
  <2>4. OneFreeTextOutstanding
    BY <1>1 DEF Db
  <2> QED
    BY <2>3, <2>4 DEF OneFreeTextOutstanding, Rival
<1> QED
  BY <1>5, <1>6, <1>7, <1>8, <1>9 DEF Db

\* What another transaction o relies on survives p's commit: p may not have
\* written what o holds the locks for.
LEMMA CommitOthers ==
  ASSUME IInv, NEW p \in Proc, Commit(p), NEW o \in Proc \ {p}
  PROVE  Backed(tx[o], locks[o])'
<1> DEFINE t == tx[p]
           x == tx[o]
           L == locks[o]
<1>1. t \in Tx /\ EndsTold(t, locks[p]) /\ TurnTold(t, locks[p]) /\ Alone(t, locks[p]) /\ DbType /\ Exclusion
  BY Facts, Types DEF IInv
<1>2. x \in Tx /\ Order(x, L) /\ Answers(x) /\ EndsTold(x, L) /\ TurnTold(x, L) /\ Alone(x, L)
  BY Facts
<1>3. tx'[o] = x /\ locks'[o] = L
  BY Facts, Committed
<1>4. ASSUME NEW s \in Service
      PROVE  /\ status'[s] = "in_progress" => status[s] = "in_progress"
             /\ form'[s] = IF s = t.svc /\ "questions" \in t.wrote THEN t.qs ELSE form[s]
             /\ \A E : Has(notified'[s], E) <=> Has(notified[s], E) \/ Has(t.notes[s], E)
  <2>1. status[s] \in Status /\ "in_progress" \notin Terminal
        /\ notified[s] \in Seq(Event) /\ t.notes[s] \in Seq(Event)
    BY <1>1 DEF DbType, Tx, Terminal
  <2>2. status'[s] \in Terminal <=> status[s] \in Terminal \/ Ending(t, s)
    BY Committed
  <2>3. status'[s] = "in_progress" => status[s] = "in_progress"
    BY <2>1, <2>2 DEF Status
  <2>4. notified'[s] = notified[s] \o t.notes[s]
    BY Committed
  <2>5. \A E : Has(notified'[s], E) <=> Has(notified[s], E) \/ Has(t.notes[s], E)
    BY <2>1, <2>4, JoinedNotes
  <2> QED
    BY <2>3, <2>5, Committed
<1>5. ASSUME NEW y, NEW M, y = x, M = L
      PROVE  (Answers(y) /\ EndsTold(y, M) /\ TurnTold(y, M) /\ Alone(y, M))'
  <2>1. (Answers(y))'
    BY <1>2, <1>5, CommitAnswers DEF Answers
  <2>2. (EndsTold(y, M))'
    <3> SUFFICES ASSUME NEW s \in Service
                 PROVE  (EndTold(y, M, s))'
      BY DEF EndsTold
    <3>1. EndTold(y, M, s) /\ EndTold(t, locks[p], s)
      BY <1>1, <1>2, <1>5 DEF EndsTold
    <3>2. Has(t.notes[s], Terminal) => Strong(locks[p], Row(s))
      BY <3>1 DEF EndTold
    <3>3. Has(y.notes[s], Terminal) => Strong(locks[o], Row(s)) /\ ~Has(notified[s], Terminal)
      BY <1>5, <3>1 DEF EndTold
    <3>4. ~(Has(t.notes[s], Terminal) /\ Has(y.notes[s], Terminal))
      BY <1>1, <3>2, <3>3, Alone2
    <3>5. Has(notified'[s], Terminal) <=> Has(notified[s], Terminal) \/ Has(t.notes[s], Terminal)
      BY <1>4
    <3>6. Has(y.notes[s], Terminal) => ~Has(notified'[s], Terminal)
      BY <3>3, <3>4, <3>5
    <3> HIDE DEF t
    <3> QED
      BY <3>1, <3>5, <3>6 DEF EndTold, Ending
  <2>3. (TurnTold(y, M))'
    <3> DEFINE E == {"responded"}
    <3> SUFFICES ASSUME NEW s \in Service
                 PROVE  /\ AtMostOne(y.notes[s], E)
                        /\ Has(y.notes[s], E) => ~Has(notified'[s], E) /\ Strong(M, Conv)
      BY DEF TurnTold
    <3>1. AtMostOne(y.notes[s], E) /\ (Has(y.notes[s], E) => ~Has(notified[s], E) /\ Strong(M, Conv))
      BY <1>2, <1>5 DEF TurnTold
    <3>2. Has(t.notes[s], E) => Strong(locks[p], Conv)
      BY <1>1 DEF TurnTold
    <3>3. ~(Has(t.notes[s], E) /\ Has(y.notes[s], E))
      BY <1>1, <1>5, <3>1, <3>2, Alone2
    <3>4. Has(notified'[s], E) <=> Has(notified[s], E) \/ Has(t.notes[s], E)
      BY <1>4
    <3> QED
      BY <3>1, <3>3, <3>4
  <2>4. (Alone(y, M))'
    <3>1. Alone(y, M)
      BY <1>2, <1>5
    <3>2. ASSUME Strong(M, Conv), NEW s \in Service, Rival(s)'
          PROVE  Rival(s)
      <4>1. status'[s] = "in_progress" /\ AwaitsText(s, form'[s])
        BY <3>2 DEF Rival, AwaitsText
      <4>2. ~(s = t.svc /\ "questions" \in t.wrote)
        <5> SUFFICES ASSUME s = t.svc, "questions" \in t.wrote
                     PROVE  FALSE
          OBVIOUS
        <5>1. AwaitsText(t.svc, t.qs)
          BY <1>4, <4>1
        <5>2. Strong(locks[p], Conv)
          BY <1>1, <5>1 DEF Alone
        <5> QED
          BY <1>1, <1>5, <3>2, <5>2, Alone2
      <4>3. status[s] = "in_progress" /\ form'[s] = form[s]
        BY <1>4, <4>1, <4>2
      <4> QED
        BY <4>1, <4>3 DEF Rival
    <3>3. \A s \in Service : status'[s] = "in_progress" => status[s] = "in_progress"
      BY <1>4
    <3> HIDE DEF t
    <3>4. y.plan = <<"lock", "send", "commit">> =>
            /\ Strong(M, Conv)
            /\ \A s \in Service \ {y.svc} : status'[s] = "in_progress" =>
                 s \in y.targets \/ Lock(Row(s), "update") \in M
      BY <3>1, <3>3 DEF Alone
    <3>5. y.svc \in Service /\ (\/ y.plan = <<"send", "commit">> /\ AsksText(y)
                                \/ "questions" \in y.wrote /\ AwaitsText(y.svc, y.qs)) =>
            /\ Strong(M, Conv)
            /\ \A s \in Service \ {y.svc} : Rival(s)' => s \in y.expire
      BY <3>1, <3>2 DEF Alone
    <3> QED
      BY <3>4, <3>5 DEF Alone
  <2> QED
    BY <2>1, <2>2, <2>3, <2>4
<1>6. \A y, M : y = x /\ M = L => (Backed(y, M))'
  BY <1>2, <1>5 DEF Backed, Order
<1> HIDE DEF x, L
<1> QED
  BY <1>3, <1>6

LEMMA CommitStep ==
  ASSUME IInv, NEW p \in Proc, Commit(p)
  PROVE  IInv'
<1>1. /\ UNCHANGED metaVars
      /\ tx' = [tx EXCEPT ![p] = NoTx] /\ locks' = [locks EXCEPT ![p] = {}]
  BY Committed
<1>2. MetaType'
  BY <1>1, SameMeta
<1>3. \A o \in Proc \ {p} : Backed(tx[o], locks[o]) => Backed(tx[o], locks[o])'
  BY CommitOthers
<1> QED
  BY <1>1, <1>2, <1>3, CommitTypes, CommitDb, EndStep

-----------------------------------------------------------------------------
(* The invariant.                                                          *)

LEMMA InitInv == Init => IInv
<1> SUFFICES ASSUME Init PROVE IInv
  OBVIOUS
<1>1. /\ status = [s \in Service |-> "in_progress"] /\ templateSent = Range(Sent) /\ queued = Service
      /\ form = [s \in Service |-> [answered |-> 0, dispatched |-> {}]]
      /\ responses = [s \in Service |-> << >>]
      /\ asked = Range(Sent) \X {0} /\ stored = {} /\ failedHooks = {}
      /\ recency = UNION {{Sent[i]} \X (Service \ Range(SubSeq(Sent, i, Len(Sent)))) :
                            i \in DOMAIN Sent}
      /\ notified = [s \in Service |-> << >>]
      /\ tx = [p \in Proc |-> NoTx] /\ locks = [p \in Proc |-> {}]
      /\ seen = {} /\ content = << >> /\ deliveries = 0
      /\ orphans = {} /\ overdue = {} /\ lost = {}
  BY DEF Init
<1>2. DbType
  <2>1. [answered |-> 0, dispatched |-> {}] \in Form /\ "in_progress" \in Status
    BY DEF Form, Status
  <2>2. << >> \in Seq([seq : Nat, via : Inbound]) /\ << >> \in Seq(Event)
    OBVIOUS
  <2>3. \A i \in DOMAIN Sent : Sent[i] \in Service
    BY ConstantsAssumption
  <2>4. Range(Sent) \subseteq Service
    BY <2>3 DEF Range
  <2>5. asked \subseteq Service \X Nat /\ recency \subseteq Service \X Service
    BY <1>1, <2>3, <2>4
  <2> QED
    BY <1>1, <2>1, <2>2, <2>4, <2>5 DEF DbType
<1>3. MetaType
  <2>1. DOMAIN content = {} /\ Range(content) = {}
    BY <1>1 DEF Range
  <2> QED
    BY <1>1, <2>1 DEF MetaType
<1>4. TypeOK /\ Exclusion
  BY <1>1, <1>2, <1>3, Types, NoTxType DEF Exclusion
<1>5. Db
  <2>1. \A s \in Service : /\ status[s] = "in_progress" /\ responses[s] = << >> /\ notified[s] = << >>
                           /\ form[s].answered = 0 /\ form[s].dispatched = {}
    BY <1>1
  <2>2. ASSUME NEW s \in Service
        PROVE  /\ form[s].answered <= Len(Questions[s]) /\ Focused(form[s])
               /\ \A q \in 1..form[s].answered : Answered(s, q)
    <3>1. Len(Questions[s]) \in Nat
      BY ConstantsAssumption
    <3> QED
      BY <2>1, <3>1 DEF Focused
  <2>3. ASSUME NEW s \in Service
        PROVE  /\ AtMostOne(notified[s], Terminal) /\ AtMostOne(notified[s], {"responded"})
               /\ status[s] \in Terminal <=> Has(notified[s], Terminal)
    BY <2>1, NothingTold DEF Terminal
  <2>4. NoQuestionSkipped
    BY <2>1 DEF NoQuestionSkipped
  <2>5. CompletedHasAllAnswers
    BY <2>1 DEF CompletedHasAllAnswers
  <2>6. OneFreeTextOutstanding
    BY <2>1 DEF OneFreeTextOutstanding, AwaitsText
  <2> QED
    BY <2>2, <2>3, <2>4, <2>5, <2>6 DEF Db
<1>6. Kinds(NoTx) /\ Sane(NoTx) /\ Backed(NoTx, {})
  <2>1. NoTx.svc \notin Service /\ NoTx.svc \notin Subscribed
    BY NoTxType, ConstantsAssumption
  <2>2. Kinds(NoTx) /\ Sane(NoTx)
    BY <2>1, NoTxType DEF Kinds, Sane
  <2>3. Order(NoTx, {})
    BY NoTxType DEF Order, Receipt
  <2>4. \A s \in Service : NoTx.notes[s] = << >> /\ ~Ending(NoTx, s)
    BY <2>1, NoTxType DEF Ending
  <2>5. EndsTold(NoTx, {}) /\ TurnTold(NoTx, {})
    BY <2>1, <2>4, NothingTold DEF EndsTold, EndTold, TurnTold
  <2>6. Answers(NoTx)
    BY <2>1 DEF Answers
  <2>7. Alone(NoTx, {})
    <3>1. NoTx.plan # <<"lock", "send", "commit">>
      BY NoTxType, Tails
    <3> QED
      BY <2>1, <3>1 DEF Alone
  <2> QED
    BY <2>2, <2>3, <2>5, <2>6, <2>7 DEF Backed
<1>7. \A p \in Proc : tx[p] = NoTx /\ locks[p] = {}
  BY <1>1
<1> QED
  BY <1>4, <1>5, <1>6, <1>7 DEF IInv

LEMMA NextInv == IInv /\ [Next]_vars => IInv'
<1> SUFFICES ASSUME IInv, [Next]_vars PROVE IInv'
  OBVIOUS
<1>1. ASSUME NEW p \in Worker, NEW e \in Hook, NEW c \in Contents, Deliver(p, e, c) PROVE IInv'
  BY <1>1, DeliverStep
<1>2. ASSUME NEW p \in Sender, NEW s \in Service, Claim(p, s) PROVE IInv'
  BY <1>2, ClaimStep DEF Proc
<1>3. ASSUME NEW p \in Expirer, BeginExpiry(p) PROVE IInv'
  BY <1>3, BeginExpiryStep DEF Proc
<1>4. ASSUME NEW s \in Service, Deadline(s) PROVE IInv'
  BY <1>4, DeadlineStep
<1>5. ASSUME NEW p \in Proc, Step(p) PROVE IInv'
  <2>1. CASE Block(p)
    BY <2>1, BlockStep
  <2>2. CASE Notify(p)
    BY <2>2, NotifyStep
  <2>3. CASE Scan(p)
    BY <2>3, ScanStep
  <2>4. CASE \E s \in Service : LockRow(p, s)
    BY <2>4, LockRowStep
  <2>5. CASE Supersede(p)
    BY <2>5, SupersedeStep
  <2>6. CASE RouteText(p)
    BY <2>6, RouteTextStep
  <2>7. CASE Send(p)
    BY <2>7, SendStep
  <2>8. CASE SendTemplate(p)
    BY <2>8, SendTemplateStep
  <2>9. CASE ExpireNext(p)
    BY <2>9, ExpireNextStep
  <2>10. CASE Commit(p)
    BY <2>10, CommitStep
  <2>11. CASE DuplicateWamid(p) \/ DeadlockVictim(p)
    BY <2>11, AbortStep DEF DuplicateWamid, DeadlockVictim
  <2> QED
    BY <1>5, <2>1, <2>2, <2>3, <2>4, <2>5, <2>6, <2>7, <2>8, <2>9, <2>10, <2>11 DEF Step
<1>6. ASSUME NEW p \in Proc, Die(p) PROVE IInv'
  BY <1>6, DieStep
<1>7. CASE UNCHANGED vars
  <2>1. UNCHANGED <<dbVars, tx, locks>> /\ UNCHANGED metaVars
    BY <1>7 DEF vars
  <2> QED
    BY <2>1, SameMeta, IdleStep
<1> QED
  BY <1>1, <1>2, <1>3, <1>4, <1>5, <1>6, <1>7 DEF Next, Arrive

\* The inductive invariant holds of every reachable state.
LEMMA Invariance == Spec => []IInv
BY InitInv, NextInv, PTL DEF Spec

-----------------------------------------------------------------------------
(* Deadlocks.                                                              *)

\* Among receipts and transactions that have ended nothing and search no plain
\* text there is no deadlock: who waits for a message or a queue entry waits for
\* a receipt, which holds no service row, and waits for one further on.
LEMMA NoDeadlock == IInv => OnlyEndersDeadlock
<1> SUFFICES ASSUME IInv, NEW D \in SUBSET Waiting, NEW a \in D, Deadlocked(D),
                    \A p \in D : /\ tx[p].kind \notin {"text", "quote"}
                                 /\ tx[p].kind \in Receipt \/ Ended(tx[p]) = {}
             PROVE  FALSE
  BY DEF OnlyEndersDeadlock
<1> DEFINE Stops(p, o, l, k) == /\ l \in Missing(p) /\ k \in locks[o] /\ k.on = l.on
                                /\ Conflict(k.mode, l.mode)
<1>1. \A p \in D : \E o \in D \ {p}, l \in Missing(p) : \E k \in locks[o] : Stops(p, o, l, k)
  BY DEF Deadlocked, WaitsFor, Wanted
<1>2. Exclusion /\ locks \in [Proc -> SUBSET Locks] /\ D \subseteq Proc
  BY Facts DEF IInv, Waiting
<1>3. ASSUME NEW p \in D
      PROVE  tx[p].kind \in Receipt \cup {"tap", "reply"}
  <2>1. Missing(p) # {} /\ p \in Proc
    BY <1>1, <1>2
  <2>2. Kinds(tx[p]) /\ tx[p].plan # << >>
    BY <2>1, Facts, MissingLocks
  <2>3. tx[p].kind \in Inbound \cup Receipt \cup {"template", "expiry"}
    BY <2>2, Apart
  <2>4. tx[p].kind \notin {"template", "expiry"}
    BY <2>1, NothingEnded DEF Receipt
  <2> QED
    BY <2>3, <2>4 DEF Inbound
<1>4. ASSUME NEW p \in D, tx[p].kind \in {"tap", "reply"}
      PROVE  /\ locks[p] # {} => Lock(Conv, "write") \in locks[p]
             /\ \A l \in Missing(p) : l.on \in {Conv, Wamid(tx[p].hook)} \cup {Row(s) : s \in Service}
  <2>1. /\ p \in Proc /\ tx[p] \in Tx /\ IsServing(tx[p]) /\ Order(tx[p], locks[p])
        /\ Ended(tx[p]) = {}
    BY <1>2, <1>4, Facts, Apart DEF Receipt
  <2>2. locks[p] # {} => Lock(Conv, "write") \in locks[p]
    BY <1>4, <2>1 DEF Order
  <2>3. \A l \in Missing(p) : \/ l \in {Lock(Row(s), "update") : s \in tx[p].targets}
                              \/ l \in Dirty(tx[p])
    BY <2>1, MissingLocks
  <2>4. tx[p].targets \subseteq Service
    BY <2>1 DEF Tx
  <2>5. \A l \in Dirty(tx[p]) :
          \/ l \in {Lock(Conv, "write"), Lock(Wamid(tx[p].hook), "write")}
          \/ \E s \in Service : l \in {Lock(Row(s), "write"), Lock(Row(s), "share")}
    BY <2>1, ServingDirty
  <2>6. \A l \in Missing(p) : l.on \in {Conv, Wamid(tx[p].hook)} \cup {Row(s) : s \in Service}
    BY <2>3, <2>4, <2>5, LockFields
  <2> QED
    BY <2>2, <2>6
\* A receipt that waits holds no service row, and waits for what it lacks.
<1>5. ASSUME NEW p \in D, tx[p].kind \in Receipt
      PROVE  LET t == tx[p] IN
             /\ t.svc \in Service /\ t.seq \in Nat
             /\ locks[p] \subseteq {MsgLock(t), QueueLock(t)}
             /\ QueueLock(t) \in locks[p] => MsgLock(t) \in locks[p]
             /\ \A l \in Missing(p) : /\ l \in {MsgLock(t), QueueLock(t), RowLock(t), KeyLock(t)}
                                      /\ l \notin locks[p]
  <2> DEFINE t == tx[p]
  <2>1. /\ p \in Proc /\ t \in Tx /\ IsReceipt(t) /\ t.svc \in Service /\ t.seq \in Nat
        /\ ~At(p, "lock") /\ InOrder(t, locks[p])
    BY <1>2, <1>5, ReceiptLocks
  <2>2. \A l \in Missing(p) : l \in Dirty(t) /\ ~Holds(p, l)
    BY <2>1, MissingLocks
  <2>3. \A l \in Dirty(t) : \/ l = MsgLock(t)
                            \/ l \in {RowLock(t), QueueLock(t)} /\ t.wrote # {}
                            \/ l = KeyLock(t) /\ t.notes[t.svc] # << >>
    BY <2>1, ReceiptDirty
  <2>4. \A l \in locks[p] : Holds(p, l)
    <3> TAKE l \in locks[p]
    <3>1. l \in Locks
      BY <1>2, <2>1
    <3>2. l.mode \in {"share", "write", "update"}
      BY <3>1 DEF Locks, Mode
    <3>3. Strength[l.mode] >= Strength[l.mode]
      BY <3>2 DEF Strength
    <3> QED
      BY <3>3 DEF Holds
  <2>5. RowLock(t) \in locks[p] => Holds(p, KeyLock(t))
    BY <1>5, <2>1, ReceiptLocks
  <2>6. Missing(p) # {}
    BY <1>1
  <2> HIDE DEF t
  <2>7. RowLock(t) \notin locks[p] /\ KeyLock(t) \notin locks[p]
    BY <2>1, <2>2, <2>3, <2>4, <2>5, <2>6 DEF InOrder
  <2>8. /\ locks[p] \subseteq {MsgLock(t), QueueLock(t)}
        /\ QueueLock(t) \in locks[p] => MsgLock(t) \in locks[p]
    BY <2>1, <2>7 DEF InOrder
  <2>9. \A l \in Missing(p) : /\ l \in {MsgLock(t), QueueLock(t), RowLock(t), KeyLock(t)}
                              /\ l \notin locks[p]
    BY <2>2, <2>3, <2>4
  <2> QED
    BY <2>1, <2>8, <2>9 DEF t
<1>6. ASSUME NEW p \in D, tx[p].kind \in Receipt, NEW k \in locks[p]
      PROVE  /\ k.on # Conv /\ \A s \in Service : k.on # Row(s)
             /\ \A e : k.on # Wamid(e)
             /\ \A s, q : k.on = MsgRow(s, q) => k = MsgLock(tx[p])
             /\ \A s : k.on = QueueRow(s) => k = QueueLock(tx[p])
  <2>1. /\ tx[p].svc \in Service /\ tx[p].seq \in Nat
        /\ k = MsgLock(tx[p]) \/ k = QueueLock(tx[p])
    BY <1>5, <1>6
  <2>2. CASE k = MsgLock(tx[p])
    <3>1. k.on = MsgRow(tx[p].svc, tx[p].seq)
      BY <2>2, LockFields DEF MsgLock
    <3>2. ASSUME NEW v, NEW w
          PROVE  /\ \A s : MsgRow(v, w) # Row(s) /\ MsgRow(v, w) # QueueRow(s)
                 /\ MsgRow(v, w) # Conv /\ \A e : MsgRow(v, w) # Wamid(e)
      BY DEF MsgRow, Row, QueueRow, Conv, Wamid
    <3>3. /\ \A s : k.on # Row(s) /\ k.on # QueueRow(s)
          /\ k.on # Conv /\ \A e : k.on # Wamid(e)
      BY <3>1, <3>2
    <3> QED
      BY <2>2, <3>3
  <2>3. CASE k = QueueLock(tx[p])
    <3>1. k.on = QueueRow(tx[p].svc)
      BY <2>3, LockFields DEF QueueLock
    <3>2. ASSUME NEW v
          PROVE  /\ \A s : QueueRow(v) # Row(s)
                 /\ QueueRow(v) # Conv /\ \A e : QueueRow(v) # Wamid(e)
                 /\ \A s, q : QueueRow(v) # MsgRow(s, q)
      BY DEF MsgRow, Row, QueueRow, Conv, Wamid
    <3>3. /\ \A s : k.on # Row(s)
          /\ k.on # Conv /\ \A e : k.on # Wamid(e)
          /\ \A s, q : k.on # MsgRow(s, q)
      BY <3>1, <3>2
    <3> QED
      BY <2>3, <3>3
  <2> QED
    BY <2>1, <2>2, <2>3
\* A tap or a reply that waits holds nothing.
<1>7. ASSUME NEW p \in D, tx[p].kind \in {"tap", "reply"}
      PROVE  locks[p] = {}
  <2> SUFFICES ASSUME locks[p] # {} PROVE FALSE
    OBVIOUS
  <2>1. PICK o \in D \ {p}, l \in Missing(p) : \E k \in locks[o] : Stops(p, o, l, k)
    BY <1>1
  <2>2. PICK k \in locks[o] : Stops(p, o, l, k)
    BY <2>1
  <2>3. Lock(Conv, "write") \in locks[p] /\ p \in Proc /\ o \in Proc
    BY <1>2, <1>4, <1>7
  <2>4. CASE tx[o].kind \in {"tap", "reply"}
    <3>1. Lock(Conv, "write") \in locks[o]
      BY <1>4, <2>4
    <3>2. Strong(locks[p], Conv) /\ Strong(locks[o], Conv)
      BY <2>3, <3>1, LockFields DEF Strong
    <3> QED
      BY <1>2, <2>3, <3>2, Alone2
  <2>5. CASE tx[o].kind \in Receipt
    <3>1. k.on \in {Conv, Wamid(tx[p].hook)} \cup {Row(s) : s \in Service}
      BY <1>4, <1>7, <2>2
    <3>2. k.on # Conv /\ k.on # Wamid(tx[p].hook) /\ \A s \in Service : k.on # Row(s)
      BY <1>6, <2>5
    <3> QED
      BY <3>1, <3>2
  <2> QED
    BY <1>3, <2>4, <2>5
\* A receipt that waits waits for the message or the queue entry of another.
<1>8. ASSUME NEW p \in D, tx[p].kind \in Receipt
      PROVE  \E o \in D \ {p} : /\ tx[o].kind \in Receipt
               /\ \/ MsgLock(tx[p]) \notin locks[p] /\ MsgLock(tx[o]) \in locks[o]
                  \/ QueueLock(tx[p]) \notin locks[p] /\ QueueLock(tx[o]) \in locks[o]
  <2>1. PICK o \in D \ {p}, l \in Missing(p) : \E k \in locks[o] : Stops(p, o, l, k)
    BY <1>1
  <2>2. PICK k \in locks[o] : Stops(p, o, l, k)
    BY <2>1
  <2>3. tx[o].kind \in Receipt
    BY <1>3, <1>7, <2>2
  <2>4. /\ tx[p].svc \in Service
        /\ l \in {MsgLock(tx[p]), QueueLock(tx[p]), RowLock(tx[p]), KeyLock(tx[p])}
        /\ l \notin locks[p]
    BY <1>5, <1>8
  <2>5. RowLock(tx[p]).on = Row(tx[p].svc) /\ KeyLock(tx[p]).on = Row(tx[p].svc)
    BY LockFields DEF RowLock, KeyLock
  <2>6. CASE l = MsgLock(tx[p])
    <3>1. k.on = MsgRow(tx[p].svc, tx[p].seq)
      BY <2>2, <2>6, LockFields DEF MsgLock
    <3>2. k = MsgLock(tx[o])
      BY <1>6, <2>3, <3>1
    <3> QED
      BY <2>3, <2>4, <2>6, <3>2
  <2>7. CASE l = QueueLock(tx[p])
    <3>1. k.on = QueueRow(tx[p].svc)
      BY <2>2, <2>7, LockFields DEF QueueLock
    <3>2. k = QueueLock(tx[o])
      BY <1>6, <2>3, <3>1
    <3> QED
      BY <2>3, <2>4, <2>7, <3>2
  <2>8. k.on # Row(tx[p].svc)
    BY <1>6, <2>3, <2>4
  <2> QED
    BY <2>2, <2>4, <2>5, <2>6, <2>7, <2>8
<1>9. ASSUME NEW p \in D, tx[p].kind \in Receipt
      PROVE  QueueLock(tx[p]) \notin locks[p]
  <2>1. QueueLock(tx[p]) \in locks[p] => MsgLock(tx[p]) \in locks[p]
    BY <1>5, <1>9
  <2>2. QueueLock(tx[p]) \in locks[p] => FALSE
    BY <1>8, <1>9, <2>1
  <2> QED
    BY <2>2
<1>10. ASSUME NEW p \in D, tx[p].kind \in Receipt
       PROVE  MsgLock(tx[p]) \notin locks[p]
  <2>1. MsgLock(tx[p]) \in locks[p] =>
          \E o \in D : tx[o].kind \in Receipt /\ QueueLock(tx[o]) \in locks[o]
    BY <1>8, <1>10
  <2> QED
    BY <1>9, <2>1
<1> QED
  <2>1. PICK o \in D \ {a}, l \in Missing(a) : \E k \in locks[o] : Stops(a, o, l, k)
    BY <1>1
  <2>2. locks[o] = {}
    BY <1>3, <1>5, <1>7, <1>9, <1>10
  <2> QED
    BY <2>1, <2>2

-----------------------------------------------------------------------------
(* What follows from it.                                                   *)

\* Every variable of the engine keeps its type: each handler leaves behind
\* rows, copies and locks of the kinds the database and the session allow.
THEOREM TypeCorrect == Spec => []TypeOK
<1>1. IInv => TypeOK
  BY DEF IInv
<1> QED
  BY <1>1, Invariance, PTL

\* At no time do two live services of a conversation wait for a plain text
\* (_find_free_text_blockers): the scan that precedes a free-text question
\* holds the conversation and expires every rival before it asks.
THEOREM FreeTextAlone == Spec => []OneFreeTextOutstanding
<1>1. IInv => OneFreeTextOutstanding
  BY DEF IInv, Db
<1> QED
  BY <1>1, Invariance, PTL

\* handle_inbound never records an answer ahead of one to an earlier question,
\* although it answers on the strength of a copy that others may have outrun.
THEOREM AnswersInOrder == Spec => []NoQuestionSkipped
<1>1. IInv => NoQuestionSkipped
  BY DEF IInv, Db
<1> QED
  BY <1>1, Invariance, PTL

\* _complete_service completes only a service whose every question is answered.
THEOREM CompletionIsEarned == Spec => []CompletedHasAllAnswers
<1>1. IInv => CompletedHasAllAnswers
  BY DEF IInv, Db
<1> QED
  BY <1>1, Invariance, PTL

\* A subscribed client is told of one end of a service that has ended and of
\* none of a live one: the handler that ends a service tells of it in the same
\* transaction, and the row lock it ends it under keeps others from doing so.
THEOREM OneEnd == Spec => []OneEndIsTold
<1>1. IInv => OneEndIsTold
  <2> SUFFICES ASSUME IInv, NEW s \in Subscribed
               PROVE  Cardinality(Ends(s)) = IF status[s] \in Terminal THEN 1 ELSE 0
    BY DEF OneEndIsTold
  <2>1. s \in Service
    BY ConstantsAssumption
  <2>2. AtMostOne(notified[s], Terminal) /\ (status[s] \in Terminal <=> Has(notified[s], Terminal))
    BY <2>1 DEF IInv, Db
  <2>3. CASE Has(notified[s], Terminal)
    <3>1. PICK i \in DOMAIN notified[s] : notified[s][i] \in Terminal
      BY <2>3 DEF Has
    <3>2. Ends(s) = {i}
      BY <2>2, <3>1 DEF Ends, AtMostOne
    <3> QED
      BY <2>2, <2>3, <3>2, FS_Singleton
  <2>4. CASE ~Has(notified[s], Terminal)
    <3>1. Ends(s) = {}
      BY <2>4 DEF Ends, Has
    <3> QED
      BY <2>2, <2>4, <3>1, FS_EmptySet
  <2> QED
    BY <2>3, <2>4
<1> QED
  BY <1>1, Invariance, PTL

\* The first tap and each end are told at most once (notify_queue.py:106): the
\* conversation's lock covers the first, the service's row lock the second.
THEOREM TurnsToldOnce == Spec => []EachTurnOnce
<1>1. IInv => EachTurnOnce
  <2> SUFFICES ASSUME IInv, NEW s \in Service, NEW i \in DOMAIN notified[s], NEW j \in DOMAIN notified[s],
                      notified[s][i] = notified[s][j],
                      notified[s][i] \in {"responded"} \cup Terminal
               PROVE  i = j
    BY DEF EachTurnOnce
  <2>1. AtMostOne(notified[s], Terminal) /\ AtMostOne(notified[s], {"responded"})
    BY DEF IInv, Db
  <2> QED
    BY <2>1 DEF AtMostOne
<1> QED
  BY <1>1, Invariance, PTL

\* A set of transactions of any size that wait for each other contains a plain
\* text, or a message, sender or expiry job that has ended a service: the others
\* lock the conversation, messages, queue entries and services in this order.
THEOREM OnlyEndersCanDeadlock == Spec => []OnlyEndersDeadlock
BY NoDeadlock, Invariance, PTL

\* No handler brings a service back that has ended: what a commit writes into
\* the status is an end, however old the copy it was decided on.
THEOREM EndsAreFinal == Spec => EndedStaysEnded
<1> DEFINE A == \A s \in Service : status[s] \in Terminal => status'[s] \in Terminal
<1>1. ASSUME IInv, [Next]_vars PROVE [A]_vars
  <2>1. ASSUME NEW p \in Proc, Commit(p) PROVE A
    BY <1>1, <2>1, Committed
  <2>2. ASSUME NEW p \in Proc, Step(p) \/ Die(p), ~Commit(p) PROVE UNCHANGED status
    <3>1. Block(p) \/ Notify(p) \/ Scan(p) \/ Supersede(p) \/ RouteText(p) \/ Send(p)
          \/ SendTemplate(p) \/ ExpireNext(p) => UNCHANGED dbVars
      BY DEF Block, Notify, Scan, Supersede, RouteText, Send, SendTemplate, ExpireNext
    <3>2. (\E s \in Service : LockRow(p, s)) => UNCHANGED dbVars
      BY DEF LockRow
    <3>3. DuplicateWamid(p) \/ DeadlockVictim(p) \/ Die(p) => UNCHANGED status
      BY DEF DuplicateWamid, DeadlockVictim, Die, Abort, Rollback
    <3> QED
      BY <2>2, <3>1, <3>2, <3>3 DEF Step, dbVars
  <2>3. Arrive => UNCHANGED status
    BY DEF Arrive, Deliver, Claim, BeginExpiry, Deadline, dbVars
  <2>4. CASE Next
    BY <2>1, <2>2, <2>3, <2>4 DEF Next
  <2>5. CASE UNCHANGED vars
    BY <2>5
  <2> QED
    BY <1>1, <2>4, <2>5
<1>2. IInv /\ [Next]_vars => [A]_vars
  BY <1>1
<1>3. Spec => [][A]_vars
  BY <1>2, Invariance, PTL DEF Spec
<1> QED
  BY <1>3 DEF EndedStaysEnded
=============================================================================
