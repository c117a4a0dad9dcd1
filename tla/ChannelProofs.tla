--------------------------- MODULE ChannelProofs ---------------------------
(***************************************************************************)
(* Proofs about Channel, for any names, languages, ids and requests: its   *)
(* type, that a row stays with its template, that media survive edits,     *)
(* when an account is active without credentials, and what a sync leaves.  *)
(***************************************************************************)
EXTENDS Channel, TLAPS

\* The key of every template Meta has ever had.
Named == [i \in Id |-> IF meta[i].state = "unused" THEN NoKey ELSE meta[i].key]

\* What Meta has: one living template per key.
MetaKeys ==
  /\ \A i \in Id : IF meta[i].state = "unused" THEN meta[i].header = "none" ELSE meta[i].key \in Key
  /\ \A i, j \in Live : meta[i].key = meta[j].key => i = j

\* What a request knows of the templates stays true.
Informed(t, N) ==
  /\ t.kind = "sync" =>
       /\ \A i \in Page(t) : /\ t.seen[i].state \in Review /\ t.seen[i].key \in Key
                             /\ N[i] = t.seen[i].key
       /\ \A i, j \in Page(t) : t.seen[i].key = t.seen[j].key => i = j
  /\ t.kind = "create" => t.key \in Key /\ (t.id # NoId => N[t.id] = t.key)
  /\ t.kind = "edit" => t.header = Built(t.asked, t.copy.header)

\* What a request has read of the account is the account, unless it is stale.
Fresh(t, a) ==
  t.kind \in AccountKind /\ ~t.stale =>
    t.status = a.status /\ t.token = a.token /\ (t.kind = "refresh" => t.token)

RowsNamed   == \A k \in Key : row[k].id # NoId => Named[row[k].id] = k
TxInformed  == \A q \in Request : Informed(tx[q], Named)

AccountRead == \A q \in Request : Fresh(tx[q], account)

IInv == TypeOK /\ MetaKeys /\ AccountRead /\ RowsNamed /\ TxInformed

\* Meta never gives another key to an id it has used.
Steady == \A i \in Id : Named[i] # NoKey => Named'[i] = Named[i]

-----------------------------------------------------------------------------
(* Requests.                                                               *)

LEMMA Blanks ==
  /\ Absent \in Row /\ Unused \in [Id -> MetaTemplate] /\ NoTx \in Tx /\ NoTx.kind = "none"
  /\ (\A N : Informed(NoTx, N)) /\ \A a : Fresh(NoTx, a)
<1>1. Absent \in Row
  BY DEF Absent, Row, Header
<1>2. Unused \in [Id -> MetaTemplate]
  BY DEF Unused, MetaTemplate, Header
<1>3. NoTx \in Tx /\ NoTx.kind = "none"
  BY <1>1, <1>2 DEF NoTx, Tx, Header, AccountKind, AccountStatus
<1>4. \A N : Informed(NoTx, N)
  BY <1>3 DEF Informed
<1>5. \A a : Fresh(NoTx, a)
  BY <1>3 DEF Fresh, AccountKind
<1> QED
  BY <1>1, <1>2, <1>3, <1>4, <1>5

LEMMA BuiltType == \A a \in {"omitted", "text"} \cup Media, h \in Header : Built(a, h) \in Header
BY DEF Built, Header

\* The request of a sync as it is opened.
LEMMA Openings ==
  \A s \in [Id -> MetaTemplate] :
    LET t == [NoTx EXCEPT !.kind = "sync", !.seen = s]
    IN  t \in Tx /\ t.kind = "sync" /\ t.seen = s
<1>1. NoTx \in Tx
  BY Blanks
<1> QED
  BY <1>1 DEF Tx

\* A request goes on knowing what it knows: keys are never changed.
LEMMA InformedKept ==
  ASSUME NEW N, NEW M, \A i \in Id : N[i] # NoKey => M[i] = N[i], NEW t \in Tx, Informed(t, N)
  PROVE  Informed(t, M)
<1>1. NoKey \notin Key
  BY ConstantsAssumption DEF Key
<1>2. Page(t) \subseteq Id
  BY DEF Page
<1>3. t.id \in Id \cup {NoId}
  BY DEF Tx
<1> QED
  BY <1>1, <1>2, <1>3 DEF Informed

LEMMA TxKept ==
  ASSUME IInv, Steady, NEW q \in Request, NEW t \in Tx, Informed(t, Named'),
         tx' = [tx EXCEPT ![q] = t]
  PROVE  /\ tx' \in [Request -> Tx] /\ TxInformed'
         /\ account' = account /\ Fresh(t, account) => AccountRead'
<1>1. tx \in [Request -> Tx] /\ \A r \in Request : Informed(tx[r], Named)
  BY DEF IInv, TypeOK, TxInformed
<1>2. tx' \in [Request -> Tx]
  BY <1>1
<1>3. PICK N, M : N = Named /\ M = Named'
  OBVIOUS
<1>4. ASSUME NEW r \in Request PROVE Informed(tx'[r], Named')
  <2>1. CASE r = q
    BY <1>1, <2>1
  <2>2. CASE r # q
    <3>1. PICK z \in Tx : z = tx[r]
      BY <1>1
    <3>2. Informed(z, N)
      BY <1>1, <1>3, <3>1
    <3>3. Informed(z, M)
      BY <1>3, <3>2, InformedKept DEF Steady
    <3>4. tx'[r] = z
      BY <1>1, <2>2, <3>1
    <3> QED
      BY <1>3, <3>3, <3>4
  <2> QED
    BY <2>1, <2>2
<1>5. ASSUME account' = account, Fresh(t, account) PROVE AccountRead'
  <2>1. \A r \in Request : tx'[r] = t \/ tx'[r] = tx[r]
    BY <1>1
  <2> QED
    BY <1>5, <2>1, Zenon DEF IInv, AccountRead
<1> QED
  BY <1>2, <1>4, <1>5 DEF TxInformed

LEMMA TxSame ==
  ASSUME IInv, Steady, tx' = tx
  PROVE  tx' \in [Request -> Tx] /\ TxInformed' /\ (account' = account => AccountRead')
<1>1. tx \in [Request -> Tx] /\ \A r \in Request : Informed(tx[r], Named)
  BY DEF IInv, TypeOK, TxInformed
<1>2. PICK N, M : N = Named /\ M = Named'
  OBVIOUS
<1>3. ASSUME NEW r \in Request PROVE Informed(tx'[r], Named')
  <2>1. PICK z \in Tx : z = tx[r]
    BY <1>1
  <2>2. Informed(z, N)
    BY <1>1, <1>2, <2>1
  <2>3. Informed(z, M)
    BY <1>2, <2>2, InformedKept DEF Steady
  <2> QED
    BY <1>2, <2>1, <2>3
<1>4. account' = account => AccountRead'
  BY DEF IInv, AccountRead
<1> QED
  BY <1>1, <1>3, <1>4 DEF TxInformed

LEMMA TxClosed ==
  ASSUME IInv, Steady, NEW q \in Request, Close(q)
  PROVE  tx' \in [Request -> Tx] /\ TxInformed' /\ (account' = account => AccountRead')
<1>1. PICK t \in Tx : t = NoTx
  BY Blanks
<1>2. \A N : Informed(t, N)
  BY <1>1, Blanks
<1>3. PICK M : M = Named'
  OBVIOUS
<1>4. Informed(t, Named')
  BY <1>2, <1>3
<1>5. Fresh(t, account)
  BY <1>1, Blanks
<1> QED
  BY <1>1, <1>4, <1>5, TxKept DEF Close

LEMMA TxRemoving ==
  ASSUME IInv, Steady, NEW q \in Request, NEW K, CloseRemoving(q, K)
  PROVE  tx' \in [Request -> Tx] /\ TxInformed' /\ (account' = account => AccountRead')
<1>1. tx \in [Request -> Tx] /\ \A r \in Request : Informed(tx[r], Named)
  BY DEF IInv, TypeOK, TxInformed
<1>2. PICK N, M : N = Named /\ M = Named'
  OBVIOUS
<1>3. ASSUME NEW r \in Request PROVE tx'[r] \in Tx /\ Informed(tx'[r], M)
  <2>1. CASE r = q
    BY <2>1, Blanks DEF CloseRemoving
  <2>2. CASE r # q
    <3>1. PICK z \in Tx : z = tx[r]
      BY <1>1
    <3>2. Informed(z, N)
      BY <1>1, <1>2, <3>1
    <3>3. Informed(z, M)
      BY <1>2, <3>2, InformedKept DEF Steady
    <3>4. tx'[r] = z \/ (z.kind \in {"edit", "edited"} /\ tx'[r] = [z EXCEPT !.gone = TRUE])
      <4>1. tx'[r] = IF tx[r].kind \in {"edit", "edited"} /\ tx[r].key \in K
                     THEN [tx[r] EXCEPT !.gone = TRUE] ELSE tx[r]
        BY <2>2 DEF CloseRemoving
      <4> QED
        BY <3>1, <4>1
    <3>5. ASSUME z.kind \in {"edit", "edited"}, NEW y, y = [z EXCEPT !.gone = TRUE]
          PROVE  y \in Tx /\ Informed(y, M)
      <4>1. y \in Tx /\ y.kind = z.kind /\ y.asked = z.asked /\ y.copy = z.copy /\ y.header = z.header
        BY <3>5 DEF Tx
      <4> QED
        BY <3>3, <3>5, <4>1 DEF Informed
    <3> QED
      BY <3>3, <3>4, <3>5
  <2> QED
    BY <2>1, <2>2
<1>4. tx' \in [Request -> Tx]
  BY <1>3 DEF CloseRemoving
<1>5. ASSUME account' = account, NEW r \in Request PROVE Fresh(tx'[r], account)
  <2>1. CASE r = q
    BY <2>1, Blanks DEF CloseRemoving
  <2>2. CASE r # q /\ tx[r].kind \in {"edit", "edited"}
    <3>1. PICK z \in Tx : z = tx[r]
      BY <1>1
    <3>2. tx'[r] \in {z, [z EXCEPT !.gone = TRUE]}
      BY <2>2, <3>1 DEF CloseRemoving
    <3>3. tx'[r].kind \notin AccountKind
      BY <2>2, <3>1, <3>2 DEF Tx, AccountKind
    <3> QED
      BY <3>3 DEF Fresh
  <2>3. CASE r # q /\ tx[r].kind \notin {"edit", "edited"}
    <3>1. tx'[r] = tx[r]
      BY <2>3 DEF CloseRemoving
    <3> QED
      BY <3>1 DEF IInv, AccountRead
  <2> QED
    BY <2>1, <2>2, <2>3
<1> QED
  BY <1>2, <1>3, <1>4, <1>5 DEF TxInformed, AccountRead

-----------------------------------------------------------------------------
(* Meta and the rows.                                                      *)

LEMMA MetaSame ==
  ASSUME IInv, meta' = meta
  PROVE  meta' \in [Id -> MetaTemplate] /\ MetaKeys' /\ Steady
<1>1. meta' \in [Id -> MetaTemplate] /\ MetaKeys'
  BY DEF IInv, TypeOK, MetaKeys, Live
<1>2. Steady
  BY DEF Steady, Named
<1> QED
  BY <1>1, <1>2

LEMMA RowsSame ==
  ASSUME IInv, Steady, row' = row
  PROVE  row' \in [Key -> Row] /\ RowsNamed'
<1>1. row \in [Key -> Row] /\ NoKey \notin Key /\ \A k \in Key : row[k].id \in Id \cup {NoId}
  BY ConstantsAssumption DEF IInv, TypeOK, Row, Key
<1> QED
  BY <1>1 DEF IInv, RowsNamed, Steady

\* Meta gives a key that no living template has to an id it never used.
LEMMA MetaCreated ==
  ASSUME IInv, NEW i \in Id, NEW k \in Key, NEW h \in Header,
         meta[i].state = "unused", Holds(k) = {},
         meta' = [meta EXCEPT ![i] = [state |-> "PENDING", key |-> k, header |-> h]]
  PROVE  meta' \in [Id -> MetaTemplate] /\ MetaKeys' /\ Steady /\ Named'[i] = k
<1>1. meta \in [Id -> MetaTemplate] /\ MetaKeys
  BY DEF IInv, TypeOK
<1>2. PICK m : m = [state |-> "PENDING", key |-> k, header |-> h]
  OBVIOUS
<1>3. m \in MetaTemplate /\ m.state = "PENDING" /\ m.key = k
  BY <1>2 DEF MetaTemplate, Review, Header
<1>4. meta' = [meta EXCEPT ![i] = m]
  BY <1>2
<1>5. meta' \in [Id -> MetaTemplate]
  BY <1>1, <1>3, <1>4
<1>6. meta'[i] = m /\ \A j \in Id \ {i} : meta'[j] = meta[j]
  BY <1>1, <1>4
<1>7. MetaKeys'
  <2>1. \A j \in Id : IF meta'[j].state = "unused" THEN meta'[j].header = "none" ELSE meta'[j].key \in Key
    BY <1>1, <1>3, <1>6 DEF MetaKeys
  <2>2. ASSUME NEW a \in Live', NEW b \in Live', meta'[a].key = meta'[b].key PROVE a = b
    <3>1. a \in Id /\ b \in Id /\ (a = i \/ a \in Live) /\ (b = i \/ b \in Live)
      BY <1>6 DEF Live
    <3>2. \A j \in Live : meta[j].key # k
      BY DEF Holds
    <3> QED
      BY <1>1, <1>3, <1>6, <2>2, <3>1, <3>2 DEF MetaKeys
  <2> QED
    BY <2>1, <2>2 DEF MetaKeys
<1>8. Steady
  BY <1>6 DEF Steady, Named
<1>9. Named'[i] = k
  BY <1>3, <1>6 DEF Named
<1> QED
  BY <1>5, <1>7, <1>8, <1>9

\* A living template gets another state or header.
LEMMA MetaTouched ==
  ASSUME IInv, meta' \in [Id -> MetaTemplate],
         \A i \in Id : \/ meta'[i] = meta[i]
                       \/ i \in Live /\ meta'[i].state # "unused" /\ meta'[i].key = meta[i].key
  PROVE  MetaKeys' /\ Steady
<1>1. meta \in [Id -> MetaTemplate] /\ MetaKeys
  BY DEF IInv, TypeOK
<1>2. \A i \in Id : meta'[i].key = meta[i].key /\ (i \in Live' => i \in Live)
  BY DEF Live
<1>3. \A i \in Live : meta[i].state # "unused"
  BY DEF Live, Review
<1>4. MetaKeys'
  <2>1. \A j \in Id : IF meta'[j].state = "unused" THEN meta'[j].header = "none" ELSE meta'[j].key \in Key
    BY <1>1, <1>3 DEF MetaKeys
  <2>2. ASSUME NEW a \in Live', NEW b \in Live', meta'[a].key = meta'[b].key PROVE a = b
    <3>1. a \in Live /\ b \in Live /\ a \in Id /\ b \in Id
      BY <1>2 DEF Live
    <3> QED
      BY <1>1, <1>2, <2>2, <3>1 DEF MetaKeys
  <2> QED
    BY <2>1, <2>2 DEF MetaKeys
<1>5. Steady
  BY <1>2, <1>3 DEF Steady, Named
<1> QED
  BY <1>4, <1>5

LEMMA Together ==
  ASSUME account' \in AccountRow, AccountRead', meta' \in [Id -> MetaTemplate], MetaKeys',
         row' \in [Key -> Row], RowsNamed', tx' \in [Request -> Tx], TxInformed'
  PROVE  IInv'
BY DEF IInv, TypeOK

-----------------------------------------------------------------------------
(* The steps.                                                              *)

\* The account after a commit.
LEMMA AccountAfter ==
  ASSUME IInv, NEW t \in Tx
  PROVE  /\ \A st \in Outcome \cup {"active"} : Connected(t, st) \in AccountRow
         /\ Disconnected(t) \in AccountRow
         /\ \A st \in {"active", "error"} : [account EXCEPT !.status = st] \in AccountRow
         /\ account \in AccountRow
<1>1. account \in AccountRow /\ Outcome \subseteq {"active", "pending"}
  BY ConstantsAssumption DEF IInv, TypeOK
<1>2. account.status \in AccountStatus /\ account.token \in BOOLEAN
  BY <1>1 DEF AccountRow
<1>3. ASSUME NEW st \in Outcome \cup {"active"} PROVE Connected(t, st) \in AccountRow
  BY <1>1, <1>2 DEF Connected, AccountRow, AccountStatus
<1>4. Disconnected(t) \in AccountRow
  <2>1. (account.token /\ ~t.token) \in BOOLEAN
    OBVIOUS
  <2> QED
    BY <1>2, <2>1 DEF Disconnected, AccountRow, AccountStatus
<1>5. \A st \in {"active", "error"} : [account EXCEPT !.status = st] \in AccountRow
  BY <1>1 DEF AccountRow, AccountStatus
<1> QED
  BY <1>1, <1>3, <1>4, <1>5

LEMMA Commits ==
  ASSUME IInv, NEW q \in Request, NEW a \in AccountRow, Commit(q, a)
  PROVE  IInv'
<1>1. UNCHANGED <<meta, row>> /\ account' = a
  BY DEF Commit
<1>2. meta' \in [Id -> MetaTemplate] /\ MetaKeys' /\ Steady
  BY <1>1, MetaSame
<1>3. row' \in [Key -> Row] /\ RowsNamed'
  BY <1>1, <1>2, RowsSame
<1>4. tx \in [Request -> Tx] /\ TxInformed /\ AccountRead
  BY DEF IInv, TypeOK
<1>5. PICK N, M : N = Named /\ M = Named'
  OBVIOUS
<1>6. ASSUME NEW r \in Request PROVE tx'[r] \in Tx /\ Informed(tx'[r], M) /\ Fresh(tx'[r], a)
  <2>1. CASE r = q
    BY <2>1, Blanks DEF Commit
  <2>2. CASE r # q
    <3>1. PICK z \in Tx : z = tx[r]
      BY <1>4
    <3>2. Informed(z, N) /\ Fresh(z, account)
      BY <1>4, <1>5, <3>1 DEF TxInformed, AccountRead
    <3>3. Informed(z, M)
      BY <1>2, <1>5, <3>2, InformedKept DEF Steady
    <3>4. tx'[r] = IF z.kind \in AccountKind /\ a # account THEN [z EXCEPT !.stale = TRUE] ELSE z
      BY <2>2, <3>1 DEF Commit
    <3>5. CASE z.kind \in AccountKind /\ a # account
      <4>1. PICK y : y = [z EXCEPT !.stale = TRUE]
        OBVIOUS
      <4>2. y \in Tx /\ y.kind = z.kind /\ y.stale
        BY <4>1 DEF Tx
      <4>3. Informed(y, M)
        BY <3>5, <4>2 DEF Informed, AccountKind
      <4>4. Fresh(y, a)
        BY <4>2 DEF Fresh
      <4> QED
        BY <3>4, <3>5, <4>1, <4>2, <4>3, <4>4
    <3>6. CASE z.kind \notin AccountKind
      BY <3>3, <3>4, <3>6 DEF Fresh
    <3>7. CASE a = account
      BY <3>2, <3>3, <3>4, <3>7
    <3> QED
      BY <3>5, <3>6, <3>7
  <2> QED
    BY <2>1, <2>2
<1>7. tx' = [r \in Request |-> tx'[r]]
  BY DEF Commit
<1>8. tx' \in [Request -> Tx]
  BY <1>6, <1>7
<1>9. TxInformed' /\ AccountRead'
  BY <1>1, <1>5, <1>6 DEF TxInformed, AccountRead
<1> QED
  BY <1>1, <1>2, <1>3, <1>8, <1>9, Together

LEMMA AccountSteps ==
  ASSUME IInv, NEW q \in Request
  PROVE  /\ \A st \in Outcome : MetaCallback(q, st) => IInv'
         /\ ManualSetup(q) => IInv'
         /\ Disconnect(q) => IInv'
         /\ \A st \in {"active", "error"} : RefreshEnd(q, st) => IInv'
<1>1. PICK t \in Tx : t = tx[q]
  BY DEF IInv, TypeOK
<1>2. ASSUME NEW st \in Outcome \cup {"active"}, Commit(q, Connected(tx[q], st)) PROVE IInv'
  BY <1>1, <1>2, AccountAfter, Commits
<1>3. ASSUME Disconnect(q) PROVE IInv'
  BY <1>1, <1>3, AccountAfter, Commits DEF Disconnect
<1>4. ASSUME NEW st \in {"active", "error"}, RefreshEnd(q, st) PROVE IInv'
  <2>1. PICK a \in AccountRow : Commit(q, a)
    BY <1>4, <1>1, AccountAfter DEF RefreshEnd
  <2> QED
    BY <2>1, Commits
<1> QED
  BY <1>2, <1>3, <1>4 DEF MetaCallback, ManualSetup

\* A request is opened and changes nothing else.
LEMMA Opened ==
  ASSUME IInv, UNCHANGED <<account, meta, row>>, NEW q \in Request, NEW t \in Tx,
         Open(q, t), Informed(t, Named'), Fresh(t, account)
  PROVE  IInv'
<1>1. meta' \in [Id -> MetaTemplate] /\ MetaKeys' /\ Steady
  BY MetaSame
<1>2. row' \in [Key -> Row] /\ RowsNamed' /\ account' \in AccountRow
  BY <1>1, RowsSame DEF IInv, TypeOK
<1>3. tx' \in [Request -> Tx] /\ TxInformed' /\ AccountRead'
  BY <1>1, TxKept DEF Open
<1> QED
  BY <1>1, <1>2, <1>3, Together

LEMMA Reads ==
  ASSUME IInv, NEW q \in Request, NEW kind \in AccountKind, Read(q, kind),
         kind = "refresh" => account.token
  PROVE  IInv'
<1>1. PICK st \in AccountStatus, b \in BOOLEAN : st = account.status /\ b = account.token
  BY DEF IInv, TypeOK, AccountRow
<1>2. PICK t : t = [NoTx EXCEPT !.kind = kind, !.status = st, !.token = b]
  OBVIOUS
<1>3. t \in Tx /\ t.kind = kind /\ t.status = st /\ t.token = b
  BY <1>2, Blanks DEF Tx
<1>4. Informed(t, Named') /\ Fresh(t, account)
  BY <1>1, <1>3 DEF Informed, Fresh, AccountKind
<1>5. Open(q, t) /\ UNCHANGED <<account, meta, row>>
  BY <1>1, <1>2 DEF Read
<1> QED
  BY <1>3, <1>4, <1>5, Opened

LEMMA ReadSteps ==
  ASSUME IInv, NEW q \in Request, ConnectBegin(q) \/ DisconnectBegin(q) \/ RefreshBegin(q)
  PROVE  IInv'
BY Reads DEF ConnectBegin, DisconnectBegin, RefreshBegin, AccountKind

LEMMA SyncLists == ASSUME IInv, NEW q \in Request, SyncList(q) PROVE IInv'
<1>1. PICK page \in kSubset(Min({PageLimit, Cardinality(Live)}), Live) :
        Open(q, [NoTx EXCEPT !.kind = "sync",
                             !.seen = [i \in Id |-> IF i \in page THEN meta[i] ELSE Unused[i]]])
  BY DEF SyncList
<1>2. page \subseteq Live
  BY DEF kSubset
<1>3. PICK s : s = [i \in Id |-> IF i \in page THEN meta[i] ELSE Unused[i]]
  OBVIOUS
<1>4. meta \in [Id -> MetaTemplate] /\ MetaKeys
  BY DEF IInv, TypeOK
<1>5. s \in [Id -> MetaTemplate]
  BY <1>3, <1>4, Blanks
<1>6. PICK t : t = [NoTx EXCEPT !.kind = "sync", !.seen = s]
  OBVIOUS
<1>7. t \in Tx /\ t.kind = "sync" /\ t.seen = s
  BY <1>5, <1>6, Openings
<1>8. \A i \in Page(t) : i \in Id /\ i \in Live /\ t.seen[i] = meta[i]
  BY <1>2, <1>3, <1>7 DEF Page, Unused
<1>9. UNCHANGED <<account, meta, row>> /\ Open(q, t)
  BY <1>1, <1>3, <1>6 DEF SyncList
<1>10. \A i \in Live : meta[i].state \in Review /\ meta[i].key \in Key /\ Named'[i] = meta[i].key
  BY <1>4, <1>9 DEF Live, Review, MetaKeys, Named
<1>11. Informed(t, Named') /\ Fresh(t, account)
  BY <1>4, <1>7, <1>8, <1>10 DEF Informed, MetaKeys, Fresh, AccountKind
<1> QED
  BY <1>7, <1>9, <1>11, Opened

LEMMA EditBegins ==
  ASSUME IInv, NEW q \in Request, NEW k \in Key, NEW a \in {"omitted", "text"} \cup Media,
         EditBegin(q, k, a)
  PROVE  IInv'
<1>1. PICK c \in Row : c = row[k]
  BY DEF IInv, TypeOK
<1>2. c.id \in Id \cup {NoId} /\ c.header \in Header
  BY DEF Row
<1>3. PICK h \in Header : h = Built(a, c.header)
  BY <1>2, BuiltType
<1>4. PICK t : t = [NoTx EXCEPT !.kind = "edit", !.key = k, !.id = c.id, !.copy = c,
                                !.asked = a, !.header = h]
  OBVIOUS
<1>5. t \in Tx /\ t.kind = "edit" /\ t.copy = c /\ t.asked = a /\ t.header = h
  BY <1>2, <1>4, Blanks DEF Tx
<1>6. Informed(t, Named') /\ Fresh(t, account)
  BY <1>3, <1>5 DEF Informed, Fresh, AccountKind
<1>7. Open(q, t) /\ UNCHANGED <<account, meta, row>>
  BY <1>1, <1>3, <1>4 DEF EditBegin
<1> QED
  BY <1>5, <1>6, <1>7, Opened

LEMMA CreateCalls ==
  ASSUME IInv, NEW q \in Request, NEW k \in Key, NEW h \in Header, NEW i \in Id, NEW b \in BOOLEAN,
         CreateCall(q, k, h, i, b)
  PROVE  IInv'
<1>1. meta' \in [Id -> MetaTemplate] /\ MetaKeys' /\ Steady /\ Named'[i] = k
  BY MetaCreated DEF CreateCall
<1>2. row' \in [Key -> Row] /\ RowsNamed' /\ account' \in AccountRow /\ account' = account
  BY <1>1, RowsSame DEF IInv, TypeOK, CreateCall
<1>3. PICK x \in Id \cup {NoId} : x = IF b THEN i ELSE NoId
  OBVIOUS
<1>4. PICK t : t = [NoTx EXCEPT !.kind = "create", !.key = k, !.header = h, !.id = x]
  OBVIOUS
<1>5. t \in Tx /\ t.kind = "create" /\ t.key = k /\ t.id = x
  BY <1>4, Blanks DEF Tx
<1>6. Informed(t, Named') /\ Fresh(t, account)
  BY <1>1, <1>3, <1>5 DEF Informed, Fresh, AccountKind
<1>7. tx' = [tx EXCEPT ![q] = t]
  BY <1>3, <1>4 DEF CreateCall, Open
<1>8. tx' \in [Request -> Tx] /\ TxInformed' /\ AccountRead'
  BY <1>1, <1>2, <1>5, <1>6, <1>7, TxKept
<1> QED
  BY <1>1, <1>2, <1>8, Together

\* Every row that carries an id afterwards carried it before, or learns it from
\* what its request knows.
LEMMA RowsLearn ==
  ASSUME IInv, Steady, row' \in [Key -> Row],
         \A k \in Key : \/ row'[k].id \in {NoId, row[k].id}
                        \/ row'[k].id \in Id /\ Named[row'[k].id] = k
  PROVE  RowsNamed'
<1>1. row \in [Key -> Row] /\ NoKey \notin Key /\ \A k \in Key : row[k].id \in Id \cup {NoId}
  BY ConstantsAssumption DEF IInv, TypeOK, Row, Key
<1> QED
  BY <1>1 DEF IInv, RowsNamed, Steady

LEMMA RowSteps ==
  ASSUME IInv, UNCHANGED <<account, meta>>
  PROVE  /\ MetaKeys' /\ Steady
         /\ row' \in [Key -> Row] /\ RowsNamed' /\ tx' \in [Request -> Tx] /\ TxInformed'
              /\ AccountRead' => IInv'
<1>1. account' \in AccountRow /\ meta' \in [Id -> MetaTemplate] /\ MetaKeys' /\ Steady
  BY MetaSame DEF IInv, TypeOK
<1> QED
  BY <1>1, Together

\* What a sync leaves of each row: nothing, the listed template of its key, or
\* what there was.
SyncLeft(page, item) ==
  /\ item \in [Id -> MetaTemplate] /\ page \subseteq Id
  /\ \A i \in page : item[i].state \in Review /\ item[i].key \in Key /\ Named[i] = item[i].key
  /\ \A i, j \in page : item[i].key = item[j].key => i = j
  /\ row' = [k \in Key |-> row'[k]]
  /\ \A k \in Key :
       \/ k \in Stale(page) /\ row'[k] = Absent
       \/ /\ k \notin Stale(page)
          /\ \E j \in page : /\ item[j].key = k
                             /\ row'[k] = [state |-> item[j].state, id |-> j, header |-> item[j].header]
       \/ k \notin Stale(page) /\ row'[k] = row[k] /\ \A j \in page : item[j].key # k

LEMMA SyncRows ==
  ASSUME IInv, NEW q \in Request, SyncEnd(q), NEW t \in Tx, t = tx[q],
         NEW page, page = Page(t), NEW item, item = t.seen
  PROVE  SyncLeft(page, item)
<1>1. PICK N : N = Named
  OBVIOUS
<1>2. Informed(t, N) /\ t.kind = "sync"
  BY <1>1 DEF IInv, TxInformed, SyncEnd
<1>3. /\ item \in [Id -> MetaTemplate] /\ page \subseteq Id
      /\ \A i \in page : item[i].state \in Review /\ item[i].key \in Key /\ N[i] = item[i].key
      /\ \A i, j \in page : item[i].key = item[j].key => i = j
  BY <1>2 DEF Informed, Page, Tx
<1>4. RowsNamed
  BY DEF IInv
<1> DEFINE to(i) == LET m == Match(i, item[i].key) IN IF m = {} THEN {item[i].key} ELSE m
           src(k) == CHOOSE j \in page : k \in to(j)
<1>5. row' = [k \in Key |->
         IF k \in Stale(page) THEN Absent
         ELSE IF \E i \in page : k \in to(i)
         THEN [state |-> item[src(k)].state, id |-> src(k), header |-> item[src(k)].header]
         ELSE row[k]]
  BY DEF SyncEnd
\* A row found by its id has the key of that id.
<1>6. \A i \in page, k \in Key : k \in to(i) <=> item[i].key = k
  <2> SUFFICES ASSUME NEW i \in page, NEW k \in Key PROVE k \in to(i) <=> item[i].key = k
    OBVIOUS
  <2>1. i # NoId /\ item[i].key \in Key
    BY <1>3, ConstantsAssumption
  <2>2. \A l \in Key : row[l].id = i => l = item[i].key
    BY <1>1, <1>3, <1>4, <2>1 DEF RowsNamed
  <2>3. Match(i, item[i].key) \subseteq {item[i].key}
    BY <2>2 DEF Match
  <2>4. to(i) = {item[i].key}
    BY <2>3
  <2> QED
    BY <2>4
<1>7. ASSUME NEW k \in Key
      PROVE  \/ k \in Stale(page) /\ row'[k] = Absent
             \/ /\ k \notin Stale(page)
                /\ \E j \in page : /\ item[j].key = k
                                   /\ row'[k] = [state |-> item[j].state, id |-> j, header |-> item[j].header]
             \/ k \notin Stale(page) /\ row'[k] = row[k] /\ \A j \in page : item[j].key # k
  <2>1. CASE k \in Stale(page)
    BY <1>5, <2>1
  <2>2. CASE k \notin Stale(page) /\ \E i \in page : k \in to(i)
    <3>1. PICK j \in page : k \in to(j) /\ j = src(k)
      BY <2>2
    <3>2. row'[k] = [state |-> item[j].state, id |-> j, header |-> item[j].header]
      BY <1>5, <2>2, <3>1
    <3>3. item[j].key = k
      BY <1>6, <3>1
    <3> QED
      BY <2>2, <3>2, <3>3
  <2>3. CASE k \notin Stale(page) /\ ~\E i \in page : k \in to(i)
    <3>1. row'[k] = row[k]
      BY <1>5, <2>3
    <3> QED
      BY <1>6, <2>3, <3>1
  <2> QED
    BY <2>1, <2>2, <2>3
<1>8. row' = [k \in Key |-> row'[k]]
  BY <1>5
<1> QED
  BY <1>1, <1>3, <1>7, <1>8 DEF SyncLeft

LEMMA SyncEnds == ASSUME IInv, NEW q \in Request, SyncEnd(q) PROVE IInv'
<1>1. Steady
  BY RowSteps DEF SyncEnd
<1>2. PICK t \in Tx : t = tx[q]
  BY DEF IInv, TypeOK
<1>3. PICK page, item : page = Page(t) /\ item = t.seen
  OBVIOUS
<1>4. SyncLeft(page, item)
  BY <1>2, <1>3, SyncRows
<1>5. /\ item \in [Id -> MetaTemplate] /\ page \subseteq Id
      /\ \A i \in page : item[i].state \in Review /\ item[i].key \in Key /\ Named[i] = item[i].key
      /\ row' = [k \in Key |-> row'[k]]
      /\ \A k \in Key :
           \/ row'[k] = Absent
           \/ \E j \in page : /\ item[j].key = k
                              /\ row'[k] = [state |-> item[j].state, id |-> j, header |-> item[j].header]
           \/ row'[k] = row[k]
  BY <1>4 DEF SyncLeft
<1>6. row \in [Key -> Row]
  BY DEF IInv, TypeOK
<1>7. ASSUME NEW k \in Key
      PROVE  /\ row'[k] \in Row
             /\ \/ row'[k].id \in {NoId, row[k].id}
                \/ row'[k].id \in Id /\ Named[row'[k].id] = k
  <2>1. CASE row'[k] = Absent
    BY <2>1, Blanks DEF Absent
  <2>2. ASSUME NEW j \in page, item[j].key = k,
               row'[k] = [state |-> item[j].state, id |-> j, header |-> item[j].header]
        PROVE  row'[k] \in Row /\ row'[k].id \in Id /\ Named[row'[k].id] = k
    <3>1. item[j].header \in Header
      BY <1>5 DEF MetaTemplate
    <3> QED
      BY <1>5, <2>2, <3>1 DEF Row
  <2>3. CASE row'[k] = row[k]
    BY <1>6, <2>3
  <2> QED
    BY <1>5, <2>1, <2>2, <2>3
<1>8. row' \in [Key -> Row]
  BY <1>5, <1>7
<1>9. RowsNamed'
  BY <1>1, <1>7, <1>8, RowsLearn
<1>10. PICK K : K = Stale(page)
  OBVIOUS
<1>11. CloseRemoving(q, K)
  BY <1>2, <1>3, <1>10 DEF SyncEnd
<1>12. tx' \in [Request -> Tx] /\ TxInformed' /\ AccountRead'
  BY <1>1, <1>11, TxRemoving DEF SyncEnd
<1> QED
  BY <1>8, <1>9, <1>12, RowSteps DEF SyncEnd

LEMMA CreateEnds == ASSUME IInv, NEW q \in Request, CreateEnd(q) PROVE IInv'
<1>1. Steady
  BY RowSteps DEF CreateEnd
<1>2. tx' \in [Request -> Tx] /\ TxInformed' /\ AccountRead'
  BY <1>1, TxClosed DEF CreateEnd
<1>3. PICK t \in Tx : t = tx[q]
  BY DEF IInv, TypeOK
<1>4. PICK N : N = Named
  OBVIOUS
<1>5. Informed(t, N) /\ t.kind = "create"
  BY <1>3, <1>4 DEF IInv, TxInformed, CreateEnd
<1>6. t.key \in Key /\ t.id \in Id \cup {NoId} /\ t.header \in Header /\ (t.id # NoId => N[t.id] = t.key)
  BY <1>5 DEF Informed, Tx
<1>7. PICK r : r = [state |-> "PENDING", id |-> t.id, header |-> t.header]
  OBVIOUS
<1>8. r \in Row /\ r.id = t.id
  BY <1>6, <1>7 DEF Row, Review
<1>9. row \in [Key -> Row] /\ (row' = row \/ row' = [row EXCEPT ![t.key] = r])
  BY <1>3, <1>7 DEF IInv, TypeOK, CreateEnd
<1>10. row' \in [Key -> Row]
  BY <1>8, <1>9
<1>11. \A k \in Key : \/ row'[k].id \in {NoId, row[k].id}
                      \/ row'[k].id \in Id /\ Named[row'[k].id] = k
  BY <1>4, <1>6, <1>8, <1>9
<1>12. RowsNamed'
  BY <1>1, <1>10, <1>11, RowsLearn
<1> QED
  BY <1>2, <1>10, <1>12, RowSteps DEF CreateEnd

LEMMA EditEnds == ASSUME IInv, NEW q \in Request, NEW b \in BOOLEAN, EditEnd(q, b) PROVE IInv'
<1>1. Steady
  BY RowSteps DEF EditEnd
<1>2. tx' \in [Request -> Tx] /\ TxInformed' /\ AccountRead'
  BY <1>1, TxClosed DEF EditEnd
<1>3. PICK t \in Tx : t = tx[q]
  BY DEF IInv, TypeOK
<1>4. row \in [Key -> Row]
  BY DEF IInv, TypeOK
<1>5. PICK was, st : was = t.copy.state /\ st = IF b \/ was = "APPROVED" THEN "PENDING" ELSE was
  OBVIOUS
<1>6. PICK h \in Header : h = t.header
  BY DEF Tx
<1>7. st \in Review \cup {"absent"}
  BY <1>5 DEF Tx, Row, Review
<1>8. row' = IF t.gone THEN row
             ELSE [row EXCEPT ![t.key].header = h,
                              ![t.key].state = IF st = was THEN @ ELSE st]
  BY <1>3, <1>5, <1>6 DEF EditEnd
<1>9. row' \in [Key -> Row] /\ \A k \in Key : row'[k].id = row[k].id
  <2>1. CASE t.gone \/ t.key \notin Key
    <3>1. row' = row
      BY <1>4, <1>8, <2>1
    <3> QED
      BY <1>4, <3>1
  <2>2. CASE ~t.gone /\ t.key \in Key
    <3>1. PICK y \in Row : y = row[t.key]
      BY <1>4, <2>2
    <3>2. PICK z : z = [y EXCEPT !.header = h, !.state = IF st = was THEN y.state ELSE st]
      OBVIOUS
    <3>3. z \in Row /\ z.id = y.id
      BY <1>7, <3>2 DEF Row
    <3>4. row' = [row EXCEPT ![t.key] = z]
      BY <1>4, <1>8, <2>2, <3>1, <3>2 DEF Row
    <3> QED
      BY <1>4, <3>1, <3>3, <3>4
  <2> QED
    BY <2>1, <2>2
<1>10. RowsNamed'
  BY <1>1, <1>9, RowsLearn
<1> QED
  BY <1>2, <1>9, <1>10, RowSteps DEF EditEnd

LEMMA DeleteEnds == ASSUME IInv, NEW q \in Request, DeleteEnd(q) PROVE IInv'
<1>1. Steady
  BY RowSteps DEF DeleteEnd
<1>2. PICK K : K = {k \in Key : k[1] = tx[q].key[1]}
  OBVIOUS
<1>3. row' = [k \in Key |-> IF k \in K THEN Absent ELSE row[k]] /\ CloseRemoving(q, K)
  BY <1>2 DEF DeleteEnd
<1>4. tx' \in [Request -> Tx] /\ TxInformed' /\ AccountRead'
  BY <1>1, <1>3, TxRemoving DEF DeleteEnd
<1>5. row \in [Key -> Row] /\ Absent \in Row /\ Absent.id = NoId
  BY Blanks DEF IInv, TypeOK, Absent
<1>6. row' \in [Key -> Row] /\ \A k \in Key : row'[k].id \in {NoId, row[k].id}
  BY <1>3, <1>5
<1>7. RowsNamed'
  BY <1>1, <1>6, RowsLearn
<1> QED
  BY <1>4, <1>6, <1>7, RowSteps DEF DeleteEnd

\* Meta changes its templates, and the rows stay.
LEMMA MetaSteps ==
  ASSUME IInv, UNCHANGED <<account, row>>, meta' \in [Id -> MetaTemplate], MetaKeys', Steady,
         tx' \in [Request -> Tx] /\ TxInformed' /\ AccountRead'
  PROVE  IInv'
BY RowsSame, Together DEF IInv, TypeOK

LEMMA EditCalls == ASSUME IInv, NEW q \in Request, EditCall(q) PROVE IInv'
<1>1. meta \in [Id -> MetaTemplate]
  BY DEF IInv, TypeOK
<1>2. PICK t \in Tx : t = tx[q]
  BY DEF IInv, TypeOK
<1>3. PICK i \in Id, h \in Header : i = t.id /\ h = t.header /\ i \in Live
  BY <1>2 DEF EditCall, Live, Tx
<1>4. PICK m \in MetaTemplate : m = meta[i]
  BY <1>1
<1>5. PICK n : n = [m EXCEPT !.header = h, !.state = "PENDING"]
  OBVIOUS
<1>6. n \in MetaTemplate /\ n.state = "PENDING" /\ n.key = m.key
  BY <1>5 DEF MetaTemplate, Review
<1>7. meta' = [meta EXCEPT ![i] = n]
  BY <1>1, <1>2, <1>3, <1>4, <1>5 DEF EditCall, MetaTemplate
<1>8. meta' \in [Id -> MetaTemplate] /\ MetaKeys' /\ Steady
  BY <1>1, <1>3, <1>4, <1>6, <1>7, MetaTouched
<1>9. PICK st, g, k : st = t.copy.state /\ g = t.gone /\ k = t.key
  OBVIOUS
<1>10. st \in Review \cup {"absent"} /\ g \in BOOLEAN /\ k \in Key \cup {NoKey}
  BY <1>9 DEF Tx, Row
<1>11. PICK u : u = [NoTx EXCEPT !.kind = "edited", !.key = k, !.header = h,
                                 !.copy.state = st, !.gone = g]
  OBVIOUS
<1>12. u \in Tx /\ u.kind = "edited"
  <2>1. PICK c : c = [NoTx.copy EXCEPT !.state = st]
    OBVIOUS
  <2>2. c \in Row /\ NoTx \in Tx
    BY <1>10, <2>1, Blanks DEF Tx, Row
  <2>3. u = [NoTx EXCEPT !.kind = "edited", !.key = k, !.header = h, !.copy = c, !.gone = g]
    BY <1>11, <2>1, <2>2 DEF Tx
  <2> QED
    BY <1>10, <2>2, <2>3 DEF Tx
<1>13. Informed(u, Named') /\ Fresh(u, account)
  BY <1>12 DEF Informed, Fresh, AccountKind
<1>14. tx' = [tx EXCEPT ![q] = u]
  BY <1>2, <1>3, <1>9, <1>11 DEF EditCall, Open
<1>15. tx' \in [Request -> Tx] /\ TxInformed' /\ AccountRead'
  BY <1>8, <1>12, <1>13, <1>14, TxKept DEF EditCall
<1> QED
  BY <1>8, <1>15, MetaSteps DEF EditCall

LEMMA DeleteCalls == ASSUME IInv, NEW q \in Request, NEW n \in Name, DeleteCall(q, n) PROVE IInv'
<1>1. meta \in [Id -> MetaTemplate]
  BY DEF IInv, TypeOK
<1>2. meta' = [i \in Id |-> IF i \in Live /\ meta[i].key[1] = n
                            THEN [meta[i] EXCEPT !.state = "deleted"] ELSE meta[i]]
  BY DEF DeleteCall
<1>3. ASSUME NEW i \in Id
      PROVE  /\ meta'[i] \in MetaTemplate
             /\ \/ meta'[i] = meta[i]
                \/ i \in Live /\ meta'[i].state # "unused" /\ meta'[i].key = meta[i].key
  <2>1. PICK m \in MetaTemplate : m = meta[i]
    BY <1>1
  <2>2. PICK d : d = [m EXCEPT !.state = "deleted"]
    OBVIOUS
  <2>3. d \in MetaTemplate /\ d.state = "deleted" /\ d.key = m.key
    BY <2>2 DEF MetaTemplate
  <2>4. meta'[i] = m \/ (meta'[i] = d /\ i \in Live)
    BY <1>2, <2>1, <2>2
  <2> QED
    BY <2>1, <2>3, <2>4
<1>4. meta' \in [Id -> MetaTemplate]
  BY <1>2, <1>3
<1>5. MetaKeys' /\ Steady
  BY <1>3, <1>4, MetaTouched
<1>6. PICK k \in Key : k = CHOOSE l \in Key : l[1] = n
  <2>1. \E l \in Key : l[1] = n
    <3>1. PICK x \in Lang : TRUE
      BY ConstantsAssumption
    <3>2. <<n, x>> \in Key /\ <<n, x>>[1] = n
      BY DEF Key
    <3> QED
      BY <3>2
  <2> QED
    BY <2>1
<1>7. PICK t : t = [NoTx EXCEPT !.kind = "delete", !.key = k]
  OBVIOUS
<1>8. t \in Tx /\ t.kind = "delete"
  BY <1>7, Blanks DEF Tx
<1>9. Informed(t, Named') /\ Fresh(t, account)
  BY <1>8 DEF Informed, Fresh, AccountKind
<1>10. tx' = [tx EXCEPT ![q] = t]
  BY <1>6, <1>7 DEF DeleteCall, Open
<1>11. tx' \in [Request -> Tx] /\ TxInformed' /\ AccountRead'
  BY <1>5, <1>8, <1>9, <1>10, TxKept DEF DeleteCall
<1> QED
  BY <1>4, <1>5, <1>11, MetaSteps DEF DeleteCall

LEMMA AtMeta ==
  ASSUME IInv, NEW i \in Id
  PROVE  /\ \A st \in Verdict : Reviewed(i, st) => IInv'
         /\ \A k \in Key, h \in Header : CreatedAtMeta(i, k, h) => IInv'
         /\ DeletedAtMeta(i) => IInv'
<1>1. meta \in [Id -> MetaTemplate]
  BY DEF IInv, TypeOK
<1>2. ASSUME NEW st \in {"APPROVED", "REJECTED", "deleted"}, i \in Live,
             meta' = [meta EXCEPT ![i].state = st], UNCHANGED <<account, row, tx>>
      PROVE  IInv'
  <2>1. PICK m \in MetaTemplate : m = meta[i]
    BY <1>1
  <2>2. PICK n : n = [m EXCEPT !.state = st]
    OBVIOUS
  <2>3. n \in MetaTemplate /\ n.state = st /\ n.key = m.key
    BY <2>2 DEF MetaTemplate, Review
  <2>4. meta' = [meta EXCEPT ![i] = n]
    BY <1>1, <1>2, <2>1, <2>2
  <2>5. meta' \in [Id -> MetaTemplate] /\ MetaKeys' /\ Steady
    BY <1>1, <1>2, <2>1, <2>3, <2>4, MetaTouched
  <2> QED
    BY <1>2, <2>5, TxSame, MetaSteps
<1>3. ASSUME NEW st \in Verdict, Reviewed(i, st) PROVE IInv'
  BY <1>2, <1>3, ConstantsAssumption DEF Reviewed, Live, Review
<1>4. ASSUME NEW k \in Key, NEW h \in Header, CreatedAtMeta(i, k, h) PROVE IInv'
  <2>1. meta' \in [Id -> MetaTemplate] /\ MetaKeys' /\ Steady
    BY <1>4, MetaCreated DEF CreatedAtMeta
  <2> QED
    BY <1>4, <2>1, TxSame, MetaSteps DEF CreatedAtMeta
<1>5. ASSUME DeletedAtMeta(i) PROVE IInv'
  BY <1>2, <1>5 DEF DeletedAtMeta
<1> QED
  BY <1>3, <1>4, <1>5

LEMMA Fails == ASSUME IInv, NEW q \in Request, Fail(q) PROVE IInv'
<1>1. MetaKeys' /\ Steady
  BY RowSteps DEF Fail
<1>2. row' \in [Key -> Row] /\ RowsNamed'
  BY <1>1, RowsSame DEF Fail
<1> QED
  BY <1>1, <1>2, TxClosed, RowSteps DEF Fail

LEMMA InitInv == ASSUME Init PROVE IInv
<1>1. TypeOK
  BY Blanks DEF Init, TypeOK, AccountRow, AccountStatus
<1>2. MetaKeys
  <2>1. \A i \in Id : meta[i].state = "unused" /\ meta[i].header = "none"
    BY DEF Init, Unused
  <2> QED
    BY <2>1 DEF MetaKeys, Live, Review
<1>3. AccountRead
  BY Blanks DEF Init, AccountRead
<1>4. RowsNamed
  BY DEF Init, RowsNamed, Absent
<1>5. TxInformed
  <2>1. PICK N : N = Named
    OBVIOUS
  <2> QED
    BY <2>1, Blanks DEF Init, TxInformed
<1> QED
  BY <1>1, <1>2, <1>3, <1>4, <1>5 DEF IInv

LEMMA NextInv == ASSUME IInv, [Next]_vars PROVE IInv'
<1>1. CASE UNCHANGED vars
  <2>1. UNCHANGED <<account, meta, row, tx>>
    BY <1>1 DEF vars
  <2>2. MetaKeys' /\ Steady
    BY <2>1, RowSteps
  <2> QED
    BY <2>1, <2>2, RowsSame, TxSame, RowSteps
<1>2. ASSUME NEW q \in Request,
             \/ ConnectBegin(q) \/ \E st \in Outcome : MetaCallback(q, st)
             \/ ManualSetup(q) \/ DisconnectBegin(q) \/ Disconnect(q)
             \/ RefreshBegin(q) \/ \E st \in {"active", "error"} : RefreshEnd(q, st)
      PROVE  IInv'
  BY <1>2, AccountSteps, ReadSteps
<1>3. ASSUME NEW q \in Request,
             \/ SyncList(q) \/ SyncEnd(q) \/ CreateEnd(q) \/ EditCall(q) \/ DeleteEnd(q) \/ Fail(q)
             \/ \E k \in Key, h \in Header, i \in Id, b \in BOOLEAN : CreateCall(q, k, h, i, b)
             \/ \E k \in Key, h \in {"omitted", "text"} \cup Media : EditBegin(q, k, h)
             \/ \E b \in BOOLEAN : EditEnd(q, b)
             \/ \E n \in Name : DeleteCall(q, n)
      PROVE  IInv'
  BY <1>3, SyncLists, SyncEnds, CreateCalls, CreateEnds, EditBegins,
     EditCalls, EditEnds, DeleteCalls, DeleteEnds, Fails
<1>4. ASSUME NEW i \in Id,
             \/ \E st \in Verdict : Reviewed(i, st)
             \/ \E k \in Key, h \in Header : CreatedAtMeta(i, k, h)
             \/ DeletedAtMeta(i)
      PROVE  IInv'
  BY <1>4, AtMeta
<1> QED
  BY <1>1, <1>2, <1>3, <1>4 DEF Next

\* What a request does to the account changes neither Meta nor the rows.
LEMMA AccountOnly ==
  ASSUME NEW q \in Request,
         \/ ConnectBegin(q) \/ \E st \in Outcome : MetaCallback(q, st)
         \/ ManualSetup(q) \/ DisconnectBegin(q) \/ Disconnect(q)
         \/ RefreshBegin(q) \/ \E st \in {"active", "error"} : RefreshEnd(q, st)
  PROVE  meta' = meta /\ row' = row
BY DEF ConnectBegin, MetaCallback, ManualSetup, DisconnectBegin, Disconnect, RefreshBegin, RefreshEnd,
       Read, Commit

-----------------------------------------------------------------------------
(* The theorems.                                                           *)

\* The account, Meta's templates, the rows and what every request holds keep
\* their types (whatsapp_accounts, whatsapp_templates).
THEOREM TypeCorrect == Spec => []TypeOK
<1>1. IInv => TypeOK
  BY DEF IInv
<1> QED
  BY <1>1, InitInv, NextInv, PTL DEF Spec

\* A row that carries one of Meta's ids is about the template of that id,
\* however many requests create, edit, delete and synchronise at a time
\* (whatsapp_api.py:884-900).
THEOREM RowsKeepTheirTemplates == Spec => []RowsAreTheirTemplates
<1>1. IInv => RowsAreTheirTemplates
  <2> SUFFICES ASSUME IInv, NEW k \in Key, row[k].id # NoId
               PROVE  meta[row[k].id].key = k
    BY DEF RowsAreTheirTemplates
  <2>1. row[k].id \in Id /\ k # NoKey /\ Named[row[k].id] = k
    BY ConstantsAssumption DEF IInv, TypeOK, RowsNamed, Row, Key
  <2> QED
    BY <2>1 DEF Named
<1> QED
  BY <1>1, InitInv, NextInv, PTL DEF Spec

\* An account is made active without credentials only by the commit of a request
\* whose copy of it was overtaken: by no connection, refresh or disconnect that
\* read the account as it is (whatsapp_api.py:391, 432, 647-657).
THEOREM OnlyStaleCopiesRevive == Spec => ActiveHasCredentials
<1>1. ASSUME IInv, NEW q \in Request, account'.status = "active", ~account'.token,
             \/ \E st \in Outcome : MetaCallback(q, st)
             \/ ManualSetup(q) \/ Disconnect(q)
             \/ \E st \in {"active", "error"} : RefreshEnd(q, st)
      PROVE  \/ account.status = "active" /\ ~account.token
             \/ tx[q].kind \in AccountKind /\ tx[q].stale /\ tx'[q] = NoTx
  <2>1. PICK t \in Tx : t = tx[q]
    BY <1>1 DEF IInv, TypeOK
  <2>2. t.kind \in AccountKind /\ tx'[q] = NoTx
    BY <1>1, <2>1 DEF MetaCallback, ManualSetup, Disconnect, RefreshEnd, Commit, AccountKind
  <2>3. Fresh(t, account) /\ account \in AccountRow
    BY <1>1, <2>1 DEF IInv, TypeOK, AccountRead
  <2>4. CASE t.stale
    BY <2>1, <2>2, <2>4
  <2>5. CASE ~t.stale
    <3>1. t.status = account.status /\ t.token = account.token /\ (t.kind = "refresh" => account.token)
      BY <2>2, <2>3, <2>5 DEF Fresh
    <3>2. ASSUME NEW st, account' = Connected(t, st) PROVE account' = account
      BY <1>1, <3>2 DEF Connected
    <3>3. account' # Disconnected(t)
      BY <1>1, <3>1 DEF Disconnected
    <3>4. ASSUME NEW st, RefreshEnd(q, st) PROVE FALSE
      <4>1. account.token /\ account'.token = account.token
        BY <2>1, <2>3, <3>1, <3>4 DEF RefreshEnd, Commit, AccountRow
      <4> QED
        BY <1>1, <4>1
    <3>5. account' = account
      BY <1>1, <2>1, <3>2, <3>3, <3>4 DEF MetaCallback, ManualSetup, Disconnect, Commit
    <3> QED
      BY <1>1, <3>5
  <2> QED
    BY <2>4, <2>5
<1>2. ASSUME IInv, [Next]_vars, account'.status = "active", ~account'.token
      PROVE  \/ account.status = "active" /\ ~account.token
             \/ \E q \in Request : tx[q].kind \in AccountKind /\ tx[q].stale /\ tx'[q] = NoTx
  <2>1. CASE account' = account
    BY <1>2, <2>1
  <2>2. CASE account' # account
    <3>1. \E q \in Request : \/ \E st \in Outcome : MetaCallback(q, st)
                             \/ ManualSetup(q) \/ Disconnect(q)
                             \/ \E st \in {"active", "error"} : RefreshEnd(q, st)
      BY <1>2, <2>2, ZenonT(30)
      DEF Next, vars, ConnectBegin, DisconnectBegin, RefreshBegin, Read, SyncList, SyncEnd, CreateCall,
          CreateEnd, EditBegin, EditCall, EditEnd, DeleteCall, DeleteEnd, Fail, Reviewed, CreatedAtMeta,
          DeletedAtMeta
    <3> QED
      BY <1>1, <1>2, <3>1
  <2> QED
    BY <2>1, <2>2
<1>3. IInv /\ [Next]_vars =>
        [account'.status = "active" /\ ~account'.token =>
           \/ account.status = "active" /\ ~account.token
           \/ \E q \in Request : tx[q].kind \in AccountKind /\ tx[q].stale /\ tx'[q] = NoTx]_vars
  BY <1>2
<1> QED
  BY <1>3, InitInv, NextInv, PTL DEF Spec, ActiveHasCredentials

\* No edit that leaves the header unmentioned takes the media header off a
\* template that its row showed (whatsapp_api.py:752-759).
THEOREM MediaAreKept == Spec => MediaSurvivesEdits
<1>1. ASSUME IInv, [Next]_vars, NEW i \in Id, meta[i].header \in Media, meta'[i].header \notin Media
      PROVE  \E q \in Request : /\ tx[q].kind = "edit" /\ tx[q].id = i
                                /\ tx[q].asked # "omitted" \/ tx[q].copy.header # meta[i].header
  <2>1. meta \in [Id -> MetaTemplate] /\ MetaKeys /\ "none" \notin Media
    BY <1>1, ConstantsAssumption DEF IInv, TypeOK
  <2>2. meta'[i].header # meta[i].header /\ meta[i].state # "unused"
    BY <1>1, <2>1 DEF MetaKeys
  <2>3. ASSUME NEW j \in Id, NEW k \in Key, NEW h \in Header, meta[j].state = "unused",
               meta' = [meta EXCEPT ![j] = [state |-> "PENDING", key |-> k, header |-> h]]
        PROVE  FALSE
    <3>1. i # j
      BY <2>2, <2>3
    <3> QED
      BY <2>1, <2>2, <2>3, <3>1
  <2>4. ~\E q \in Request, k \in Key, h \in Header, j \in Id, b \in BOOLEAN : CreateCall(q, k, h, j, b)
    BY <2>3 DEF CreateCall
  <2>5. ~\E j \in Id, k \in Key, h \in Header : CreatedAtMeta(j, k, h)
    BY <2>3 DEF CreatedAtMeta
  <2>6. ASSUME NEW j \in Id, NEW st, meta' = [meta EXCEPT ![j].state = st] PROVE FALSE
    <3>1. PICK m \in MetaTemplate : m = meta[j]
      BY <2>1
    <3>2. PICK d : d = [m EXCEPT !.state = st]
      OBVIOUS
    <3>3. d.header = m.header
      BY <3>2 DEF MetaTemplate
    <3>4. meta' = [meta EXCEPT ![j] = d]
      BY <2>1, <2>6, <3>1, <3>2
    <3> QED
      BY <2>1, <2>2, <3>1, <3>3, <3>4
  <2>7. ~\E j \in Id : DeletedAtMeta(j) \/ \E st \in Verdict : Reviewed(j, st)
    BY <2>6 DEF DeletedAtMeta, Reviewed
  <2>8. ~\E q \in Request, n \in Name : DeleteCall(q, n)
    <3>1. ASSUME NEW q \in Request, NEW n \in Name, DeleteCall(q, n) PROVE FALSE
      <4>1. meta'[i] = meta[i] \/ meta'[i] = [meta[i] EXCEPT !.state = "deleted"]
        BY <3>1 DEF DeleteCall
      <4>2. PICK m \in MetaTemplate : m = meta[i]
        BY <2>1
      <4>3. meta'[i].header = m.header
        BY <4>1, <4>2 DEF MetaTemplate
      <4> QED
        BY <2>2, <4>2, <4>3
    <3> QED
      BY <3>1
  <2>9. PICK q \in Request : EditCall(q)
    BY <1>1, <2>2, <2>4, <2>5, <2>7, <2>8, AccountOnly, ZenonT(30)
    DEF Next, vars, SyncList, SyncEnd, CreateEnd, EditBegin, EditEnd, DeleteEnd, Fail
  <2>10. PICK t \in Tx : t = tx[q]
    BY <1>1 DEF IInv, TypeOK
  <2>11. t.kind = "edit" /\ t.id \in Live
         /\ meta' = [meta EXCEPT ![t.id].header = t.header, ![t.id].state = "PENDING"]
    BY <2>9, <2>10 DEF EditCall
  <2>12. t.id = i
    BY <2>1, <2>2, <2>11 DEF Live
  <2>13. meta'[i].header = t.header
    BY <2>1, <2>11, <2>12 DEF MetaTemplate
  <2>14. PICK N : N = Named
    OBVIOUS
  <2>15. Informed(t, N)
    BY <1>1, <2>10, <2>14 DEF IInv, TxInformed
  <2>16. t.header = Built(t.asked, t.copy.header)
    BY <2>11, <2>15 DEF Informed
  <2>17. t.asked # "omitted" \/ t.copy.header # meta[i].header
    BY <1>1, <2>13, <2>16 DEF Built
  <2> QED
    BY <2>10, <2>11, <2>12, <2>17
<1>2. IInv /\ [Next]_vars =>
        [\A i \in Id : meta[i].header \in Media /\ meta'[i].header \notin Media =>
           \E q \in Request : /\ tx[q].kind = "edit" /\ tx[q].id = i
                              /\ tx[q].asked # "omitted" \/ tx[q].copy.header # meta[i].header]_vars
  BY <1>1
<1> QED
  BY <1>2, InitInv, NextInv, PTL DEF Spec, MediaSurvivesEdits

\* The commit of a sync leaves the rows in agreement with what Meta listed
\* (whatsapp_api.py:884-933).
THEOREM SyncsAgree == Spec => SyncAgrees
<1>1. ASSUME IInv, [Next]_vars, NEW q \in Request,
             tx[q].kind = "sync", row' # row, tx'[q] = NoTx, Page(tx[q]) # {}
      PROVE  LET page == Page(tx[q]) IN
             /\ \A k \in Key : row'[k].id \in page \cup {NoId}
             /\ \A i \in page :
                  LET r == row'[tx[q].seen[i].key] IN
                  \/ r.id = i /\ r.state = tx[q].seen[i].state
                  \/ row[tx[q].seen[i].key].id \notin page \cup {NoId}
  <2>1. tx \in [Request -> Tx] /\ tx[q] # NoTx
    BY <1>1, Blanks DEF IInv, TypeOK
  <2>2. ASSUME NEW r \in Request, Close(r) PROVE r = q
    BY <1>1, <2>1, <2>2 DEF Close
  <2>3. ASSUME NEW r \in Request, NEW K, CloseRemoving(r, K) PROVE r = q
    <3>1. r # q => tx'[q] = tx[q]
      BY <1>1, <2>3 DEF CloseRemoving
    <3> QED
      BY <1>1, <2>1, <3>1
  <2>4. ~\E r \in Request : CreateEnd(r) \/ DeleteEnd(r) \/ \E b \in BOOLEAN : EditEnd(r, b)
    <3>1. ASSUME NEW r \in Request, CreateEnd(r) PROVE FALSE
      BY <1>1, <2>2, <3>1 DEF CreateEnd
    <3>2. ASSUME NEW r \in Request, DeleteEnd(r) PROVE FALSE
      <4>1. PICK K : CloseRemoving(r, K)
        BY <3>2 DEF DeleteEnd
      <4> QED
        BY <1>1, <2>3, <3>2, <4>1 DEF DeleteEnd
    <3>3. ASSUME NEW r \in Request, NEW b \in BOOLEAN, EditEnd(r, b) PROVE FALSE
      <4>1. tx[r].kind = "edited" /\ Close(r)
        BY <3>3 DEF EditEnd
      <4> QED
        BY <1>1, <2>2, <4>1
    <3> QED
      BY <3>1, <3>2, <3>3
  <2>5. PICK r \in Request : SyncEnd(r)
    BY <1>1, <2>4, AccountOnly, ZenonT(30)
    DEF Next, vars, SyncList, CreateCall, EditBegin, EditCall, DeleteCall, Fail, Reviewed, CreatedAtMeta, DeletedAtMeta
  <2>6. PICK K : CloseRemoving(r, K)
    BY <2>5 DEF SyncEnd
  <2>7. SyncEnd(q)
    BY <2>3, <2>5, <2>6
  <2>8. PICK t \in Tx : t = tx[q]
    BY <2>1
  <2>9. PICK page, item : page = Page(t) /\ item = t.seen
    OBVIOUS
  <2>10. SyncLeft(page, item)
    BY <1>1, <2>7, <2>8, <2>9, SyncRows
  <2>11. \A k \in Key : k \in Stale(page) <=> row[k].id \notin page \cup {NoId}
    BY <1>1, <2>8, <2>9 DEF Stale
  <2>12. ASSUME NEW k \in Key PROVE row'[k].id \in page \cup {NoId}
    <3>1. Absent.id = NoId
      BY DEF Absent
    <3>2. CASE row'[k] = Absent
      BY <3>1, <3>2
    <3>3. CASE k \notin Stale(page) /\ row'[k] = row[k]
      BY <2>11, <3>3
    <3>4. CASE \E j \in page : row'[k] = [state |-> item[j].state, id |-> j, header |-> item[j].header]
      BY <3>4
    <3> QED
      BY <2>10, <3>2, <3>3, <3>4 DEF SyncLeft
  <2>13. ASSUME NEW i \in page
         PROVE  \/ row'[item[i].key].id = i /\ row'[item[i].key].state = item[i].state
                \/ row[item[i].key].id \notin page \cup {NoId}
    <3>1. PICK k \in Key : k = item[i].key
      BY <2>10 DEF SyncLeft
    <3>2. CASE k \in Stale(page)
      BY <2>11, <3>1, <3>2
    <3>3. CASE k \notin Stale(page)
      <4>1. PICK j \in page : /\ item[j].key = k
                              /\ row'[k] = [state |-> item[j].state, id |-> j, header |-> item[j].header]
        BY <2>10, <3>1, <3>3 DEF SyncLeft
      <4>2. i = j
        BY <2>10, <3>1, <4>1 DEF SyncLeft
      <4> QED
        BY <3>1, <4>1, <4>2
    <3> QED
      BY <3>2, <3>3
  <2> QED
    BY <2>8, <2>9, <2>12, <2>13
<1>2. IInv /\ [Next]_vars =>
        [\A q \in Request :
           LET page == Page(tx[q]) IN
           tx[q].kind = "sync" /\ row' # row /\ tx'[q] = NoTx /\ page # {} =>
             /\ \A k \in Key : row'[k].id \in page \cup {NoId}
             /\ \A i \in page :
                  LET r == row'[tx[q].seen[i].key] IN
                  \/ r.id = i /\ r.state = tx[q].seen[i].state
                  \/ row[tx[q].seen[i].key].id \notin page \cup {NoId}]_vars
  BY <1>1
<1> QED
  BY <1>2, InitInv, NextInv, PTL DEF Spec, SyncAgrees

=============================================================================
