-------------------------------- MODULE Channel --------------------------------
(***************************************************************************)
(* A company's WhatsApp account and its message templates:                 *)
(* whatsapp_api.py.                                                        *)
(*                                                                         *)
(* Every template lives twice, at Meta and in whatsapp_templates.  A       *)
(* request reads its rows, calls Meta, and commits: in between, Meta has   *)
(* already changed and other requests come and go.  A commit writes only   *)
(* the columns that differ from what the request read.                     *)
(*                                                                         *)
(* Left out: the text of headers, bodies, footers and buttons, which an    *)
(* edit always replaces; mappings; onboarding sessions; names and numbers. *)
(***************************************************************************)
EXTENDS Naturals, FiniteSets, FiniteSetsExt

CONSTANTS
  Name, Lang,   \* a template is known by its name and its language
  Media,        \* the media formats of a header
  Id,           \* bound: templates Meta ever has
  NoId, NoKey,
  Outcome,      \* bound: the status a connection gets, among "active" and "pending"
  Verdict,      \* bound: Meta's decisions, among "APPROVED" and "REJECTED"
  Request,      \* threads that serve requests
  PageLimit     \* templates on the only page a sync asks for (100)

ASSUME ConstantsAssumption ==
  /\ NoId \notin Id /\ NoKey \notin Name \X Lang
  /\ Media \cap {"none", "text", "omitted"} = {} /\ Verdict \subseteq {"APPROVED", "REJECTED"}
  /\ Outcome \subseteq {"active", "pending"}
  /\ PageLimit \in Nat \ {0} /\ IsFiniteSet(Id) /\ Lang # {}

VARIABLES
  account,  \* the row of whatsapp_accounts
  meta,     \* [Id -> MetaTemplate], external
  row,      \* [Key -> Row], whatsapp_templates: one row per name and language
  tx        \* [Request -> Tx]

vars == <<account, meta, row, tx>>

Key    == Name \X Lang
Header == {"none"} \cup Media   \* its media header
Review == {"PENDING", "APPROVED", "REJECTED"}

AccountStatus == {"none", "pending", "active", "error", "disconnected"}
AccountRow   == [status : AccountStatus, token : BOOLEAN]
MetaTemplate == [state : Review \cup {"unused", "deleted"}, key : Key \cup {NoKey}, header : Header]
Row          == [state : Review \cup {"absent"}, id : Id \cup {NoId}, header : Header]
Absent       == [state |-> "absent", id |-> NoId, header |-> "none"]

\* status and token are what the request read of the account, and stale says that
\* the account has changed since; copy is what it read of its row, and gone says
\* that the row was deleted since.
AccountKind == {"connect", "disconnect", "refresh"}
Tx == [kind : AccountKind \cup {"none", "sync", "create", "edit", "edited", "delete"},
       status : AccountStatus, key : Key \cup {NoKey},
       token : BOOLEAN, stale : BOOLEAN, id : Id \cup {NoId}, copy : Row, header : Header, asked : {"omitted", "text"} \cup Media,
       seen : [Id -> MetaTemplate], gone : BOOLEAN]

Unused == [i \in Id |-> [state |-> "unused", key |-> NoKey, header |-> "none"]]
NoTx   == [kind |-> "none", status |-> "none", token |-> FALSE, stale |-> FALSE,
           key |-> NoKey, id |-> NoId, copy |-> Absent, header |-> "none", asked |-> "text",
           seen |-> Unused, gone |-> FALSE]

Open(q, t)  == tx' = [tx EXCEPT ![q] = t]
Close(q)    == tx' = [tx EXCEPT ![q] = NoTx]
\* The commit that ends q, and deletes the rows of the keys in K.
CloseRemoving(q, K) ==
  tx' = [r \in Request |->
           IF r = q THEN NoTx
           ELSE IF tx[r].kind \in {"edit", "edited"} /\ tx[r].key \in K
                THEN [tx[r] EXCEPT !.gone = TRUE] ELSE tx[r]]

Live     == {i \in Id : meta[i].state \in Review}
Holds(k) == {i \in Live : meta[i].key = k}

-----------------------------------------------------------------------------
(* The account.                                                            *)

\* The request reads the account.
Read(q, kind) ==
  /\ tx[q] = NoTx
  /\ Open(q, [NoTx EXCEPT !.kind = kind, !.status = account.status, !.token = account.token])
  /\ UNCHANGED <<account, meta, row>>

\* The commit that ends q and leaves the account as a.
Commit(q, a) ==
  /\ account' = a
  /\ tx' = [r \in Request |->
              IF r = q THEN NoTx
              ELSE IF tx[r].kind \in AccountKind /\ a # account
                   THEN [tx[r] EXCEPT !.stale = TRUE] ELSE tx[r]]
  /\ UNCHANGED <<meta, row>>

\* Meta has verified the credentials.
ConnectBegin(q) == Read(q, "connect")

\* The token is encrypted anew and always written.  A row that came in meanwhile
\* makes the insert fail.
Connected(t, st) ==
  IF t.status = "none" /\ account.status # "none" THEN account
  ELSE [status |-> IF st = t.status THEN account.status ELSE st, token |-> TRUE]

\* meta_callback and meta_oauth_callback; a phone that is not CONNECTED leaves the
\* account pending.
MetaCallback(q, st) ==
  /\ tx[q].kind = "connect"
  /\ Commit(q, Connected(tx[q], st))

\* manual_setup does not ask for the phone's state.
ManualSetup(q) ==
  /\ tx[q].kind = "connect"
  /\ Commit(q, Connected(tx[q], "active"))

DisconnectBegin(q) == account.status # "none" /\ Read(q, "disconnect")

\* Mutant: only the credentials are cleared.
DisconnectedHalf(t) == [account EXCEPT !.token = account.token /\ ~t.token]

Disconnected(t) ==
  [status |-> IF t.status = "disconnected" THEN account.status ELSE "disconnected",
   token |-> account.token /\ ~t.token]

Disconnect(q) ==
  /\ tx[q].kind = "disconnect"
  /\ Commit(q, Disconnected(tx[q]))

RefreshBegin(q) == account.token /\ Read(q, "refresh")

RefreshEnd(q, st) ==
  /\ tx[q].kind = "refresh"
  /\ Commit(q, IF st = tx[q].status THEN account ELSE [account EXCEPT !.status = st])

\* _get_active_account
Usable == account.token /\ account.status = "active"

\* What a sync was given.
Page(t) == {i \in Id : t.seen[i].state # "unused"}

-----------------------------------------------------------------------------
(* The templates.                                                          *)

SyncList(q) ==
  /\ tx[q] = NoTx /\ Usable
  /\ \E page \in kSubset(Min({PageLimit, Cardinality(Live)}), Live) :
       Open(q, [NoTx EXCEPT !.kind = "sync",
                            !.seen = [i \in Id |-> IF i \in page THEN meta[i] ELSE Unused[i]]])
  /\ UNCHANGED <<account, meta, row>>

\* Mutant: the rows Meta no longer has are kept.
StaleNone(page) == {}

\* The rows that carry an id Meta did not list.  The query sees the ids as they
\* were before this sync: nothing is flushed until the commit.
Stale(page) ==
  IF page = {} THEN {} ELSE {k \in Key : row[k].id # NoId /\ row[k].id \notin page}

\* Mutant: a row is matched by its name in any language.
MatchName(i, k) == {l \in Key : l[1] = k[1] /\ row[l].state # "absent"}

\* A row is matched by Meta's id, or else by name and language.
Match(i, k) == {l \in Key : row[l].id = i} \cup
               (IF \E l \in Key : row[l].id = i THEN {} ELSE {l \in {k} : row[l].state # "absent"})

SyncEnd(q) ==
  LET page == Page(tx[q])
      item == tx[q].seen
      to(i) == LET m == Match(i, item[i].key) IN IF m = {} THEN {item[i].key} ELSE m IN
  /\ tx[q].kind = "sync"
  /\ row' = [k \in Key |->
       IF k \in Stale(page) THEN Absent
       ELSE IF \E i \in page : k \in to(i)
       THEN LET i == CHOOSE j \in page : k \in to(j)
            IN [state |-> item[i].state, id |-> i, header |-> item[i].header]
       ELSE row[k]]
  /\ CloseRemoving(q, Stale(page))
  /\ UNCHANGED <<account, meta>>

\* The name is free here, and Meta has found it free there.  Meta's answer may
\* lack the new id.
CreateCall(q, k, h, i, told) ==
  /\ tx[q] = NoTx /\ Usable /\ row[k].state = "absent"
  /\ Holds(k) = {} /\ meta[i].state = "unused"
  /\ meta' = [meta EXCEPT ![i] = [state |-> "PENDING", key |-> k, header |-> h]]
  /\ Open(q, [NoTx EXCEPT !.kind = "create", !.key = k, !.header = h,
                          !.id = IF told THEN i ELSE NoId])
  /\ UNCHANGED <<account, row>>

\* A row that came in by a sync makes the insert fail.
CreateEnd(q) ==
  LET k == tx[q].key IN
  /\ tx[q].kind = "create"
  /\ row' = IF row[k].state # "absent" THEN row
            ELSE [row EXCEPT ![k] = [state |-> "PENDING", id |-> tx[q].id,
                                  header |-> tx[q].header]]
  /\ Close(q)
  /\ UNCHANGED <<account, meta>>

\* Mutant: a header the request does not mention is removed.
BuiltAnew(asked, h) == IF asked \in Media THEN asked ELSE "none"

\* _build_header: a request that does not mention the header keeps the media.
Built(asked, h) == IF asked \in Media THEN asked ELSE IF asked = "omitted" THEN h ELSE "none"

\* A media header without a new sample must be the stored one, or is refused.
EditBegin(q, k, asked) ==
  /\ tx[q] = NoTx /\ Usable /\ row[k].id # NoId
  /\ Open(q, [NoTx EXCEPT !.kind = "edit", !.key = k, !.id = row[k].id, !.copy = row[k],
                          !.asked = asked, !.header = Built(asked, row[k].header)])
  /\ UNCHANGED <<account, meta, row>>

\* Meta knows the template by its id, and reviews it again.
EditCall(q) ==
  LET i == tx[q].id IN
  /\ tx[q].kind = "edit" /\ i \in Live
  /\ meta' = [meta EXCEPT ![i].header = tx[q].header, ![i].state = "PENDING"]
  /\ Open(q, [NoTx EXCEPT !.kind = "edited", !.key = tx[q].key, !.header = tx[q].header,
                          !.copy.state = tx[q].copy.state, !.gone = tx[q].gone])
  /\ UNCHANGED <<account, row>>

\* Meta answers with a status or without; a deleted row makes the UPDATE fail.
EditEnd(q, told) ==
  LET k   == tx[q].key
      was == tx[q].copy.state
      st  == IF told \/ was = "APPROVED" THEN "PENDING" ELSE was IN
  /\ tx[q].kind = "edited"
  /\ row' = IF tx[q].gone THEN row
            ELSE [row EXCEPT ![k].header = tx[q].header,
                             ![k].state = IF st = was THEN @ ELSE st]
  /\ Close(q)
  /\ UNCHANGED <<account, meta>>

\* Meta deletes a name in all its languages; one it does not know is fine.
DeleteCall(q, n) ==
  /\ tx[q] = NoTx /\ Usable
  /\ meta' = [i \in Id |-> IF i \in Live /\ meta[i].key[1] = n
                           THEN [meta[i] EXCEPT !.state = "deleted"] ELSE meta[i]]
  /\ Open(q, [NoTx EXCEPT !.kind = "delete", !.key = CHOOSE k \in Key : k[1] = n])
  /\ UNCHANGED <<account, row>>

DeleteEnd(q) ==
  LET K == {k \in Key : k[1] = tx[q].key[1]} IN
  /\ tx[q].kind = "delete"
  /\ row' = [k \in Key |-> IF k \in K THEN Absent ELSE row[k]]
  /\ CloseRemoving(q, K)
  /\ UNCHANGED <<account, meta>>

\* Meta's answer is an error or lost: the request ends without a commit.
Fail(q) ==
  /\ tx[q] # NoTx
  /\ Close(q)
  /\ UNCHANGED <<account, meta, row>>

-----------------------------------------------------------------------------
(* Meta: reviews, and what people do in Meta's own manager.                *)

Reviewed(i, st) ==
  /\ meta[i].state = "PENDING"
  /\ meta' = [meta EXCEPT ![i].state = st]
  /\ UNCHANGED <<account, row, tx>>

CreatedAtMeta(i, k, h) ==
  /\ meta[i].state = "unused" /\ Holds(k) = {}
  /\ meta' = [meta EXCEPT ![i] = [state |-> "PENDING", key |-> k, header |-> h]]
  /\ UNCHANGED <<account, row, tx>>

DeletedAtMeta(i) ==
  /\ i \in Live
  /\ meta' = [meta EXCEPT ![i].state = "deleted"]
  /\ UNCHANGED <<account, row, tx>>

-----------------------------------------------------------------------------
Init ==
  /\ account = [status |-> "none", token |-> FALSE]
  /\ meta = Unused
  /\ row = [k \in Key |-> Absent]
  /\ tx = [q \in Request |-> NoTx]

Next ==
  \/ \E q \in Request :
       \/ ConnectBegin(q) \/ \E st \in Outcome : MetaCallback(q, st)
       \/ ManualSetup(q) \/ DisconnectBegin(q) \/ Disconnect(q)
       \/ RefreshBegin(q) \/ \E st \in {"active", "error"} : RefreshEnd(q, st)
       \/ SyncList(q) \/ SyncEnd(q) \/ CreateEnd(q) \/ EditCall(q) \/ DeleteEnd(q) \/ Fail(q)
       \/ \E k \in Key, h \in Header, i \in Id, b \in BOOLEAN : CreateCall(q, k, h, i, b)
       \/ \E k \in Key, h \in {"omitted", "text"} \cup Media : EditBegin(q, k, h)
       \/ \E b \in BOOLEAN : EditEnd(q, b)
       \/ \E n \in Name : DeleteCall(q, n)
  \/ \E i \in Id : \/ \E st \in Verdict : Reviewed(i, st)
                   \/ \E k \in Key, h \in Header : CreatedAtMeta(i, k, h)
                   \/ DeletedAtMeta(i)

Spec == Init /\ [][Next]_vars

-----------------------------------------------------------------------------
(* Properties.                                                             *)

\* Everything keeps its type (whatsapp_accounts, whatsapp_templates).
TypeOK ==
  /\ account \in AccountRow
  /\ meta \in [Id -> MetaTemplate]
  /\ row \in [Key -> Row]
  /\ tx \in [Request -> Tx]

\* A row that carries one of Meta's ids is about the template of that id: its
\* name and language are the row's, through creations, edits, deletions and
\* syncs by id or by name (whatsapp_api.py:884-900).
RowsAreTheirTemplates == \A k \in Key : row[k].id # NoId => meta[row[k].id].key = k

\* An account becomes active without credentials only by a commit that works on
\* a stale copy of it, as that of a refresh that a disconnect has overtaken
\* (whatsapp_api.py:391, 432, 647-657).
ActiveHasCredentials ==
  [][account'.status = "active" /\ ~account'.token =>
       \/ account.status = "active" /\ ~account.token
       \/ \E q \in Request : tx[q].kind \in AccountKind /\ tx[q].stale /\ tx'[q] = NoTx]_vars

\* A request that does not mention the header never takes the media header
\* off a template, unless the row it read did not show that header
\* (whatsapp_api.py:752-759).
MediaSurvivesEdits ==
  [][\A i \in Id : meta[i].header \in Media /\ meta'[i].header \notin Media =>
       \E q \in Request : /\ tx[q].kind = "edit" /\ tx[q].id = i
                          /\ tx[q].asked # "omitted" \/ tx[q].copy.header # meta[i].header]_vars

\* After the commit of a sync, every row with an id is one that Meta listed to
\* it, and every listed template has its row and status, but the
\* one that came back under an id the row did not have (whatsapp_api.py:884-933).
SyncAgrees ==
  [][\A q \in Request :
       LET page == Page(tx[q]) IN
       tx[q].kind = "sync" /\ row' # row /\ tx'[q] = NoTx /\ page # {} =>
         /\ \A k \in Key : row'[k].id \in page \cup {NoId}
         /\ \A i \in page :
              LET r == row'[tx[q].seen[i].key] IN
              \/ r.id = i /\ r.state = tx[q].seen[i].state
              \/ row[tx[q].seen[i].key].id \notin page \cup {NoId}]_vars

\* "Remove local templates that Meta no longer has" (whatsapp_api.py:921): the
\* commit of a sync does not remove the row of a template it was given.
OnlyVanishedAreRemoved ==
  [][\A q \in Request, k \in Key :
       /\ tx[q].kind = "sync" /\ tx'[q] = NoTx
       /\ row[k].state # "absent" /\ row'[k].state = "absent"
       => \A i \in Page(tx[q]) : tx[q].seen[i].key # k]_vars
=============================================================================
