------------------------------ MODULE Accounts ------------------------------
(***************************************************************************)
(* Sessions, users and permissions: auth.py, deps.py, users_api.py and     *)
(* roles_api.py.                                                           *)
(*                                                                         *)
(* A request reads its rows, works on the copy (a password check takes a   *)
(* while) and writes at its commit.  /refresh locks its token by updating  *)
(* it first; a DELETE sees the rows that were committed when it started    *)
(* and waits for the locked ones.                                          *)
(*                                                                         *)
(* Left out: access tokens (a stateless proof of a user's id for some      *)
(* minutes: any user may be asking), the expiry of refresh tokens (such a  *)
(* token is refused and purged like a revoked one), the page cookie,       *)
(* names and labels.                                                       *)
(***************************************************************************)
EXTENDS Naturals, FiniteSets, FiniteSetsExt

CONSTANTS
  User, Root,    \* Root is the super admin, created by the CLI
  Role, NoRole,
  Token,         \* bound: refresh tokens ever issued
  Request,       \* threads that serve requests
  MaxAttempts,   \* MAX_LOGIN_ATTEMPTS
  MaxChanges,    \* bound: password changes of a user
  Matrices,      \* bound: the matrices that are saved, [Page -> SUBSET Act]
  NoUser, NoToken

Page == {"users", "dashboard"}
Act  == {"read", "create", "write", "delete"}
ValidActions == [users |-> Act, dashboard |-> {"read"}]

ASSUME ConstantsAssumption ==
  /\ Root \notin User /\ NoUser \notin User \cup Request
  /\ NoToken \notin Token /\ NoRole \notin Role
  /\ MaxAttempts \in Nat \ {0} /\ MaxChanges \in Nat
  /\ Matrices \subseteq [Page -> SUBSET Act]

VARIABLES
  user,    \* [User -> UserRow]
  token,   \* [Token -> TokenRow], refresh_tokens
  perms,   \* the rows of role_page_permission
  merged,  \* the roles whose last save overlapped another
  tx       \* [Request -> Tx]

vars == <<user, token, perms, merged, tx>>

\* pw counts the passwords a user has had; lock is locked_until: NULL, ahead, past.
UserRow  == [state : {"active", "disabled", "gone"}, pw : Nat, misses : Nat,
             lock : {"no", "ahead", "past"}, role : Role \cup {NoRole}]
\* pw is the password the session began with, from the token it was exchanged
\* for; late marks tokens issued across a change of the password.
TokenRow == [state : {"free", "live", "revoked", "deleted"},
             of : User \cup {NoUser}, pw : Nat, from : Token \cup {NoToken}, late : BOOLEAN]
PermRow  == [role : Role, page : Page, acts : SUBSET Act]
Tx == [kind : {"none", "login", "refresh", "check", "change", "save"},
       of : User \cup {NoUser}, copy : UserRow, tok : Token \cup {NoToken},
       seen : SUBSET Token, role : Role \cup {NoRole}, rows : SUBSET PermRow,
       matrix : [Page -> SUBSET Act]]

Nobody == [state |-> "gone", pw |-> 0, misses |-> 0, lock |-> "no", role |-> NoRole]
Free   == [state |-> "free", of |-> NoUser, pw |-> 0, from |-> NoToken, late |-> FALSE]
NoTx   == [kind |-> "none", of |-> NoUser, copy |-> Nobody, tok |-> NoToken, seen |-> {},
           role |-> NoRole, rows |-> {}, matrix |-> [p \in Page |-> {}]]

Open(q, t) == tx' = [tx EXCEPT ![q] = t]
Close(q)   == tx' = [tx EXCEPT ![q] = NoTx]

TokensOf(u)  == {t \in Token : token[t].of = u /\ token[t].state \notin {"free", "deleted"}}
\* A refresh holds the row lock of its token until it ends.
LockedFor(q, t) == \E r \in Request \ {q} : tx[r].kind = "refresh" /\ tx[r].tok = t

\* The unused token to be issued next.
Fresh(t) == t = CHOOSE x \in Token : token[x].state = "free"
Unused   == \E t \in Token : token[t].state = "free"

Kill(S, T) == [t \in Token |-> IF t \in S THEN [T[t] EXCEPT !.state = "deleted"] ELSE T[t]]

-----------------------------------------------------------------------------
(* login.                                                                  *)

LoginRead(q, u) ==
  /\ tx[q] = NoTx /\ user[u].state # "gone" /\ user[u].lock # "ahead"
  /\ Open(q, [NoTx EXCEPT !.kind = "login", !.of = u, !.copy = user[u]])
  /\ UNCHANGED <<user, token, perms, merged>>

\* A wrong password counts on the copy, here up to the limit ...
Missed(c) == Min({c.misses + 1, MaxAttempts})

\* ... and may lock the account.
LoginMiss(q) ==
  LET u == tx[q].of
      n == Missed(tx[q].copy) IN
  /\ tx[q].kind = "login" /\ user[u].state # "gone"
  /\ user' = [user EXCEPT ![u].misses = n, ![u].lock = IF n >= MaxAttempts THEN "ahead" ELSE @]
  /\ Close(q)
  /\ UNCHANGED <<token, perms, merged>>

Dead(u) == {t \in TokensOf(u) : token[t].state = "revoked"}

\* The right one clears the columns the copy had set, and begins a session.
LoginHit(q, n) ==
  LET u == tx[q].of
      c == tx[q].copy IN
  /\ tx[q].kind = "login" /\ c.state = "active" /\ user[u].state # "gone"
  /\ Unused /\ Fresh(n)
  /\ \A t \in Dead(u) : ~LockedFor(q, t)
  /\ user' = [user EXCEPT ![u].misses = IF c.misses # 0 THEN 0 ELSE @,
                          ![u].lock = IF c.lock # "no" THEN "no" ELSE @]
  /\ token' = [Kill(Dead(u), token) EXCEPT
                 ![n] = [state |-> "live", of |-> u, pw |-> c.pw, from |-> NoToken,
                         late |-> c.pw # user[u].pw]]
  /\ Close(q)
  /\ UNCHANGED <<perms, merged>>

-----------------------------------------------------------------------------
(* refresh and logout.                                                     *)

\* Mutant: the token is looked up and revoked later, without the row's lock.
RedeemableUnlocked(q, t) == token[t].state = "live"

Redeemable(q, t) == token[t].state = "live" /\ ~LockedFor(q, t)

\* UPDATE ... SET revoked = TRUE ... RETURNING
RefreshTake(q, t) ==
  /\ tx[q] = NoTx /\ Redeemable(q, t)
  /\ Open(q, [NoTx EXCEPT !.kind = "refresh", !.of = token[t].of, !.tok = t])
  /\ UNCHANGED <<user, token, perms, merged>>

\* One refresh in a hundred sweeps the table for dead tokens.
RefreshIssue(q, n) ==
  LET u == tx[q].of
      t == tx[q].tok IN
  /\ tx[q].kind = "refresh" /\ user[u].state = "active"
  /\ Unused /\ Fresh(n)
  /\ \E swept \in {{}, {x \in Token : token[x].state = "revoked"} \cup {t}} :
       token' = Kill(swept, [token EXCEPT
                  ![t].state = "revoked",
                  ![n] = [state |-> "live", of |-> u, pw |-> token[t].pw, from |-> t,
                          late |-> token[t].late]])
  /\ Close(q)
  /\ UNCHANGED <<user, perms, merged>>

\* A disabled user: the rollback takes the UPDATE back.
RefreshRefuse(q) ==
  /\ tx[q].kind = "refresh"
  /\ user[tx[q].of].state # "active"
  /\ Close(q)
  /\ UNCHANGED <<user, token, perms, merged>>

\* One step: an UPDATE that had to wait finds the token revoked or deleted.
Logout(t) ==
  /\ token[t].state = "live" /\ ~LockedFor(NoUser, t)
  /\ token' = [token EXCEPT ![t].state = "revoked"]
  /\ UNCHANGED <<user, perms, merged, tx>>

\* Time passes.
LockEnds(u) ==
  /\ user[u].lock = "ahead"
  /\ user' = [user EXCEPT ![u].lock = "past"]
  /\ UNCHANGED <<token, perms, merged, tx>>

-----------------------------------------------------------------------------
(* Guards, users and permissions.                                          *)

\* get_current_user, then require(page, act).
May(a, page, act) ==
  \/ a = Root
  \/ /\ a \in User /\ user[a].state = "active" /\ user[a].lock # "ahead"
     /\ \E p \in perms : p.role = user[a].role /\ p.page = page /\ act \in p.acts

\* change_password, by the user or by somebody who may write users: the guard and
\* the check of the current password ...
ChangeBegin(q, a, u) ==
  /\ tx[q] = NoTx /\ user[u].state # "gone"
  /\ \/ a = u /\ user[u].state = "active" /\ user[u].lock # "ahead"
     \/ May(a, "users", "write")
  /\ Open(q, [NoTx EXCEPT !.kind = "check", !.of = u])
  /\ UNCHANGED <<user, token, perms, merged>>

\* ... and the DELETE's view of the user's tokens.
ChangeDelete(q) ==
  /\ tx[q].kind = "check" /\ user[tx[q].of].pw < MaxChanges
  /\ Open(q, [NoTx EXCEPT !.kind = "change", !.of = tx[q].of, !.seen = TokensOf(tx[q].of)])
  /\ UNCHANGED <<user, token, perms, merged>>

\* Mutant: only the tokens that are dead already are deleted.
EndedDead(q) == {t \in tx[q].seen : token[t].state # "live"}

Ended(q) == tx[q].seen

ChangeEnd(q) ==
  LET u == tx[q].of IN
  /\ tx[q].kind = "change" /\ user[u].state # "gone"
  /\ \A t \in tx[q].seen : ~LockedFor(q, t)
  /\ user' = [user EXCEPT ![u].pw = @ + 1]
  /\ token' = [t \in Token |->
                 IF t \in TokensOf(u) \ tx[q].seen THEN [token[t] EXCEPT !.late = TRUE]
                 ELSE Kill(Ended(q), token)[t]]
  /\ Close(q)
  /\ UNCHANGED <<perms, merged>>

\* update_user: is_active and the role.
UpdateUser(a, u) ==
  /\ May(a, "users", "write") /\ user[u].state # "gone"
  /\ \/ \E st \in {"active", "disabled"} : user' = [user EXCEPT ![u].state = st]
     \/ \E r \in Role : user' = [user EXCEPT ![u].role = r]
  /\ UNCHANGED <<token, perms, merged, tx>>

\* delete_user; its tokens go with it, after those who hold their locks.
DeleteUser(a, u) ==
  /\ May(a, "users", "delete") /\ user[u].state # "gone"
  /\ \A t \in TokensOf(u) : ~LockedFor(NoUser, t)
  /\ user' = [user EXCEPT ![u].state = "gone"]
  /\ token' = Kill(TokensOf(u), token)
  /\ UNCHANGED <<perms, merged, tx>>

\* What is left of a request whose user is gone: an error.
Fail(q) ==
  /\ tx[q].kind \in {"login", "check", "change"}
  /\ \/ user[tx[q].of].state = "gone"
     \/ tx[q].kind = "login" /\ tx[q].copy.state # "active"
  /\ Close(q)
  /\ UNCHANGED <<user, token, perms, merged>>

-----------------------------------------------------------------------------
(* update_permissions, by the super admin.                                 *)

Acceptable(m) == \A p \in Page : m[p] \subseteq ValidActions[p]

\* Any other action implies read; a row without any is not stored.
Rows(m, r) ==
  {[role |-> r, page |-> p, acts |-> m[p] \cup {"read"}] :
     p \in {x \in Page : m[x] # {}}}

SaveBegin(q, r, m) ==
  /\ tx[q] = NoTx /\ Acceptable(m)
  /\ Open(q, [NoTx EXCEPT !.kind = "save", !.role = r, !.matrix = m,
                          !.rows = {p \in perms : p.role = r}])
  /\ UNCHANGED <<user, token, perms, merged>>

\* Mutant: the old rows are kept.
ReplacedNone(q) == {}

Replaced(q) == tx[q].rows

\* One row per role and page: the second of two saves may fail on the first's.  A
\* row that is deleted is gone for every DELETE that saw it, and one that is
\* inserted again, even with the same values, is another row.
SaveEnd(q) ==
  LET r    == tx[q].role
      rest == perms \ Replaced(q)
      new  == Rows(tx[q].matrix, r) IN
  /\ tx[q].kind = "save"
  /\ IF \E p \in rest, n \in new : p.role = n.role /\ p.page = n.page
     THEN Close(q) /\ UNCHANGED <<perms, merged>>
     ELSE /\ tx' = [o \in Request |->
                      IF o = q THEN NoTx
                      ELSE IF tx[o].kind = "save" THEN [tx[o] EXCEPT !.rows = @ \ tx[q].rows]
                      ELSE tx[o]]
          /\ perms' = rest \cup new
          /\ merged' = IF {p \in perms : p.role = r} = tx[q].rows THEN merged \ {r}
                       ELSE merged \cup {r}
  /\ UNCHANGED <<user, token>>

-----------------------------------------------------------------------------
Init ==
  /\ user \in [User -> {[state |-> "active", pw |-> 0, misses |-> 0, lock |-> "no", role |-> r] :
                          r \in Role}]
  /\ token = [t \in Token |-> Free]
  /\ perms = {} /\ merged = {}
  /\ tx = [q \in Request |-> NoTx]

Next ==
  \/ \E q \in Request :
       \/ \E u \in User : LoginRead(q, u) \/ \E a \in User \cup {Root} : ChangeBegin(q, a, u)
       \/ \E t \in Token : RefreshTake(q, t) \/ LoginHit(q, t) \/ RefreshIssue(q, t)
       \/ LoginMiss(q) \/ RefreshRefuse(q) \/ ChangeDelete(q) \/ ChangeEnd(q) \/ Fail(q) \/ SaveEnd(q)
       \/ \E r \in Role, m \in Matrices : SaveBegin(q, r, m)
  \/ \E t \in Token : Logout(t)
  \/ \E u \in User : \/ LockEnds(u)
                     \/ \E a \in User \cup {Root} : UpdateUser(a, u) \/ DeleteUser(a, u)

Spec == Init /\ [][Next]_vars

-----------------------------------------------------------------------------
(* Properties.                                                             *)

\* Everything keeps its type (the rows of users, refresh_tokens and
\* role_page_permission).
TypeOK ==
  /\ user \in [User -> UserRow]
  /\ token \in [Token -> TokenRow]
  /\ perms \subseteq PermRow /\ merged \subseteq Role
  /\ tx \in [Request -> Tx]

\* A refresh token is exchanged at most once, whatever requests carry it at the
\* same time (auth.py:98-100: no two requests can both win).
OneHeirPerToken ==
  \A t, n \in Token : token[t].from # NoToken /\ token[t].from = token[n].from => t = n

\* A session that began with an older password lives on after a change only if
\* its token was issued after the change's DELETE had looked or from a password
\* that was checked before (auth.py:170).
SessionsFollowThePassword ==
  \A t \in Token : token[t].state = "live" => token[t].pw = user[token[t].of].pw \/ token[t].late

\* A role's rows are those of one saved matrix while no two saves of it overlap;
\* overlapping saves may mix two, but every page still has one row, of one
\* accepted matrix (roles_api.py:104-135).
PermissionsAreOneMatrix ==
  /\ \A r \in Role \ merged : {p \in perms : p.role = r} \in {{}} \cup {Rows(m, r) : m \in Matrices}
  /\ \A p \in perms : \E m \in Matrices : Acceptable(m) /\ p \in Rows(m, p.role)
  /\ \A p, o \in perms : p.role = o.role /\ p.page = o.page => p = o
=============================================================================
