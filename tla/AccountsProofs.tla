--------------------------- MODULE AccountsProofs ---------------------------
(***************************************************************************)
(* Proofs about Accounts, for any users, tokens, roles, requests and       *)
(* matrices: its type, that a refresh token has one heir, that sessions    *)
(* follow the password, and that a role's permissions are one matrix.      *)
(***************************************************************************)
EXTENDS Accounts, TLAPS

\* What a request works on exists; live tokens belong to somebody.
AimedAt(t) ==
  /\ t.kind \in {"login", "refresh", "check", "change"} => t.of \in User
  /\ t.kind = "refresh" => t.tok \in Token
  /\ t.kind = "save" => /\ t.role \in Role /\ t.matrix \in Matrices /\ Acceptable(t.matrix)
                        /\ \A p \in t.rows : p.role = t.role

Aimed ==
  /\ \A k \in Token : token[k].state = "live" => token[k].of \in User
  /\ \A q \in Request : AimedAt(tx[q])

\* Who refreshes holds a live token, alone.
Held ==
  \A q \in Request : tx[q].kind = "refresh" =>
    /\ token[tx[q].tok].state = "live" /\ tx[q].of = token[tx[q].tok].of
    /\ \A r \in Request \ {q} : tx[r].kind = "refresh" => tx[r].tok # tx[q].tok

\* A token that has an heir is dead.
Inherited ==
  \A n \in Token : token[n].from # NoToken =>
    token[n].from \in Token /\ token[token[n].from].state \in {"revoked", "deleted"}

TypeInv == TypeOK /\ Aimed
TokenInv == Held /\ Inherited /\ OneHeirPerToken /\ SessionsFollowThePassword

-----------------------------------------------------------------------------
(* The rows.                                                               *)

LEMMA Blanks == Nobody \in UserRow /\ Free \in TokenRow /\ NoTx \in Tx
<1>1. Nobody \in UserRow
  BY DEF Nobody, UserRow
<1>2. Free \in TokenRow
  BY DEF Free, TokenRow
<1>3. NoTx \in Tx
  BY <1>1 DEF NoTx, Tx, Page, Act
<1> QED
  BY <1>1, <1>2, <1>3

\* The requests as they are opened, and as they end.
LEMMA Openings ==
  /\ NoTx \in Tx /\ AimedAt(NoTx)
  /\ \A u \in User, c \in UserRow :
       LET t == [NoTx EXCEPT !.kind = "login", !.of = u, !.copy = c] IN t \in Tx /\ AimedAt(t)
  /\ \A u \in User, k \in Token :
       LET t == [NoTx EXCEPT !.kind = "refresh", !.of = u, !.tok = k] IN t \in Tx /\ AimedAt(t)
  /\ \A u \in User : LET t == [NoTx EXCEPT !.kind = "check", !.of = u] IN t \in Tx /\ AimedAt(t)
  /\ \A u \in User, S \in SUBSET Token :
       LET t == [NoTx EXCEPT !.kind = "change", !.of = u, !.seen = S] IN t \in Tx /\ AimedAt(t)
  /\ \A r \in Role, m \in Matrices, S \in SUBSET PermRow :
       LET t == [NoTx EXCEPT !.kind = "save", !.role = r, !.matrix = m, !.rows = S]
       IN Acceptable(m) /\ (\A p \in S : p.role = r) => t \in Tx /\ AimedAt(t)
<1>1. NoTx \in Tx /\ Matrices \subseteq [Page -> SUBSET Act]
  BY Blanks, ConstantsAssumption
<1>2. AimedAt(NoTx)
  BY DEF AimedAt, NoTx
<1>3. ASSUME NEW u \in User, NEW c \in UserRow
      PROVE  LET t == [NoTx EXCEPT !.kind = "login", !.of = u, !.copy = c]
             IN  t \in Tx /\ AimedAt(t)
  BY <1>1 DEF Tx, AimedAt
<1>4. ASSUME NEW u \in User, NEW k \in Token
      PROVE  LET t == [NoTx EXCEPT !.kind = "refresh", !.of = u, !.tok = k]
             IN  t \in Tx /\ AimedAt(t)
  BY <1>1 DEF Tx, AimedAt
<1>5. ASSUME NEW u \in User, NEW S \in SUBSET Token
      PROVE  LET t == [NoTx EXCEPT !.kind = "change", !.of = u, !.seen = S]
             IN  t \in Tx /\ AimedAt(t)
  BY <1>1 DEF Tx, AimedAt
<1>6. ASSUME NEW r \in Role, NEW m \in Matrices, NEW S \in SUBSET PermRow,
             \A p \in S : p.role = r, Acceptable(m)
      PROVE  LET t == [NoTx EXCEPT !.kind = "save", !.role = r, !.matrix = m, !.rows = S]
             IN  t \in Tx /\ AimedAt(t)
  BY <1>1, <1>6 DEF Tx, AimedAt
<1>7. ASSUME NEW u \in User
      PROVE  LET t == [NoTx EXCEPT !.kind = "check", !.of = u] IN t \in Tx /\ AimedAt(t)
  BY <1>1 DEF Tx, AimedAt
<1> QED
  BY <1>1, <1>2, <1>3, <1>4, <1>5, <1>6, <1>7

\* One request opens or ends.
LEMMA TxKept ==
  ASSUME TypeInv, NEW q \in Request, NEW t \in Tx, AimedAt(t), tx' = [tx EXCEPT ![q] = t]
  PROVE  tx' \in [Request -> Tx] /\ \A r \in Request : AimedAt(tx'[r])
BY DEF TypeInv, TypeOK, Aimed

\* The save of q deletes rows that other saves have seen.
LEMMA TxShrunk ==
  ASSUME TypeInv, NEW q \in Request, NEW S,
         tx' = [o \in Request |->
                  IF o = q THEN NoTx
                  ELSE IF tx[o].kind = "save" THEN [tx[o] EXCEPT !.rows = @ \ S] ELSE tx[o]]
  PROVE  /\ tx' \in [Request -> Tx] /\ \A r \in Request : AimedAt(tx'[r])
         /\ \A r \in Request : tx'[r].kind = "refresh" => tx'[r] = tx[r]
<1>1. tx \in [Request -> Tx] /\ \A r \in Request : AimedAt(tx[r])
  BY DEF TypeInv, TypeOK, Aimed
<1>2. ASSUME NEW r \in Request
      PROVE  tx'[r] \in Tx /\ AimedAt(tx'[r]) /\ (tx'[r].kind = "refresh" => tx'[r] = tx[r])
  <2>1. CASE r = q
    <3>1. tx'[r] = NoTx /\ NoTx.kind # "refresh"
      BY <2>1 DEF NoTx
    <3> QED
      BY <3>1, Openings
  <2>2. CASE r # q /\ tx[r].kind = "save"
    <3>1. PICK t \in Tx : t = tx[r] /\ AimedAt(t) /\ t.kind = "save"
      BY <1>1, <2>2
    <3>2. PICK z : z = [t EXCEPT !.rows = t.rows \ S]
      OBVIOUS
    <3>3. z \in Tx /\ z.kind = "save" /\ z.role = t.role /\ z.matrix = t.matrix /\ z.rows \subseteq t.rows
      BY <3>1, <3>2 DEF Tx
    <3>4. AimedAt(z)
      BY <3>1, <3>3 DEF AimedAt
    <3>5. tx'[r] = z
      BY <2>2, <3>1, <3>2
    <3> QED
      BY <3>3, <3>4, <3>5
  <2>3. CASE r # q /\ tx[r].kind # "save"
    <3>1. tx'[r] = tx[r]
      BY <2>3
    <3> QED
      BY <1>1, <3>1
  <2> QED
    BY <2>1, <2>2, <2>3
<1> QED
  BY <1>2

\* Deleting tokens changes their state only.
LEMMA Killed ==
  ASSUME NEW T \in [Token -> TokenRow], NEW S
  PROVE  /\ Kill(S, T) \in [Token -> TokenRow]
         /\ \A t \in Token : /\ Kill(S, T)[t].state = IF t \in S THEN "deleted" ELSE T[t].state
                             /\ Kill(S, T)[t].of = T[t].of /\ Kill(S, T)[t].pw = T[t].pw
                             /\ Kill(S, T)[t].from = T[t].from /\ Kill(S, T)[t].late = T[t].late
<1>1. \A t \in Token : [T[t] EXCEPT !.state = "deleted"] \in TokenRow
  BY DEF TokenRow
<1>2. Kill(S, T) \in [Token -> TokenRow]
  BY <1>1 DEF Kill
<1>3. ASSUME NEW t \in Token
      PROVE  /\ Kill(S, T)[t].state = IF t \in S THEN "deleted" ELSE T[t].state
             /\ Kill(S, T)[t].of = T[t].of /\ Kill(S, T)[t].pw = T[t].pw
             /\ Kill(S, T)[t].from = T[t].from /\ Kill(S, T)[t].late = T[t].late
  <2>1. T[t] \in TokenRow
    OBVIOUS
  <2>2. Kill(S, T)[t] = IF t \in S THEN [T[t] EXCEPT !.state = "deleted"] ELSE T[t]
    BY DEF Kill
  <2> QED
    BY <2>1, <2>2 DEF TokenRow
<1> QED
  BY <1>2, <1>3

\* A login writes two columns of its user.
LEMMA UserWritten ==
  ASSUME NEW U \in [User -> UserRow], NEW u \in User, NEW n \in Nat, NEW l \in {"no", "ahead", "past"}
  PROVE  [U EXCEPT ![u].misses = n, ![u].lock = l] \in [User -> UserRow]
<1>1. [U[u] EXCEPT !.misses = n, !.lock = l] \in UserRow
  BY DEF UserRow
<1>2. \A z \in UserRow : [U EXCEPT ![u] = z] \in [User -> UserRow]
  OBVIOUS
<1>3. [U EXCEPT ![u].misses = n, ![u].lock = l] = [U EXCEPT ![u] = [U[u] EXCEPT !.misses = n, !.lock = l]]
  OBVIOUS
<1> QED
  BY <1>1, <1>2, <1>3

\* A wrong password leaves a number.
LEMMA MissedType == \A c \in UserRow : Missed(c) \in Nat
<1> SUFFICES ASSUME NEW c \in UserRow PROVE Missed(c) \in Nat
  OBVIOUS
<1>1. c.misses + 1 \in Nat /\ MaxAttempts \in Nat
  BY ConstantsAssumption DEF UserRow
<1>2. \A a, b \in Nat : Min({a, b}) \in Nat
  <2> SUFFICES ASSUME NEW a \in Nat, NEW b \in Nat PROVE Min({a, b}) \in Nat
    OBVIOUS
  <2>1. \E x \in {a, b} : \A y \in {a, b} : x <= y
    BY SMT
  <2> QED
    BY <2>1 DEF Min
<1> QED
  BY <1>1, <1>2 DEF Missed

\* The rows of a matrix are rows of the role.
LEMMA RowsType ==
  ASSUME NEW m \in [Page -> SUBSET Act], NEW r \in Role
  PROVE  /\ Rows(m, r) \subseteq PermRow
         /\ \A p \in Rows(m, r) : p.role = r /\ "read" \in p.acts
<1> SUFFICES ASSUME NEW p \in Rows(m, r)
             PROVE  p \in PermRow /\ p.role = r /\ "read" \in p.acts
  OBVIOUS
<1>1. PICK x \in Page : p = [role |-> r, page |-> x, acts |-> m[x] \cup {"read"}]
  BY DEF Rows
<1>2. m[x] \cup {"read"} \in SUBSET Act
  BY DEF Act
<1> QED
  BY <1>1, <1>2 DEF PermRow

-----------------------------------------------------------------------------
(* The type.                                                               *)

LEMMA InitType == Init => TypeInv
<1> SUFFICES ASSUME Init PROVE TypeInv
  OBVIOUS
<1>1. user \in [User -> UserRow]
  BY DEF Init, UserRow
<1>2. token \in [Token -> TokenRow] /\ \A t \in Token : token[t].state = "free"
  BY Blanks DEF Init, Free
<1>3. perms = {} /\ merged = {} /\ tx = [q \in Request |-> NoTx]
  BY DEF Init
<1>4. tx \in [Request -> Tx] /\ \A q \in Request : AimedAt(tx[q])
  BY <1>3, Openings
<1> QED
  BY <1>1, <1>2, <1>3, <1>4 DEF TypeInv, TypeOK, Aimed

\* What is left to show when a step keeps users, tokens or permissions.
LEMMA TypeParts ==
  ASSUME user' \in [User -> UserRow], token' \in [Token -> TokenRow],
         \A k \in Token : token'[k].state = "live" => token'[k].of \in User,
         perms' \subseteq PermRow, merged' \subseteq Role,
         tx' \in [Request -> Tx], \A r \in Request : AimedAt(tx'[r])
  PROVE  TypeInv'
BY DEF TypeInv, TypeOK, Aimed

LEMMA TypeStep == TypeInv /\ [Next]_vars => TypeInv'
<1> SUFFICES ASSUME TypeInv, [Next]_vars PROVE TypeInv'
  OBVIOUS
<1>0. /\ user \in [User -> UserRow] /\ token \in [Token -> TokenRow]
      /\ \A k \in Token : token[k].state = "live" => token[k].of \in User
      /\ perms \subseteq PermRow /\ merged \subseteq Role
      /\ tx \in [Request -> Tx] /\ \A r \in Request : AimedAt(tx[r])
  BY DEF TypeInv, TypeOK, Aimed
<1>1. ASSUME NEW q \in Request, NEW u \in User, LoginRead(q, u) PROVE TypeInv'
  <2>1. PICK c \in UserRow : c = user[u]
    BY <1>0
  <2>2. PICK t : t = [NoTx EXCEPT !.kind = "login", !.of = u, !.copy = c]
    OBVIOUS
  <2>3. t \in Tx /\ AimedAt(t)
    BY <2>2, Openings
  <2>4. tx' = [tx EXCEPT ![q] = t] /\ UNCHANGED <<user, token, perms, merged>>
    BY <1>1, <2>1, <2>2 DEF LoginRead, Open
  <2> QED
    BY <1>0, <2>3, <2>4, TxKept, TypeParts
<1>2. ASSUME NEW q \in Request, NEW u \in User, NEW a, ChangeBegin(q, a, u) PROVE TypeInv'
  <2>1. PICK t : t = [NoTx EXCEPT !.kind = "check", !.of = u]
    OBVIOUS
  <2>2. t \in Tx /\ AimedAt(t)
    BY <2>1, Openings
  <2>3. tx' = [tx EXCEPT ![q] = t] /\ UNCHANGED <<user, token, perms, merged>>
    BY <1>2, <2>1 DEF ChangeBegin, Open
  <2> QED
    BY <1>0, <2>2, <2>3, TxKept, TypeParts
<1>16. ASSUME NEW q \in Request, ChangeDelete(q) PROVE TypeInv'
  <2>1. PICK u \in User : u = tx[q].of
    BY <1>0, <1>16 DEF ChangeDelete, AimedAt
  <2>2. PICK S \in SUBSET Token : S = TokensOf(u)
    BY DEF TokensOf
  <2>3. PICK t : t = [NoTx EXCEPT !.kind = "change", !.of = u, !.seen = S]
    OBVIOUS
  <2>4. t \in Tx /\ AimedAt(t)
    BY <2>3, Openings
  <2>5. tx' = [tx EXCEPT ![q] = t] /\ UNCHANGED <<user, token, perms, merged>>
    BY <1>16, <2>1, <2>2, <2>3 DEF ChangeDelete, Open
  <2> QED
    BY <1>0, <2>4, <2>5, TxKept, TypeParts
<1>3. ASSUME NEW q \in Request, NEW k \in Token, RefreshTake(q, k) PROVE TypeInv'
  <2>1. PICK u \in User : u = token[k].of
    BY <1>0, <1>3 DEF RefreshTake, Redeemable
  <2>2. PICK t : t = [NoTx EXCEPT !.kind = "refresh", !.of = u, !.tok = k]
    OBVIOUS
  <2>3. t \in Tx /\ AimedAt(t)
    BY <2>2, Openings
  <2>4. tx' = [tx EXCEPT ![q] = t] /\ UNCHANGED <<user, token, perms, merged>>
    BY <1>3, <2>1, <2>2 DEF RefreshTake, Open
  <2> QED
    BY <1>0, <2>3, <2>4, TxKept, TypeParts
<1>4. ASSUME NEW q \in Request, NEW r \in Role, NEW m \in Matrices, SaveBegin(q, r, m)
      PROVE  TypeInv'
  <2>1. PICK S \in SUBSET PermRow : S = {p \in perms : p.role = r}
    BY <1>0
  <2>2. PICK t : t = [NoTx EXCEPT !.kind = "save", !.role = r, !.matrix = m, !.rows = S]
    OBVIOUS
  <2>3. t \in Tx /\ AimedAt(t)
    BY <1>4, <2>1, <2>2, Openings DEF SaveBegin
  <2>4. tx' = [tx EXCEPT ![q] = t] /\ UNCHANGED <<user, token, perms, merged>>
    BY <1>4, <2>1, <2>2 DEF SaveBegin, Open
  <2> QED
    BY <1>0, <2>3, <2>4, TxKept, TypeParts
<1>5. ASSUME NEW q \in Request, LoginMiss(q) PROVE TypeInv'
  <2> DEFINE u == tx[q].of
             n == Missed(tx[q].copy)
  <2>1. u \in User /\ n \in Nat
    BY <1>0, <1>5, MissedType DEF LoginMiss, AimedAt, Tx
  <2>2. user' = [user EXCEPT ![u].misses = n,
                             ![u].lock = IF n >= MaxAttempts THEN "ahead" ELSE @]
        /\ tx' = [tx EXCEPT ![q] = NoTx] /\ UNCHANGED <<token, perms, merged>>
    BY <1>5 DEF LoginMiss, Close
  <2> HIDE DEF u, n
  <2>3. PICK l \in {"ahead", user[u].lock} : user' = [user EXCEPT ![u].misses = n, ![u].lock = l]
    BY <1>0, <2>1, <2>2 DEF UserRow
  <2>4. user' \in [User -> UserRow]
    <3>1. PICK U \in [User -> UserRow] : U = user
      BY <1>0
    <3>2. PICK k \in Nat : k = n
      BY <2>1
    <3>3. l \in {"no", "ahead", "past"}
      BY <1>0, <2>1 DEF UserRow
    <3>4. user' = [U EXCEPT ![u].misses = k, ![u].lock = l]
      BY <2>3, <3>1, <3>2
    <3>5. PICK x \in User : x = u
      BY <2>1
    <3> QED
      BY <3>3, <3>4, <3>5, UserWritten
  <2> QED
    BY <1>0, <2>2, <2>4, Openings, TxKept, TypeParts
<1>6. ASSUME NEW q \in Request, NEW n \in Token, LoginHit(q, n) PROVE TypeInv'
  <2> DEFINE u == tx[q].of
             c == tx[q].copy
  <2>1. u \in User /\ c \in UserRow
    BY <1>0, <1>6 DEF LoginHit, AimedAt, Tx
  <2>2. PICK z : z = [state |-> "live", of |-> u, pw |-> c.pw, from |-> NoToken,
                      late |-> c.pw # user[u].pw]
    OBVIOUS
  <2>3. z \in TokenRow /\ z.of \in User
    BY <2>1, <2>2 DEF TokenRow, UserRow
  <2>4. /\ user' = [user EXCEPT ![u].misses = IF c.misses # 0 THEN 0 ELSE @,
                                ![u].lock = IF c.lock # "no" THEN "no" ELSE @]
        /\ token' = [Kill(Dead(u), token) EXCEPT ![n] = z]
        /\ tx' = [tx EXCEPT ![q] = NoTx] /\ UNCHANGED <<perms, merged>>
    BY <1>6, <2>2 DEF LoginHit, Close
  <2>5. PICK D : D = Dead(u)
    OBVIOUS
  <2>6. PICK T : T = token
    OBVIOUS
  <2> HIDE DEF u, c
  <2>7. /\ Kill(D, T) \in [Token -> TokenRow]
        /\ \A k \in Token : /\ Kill(D, T)[k].state = IF k \in D THEN "deleted" ELSE T[k].state
                            /\ Kill(D, T)[k].of = T[k].of
    BY <1>0, <2>6, Killed
  <2>8. token' = [Kill(D, T) EXCEPT ![n] = z]
    BY <2>4, <2>5, <2>6
  <2>9. user' \in [User -> UserRow]
    <3>1. PICK U \in [User -> UserRow], x \in User : U = user /\ x = u
      BY <1>0, <2>1
    <3>2. PICK k \in Nat, l \in {"no", "ahead", "past"} :
            k = (IF c.misses # 0 THEN 0 ELSE U[x].misses) /\ l = IF c.lock # "no" THEN "no" ELSE U[x].lock
      BY <3>1 DEF UserRow
    <3>3. user' = [U EXCEPT ![x].misses = k, ![x].lock = l]
      BY <2>4, <3>1, <3>2
    <3> QED
      BY <3>3, UserWritten
  <2>10. token' \in [Token -> TokenRow]
    BY <2>3, <2>7, <2>8
  <2>11. \A k \in Token : token'[k].state = "live" => token'[k].of \in User
    BY <1>0, <2>3, <2>6, <2>7, <2>8
  <2> QED
    BY <1>0, <2>4, <2>9, <2>10, <2>11, Openings, TxKept, TypeParts
<1>7. ASSUME NEW q \in Request, NEW n \in Token, RefreshIssue(q, n) PROVE TypeInv'
  <2> DEFINE u == tx[q].of
             k == tx[q].tok
  <2>1. k \in Token /\ u \in User
    BY <1>0, <1>7 DEF RefreshIssue, AimedAt, Tx
  <2>2. PICK z : z = [state |-> "live", of |-> u, pw |-> token[k].pw, from |-> k,
                      late |-> token[k].late]
    OBVIOUS
  <2>3. z \in TokenRow /\ z.of = u
    BY <1>0, <2>1, <2>2 DEF TokenRow
  <2>4. /\ tx' = [tx EXCEPT ![q] = NoTx] /\ UNCHANGED <<user, perms, merged>>
        /\ \E S \in {{}, {x \in Token : token[x].state = "revoked"} \cup {k}} :
             token' = Kill(S, [token EXCEPT ![k].state = "revoked", ![n] = z])
    BY <1>7, <2>2 DEF RefreshIssue, Close
  <2>5. PICK S \in {{}, {x \in Token : token[x].state = "revoked"} \cup {k}} :
          token' = Kill(S, [token EXCEPT ![k].state = "revoked", ![n] = z])
    BY <2>4
  <2>6. PICK T : T = [token EXCEPT ![k].state = "revoked", ![n] = z]
    OBVIOUS
  <2> HIDE DEF u, k
  <2>7. T \in [Token -> TokenRow]
    BY <1>0, <2>1, <2>3, <2>6 DEF TokenRow
  <2>8. \A x \in Token : T[x].state = "live" => T[x].of \in User
    BY <1>0, <2>1, <2>3, <2>6 DEF TokenRow
  <2>9. /\ Kill(S, T) \in [Token -> TokenRow]
        /\ \A x \in Token : /\ Kill(S, T)[x].state = IF x \in S THEN "deleted" ELSE T[x].state
                            /\ Kill(S, T)[x].of = T[x].of
    BY <2>7, Killed
  <2>10. token' = Kill(S, T)
    BY <2>5, <2>6
  <2>11. token' \in [Token -> TokenRow] /\
         \A x \in Token : token'[x].state = "live" => token'[x].of \in User
    BY <2>8, <2>9, <2>10
  <2> QED
    BY <1>0, <2>4, <2>11, Openings, TxKept, TypeParts
<1>8. ASSUME NEW q \in Request, RefreshRefuse(q) \/ Fail(q) PROVE TypeInv'
  <2>1. tx' = [tx EXCEPT ![q] = NoTx] /\ UNCHANGED <<user, token, perms, merged>>
    BY <1>8 DEF RefreshRefuse, Fail, Close
  <2> QED
    BY <1>0, <2>1, Openings, TxKept, TypeParts
<1>9. ASSUME NEW k \in Token, Logout(k) PROVE TypeInv'
  <2>1. token' = [token EXCEPT ![k].state = "revoked"] /\ UNCHANGED <<user, perms, merged, tx>>
    BY <1>9 DEF Logout
  <2>2. token' \in [Token -> TokenRow] /\
        \A x \in Token : token'[x].state = "live" => token'[x].of \in User
    BY <1>0, <2>1 DEF TokenRow
  <2> QED
    BY <1>0, <2>1, <2>2, TypeParts
<1>10. ASSUME NEW u \in User, LockEnds(u) PROVE TypeInv'
  <2>1. user' = [user EXCEPT ![u].lock = "past"] /\ UNCHANGED <<token, perms, merged, tx>>
    BY <1>10 DEF LockEnds
  <2>2. user' \in [User -> UserRow]
    BY <1>0, <2>1 DEF UserRow
  <2> QED
    BY <1>0, <2>1, <2>2, TypeParts
<1>11. ASSUME NEW q \in Request, ChangeEnd(q) PROVE TypeInv'
  <2> DEFINE u == tx[q].of
  <2>1. u \in User
    BY <1>0, <1>11 DEF ChangeEnd, AimedAt
  <2>2. PICK S : S = Ended(q)
    OBVIOUS
  <2>3. PICK T : T = token
    OBVIOUS
  <2>4. /\ user' = [user EXCEPT ![u].pw = @ + 1] /\ UNCHANGED <<perms, merged>>
        /\ token' = [k \in Token |->
                       IF k \in TokensOf(u) \ tx[q].seen THEN [token[k] EXCEPT !.late = TRUE]
                       ELSE Kill(S, T)[k]]
        /\ tx' = [tx EXCEPT ![q] = NoTx]
    BY <1>11, <2>2, <2>3 DEF ChangeEnd, Close
  <2>5. user' \in [User -> UserRow]
    BY <1>0, <2>1, <2>4 DEF UserRow
  <2>6. /\ Kill(S, T) \in [Token -> TokenRow]
        /\ \A x \in Token : /\ Kill(S, T)[x].state = IF x \in S THEN "deleted" ELSE T[x].state
                            /\ Kill(S, T)[x].of = T[x].of
    BY <1>0, <2>3, Killed
  <2>7. ASSUME NEW k \in Token
        PROVE  token'[k] \in TokenRow /\ (token'[k].state = "live" => token'[k].of \in User)
    <3>1. [token[k] EXCEPT !.late = TRUE] \in TokenRow
          /\ [token[k] EXCEPT !.late = TRUE].state = token[k].state
          /\ [token[k] EXCEPT !.late = TRUE].of = token[k].of
      BY <1>0 DEF TokenRow
    <3>2. CASE token'[k] = [token[k] EXCEPT !.late = TRUE]
      BY <1>0, <3>1, <3>2
    <3>3. CASE token'[k] = Kill(S, T)[k]
      BY <1>0, <2>3, <2>6, <3>3
    <3> QED
      BY <2>4, <3>2, <3>3
  <2>8. token' \in [Token -> TokenRow]
    BY <2>4, <2>7
  <2> QED
    BY <1>0, <2>4, <2>5, <2>7, <2>8, Openings, TxKept, TypeParts
<1>12. ASSUME NEW a, NEW u \in User, UpdateUser(a, u) PROVE TypeInv'
  <2>1. /\ UNCHANGED <<token, perms, merged, tx>>
        /\ \/ \E st \in {"active", "disabled"} : user' = [user EXCEPT ![u].state = st]
           \/ \E r \in Role : user' = [user EXCEPT ![u].role = r]
    BY <1>12 DEF UpdateUser
  <2>2. user' \in [User -> UserRow]
    BY <1>0, <2>1 DEF UserRow
  <2> QED
    BY <1>0, <2>1, <2>2, TypeParts
<1>13. ASSUME NEW a, NEW u \in User, DeleteUser(a, u) PROVE TypeInv'
  <2>1. PICK S : S = TokensOf(u)
    OBVIOUS
  <2>2. PICK T : T = token
    OBVIOUS
  <2>3. /\ user' = [user EXCEPT ![u].state = "gone"] /\ token' = Kill(S, T)
        /\ UNCHANGED <<perms, merged, tx>>
    BY <1>13, <2>1, <2>2 DEF DeleteUser
  <2>4. user' \in [User -> UserRow]
    BY <1>0, <2>3 DEF UserRow
  <2>5. /\ Kill(S, T) \in [Token -> TokenRow]
        /\ \A x \in Token : /\ Kill(S, T)[x].state = IF x \in S THEN "deleted" ELSE T[x].state
                            /\ Kill(S, T)[x].of = T[x].of
    BY <1>0, <2>2, Killed
  <2> QED
    BY <1>0, <2>2, <2>3, <2>4, <2>5, TypeParts
<1>14. ASSUME NEW q \in Request, SaveEnd(q) PROVE TypeInv'
  <2> DEFINE r == tx[q].role
             m == tx[q].matrix
  <2>1. r \in Role /\ m \in [Page -> SUBSET Act]
    BY <1>0, <1>14, ConstantsAssumption DEF SaveEnd, AimedAt
  <2>2. /\ UNCHANGED <<user, token>>
        /\ \/ UNCHANGED <<perms, merged>>
           \/ /\ perms' = (perms \ tx[q].rows) \cup Rows(m, r)
              /\ merged' \in {merged \ {r}, merged \cup {r}}
    BY <1>14 DEF SaveEnd, Replaced
  <2> HIDE DEF r
  <2>3. Rows(m, r) \subseteq PermRow
    BY <2>1, RowsType
  <2>4. perms' \subseteq PermRow /\ merged' \subseteq Role
    BY <1>0, <2>1, <2>2, <2>3
  <2>5. tx' \in [Request -> Tx] /\ \A o \in Request : AimedAt(tx'[o])
    <3>1. CASE tx' = [tx EXCEPT ![q] = NoTx]
      BY <3>1, Openings, TxKept
    <3>2. CASE tx' = [o \in Request |->
                        IF o = q THEN NoTx
                        ELSE IF tx[o].kind = "save" THEN [tx[o] EXCEPT !.rows = @ \ tx[q].rows]
                        ELSE tx[o]]
      BY <3>2, TxShrunk
    <3> QED
      BY <1>14, <3>1, <3>2 DEF SaveEnd, Close
  <2> QED
    BY <1>0, <2>2, <2>4, <2>5, TypeParts
<1>15. CASE UNCHANGED vars
  BY <1>0, <1>15, TypeParts DEF vars
<1> QED
  BY <1>1, <1>2, <1>3, <1>4, <1>5, <1>6, <1>7, <1>8, <1>9, <1>10, <1>11, <1>12, <1>13, <1>14,
     <1>15, <1>16 DEF Next

\* Every variable of users, sessions and permissions keeps its type.
THEOREM TypeCorrect == Spec => []TypeOK
<1>1. TypeInv => TypeOK
  BY DEF TypeInv
<1> QED
  BY <1>1, InitType, TypeStep, PTL DEF Spec

-----------------------------------------------------------------------------
(* Sessions.                                                               *)

\* What keeps the sessions sound when no token is issued: tokens only die or
\* become late, not those that are held, and no older password is left behind.
LEMMA Fading ==
  ASSUME TypeInv, TypeInv', TokenInv,
         \A k \in Token : /\ token'[k].of = token[k].of /\ token'[k].from = token[k].from
                         /\ \/ token'[k].state = token[k].state
                            \/ token'[k].state \in {"revoked", "deleted"},
         \A q \in Request : tx'[q].kind = "refresh" =>
           tx'[q] = tx[q] /\ token'[tx[q].tok].state = "live",
         \A k \in Token : token'[k].state = "live" =>
           token'[k].pw = user'[token'[k].of].pw \/ token'[k].late
  PROVE  TokenInv'
<1>1. SessionsFollowThePassword'
  BY DEF SessionsFollowThePassword
<1>2. OneHeirPerToken'
  BY DEF TokenInv, OneHeirPerToken
<1>3. Inherited'
  <2> SUFFICES ASSUME NEW n \in Token, token'[n].from # NoToken
               PROVE  /\ token'[n].from \in Token
                      /\ token'[token'[n].from].state \in {"revoked", "deleted"}
    BY DEF Inherited
  <2>1. /\ token[n].from \in Token /\ token[token[n].from].state \in {"revoked", "deleted"}
        /\ token'[n].from = token[n].from
    BY DEF TokenInv, Inherited
  <2> QED
    BY <2>1
<1>4. Held'
  <2> SUFFICES ASSUME NEW q \in Request, tx'[q].kind = "refresh"
               PROVE  /\ token'[tx'[q].tok].state = "live"
                      /\ tx'[q].of = token'[tx'[q].tok].of
                      /\ \A r \in Request \ {q} : tx'[r].kind = "refresh" => tx'[r].tok # tx'[q].tok
    BY DEF Held
  <2>1. tx'[q] = tx[q] /\ token'[tx[q].tok].state = "live" /\ tx[q].kind = "refresh"
    OBVIOUS
  <2>2. tx[q].tok \in Token
    BY <2>1 DEF TypeInv, Aimed, AimedAt
  <2>3. tx[q].of = token[tx[q].tok].of
    BY <2>1 DEF TokenInv, Held
  <2>4. \A r \in Request \ {q} : tx'[r].kind = "refresh" => tx'[r].tok # tx'[q].tok
    BY <2>1 DEF TokenInv, Held
  <2> QED
    BY <2>1, <2>2, <2>3, <2>4
<1> QED
  BY <1>1, <1>2, <1>3, <1>4 DEF TokenInv

\* The same when n is issued, in exchange for f or for a password.
LEMMA Issuing ==
  ASSUME TypeInv, TypeInv', TokenInv, NEW n \in Token, NEW f \in Token \cup {NoToken},
         token[n].state = "free", token'[n].state = "live", token'[n].from = f,
         f # NoToken => token[f].state = "live" /\ token'[f].state \in {"revoked", "deleted"},
         \A k \in Token \ {n} : /\ token'[k].of = token[k].of /\ token'[k].from = token[k].from
                               /\ \/ token'[k].state = token[k].state
                                  \/ token'[k].state \in {"revoked", "deleted"},
         \A q \in Request : tx'[q].kind = "refresh" =>
           tx'[q] = tx[q] /\ token'[tx[q].tok].state = "live",
         \A k \in Token : token'[k].state = "live" =>
           token'[k].pw = user'[token'[k].of].pw \/ token'[k].late
  PROVE  TokenInv'
<1>0. \A m \in Token : token[m].from # NoToken =>
        /\ token[m].from \in Token /\ token[m].from # n
        /\ token[token[m].from].state \in {"revoked", "deleted"}
  BY DEF TokenInv, Inherited
<1>1. SessionsFollowThePassword'
  BY DEF SessionsFollowThePassword
<1>2. OneHeirPerToken'
  <2> SUFFICES ASSUME NEW k \in Token, NEW m \in Token, token'[k].from # NoToken,
                      token'[k].from = token'[m].from
               PROVE  k = m
    BY DEF OneHeirPerToken
  <2>1. CASE k # n /\ m # n
    <3>1. token'[k].from = token[k].from /\ token'[m].from = token[m].from
      BY <2>1
    <3>2. token[k].from # NoToken /\ token[k].from = token[m].from
      BY <3>1
    <3>3. OneHeirPerToken
      BY DEF TokenInv
    <3> QED
      BY <3>2, <3>3, Zenon DEF OneHeirPerToken
  <2>2. \A x \in Token \ {n} : token'[x].from # NoToken => token'[x].from # f
    BY <1>0
  <2> QED
    BY <2>1, <2>2
<1>3. Inherited'
  <2> SUFFICES ASSUME NEW m \in Token, token'[m].from # NoToken
               PROVE  /\ token'[m].from \in Token
                      /\ token'[token'[m].from].state \in {"revoked", "deleted"}
    BY DEF Inherited
  <2>1. CASE m = n
    BY <2>1
  <2>2. CASE m # n
    <3>1. token'[m].from = token[m].from
      BY <2>2
    <3> QED
      BY <1>0, <3>1
  <2> QED
    BY <2>1, <2>2
<1>4. Held'
  <2> SUFFICES ASSUME NEW q \in Request, tx'[q].kind = "refresh"
               PROVE  /\ token'[tx'[q].tok].state = "live"
                      /\ tx'[q].of = token'[tx'[q].tok].of
                      /\ \A r \in Request \ {q} : tx'[r].kind = "refresh" => tx'[r].tok # tx'[q].tok
    BY DEF Held
  <2>1. tx'[q] = tx[q] /\ token'[tx[q].tok].state = "live" /\ tx[q].kind = "refresh"
    OBVIOUS
  <2>2. tx[q].tok \in Token
    BY <2>1 DEF TypeInv, Aimed, AimedAt
  <2>3. tx[q].of = token[tx[q].tok].of /\ token[tx[q].tok].state = "live"
    BY <2>1 DEF TokenInv, Held
  <2>4. \A r \in Request \ {q} : tx'[r].kind = "refresh" => tx'[r].tok # tx'[q].tok
    BY <2>1 DEF TokenInv, Held
  <2>5. tx[q].tok # n
    BY <2>3
  <2> QED
    BY <2>1, <2>2, <2>3, <2>4, <2>5
<1> QED
  BY <1>1, <1>2, <1>3, <1>4 DEF TokenInv

\* Most steps touch neither tokens nor passwords.
LEMMA Apart ==
  ASSUME TypeInv, TypeInv', TokenInv, token' = token,
         \A u \in User : user'[u].pw = user[u].pw,
         \A q \in Request : tx'[q].kind = "refresh" => tx'[q] = tx[q]
  PROVE  TokenInv'
<1>1. \A q \in Request : tx'[q].kind = "refresh" =>
        tx'[q] = tx[q] /\ token'[tx[q].tok].state = "live"
  BY DEF TokenInv, Held
<1>2. \A k \in Token : token'[k].state = "live" =>
        token'[k].pw = user'[token'[k].of].pw \/ token'[k].late
  BY DEF TokenInv, SessionsFollowThePassword, TypeInv, Aimed
<1> QED
  BY <1>1, <1>2, Fading

LEMMA InvInit == Init => TokenInv /\ PermissionsAreOneMatrix
<1> SUFFICES ASSUME Init PROVE TokenInv /\ PermissionsAreOneMatrix
  OBVIOUS
<1>1. \A k \in Token : token[k].state = "free" /\ token[k].from = NoToken
  BY DEF Init, Free
<1>2. \A q \in Request : tx[q].kind = "none"
  BY DEF Init, NoTx
<1>3. TokenInv
  BY <1>1, <1>2 DEF TokenInv, Held, Inherited, OneHeirPerToken, SessionsFollowThePassword
<1>4. PermissionsAreOneMatrix
  BY DEF Init, PermissionsAreOneMatrix
<1> QED
  BY <1>3, <1>4

\* The token to be issued is one of the unused.
LEMMA FreshIsFree == \A n : Unused /\ Fresh(n) => token[n].state = "free"
BY DEF Unused, Fresh

LEMMA SessionsStep == TypeInv /\ TypeInv' /\ TokenInv /\ [Next]_vars => TokenInv'
<1> SUFFICES ASSUME TypeInv, TypeInv', TokenInv, [Next]_vars PROVE TokenInv'
  OBVIOUS
<1>0. /\ user \in [User -> UserRow] /\ token \in [Token -> TokenRow]
      /\ \A k \in Token : token[k].state = "live" => token[k].of \in User
      /\ tx \in [Request -> Tx] /\ \A r \in Request : AimedAt(tx[r])
      /\ NoTx.kind = "none"
  BY DEF TypeInv, TypeOK, Aimed, NoTx
<1>h. \A q \in Request : tx[q].kind = "refresh" =>
        /\ tx[q].tok \in Token /\ token[tx[q].tok].state = "live"
        /\ tx[q].of = token[tx[q].tok].of
        /\ \A r \in Request \ {q} : tx[r].kind = "refresh" => tx[r].tok # tx[q].tok
  BY <1>0 DEF TokenInv, Held, AimedAt
<1>s. \A k \in Token : token[k].state = "live" =>
        token[k].pw = user[token[k].of].pw \/ token[k].late
  BY DEF TokenInv, SessionsFollowThePassword
\* The requests that change no token.
<1>1. ASSUME NEW q \in Request, UNCHANGED token, \A u \in User : user'[u].pw = user[u].pw,
             \E t : t.kind # "refresh" /\ tx' = [tx EXCEPT ![q] = t]
      PROVE  TokenInv'
  <2>1. \A r \in Request : tx'[r].kind = "refresh" => tx'[r] = tx[r]
    BY <1>0, <1>1
  <2> QED
    BY <1>1, <2>1, Apart
<1>2. ASSUME NEW q \in Request, NEW u \in User, LoginRead(q, u) PROVE TokenInv'
  <2>1. PICK t : t = [NoTx EXCEPT !.kind = "login", !.of = u, !.copy = user[u]]
    OBVIOUS
  <2>2. t.kind = "login"
    BY <2>1 DEF NoTx
  <2>3. tx' = [tx EXCEPT ![q] = t] /\ UNCHANGED <<user, token>>
    BY <1>2, <2>1 DEF LoginRead, Open
  <2> QED
    BY <1>1, <2>2, <2>3
<1>3. ASSUME NEW q \in Request, NEW u \in User, NEW a, ChangeBegin(q, a, u) PROVE TokenInv'
  <2>1. PICK t : t = [NoTx EXCEPT !.kind = "check", !.of = u]
    OBVIOUS
  <2>2. t.kind = "check"
    BY <2>1 DEF NoTx
  <2>3. tx' = [tx EXCEPT ![q] = t] /\ UNCHANGED <<user, token>>
    BY <1>3, <2>1 DEF ChangeBegin, Open
  <2> QED
    BY <1>1, <2>2, <2>3
<1>16. ASSUME NEW q \in Request, ChangeDelete(q) PROVE TokenInv'
  <2>1. PICK t : t = [NoTx EXCEPT !.kind = "change", !.of = tx[q].of, !.seen = TokensOf(tx[q].of)]
    OBVIOUS
  <2>2. t.kind = "change"
    BY <2>1 DEF NoTx
  <2>3. tx' = [tx EXCEPT ![q] = t] /\ UNCHANGED <<user, token>>
    BY <1>16, <2>1 DEF ChangeDelete, Open
  <2> QED
    BY <1>1, <2>2, <2>3
<1>4. ASSUME NEW q \in Request, NEW r \in Role, NEW m \in Matrices, SaveBegin(q, r, m)
      PROVE  TokenInv'
  <2>1. PICK t : t = [NoTx EXCEPT !.kind = "save", !.role = r, !.matrix = m,
                               !.rows = {p \in perms : p.role = r}]
    OBVIOUS
  <2>2. t.kind = "save"
    BY <2>1 DEF NoTx
  <2>3. tx' = [tx EXCEPT ![q] = t] /\ UNCHANGED <<user, token>>
    BY <1>4, <2>1 DEF SaveBegin, Open
  <2> QED
    BY <1>1, <2>2, <2>3
<1>5. ASSUME NEW q \in Request, LoginMiss(q) PROVE TokenInv'
  <2>1. \A u \in User : user'[u].pw = user[u].pw
    <3> DEFINE u == tx[q].of
    <3>1. \E n, l : user' = [user EXCEPT ![u].misses = n, ![u].lock = l]
      BY <1>5 DEF LoginMiss
    <3> HIDE DEF u
    <3> QED
      BY <1>0, <3>1 DEF UserRow
  <2> QED
    BY <1>0, <1>1, <1>5, <2>1 DEF LoginMiss, Close
<1>6. ASSUME NEW q \in Request, RefreshRefuse(q) \/ Fail(q) PROVE TokenInv'
  BY <1>0, <1>1, <1>6 DEF RefreshRefuse, Fail, Close
<1>17. ASSUME NEW q \in Request, SaveEnd(q) PROVE TokenInv'
  <2>1. CASE tx' = [tx EXCEPT ![q] = NoTx]
    BY <1>0, <1>1, <1>17, <2>1 DEF SaveEnd
  <2>2. CASE tx' = [o \in Request |->
                      IF o = q THEN NoTx
                      ELSE IF tx[o].kind = "save" THEN [tx[o] EXCEPT !.rows = @ \ tx[q].rows]
                      ELSE tx[o]]
    <3>1. \A o \in Request : tx'[o].kind = "refresh" => tx'[o] = tx[o]
      BY <2>2, TxShrunk
    <3> QED
      BY <1>17, <3>1, Apart DEF SaveEnd
  <2> QED
    BY <1>17, <2>1, <2>2 DEF SaveEnd, Close
<1>7. ASSUME NEW u \in User, LockEnds(u) PROVE TokenInv'
  <2>1. user' = [user EXCEPT ![u].lock = "past"] /\ UNCHANGED <<token, tx>>
    BY <1>7 DEF LockEnds
  <2>2. \A x \in User : user'[x].pw = user[x].pw
    BY <1>0, <2>1 DEF UserRow
  <2> QED
    BY <2>1, <2>2, Apart
<1>8. ASSUME NEW a, NEW u \in User, UpdateUser(a, u) PROVE TokenInv'
  <2>1. /\ UNCHANGED <<token, tx>>
        /\ \/ \E st \in {"active", "disabled"} : user' = [user EXCEPT ![u].state = st]
           \/ \E r \in Role : user' = [user EXCEPT ![u].role = r]
    BY <1>8 DEF UpdateUser
  <2>2. \A x \in User : user'[x].pw = user[x].pw
    BY <1>0, <2>1 DEF UserRow
  <2> QED
    BY <2>1, <2>2, Apart
\* The refresh takes its token ...
<1>9. ASSUME NEW q \in Request, NEW k \in Token, RefreshTake(q, k) PROVE TokenInv'
  <2>1. /\ tx[q] = NoTx /\ token[k].state = "live" /\ UNCHANGED <<user, token>>
        /\ \A r \in Request \ {q} : tx[r].kind = "refresh" => tx[r].tok # k
    BY <1>9 DEF RefreshTake, Redeemable, LockedFor
  <2>2. PICK t : t = [NoTx EXCEPT !.kind = "refresh", !.of = token[k].of, !.tok = k]
    OBVIOUS
  <2>3. tx' = [tx EXCEPT ![q] = t] /\ t.kind = "refresh" /\ t.of = token[k].of /\ t.tok = k
    BY <1>9, <2>2 DEF RefreshTake, Open, NoTx
  <2>4. tx'[q] = t /\ \A r \in Request \ {q} : tx'[r] = tx[r]
    BY <1>0, <2>3
  <2>5. Held'
    <3> SUFFICES ASSUME NEW r \in Request, tx'[r].kind = "refresh"
                 PROVE  /\ token[tx'[r].tok].state = "live" /\ tx'[r].of = token[tx'[r].tok].of
                        /\ \A x \in Request \ {r} :
                             tx'[x].kind = "refresh" => tx'[x].tok # tx'[r].tok
      BY <2>1 DEF Held
    <3>1. CASE r = q
      BY <2>1, <2>3, <2>4, <3>1
    <3>2. CASE r # q
      <4>1. tx'[r] = tx[r]
        BY <2>4, <3>2
      <4> QED
        BY <1>h, <2>1, <2>3, <2>4, <3>2, <4>1
    <3> QED
      BY <3>1, <3>2
  <2> QED
    BY <2>1, <2>5 DEF TokenInv, Inherited, OneHeirPerToken, SessionsFollowThePassword
\* ... and exchanges it.
<1>10. ASSUME NEW q \in Request, NEW n \in Token, RefreshIssue(q, n) PROVE TokenInv'
  <2> DEFINE u == tx[q].of
  <2>1. PICK k \in Token : k = tx[q].tok /\ token[k].state = "live" /\ u = token[k].of
    BY <1>10, <1>h DEF RefreshIssue
  <2>2. PICK z : z = [state |-> "live", of |-> u, pw |-> token[k].pw, from |-> k,
                      late |-> token[k].late]
    OBVIOUS
  <2>3. PICK T : T = [token EXCEPT ![k].state = "revoked", ![n] = z]
    OBVIOUS
  <2>4. /\ tx' = [tx EXCEPT ![q] = NoTx] /\ user' = user /\ token[n].state = "free"
        /\ tx[q].kind = "refresh"
        /\ \E S \in {{}, {x \in Token : token[x].state = "revoked"} \cup {k}} : token' = Kill(S, T)
    BY <1>10, <2>1, <2>2, <2>3, FreshIsFree DEF RefreshIssue, Close
  <2>5. PICK S \in {{}, {x \in Token : token[x].state = "revoked"} \cup {k}} : token' = Kill(S, T)
    BY <2>4
  <2>6. z \in TokenRow
    BY <1>0, <2>1, <2>2 DEF TokenRow
  <2>7. T \in [Token -> TokenRow]
    BY <1>0, <2>1, <2>3, <2>6 DEF TokenRow
  <2>8. \A x \in Token : /\ token'[x].state = IF x \in S THEN "deleted" ELSE T[x].state
                         /\ token'[x].of = T[x].of /\ token'[x].pw = T[x].pw
                         /\ token'[x].from = T[x].from /\ token'[x].late = T[x].late
    BY <2>5, <2>7, Killed
  <2>9. T[n] = z /\ \A x \in Token \ {n} :
          /\ T[x].of = token[x].of /\ T[x].pw = token[x].pw
          /\ T[x].from = token[x].from /\ T[x].late = token[x].late
          /\ T[x].state = IF x = k THEN "revoked" ELSE token[x].state
    BY <1>0, <2>1, <2>3 DEF TokenRow
  <2>10. n # k /\ n \notin S
    BY <2>1, <2>4
  <2>11. /\ token'[n].state = "live" /\ token'[n].from = k /\ token'[n].of = u
         /\ token'[n].pw = token[k].pw /\ token'[n].late = token[k].late
    BY <2>2, <2>8, <2>9, <2>10
  <2>12. k \in Token /\ token'[k].state \in {"revoked", "deleted"}
    BY <2>8, <2>9, <2>10
  <2>13. \A x \in Token \ {n} : /\ token'[x].of = token[x].of /\ token'[x].from = token[x].from
                                 /\ \/ token'[x].state = token[x].state
                                    \/ token'[x].state \in {"revoked", "deleted"}
    BY <2>8, <2>9
  <2>14. \A r \in Request : tx'[r].kind = "refresh" =>
           tx'[r] = tx[r] /\ token'[tx[r].tok].state = "live"
    <3> SUFFICES ASSUME NEW r \in Request, tx'[r].kind = "refresh"
                 PROVE  tx'[r] = tx[r] /\ token'[tx[r].tok].state = "live"
      OBVIOUS
    <3>1. r # q /\ tx'[r] = tx[r]
      BY <1>0, <2>4
    <3>2. tx[r].tok \in Token /\ tx[r].tok # k /\ token[tx[r].tok].state = "live"
      BY <1>h, <2>1, <2>4, <3>1
    <3>3. tx[r].tok # n /\ tx[r].tok \notin S
      BY <2>4, <3>2
    <3> QED
      BY <2>8, <2>9, <3>1, <3>2, <3>3
  <2>15. \A x \in Token : token'[x].state = "live" =>
           token'[x].pw = user'[token'[x].of].pw \/ token'[x].late
    <3> SUFFICES ASSUME NEW x \in Token, token'[x].state = "live"
                 PROVE  token'[x].pw = user[token'[x].of].pw \/ token'[x].late
      BY <2>4
    <3>1. CASE x = n
      <4>1. token[k].pw = user[u].pw \/ token[k].late
        BY <1>s, <2>1
      <4> HIDE DEF u
      <4> QED
        BY <2>11, <3>1, <4>1
    <3>2. CASE x # n
      <4>1. token[x].state = "live"
        BY <2>8, <2>9, <3>2
      <4>2. token[x].pw = user[token[x].of].pw \/ token[x].late
        BY <1>s, <4>1
      <4> QED
        BY <2>8, <2>9, <3>2, <4>2
    <3> QED
      BY <3>1, <3>2
  <2> HIDE DEF u
  <2> QED
    BY <2>1, <2>4, <2>11, <2>12, <2>13, <2>14, <2>15, Issuing
<1>11. ASSUME NEW q \in Request, NEW n \in Token, LoginHit(q, n) PROVE TokenInv'
  <2> DEFINE u == tx[q].of
             c == tx[q].copy
  <2>1. u \in User /\ c \in UserRow
    BY <1>0, <1>11 DEF LoginHit, AimedAt, Tx
  <2>2. PICK z : z = [state |-> "live", of |-> u, pw |-> c.pw, from |-> NoToken,
                      late |-> c.pw # user[u].pw]
    OBVIOUS
  <2>3. PICK D : D = Dead(u)
    OBVIOUS
  <2>4. PICK T : T = token
    OBVIOUS
  <2>5. /\ user' = [user EXCEPT ![u].misses = IF c.misses # 0 THEN 0 ELSE @,
                                ![u].lock = IF c.lock # "no" THEN "no" ELSE @]
        /\ token' = [Kill(D, T) EXCEPT ![n] = z]
        /\ tx' = [tx EXCEPT ![q] = NoTx] /\ token[n].state = "free"
    BY <1>11, <2>2, <2>3, <2>4, FreshIsFree DEF LoginHit, Close
  <2>6. \A k \in D : k \in Token /\ token[k].state = "revoked"
    BY <2>3 DEF Dead, TokensOf
  <2>7. /\ Kill(D, T) \in [Token -> TokenRow]
        /\ \A x \in Token :
             /\ Kill(D, T)[x].state = IF x \in D THEN "deleted" ELSE T[x].state
             /\ Kill(D, T)[x].of = T[x].of /\ Kill(D, T)[x].pw = T[x].pw
             /\ Kill(D, T)[x].from = T[x].from /\ Kill(D, T)[x].late = T[x].late
    BY <1>0, <2>4, Killed
  <2>8. token'[n] = z /\ \A x \in Token \ {n} : token'[x] = Kill(D, T)[x]
    BY <2>5, <2>7
  <2>9. z.state = "live" /\ z.from = NoToken /\ z.of = u /\ (z.pw = user[u].pw \/ z.late)
    BY <2>2
  <2>10. \A x \in User : user'[x].pw = user[x].pw
    <3> HIDE DEF u
    <3>1. PICK m, l : user' = [user EXCEPT ![u].misses = m, ![u].lock = l]
      BY <2>5
    <3> QED
      BY <1>0, <3>1 DEF UserRow
  <2> HIDE DEF u, c
  <2>11. \A x \in Token \ {n} : /\ token'[x].of = token[x].of /\ token'[x].from = token[x].from
                                 /\ \/ token'[x].state = token[x].state
                                    \/ token'[x].state \in {"revoked", "deleted"}
    BY <2>4, <2>7, <2>8
  <2>12. \A r \in Request : tx'[r].kind = "refresh" =>
           tx'[r] = tx[r] /\ token'[tx[r].tok].state = "live"
    <3> SUFFICES ASSUME NEW r \in Request, tx'[r].kind = "refresh"
                 PROVE  tx'[r] = tx[r] /\ token'[tx[r].tok].state = "live"
      OBVIOUS
    <3>1. r # q /\ tx'[r] = tx[r]
      BY <1>0, <2>5
    <3>2. tx[r].tok \in Token /\ token[tx[r].tok].state = "live"
      BY <1>h, <3>1
    <3>3. tx[r].tok # n /\ tx[r].tok \notin D
      BY <2>5, <2>6, <3>2
    <3> QED
      BY <2>4, <2>7, <2>8, <3>1, <3>2, <3>3
  <2>13. \A x \in Token : token'[x].state = "live" =>
           token'[x].pw = user'[token'[x].of].pw \/ token'[x].late
    <3> SUFFICES ASSUME NEW x \in Token, token'[x].state = "live"
                 PROVE  token'[x].pw = user'[token'[x].of].pw \/ token'[x].late
      OBVIOUS
    <3>1. CASE x = n
      BY <2>1, <2>8, <2>9, <2>10, <3>1
    <3>2. CASE x # n
      <4>1. token[x].state = "live" /\ token[x].of \in User
        BY <1>0, <2>4, <2>7, <2>8, <3>2
      <4>2. token[x].pw = user[token[x].of].pw \/ token[x].late
        BY <1>s, <4>1
      <4>3. /\ token'[x].of = token[x].of /\ token'[x].pw = token[x].pw
            /\ token'[x].late = token[x].late
        BY <2>4, <2>7, <2>8, <3>2
      <4> QED
        BY <2>10, <4>1, <4>2, <4>3
    <3> QED
      BY <3>1, <3>2
  <2>14. token'[n].state = "live" /\ token'[n].from = NoToken
    BY <2>8, <2>9
  <2> QED
    BY <2>5, <2>11, <2>12, <2>13, <2>14, Issuing
\* The steps that end sessions wait for those who hold a token.
<1>12. ASSUME NEW k \in Token, Logout(k) PROVE TokenInv'
  <2>1. /\ token' = [token EXCEPT ![k].state = "revoked"] /\ UNCHANGED <<user, tx>>
        /\ \A r \in Request : tx[r].kind = "refresh" => tx[r].tok # k
    BY <1>12, ConstantsAssumption DEF Logout, LockedFor
  <2>2. \A x \in Token : /\ token'[x].of = token[x].of /\ token'[x].from = token[x].from
                         /\ token'[x].pw = token[x].pw /\ token'[x].late = token[x].late
                         /\ token'[x].state = IF x = k THEN "revoked" ELSE token[x].state
    BY <1>0, <2>1 DEF TokenRow
  <2>3. \A r \in Request : tx'[r].kind = "refresh" =>
          tx'[r] = tx[r] /\ token'[tx[r].tok].state = "live"
    BY <1>h, <2>1, <2>2
  <2>4. \A x \in Token : token'[x].state = "live" =>
          token'[x].pw = user'[token'[x].of].pw \/ token'[x].late
    BY <1>s, <2>1, <2>2
  <2>5. \A x \in Token : /\ token'[x].of = token[x].of /\ token'[x].from = token[x].from
                         /\ \/ token'[x].state = token[x].state
                            \/ token'[x].state \in {"revoked", "deleted"}
    BY <2>2
  <2> QED
    BY <2>3, <2>4, <2>5, Fading
<1>13. ASSUME NEW q \in Request, ChangeEnd(q) PROVE TokenInv'
  <2> DEFINE u == tx[q].of
  <2>1. u \in User
    BY <1>0, <1>13 DEF ChangeEnd, AimedAt
  <2>2. PICK S : S = tx[q].seen
    OBVIOUS
  <2>3. PICK T : T = token
    OBVIOUS
  <2>4. /\ user' = [user EXCEPT ![u].pw = @ + 1]
        /\ token' = [k \in Token |->
                       IF k \in TokensOf(u) \ S THEN [token[k] EXCEPT !.late = TRUE]
                       ELSE Kill(S, T)[k]]
        /\ tx' = [tx EXCEPT ![q] = NoTx] /\ tx[q].kind = "change"
        /\ \A r \in Request \ {q} : tx[r].kind = "refresh" => tx[r].tok \notin S
    BY <1>13, <2>2, <2>3 DEF ChangeEnd, Ended, Close, LockedFor
  <2>5. /\ Kill(S, T) \in [Token -> TokenRow]
        /\ \A x \in Token :
             /\ Kill(S, T)[x].state = IF x \in S THEN "deleted" ELSE T[x].state
             /\ Kill(S, T)[x].of = T[x].of /\ Kill(S, T)[x].pw = T[x].pw
             /\ Kill(S, T)[x].from = T[x].from /\ Kill(S, T)[x].late = T[x].late
    BY <1>0, <2>3, Killed
  <2>6. \A x \in User : x # u => user'[x].pw = user[x].pw
    BY <1>0, <2>4 DEF UserRow
  <2> HIDE DEF u
  <2>7. ASSUME NEW x \in Token
        PROVE  /\ token'[x].of = token[x].of /\ token'[x].from = token[x].from
               /\ token'[x].pw = token[x].pw
               /\ token'[x].state = IF x \in S THEN "deleted" ELSE token[x].state
               /\ token'[x].late = IF x \in TokensOf(u) \ S THEN TRUE ELSE token[x].late
    <3>1. CASE x \in TokensOf(u) \ S
      <4>1. token'[x] = [token[x] EXCEPT !.late = TRUE]
        BY <2>4, <3>1
      <4> QED
        BY <1>0, <3>1, <4>1 DEF TokenRow
    <3>2. CASE x \notin TokensOf(u) \ S
      <4>1. token'[x] = Kill(S, T)[x]
        BY <2>4, <3>2
      <4>2. /\ Kill(S, T)[x].state = IF x \in S THEN "deleted" ELSE token[x].state
            /\ Kill(S, T)[x].of = token[x].of /\ Kill(S, T)[x].pw = token[x].pw
            /\ Kill(S, T)[x].from = token[x].from /\ Kill(S, T)[x].late = token[x].late
        BY <2>3, <2>5
      <4> HIDE DEF TokensOf
      <4> QED
        BY <3>2, <4>1, <4>2
    <3> QED
      BY <3>1, <3>2
  <2>8. \A r \in Request : tx'[r].kind = "refresh" =>
          tx'[r] = tx[r] /\ token'[tx[r].tok].state = "live"
    <3> SUFFICES ASSUME NEW r \in Request, tx'[r].kind = "refresh"
                 PROVE  tx'[r] = tx[r] /\ token'[tx[r].tok].state = "live"
      OBVIOUS
    <3>1. r # q /\ tx'[r] = tx[r]
      BY <1>0, <2>4
    <3>2. tx[r].tok \in Token \ S /\ token[tx[r].tok].state = "live"
      BY <1>h, <2>4, <3>1
    <3> QED
      BY <2>7, <3>1, <3>2
  <2>9. \A x \in Token : token'[x].state = "live" =>
          token'[x].pw = user'[token'[x].of].pw \/ token'[x].late
    <3> SUFFICES ASSUME NEW x \in Token, token'[x].state = "live"
                 PROVE  token'[x].pw = user'[token'[x].of].pw \/ token'[x].late
      OBVIOUS
    <3>1. x \notin S /\ token[x].state = "live" /\ token[x].of \in User
      BY <1>0, <2>7
    <3>2. CASE token[x].of = u
      <4>1. x \in TokensOf(u)
        BY <3>1, <3>2 DEF TokensOf
      <4> QED
        BY <2>7, <3>1, <4>1
    <3>3. CASE token[x].of # u
      <4>1. token[x].pw = user[token[x].of].pw \/ token[x].late
        BY <1>s, <3>1
      <4>2. x \notin TokensOf(u)
        BY <3>3 DEF TokensOf
      <4>3. token'[x].of = token[x].of /\ token'[x].pw = token[x].pw /\ token'[x].late = token[x].late
        BY <2>7, <4>2
      <4> QED
        BY <2>6, <3>1, <3>3, <4>1, <4>3
    <3> QED
      BY <3>2, <3>3
  <2>10. \A x \in Token : /\ token'[x].of = token[x].of /\ token'[x].from = token[x].from
                          /\ \/ token'[x].state = token[x].state
                             \/ token'[x].state \in {"revoked", "deleted"}
    BY <2>7
  <2> QED
    BY <2>8, <2>9, <2>10, Fading
<1>14. ASSUME NEW a, NEW u \in User, DeleteUser(a, u) PROVE TokenInv'
  <2>1. PICK S : S = TokensOf(u)
    OBVIOUS
  <2>2. PICK T : T = token
    OBVIOUS
  <2>3. /\ user' = [user EXCEPT ![u].state = "gone"] /\ token' = Kill(S, T) /\ tx' = tx
        /\ \A r \in Request : tx[r].kind = "refresh" => tx[r].tok \notin S
    BY <1>14, <2>1, <2>2, ConstantsAssumption DEF DeleteUser, LockedFor
  <2>4. \A x \in User : user'[x].pw = user[x].pw
    BY <1>0, <2>3 DEF UserRow
  <2>5. \A x \in Token : /\ token'[x].of = token[x].of /\ token'[x].from = token[x].from
                         /\ token'[x].pw = token[x].pw /\ token'[x].late = token[x].late
                         /\ token'[x].state = IF x \in S THEN "deleted" ELSE token[x].state
    BY <1>0, <2>2, <2>3, Killed
  <2>6. \A r \in Request : tx'[r].kind = "refresh" =>
          tx'[r] = tx[r] /\ token'[tx[r].tok].state = "live"
    BY <1>h, <2>3, <2>5
  <2>7. \A x \in Token : token'[x].state = "live" =>
          token'[x].pw = user'[token'[x].of].pw \/ token'[x].late
    BY <1>0, <1>s, <2>4, <2>5
  <2>8. \A x \in Token : /\ token'[x].of = token[x].of /\ token'[x].from = token[x].from
                         /\ \/ token'[x].state = token[x].state
                            \/ token'[x].state \in {"revoked", "deleted"}
    BY <2>5
  <2> QED
    BY <2>6, <2>7, <2>8, Fading
<1>15. CASE UNCHANGED vars
  BY <1>15, Apart DEF vars
<1> QED
  BY <1>2, <1>3, <1>4, <1>5, <1>6, <1>7, <1>8, <1>9, <1>10, <1>11, <1>12, <1>13, <1>14, <1>15,
     <1>16, <1>17 DEF Next

LEMMA Sessions == Spec => [](TypeInv /\ TokenInv)
<1>1. Init => TypeInv /\ TokenInv
  BY InitType, InvInit
<1>2. TypeInv /\ TokenInv /\ [Next]_vars => (TypeInv /\ TokenInv)'
  BY TypeStep, SessionsStep
<1> QED
  BY <1>1, <1>2, PTL DEF Spec

\* However many requests redeem it at once, a refresh token has one heir.
THEOREM OneHeir == Spec => []OneHeirPerToken
<1>1. TokenInv => OneHeirPerToken
  BY DEF TokenInv
<1> QED
  BY <1>1, Sessions, PTL

\* A live session has the current password, or is marked as issued across a
\* change of it.
THEOREM SessionsFollow == Spec => []SessionsFollowThePassword
<1>1. TokenInv => SessionsFollowThePassword
  BY DEF TokenInv
<1> QED
  BY <1>1, Sessions, PTL

-----------------------------------------------------------------------------
(* Permissions.                                                            *)

LEMMA MatrixStep == TypeInv /\ PermissionsAreOneMatrix /\ [Next]_vars => PermissionsAreOneMatrix'
<1> SUFFICES ASSUME TypeInv, PermissionsAreOneMatrix, [Next]_vars PROVE PermissionsAreOneMatrix'
  OBVIOUS
<1>1. CASE UNCHANGED <<perms, merged>>
  BY <1>1 DEF PermissionsAreOneMatrix
<1>2. ASSUME NEW q \in Request, SaveEnd(q) PROVE PermissionsAreOneMatrix'
  <2> DEFINE r == tx[q].role
             m == tx[q].matrix
  <2>1. r \in Role /\ m \in Matrices /\ Acceptable(m) /\ \A p \in tx[q].rows : p.role = r
    BY <1>2 DEF TypeInv, Aimed, AimedAt, SaveEnd
  <2>2. \/ UNCHANGED <<perms, merged>>
        \/ /\ perms' = (perms \ tx[q].rows) \cup Rows(m, r)
           /\ \A p \in perms \ tx[q].rows, n \in Rows(m, r) : ~(p.role = n.role /\ p.page = n.page)
           /\ merged' = IF {p \in perms : p.role = r} = tx[q].rows THEN merged \ {r}
                        ELSE merged \cup {r}
    BY <1>2 DEF SaveEnd, Replaced
  <2> HIDE DEF r, m
  <2>3. CASE /\ perms' = (perms \ tx[q].rows) \cup Rows(m, r)
             /\ \A p \in perms \ tx[q].rows, n \in Rows(m, r) : ~(p.role = n.role /\ p.page = n.page)
             /\ merged' = IF {p \in perms : p.role = r} = tx[q].rows THEN merged \ {r}
                          ELSE merged \cup {r}
    <3>1. \A p \in Rows(m, r) : p.role = r
      BY <2>1, RowsType, ConstantsAssumption
    <3>2. ASSUME NEW p \in perms' PROVE \E w \in Matrices : Acceptable(w) /\ p \in Rows(w, p.role)
      <4>1. CASE p \in perms
        BY <4>1 DEF PermissionsAreOneMatrix
      <4>2. CASE p \in Rows(m, r)
        BY <2>1, <3>1, <4>2
      <4> QED
        BY <2>3, <4>1, <4>2
    <3>3. ASSUME NEW p \in perms', NEW o \in perms', p.role = o.role, p.page = o.page PROVE p = o
      <4>1. CASE p \in Rows(m, r) /\ o \in Rows(m, r)
        BY <3>3, <4>1 DEF Rows
      <4>2. CASE p \in perms /\ o \in perms
        BY <3>3, <4>2 DEF PermissionsAreOneMatrix
      <4> QED
        BY <2>3, <3>3, <4>1, <4>2
    <3>4. ASSUME NEW x \in Role \ merged'
          PROVE  {p \in perms' : p.role = x} \in {{}} \cup {Rows(w, x) : w \in Matrices}
      <4>1. CASE x = r
        <5>1. {p \in perms : p.role = r} = tx[q].rows
          BY <2>3, <4>1
        <5>2. {p \in perms' : p.role = x} = Rows(m, r)
          BY <2>3, <3>1, <4>1, <5>1
        <5> QED
          BY <2>1, <4>1, <5>2
      <4>2. CASE x # r
        <5>1. x \in Role \ merged
          BY <2>3, <4>2
        <5>2. {p \in perms' : p.role = x} = {p \in perms : p.role = x}
          BY <2>1, <2>3, <3>1, <4>2
        <5> QED
          BY <5>1, <5>2 DEF PermissionsAreOneMatrix
      <4> QED
        BY <4>1, <4>2
    <3> QED
      BY <3>2, <3>3, <3>4 DEF PermissionsAreOneMatrix
  <2> QED
    BY <1>1, <2>2, <2>3
<1>3. ASSUME NEW q \in Request, NEW u \in User, LoginRead(q, u)
      PROVE  UNCHANGED <<perms, merged>>
  BY <1>3 DEF LoginRead
<1>4. ASSUME NEW q \in Request, ChangeDelete(q) \/ \E u \in User, a \in User \cup {Root} : ChangeBegin(q, a, u)
      PROVE  UNCHANGED <<perms, merged>>
  BY <1>4 DEF ChangeBegin, ChangeDelete
<1>5. ASSUME NEW q \in Request, NEW k \in Token,
             RefreshTake(q, k) \/ LoginHit(q, k) \/ RefreshIssue(q, k)
      PROVE  UNCHANGED <<perms, merged>>
  BY <1>5 DEF RefreshTake, LoginHit, RefreshIssue
<1>6. ASSUME NEW q \in Request, LoginMiss(q) \/ RefreshRefuse(q) \/ ChangeEnd(q) \/ Fail(q)
      PROVE  UNCHANGED <<perms, merged>>
  BY <1>6 DEF LoginMiss, RefreshRefuse, ChangeEnd, Fail
<1>7. ASSUME NEW q \in Request, NEW r \in Role, NEW m \in Matrices, SaveBegin(q, r, m)
      PROVE  UNCHANGED <<perms, merged>>
  BY <1>7 DEF SaveBegin
<1>8. ASSUME NEW k \in Token, Logout(k)
      PROVE  UNCHANGED <<perms, merged>>
  BY <1>8 DEF Logout
<1>9. ASSUME NEW u \in User, LockEnds(u)
      PROVE  UNCHANGED <<perms, merged>>
  BY <1>9 DEF LockEnds
<1>10. ASSUME NEW u \in User, NEW a, UpdateUser(a, u) \/ DeleteUser(a, u)
      PROVE  UNCHANGED <<perms, merged>>
  BY <1>10 DEF UpdateUser, DeleteUser
<1>11. UNCHANGED vars => UNCHANGED <<perms, merged>>
  BY DEF vars
<1> QED
  BY <1>1, <1>2, <1>3, <1>4, <1>5, <1>6, <1>7, <1>8, <1>9, <1>10, <1>11 DEF Next

\* A role's rows are one saved matrix while no two saves of it overlap, and each
\* page has one row of an accepted matrix whatever overlaps (roles_api.py:104-135).
THEOREM OneMatrix == Spec => []PermissionsAreOneMatrix
<1>1. Init => PermissionsAreOneMatrix
  BY InvInit
<1> QED
  BY <1>1, InitType, TypeStep, MatrixStep, PTL DEF Spec
=============================================================================
