------------------------- MODULE AuthSessionsProofs -------------------------
(***************************************************************************)
(* Proofs about AuthSessions, for any sets of users, tokens and requests.  *)
(* The inductive invariant adds to the typing what a request knows at each *)
(* await (RequestOK), and that a row is only ever inserted once (TableOK). *)
(* The last section follows the chains of rotations back to their logins.  *)
(***************************************************************************)
EXTENDS AuthSessions, TLAPS

Pcs == {"idle", "verify", "rehash", "findToken", "findUser", "rotate", "issue", "revoke"}

\* What a request in flight has established, by the place it has reached.
RequestOK(r) ==
    /\ req[r].pc # "idle" => req[r].user \in User
    /\ req[r].pc \in {"findToken", "findUser", "rotate"} => req[r].tok # NoToken
    /\ req[r].pc \in {"verify", "rehash"} => req[r].tok = NoToken
    /\ req[r].pc # "idle" /\ req[r].tok # NoToken =>
          req[r].tok \in Issued /\ jwt[req[r].tok].user = req[r].user
    /\ req[r].pc \in {"findUser", "rotate"} => row[req[r].tok] # "none"
    /\ req[r].pc = "issue" /\ req[r].tok # NoToken => row[req[r].tok] = "revoked"
    /\ req[r].pc # "idle" => req[r].start <= user[req[r].user].role
    /\ Cleared(r) => req[r].start <= req[r].seen

RequestsOK == \A r \in Request : RequestOK(r)

\* A token has a row, or an INSERT on its way, only once it is issued, and
\* never both.
TableOK ==
    \A t \in Token :
        /\ t \in inserting => t \in Issued /\ row[t] = "none"
        /\ t \notin Issued => row[t] = "none"

IInv == TypeOK /\ RequestsOK /\ TableOK /\ SuccessorMeansRevoked /\ RoleLag

----------------------------------------------------------------------------
(* Typing *)

\* The initial state and every step keep each variable in its range.
LEMMA TypeInit == Init => TypeOK
  BY SessionConstants DEF Init, TypeOK, UserRow, Role, RequestState, Idle

\* An issued token has a payload of the right type.
LEMMA IssuedJwt ==
  ASSUME TypeOK, NEW t \in Issued
  PROVE  /\ t \in Token /\ jwt[t] \in Jwt /\ jwt[t].user \in User
         /\ jwt[t].role \in Role /\ jwt[t].access \in Role /\ jwt[t].born \in Role
         /\ jwt[t].parent \in Token \cup {NoToken}
<1>1. t \in Token /\ jwt[t] \in Jwt
  BY DEF TypeOK, Issued
<1>2. QED
  BY <1>1 DEF Jwt

\* A row of the user table has the fields of UserRow.
LEMMA UserFields ==
  ASSUME TypeOK, NEW u \in User
  PROVE  user[u] \in UserRow /\ user[u].role \in Role
<1>1. user[u] \in UserRow
  BY DEF TypeOK
<1>2. QED
  BY <1>1 DEF UserRow

\* So does a request.
LEMMA RequestFields ==
  ASSUME TypeOK, NEW r \in Request
  PROVE  /\ req[r] \in RequestState /\ req[r].pc \in Pcs
         /\ req[r].user \in User \cup {NoUser} /\ req[r].tok \in Token \cup {NoToken}
         /\ req[r].seen \in Role /\ req[r].start \in Role
<1>1. req[r] \in RequestState
  BY DEF TypeOK
<1>2. QED
  BY <1>1 DEF RequestState, Pcs

\* The pair an issuing request hands out has the right type.
LEMMA NewJwtType ==
  ASSUME TypeOK, RequestsOK, NEW r \in Request, req[r].pc # "idle"
  PROVE  NewJwt(r) \in Jwt
<1>1. req[r].user \in User
  BY DEF RequestsOK, RequestOK
<1>2. AccessRole(r) \in Role
  <2>1. CASE req[r].tok = NoToken
    BY <2>1, RequestFields DEF AccessRole
  <2>2. CASE req[r].tok # NoToken
    <3>1. req[r].tok \in Issued
      BY <2>2 DEF RequestsOK, RequestOK
    <3>2. QED
      BY <2>2, <3>1, IssuedJwt DEF AccessRole
  <2>3. QED
    BY <2>1, <2>2
<1>3. /\ req[r].seen \in Role /\ req[r].start \in Role
      /\ req[r].tok \in Token \cup {NoToken}
  BY RequestFields
<1>4. QED
  BY <1>1, <1>2, <1>3 DEF NewJwt, Jwt

\* Ending a request, or moving it on, keeps req in its range.
LEMMA MoveType ==
  ASSUME TypeOK, NEW r \in Request,
         Finish(r) \/ (\E label \in Pcs : Goto(r, label))
  PROVE  req' \in [Request -> RequestState]
<1>1. CASE Finish(r)
  BY <1>1, SessionConstants DEF Finish, TypeOK, RequestState, Idle, Role
<1>2. ASSUME NEW label \in Pcs, Goto(r, label) PROVE req' \in [Request -> RequestState]
  <2>1. req \in [Request -> RequestState]
    BY DEF TypeOK
  <2>2. [req[r] EXCEPT !.pc = label] \in RequestState
    BY <1>2, <2>1 DEF RequestState, Pcs
  <2>3. req' = [req EXCEPT ![r] = [req[r] EXCEPT !.pc = label]]
    BY <1>2, <2>1 DEF Goto
  <2>4. QED
    BY <2>1, <2>2, <2>3
<1>3. QED
  BY <1>1, <1>2

\* Every step keeps each variable in its range.
LEMMA TypeStep == TypeOK /\ RequestsOK /\ [Next]_vars => TypeOK'
<1> SUFFICES ASSUME TypeOK, RequestsOK, [Next]_vars PROVE TypeOK'
  OBVIOUS
<1>1. ASSUME NEW r \in Request, LoginVerify(r) PROVE TypeOK'
  BY <1>1, MoveType DEF LoginVerify, TypeOK, Pcs
<1>2. ASSUME NEW r \in Request, LoginRehash(r) PROVE TypeOK'
  <2>1. req[r].user \in User
    BY <1>2 DEF LoginRehash, RequestsOK, RequestOK
  <2>2. user' \in [User -> UserRow]
    <3>1. CASE user' = [user EXCEPT ![req[r].user].password = "argon2id"]
      BY <2>1, <3>1 DEF UserRow, TypeOK
    <3>2. QED
      BY <1>2, <3>1 DEF LoginRehash, TypeOK
  <2>3. req' \in [Request -> RequestState]
    BY <1>2, MoveType DEF LoginRehash, Pcs
  <2>4. QED
    BY <1>2, <2>2, <2>3 DEF LoginRehash, TypeOK
<1>3. ASSUME NEW r \in Request, RefreshFindToken(r) PROVE TypeOK'
  BY <1>3, MoveType DEF RefreshFindToken, TypeOK, Pcs
<1>4. ASSUME NEW r \in Request, RefreshFindUser(r) PROVE TypeOK'
  <2>1. req' \in [Request -> RequestState]
    <3>1. CASE Finish(r)
      BY <3>1, MoveType
    <3>2. CASE req' = [req EXCEPT ![r] = [@ EXCEPT !.pc = "rotate",
                                                   !.seen = user[req[r].user].role]]
      <4>1. user[req[r].user].role \in Role
        BY <1>4, UserFields DEF RefreshFindUser, RequestsOK, RequestOK
      <4>2. [req[r] EXCEPT !.pc = "rotate", !.seen = user[req[r].user].role] \in RequestState
        BY <4>1 DEF TypeOK, RequestState
      <4>3. QED
        BY <3>2, <4>2 DEF TypeOK
    <3>3. QED
      BY <1>4, <3>1, <3>2 DEF RefreshFindUser
  <2>2. QED
    BY <1>4, <2>1 DEF RefreshFindUser, TypeOK
<1>5. ASSUME NEW r \in Request, RefreshRotate(r) PROVE TypeOK'
  BY <1>5, MoveType DEF RefreshRotate, TypeOK, Pcs
<1>6. ASSUME NEW r \in Request, Issue(r) PROVE TypeOK'
  <2>1. NewJwt(r) \in Jwt
    BY <1>6, NewJwtType DEF Issue
  <2>2. req' \in [Request -> RequestState]
    BY <1>6, MoveType DEF Issue
  <2>3. QED
    BY <1>6, <2>1, <2>2 DEF Issue, TypeOK
<1>7. ASSUME NEW r \in Request, LogoutRevoke(r) PROVE TypeOK'
  <2>1. row' \in [Token -> {"none", "active", "revoked"}]
    BY <1>7 DEF LogoutRevoke, TypeOK
  <2>2. req' \in [Request -> RequestState]
    BY <1>7, MoveType DEF LogoutRevoke
  <2>3. QED
    BY <1>7, <2>1, <2>2 DEF LogoutRevoke, TypeOK
<1>8. ASSUME NEW r \in Request, Abort(r) PROVE TypeOK'
  BY <1>8, MoveType DEF Abort, TypeOK
<1>9. ASSUME NEW r \in Request, NEW u \in User, LoginFind(r, u) PROVE TypeOK'
  <2>1. user[u].role \in Role
    BY UserFields
  <2>2. req' \in [Request -> RequestState]
    BY <1>9, <2>1 DEF LoginFind, RequestState, TypeOK
  <2>3. QED
    BY <1>9, <2>2 DEF LoginFind, TypeOK
<1>10. ASSUME NEW r \in Request, NEW t \in Token, RefreshBegin(r, t) PROVE TypeOK'
  <2>1. jwt[t].user \in User
    BY <1>10, IssuedJwt DEF RefreshBegin
  <2>2. user[jwt[t].user].role \in Role /\ 0 \in Role
    BY <2>1, UserFields, SessionConstants DEF Role
  <2>3. req' \in [Request -> RequestState]
    BY <1>10, <2>1, <2>2 DEF RefreshBegin, RequestState, TypeOK
  <2>4. QED
    BY <1>10, <2>3 DEF RefreshBegin, TypeOK
<1>11. ASSUME NEW r \in Request, NEW t \in Token, LogoutBegin(r, t) PROVE TypeOK'
  <2>1. jwt[t].user \in User /\ 0 \in Role
    BY <1>11, IssuedJwt, SessionConstants DEF LogoutBegin, Role
  <2>2. [Idle EXCEPT !.pc = "revoke", !.user = jwt[t].user, !.tok = t] \in RequestState
    BY <2>1 DEF RequestState, Idle
  <2>3. QED
    BY <1>11, <2>2 DEF LogoutBegin, TypeOK
<1>12. ASSUME NEW t \in Token, InsertRow(t) \/ InsertLost(t) \/ Expire(t) PROVE TypeOK'
  <2>1. CASE InsertRow(t)
    BY <2>1 DEF InsertRow, TypeOK
  <2>2. CASE InsertLost(t)
    BY <2>2 DEF InsertLost, TypeOK
  <2>3. CASE Expire(t)
    BY <2>3 DEF Expire, TypeOK
  <2>4. QED
    BY <1>12, <2>1, <2>2, <2>3
<1>13. ASSUME NEW u \in User, UpdateUser(u) \/ DeleteUser(u) PROVE TypeOK'
  <2>1. CASE UpdateUser(u)
    <3>1. PICK b \in BOOLEAN, k \in Role :
             user' = [user EXCEPT ![u] = [@ EXCEPT !.blocked = b, !.role = k]]
      BY <2>1 DEF UpdateUser
    <3>2. [user[u] EXCEPT !.blocked = b, !.role = k] \in UserRow
      BY UserFields DEF UserRow
    <3>3. QED
      BY <2>1, <3>1, <3>2 DEF UpdateUser, TypeOK
  <2>2. CASE DeleteUser(u)
    BY <2>2 DEF DeleteUser, UserRow, TypeOK
  <2>3. QED
    BY <1>13, <2>1, <2>2
<1>14. CASE UNCHANGED vars
  BY <1>14 DEF vars, TypeOK
<1>15. QED
  BY <1>1, <1>2, <1>3, <1>4, <1>5, <1>6, <1>7, <1>8, <1>9, <1>10, <1>11, <1>12,
     <1>13, <1>14 DEF Next, Step

----------------------------------------------------------------------------
(* What no step undoes *)

Stable ==
    /\ \A t \in Issued : t \in Issued' /\ jwt'[t] = jwt[t]
    /\ \A t \in Token : /\ row[t] = "revoked" => row'[t] = "revoked"
                        /\ row[t] # "none" => row'[t] # "none"
    /\ \A u \in User : user[u].role <= user'[u].role

\* Issued pairs never change, a revocation is final, roles only advance.
LEMMA StableStep ==
  ASSUME TypeOK, TableOK, [Next]_vars
  PROVE  Stable
<1>0. \A u \in User : user[u].role \in Nat
  BY UserFields, SessionConstants DEF Role
<1>1. ASSUME NEW r \in Request, Issue(r) PROVE Stable
  <2>1. PICK t \in Token \ Issued : jwt' = [jwt EXCEPT ![t] = NewJwt(r)]
    BY <1>1 DEF Issue
  <2>2. \A x \in Issued : x # t /\ jwt'[x] = jwt[x]
    BY <2>1 DEF Issued, TypeOK
  <2>3. \A x \in Issued : x \in Issued'
    BY <2>2 DEF Issued
  <2>4. QED
    BY <1>0, <1>1, <2>2, <2>3 DEF Issue, Stable
<1>2. ASSUME NEW r \in Request, LoginRehash(r) PROVE Stable
  <2>1. \A u \in User : user'[u].role = user[u].role
    BY <1>2 DEF LoginRehash, TypeOK, UserRow
  <2>2. QED
    BY <1>0, <1>2, <2>1 DEF LoginRehash, Stable, Issued
<1>3. ASSUME NEW r \in Request, RefreshRotate(r) \/ LogoutRevoke(r) PROVE Stable
  BY <1>0, <1>3 DEF RefreshRotate, LogoutRevoke, Stable, Issued, TypeOK
<1>4. ASSUME NEW t \in Token, InsertRow(t) PROVE Stable
  BY <1>0, <1>4 DEF InsertRow, Stable, Issued, TypeOK, TableOK
<1>5. ASSUME NEW u \in User, UpdateUser(u) PROVE Stable
  <2>1. PICK b \in BOOLEAN, k \in {user[u].role, user[u].role + 1} \cap Role :
           user' = [user EXCEPT ![u] = [@ EXCEPT !.blocked = b, !.role = k]]
    BY <1>5 DEF UpdateUser
  <2>2. user'[u].role = k /\ \A v \in User \ {u} : user'[v] = user[v]
    BY <2>1, UserFields DEF TypeOK, UserRow
  <2>3. k >= user[u].role
    BY <1>0
  <2>4. QED
    BY <1>0, <1>5, <2>2, <2>3 DEF UpdateUser, Stable, Issued
<1>6. ASSUME NEW u \in User, DeleteUser(u) PROVE Stable
  <2>1. \A v \in User : user'[v].role = user[v].role
    BY <1>6 DEF DeleteUser, TypeOK, UserRow
  <2>2. QED
    BY <1>0, <1>6, <2>1 DEF DeleteUser, Stable, Issued
<1>7. CASE UNCHANGED <<user, jwt, row>>
  BY <1>0, <1>7 DEF Stable, Issued
<1>8. QED
  BY <1>1, <1>2, <1>3, <1>4, <1>5, <1>6, <1>7
     DEF Next, Step, vars, LoginVerify, RefreshFindToken, RefreshFindUser, Abort,
         LoginFind, RefreshBegin, LogoutBegin, InsertLost, Expire

\* A role a user had reached is one they have still reached after the step.
LEMMA RoleGrows ==
  ASSUME TypeOK, TypeOK', Stable, NEW u \in User, NEW k \in Role, k <= user[u].role
  PROVE  k <= user'[u].role
<1>1. user[u].role \in Nat /\ user'[u].role \in Nat /\ k \in Nat
  BY UserFields, SessionConstants DEF TypeOK, UserRow, Role
<1>2. QED
  BY <1>1 DEF Stable

\* A request that a step leaves alone knows afterwards what it knew before.
LEMMA RequestFrame ==
  ASSUME TypeOK, Stable, TypeOK', NEW q \in Request, RequestOK(q), req'[q] = req[q]
  PROVE  RequestOK(q)'
<1>1. req[q].pc # "idle" => req[q].start <= user'[req[q].user].role
  <2>1. SUFFICES ASSUME req[q].pc # "idle" PROVE req[q].start <= user'[req[q].user].role
    OBVIOUS
  <2>2. req[q].user \in User /\ req[q].start <= user[req[q].user].role
    BY <2>1 DEF RequestOK
  <2>3. QED
    BY <2>2, RoleGrows, RequestFields
<1>2. req[q].pc # "idle" /\ req[q].tok # NoToken =>
        req[q].tok \in Issued' /\ jwt'[req[q].tok].user = req[q].user
  BY DEF RequestOK, Stable
<1>3. /\ req[q].pc = "issue" /\ req[q].tok # NoToken => row'[req[q].tok] = "revoked"
      /\ req[q].pc \in {"findUser", "rotate"} => row'[req[q].tok] # "none"
  <2>1. req[q].tok \in Token \cup {NoToken}
    BY RequestFields
  <2>2. req[q].pc = "issue" /\ req[q].tok # NoToken => row'[req[q].tok] = "revoked"
    BY <2>1 DEF RequestOK, Stable
  <2>3. ASSUME req[q].pc \in {"findUser", "rotate"} PROVE row'[req[q].tok] # "none"
    <3>1. req[q].tok # NoToken /\ row[req[q].tok] # "none"
      BY <2>3 DEF RequestOK
    <3>2. QED
      BY <2>1, <3>1 DEF Stable
  <2>4. QED
    BY <2>2, <2>3
<1>4. QED
  BY <1>1, <1>2, <1>3 DEF RequestOK, Cleared

----------------------------------------------------------------------------
(* What each request knows *)

\* A request that has ended knows nothing.
LEMMA IdleOK ==
  ASSUME TypeOK, NEW r \in Request, Finish(r)
  PROVE  RequestOK(r)'
<1>1. req'[r] = Idle
  BY DEF Finish, TypeOK
<1>2. QED
  BY <1>1 DEF RequestOK, Cleared, Idle

\* Moving on to another place changes the place only.
LEMMA GotoFields ==
  ASSUME TypeOK, NEW r \in Request, NEW label, Goto(r, label)
  PROVE  /\ req'[r].pc = label /\ req'[r].user = req[r].user /\ req'[r].tok = req[r].tok
         /\ req'[r].seen = req[r].seen /\ req'[r].start = req[r].start
BY DEF Goto, TypeOK, RequestState

\* Every step keeps what the requests know true.
LEMMA RequestStep ==
  ASSUME IInv, [Next]_vars
  PROVE  RequestsOK'
<1>1. TypeOK /\ RequestsOK /\ TableOK /\ TypeOK' /\ Stable
  BY TypeStep, StableStep DEF IInv
<1>2. ASSUME NEW r \in Request, \A q \in Request \ {r} : req'[q] = req[q], RequestOK(r)'
      PROVE  RequestsOK'
  BY <1>1, <1>2, RequestFrame DEF RequestsOK
<1>3. ASSUME NEW r \in Request, Finish(r) PROVE RequestsOK'
  <2>1. \A q \in Request \ {r} : req'[q] = req[q]
    BY <1>3, <1>1 DEF Finish, TypeOK
  <2>2. QED
    BY <1>1, <1>2, <1>3, <2>1, IdleOK
<1>4. ASSUME NEW r \in Request, NEW label, Goto(r, label), RequestOK(r)' PROVE RequestsOK'
  <2>1. \A q \in Request \ {r} : req'[q] = req[q]
    BY <1>4, <1>1 DEF Goto, TypeOK
  <2>2. QED
    BY <1>2, <1>4, <2>1
<1>5. ASSUME NEW r \in Request, req[r].pc \in {"verify", "rehash"}, Goto(r, "issue")
      PROVE RequestsOK'
  <2>1. /\ req'[r].pc = "issue" /\ req'[r].user = req[r].user /\ req'[r].tok = req[r].tok
        /\ req'[r].seen = req[r].seen /\ req'[r].start = req[r].start
    BY <1>1, <1>5, GotoFields
  <2>2. /\ req[r].user \in User /\ req[r].tok = NoToken /\ req[r].start <= req[r].seen
        /\ req[r].start <= user[req[r].user].role
    BY <1>1, <1>5 DEF RequestsOK, RequestOK, Cleared
  <2>3. req[r].start <= user'[req[r].user].role
    BY <1>1, <2>2, RoleGrows, RequestFields
  <2>4. RequestOK(r)'
    BY <2>1, <2>2, <2>3 DEF RequestOK, Cleared
  <2>5. QED
    BY <1>4, <1>5, <2>4
<1>6. ASSUME NEW r \in Request, LoginVerify(r) \/ LoginRehash(r) PROVE RequestsOK'
  BY <1>3, <1>5, <1>6 DEF LoginVerify, LoginRehash
<1>7. ASSUME NEW r \in Request, RefreshFindToken(r) PROVE RequestsOK'
  <2>1. CASE Finish(r)
    BY <1>3, <2>1
  <2>2. CASE Goto(r, "findUser")
    <3>1. /\ req'[r].pc = "findUser" /\ req'[r].user = req[r].user
          /\ req'[r].tok = req[r].tok /\ req'[r].start = req[r].start
      BY <1>1, <2>2, GotoFields
    <3>2. req[r].pc = "findToken" /\ req[r].tok \in Token
      BY <1>1, <1>7, RequestFields DEF RefreshFindToken, RequestsOK, RequestOK
    <3>3. CASE Usable(req[r].tok)
      <4>1. RequestOK(r)'
        BY <1>1, <1>7, <3>1, <3>2, <3>3
           DEF RefreshFindToken, Usable, RequestsOK, RequestOK, Cleared, Issued
      <4>2. QED
        BY <1>4, <2>2, <4>1
    <3>4. CASE ~Usable(req[r].tok)
      BY <1>3, <1>7, <3>4 DEF RefreshFindToken
    <3>5. QED
      BY <3>3, <3>4
  <2>3. QED
    BY <1>7, <2>1, <2>2 DEF RefreshFindToken
<1>8. ASSUME NEW r \in Request, RefreshFindUser(r) PROVE RequestsOK'
  <2>1. CASE Finish(r)
    BY <1>3, <2>1
  <2>2. CASE req' = [req EXCEPT ![r] = [@ EXCEPT !.pc = "rotate",
                                                   !.seen = user[req[r].user].role]]
    <3>1. /\ req'[r].pc = "rotate" /\ req'[r].user = req[r].user
          /\ req'[r].tok = req[r].tok /\ req'[r].start = req[r].start
          /\ req'[r].seen = user[req[r].user].role
          /\ \A q \in Request \ {r} : req'[q] = req[q]
      BY <1>1, <2>2 DEF TypeOK, RequestState
    <3>2. RequestOK(r)'
      BY <1>1, <1>8, <3>1 DEF RefreshFindUser, RequestsOK, RequestOK, Cleared, Issued
    <3>3. QED
      BY <1>2, <3>1, <3>2
  <2>3. QED
    BY <1>8, <2>1, <2>2 DEF RefreshFindUser
<1>9. ASSUME NEW r \in Request, RefreshRotate(r) PROVE RequestsOK'
  <2>1. /\ req'[r].pc = "issue" /\ req'[r].user = req[r].user
        /\ req'[r].tok = req[r].tok /\ req'[r].start = req[r].start
        /\ req'[r].seen = req[r].seen
    BY <1>1, <1>9, GotoFields DEF RefreshRotate
  <2>2. req[r].tok \in Token /\ row'[req[r].tok] = "revoked"
    BY <1>1, <1>9, RequestFields DEF RefreshRotate, RequestsOK, RequestOK, TypeOK
  <2>3. RequestOK(r)'
    BY <1>1, <1>9, <2>1, <2>2 DEF RefreshRotate, RequestsOK, RequestOK, Cleared, Issued
  <2>4. QED
    BY <1>4, <1>9, <2>3 DEF RefreshRotate
<1>10. ASSUME NEW r \in Request, NEW u \in User, LoginFind(r, u) PROVE RequestsOK'
  <2>1. /\ req'[r].pc \in {"verify", "rehash"} /\ req'[r].user = u
        /\ req'[r].tok = NoToken
        /\ req'[r].seen = user[u].role /\ req'[r].start = user[u].role
        /\ \A q \in Request \ {r} : req'[q] = req[q]
    BY <1>1, <1>10 DEF LoginFind, TypeOK
  <2>2. user'[u].role = user[u].role /\ user[u].role \in Nat
    BY <1>1, <1>10, UserFields, SessionConstants DEF LoginFind, Role
  <2>3. RequestOK(r)'
    BY <2>1, <2>2 DEF RequestOK, Cleared
  <2>4. QED
    BY <1>2, <2>1, <2>3
<1>11. ASSUME NEW r \in Request, NEW t \in Token, RefreshBegin(r, t) PROVE RequestsOK'
  <2>1. /\ req'[r].pc = "findToken" /\ req'[r].user = jwt[t].user
        /\ req'[r].tok = t /\ req'[r].start = user[jwt[t].user].role
        /\ \A q \in Request \ {r} : req'[q] = req[q]
    BY <1>1, <1>11 DEF RefreshBegin, TypeOK
  <2>2. /\ jwt[t].user \in User /\ t # NoToken /\ t \in Issued
        /\ user[jwt[t].user].role \in Nat
    BY <1>1, <1>11, IssuedJwt, UserFields, SessionConstants DEF RefreshBegin, Role
  <2>3. RequestOK(r)'
    BY <1>11, <2>1, <2>2 DEF RefreshBegin, RequestOK, Cleared, Issued
  <2>4. QED
    BY <1>2, <2>1, <2>3
<1>12. ASSUME NEW r \in Request, NEW t \in Token, LogoutBegin(r, t) PROVE RequestsOK'
  <2>1. /\ req'[r].pc = "revoke" /\ req'[r].user = jwt[t].user
        /\ req'[r].tok = t /\ req'[r].start = 0
        /\ \A q \in Request \ {r} : req'[q] = req[q]
    BY <1>1, <1>12 DEF LogoutBegin, TypeOK, Idle
  <2>2. /\ jwt[t].user \in User /\ t \in Issued /\ user[jwt[t].user].role \in Nat
    BY <1>1, <1>12, IssuedJwt, UserFields, SessionConstants DEF LogoutBegin, Role
  <2>3. RequestOK(r)'
    BY <1>12, <2>1, <2>2 DEF LogoutBegin, RequestOK, Cleared, Issued
  <2>4. QED
    BY <1>2, <2>1, <2>3
<1>13. CASE UNCHANGED req
  BY <1>1, <1>13, RequestFrame DEF RequestsOK
<1>14. QED
  BY <1>3, <1>6, <1>7, <1>8, <1>9, <1>10, <1>11, <1>12, <1>13
     DEF Next, Step, vars, Issue, LogoutRevoke, Abort, InsertRow, InsertLost, Expire,
         UpdateUser, DeleteUser

----------------------------------------------------------------------------
(* The table and the chain of rotations *)

\* What Issue does, in terms of the one token it hands out.
LEMMA IssueOne ==
  ASSUME IInv, NEW r \in Request, Issue(r)
  PROVE  \E t \in Token \ Issued :
            /\ Issued' = Issued \cup {t} /\ inserting' = inserting \cup {t}
            /\ jwt'[t] = NewJwt(r)
            /\ \A s \in Issued : jwt'[s] = jwt[s]
<1>1. PICK t \in Token \ Issued : /\ jwt' = [jwt EXCEPT ![t] = NewJwt(r)]
                                  /\ inserting' = inserting \cup {t}
  BY DEF Issue
<1>2. NewJwt(r) # NoJwt
  BY NewJwtType, SessionConstants DEF IInv, Issue
<1>3. jwt'[t] = NewJwt(r) /\ \A s \in Token \ {t} : jwt'[s] = jwt[s]
  BY <1>1 DEF IInv, TypeOK
<1>4. Issued' = Issued \cup {t}
  BY <1>2, <1>3 DEF Issued
<1>5. QED
  BY <1>1, <1>3, <1>4 DEF Issued

\* Rows appear only by the one INSERT of an issued token.
LEMMA TableStep ==
  ASSUME IInv, [Next]_vars
  PROVE  TableOK'
<1> USE DEF IInv
<1>1. ASSUME NEW r \in Request, Issue(r) PROVE TableOK'
  <2>1. PICK t \in Token \ Issued :
           Issued' = Issued \cup {t} /\ inserting' = inserting \cup {t}
    BY <1>1, IssueOne
  <2>2. QED
    BY <1>1, <2>1 DEF Issue, TableOK
<1>2. ASSUME NEW r \in Request, RefreshRotate(r) \/ LogoutRevoke(r) PROVE TableOK'
  <2>2. CASE LogoutRevoke(r)
    BY <2>2 DEF LogoutRevoke, TableOK, TypeOK, Issued
  <2>3. CASE RefreshRotate(r)
    <3>1. req[r].tok \in Issued /\ row[req[r].tok] # "none"
      BY <2>3 DEF RefreshRotate, RequestsOK, RequestOK
    <3>2. QED
      BY <2>3, <3>1 DEF RefreshRotate, TableOK, TypeOK, Issued
  <2>4. QED
    BY <1>2, <2>2, <2>3
<1>3. ASSUME NEW t \in Token, InsertRow(t) \/ InsertLost(t) PROVE TableOK'
  BY <1>3 DEF InsertRow, InsertLost, TableOK, TypeOK, Issued
<1>4. CASE UNCHANGED <<jwt, row, inserting>>
  BY <1>4 DEF TableOK, Issued
<1>5. QED
  BY <1>1, <1>2, <1>3, <1>4
     DEF Next, Step, vars, LoginVerify, LoginRehash, RefreshFindToken, RefreshFindUser,
         Abort, LoginFind, RefreshBegin, LogoutBegin, Expire, UpdateUser, DeleteUser

\* A pair issued by rotation finds its predecessor revoked, for good.
LEMMA SuccessorStep ==
  ASSUME IInv, [Next]_vars
  PROVE  SuccessorMeansRevoked'
<1> USE DEF IInv
<1>1. Stable /\ \A t \in Issued : t \in Token /\ jwt[t].parent \in Token \cup {NoToken}
  BY StableStep, IssuedJwt
<1>2. ASSUME NEW s \in Issued, jwt'[s].parent # NoToken
      PROVE  /\ jwt'[s].parent \in Issued' /\ row'[jwt'[s].parent] = "revoked"
             /\ jwt'[jwt'[s].parent].user = jwt'[s].user
  <2>1. jwt'[s] = jwt[s]
    BY <1>1 DEF Stable
  <2>2. /\ jwt[s].parent \in Issued /\ row[jwt[s].parent] = "revoked"
        /\ jwt[jwt[s].parent].user = jwt[s].user
    BY <1>2, <2>1 DEF SuccessorMeansRevoked
  <2>3. jwt[s].parent \in Token
    BY <1>1, <2>2
  <2>4. /\ row'[jwt[s].parent] = "revoked" /\ jwt[s].parent \in Issued'
        /\ jwt'[jwt[s].parent] = jwt[jwt[s].parent]
    BY <1>1, <2>2, <2>3 DEF Stable
  <2>5. QED
    BY <2>1, <2>2, <2>4
<1>3. ASSUME NEW r \in Request, Issue(r) PROVE SuccessorMeansRevoked'
  <2>1. PICK t \in Token \ Issued : Issued' = Issued \cup {t} /\ jwt'[t] = NewJwt(r)
    BY <1>3, IssueOne
  <2>2. jwt'[t].parent = req[r].tok /\ jwt'[t].user = req[r].user
    BY <2>1 DEF NewJwt
  <2>3. req[r].tok # NoToken =>
          /\ req[r].tok \in Issued /\ row[req[r].tok] = "revoked"
          /\ jwt[req[r].tok].user = req[r].user
    BY <1>3 DEF Issue, RequestsOK, RequestOK
  <2>4. req[r].tok # NoToken =>
          /\ req[r].tok \in Issued' /\ row'[req[r].tok] = "revoked"
          /\ jwt'[req[r].tok].user = req[r].user
    <3>1. req[r].tok # NoToken => req[r].tok \in Token
      BY RequestFields
    <3>2. QED
      BY <1>1, <2>3, <3>1 DEF Stable
  <2>5. QED
    BY <1>2, <2>1, <2>2, <2>4 DEF SuccessorMeansRevoked
<1>4. CASE UNCHANGED jwt
  <2>1. Issued' = Issued
    BY <1>4 DEF Issued
  <2>2. QED
    BY <1>2, <2>1 DEF SuccessorMeansRevoked
<1>5. QED
  BY <1>3, <1>4
     DEF Next, Step, vars, LoginVerify, LoginRehash, RefreshFindToken, RefreshFindUser,
         RefreshRotate, LogoutRevoke, Abort, LoginFind, RefreshBegin, LogoutBegin,
         InsertRow, InsertLost, Expire, UpdateUser, DeleteUser

\* The roles in a new pair: the one read in this request, and the presented
\* token's, which that token's own request had read.
LEMMA RoleLagStep ==
  ASSUME IInv, [Next]_vars
  PROVE  RoleLag'
<1> USE DEF IInv
<1>1. Stable
  BY StableStep
<1>2. ASSUME NEW t \in Issued
      PROVE  /\ jwt'[t].role >= jwt'[t].born
             /\ jwt'[t].access >= IF jwt'[t].parent = NoToken THEN jwt'[t].born
                                  ELSE jwt'[jwt'[t].parent].born
  <2>1. jwt'[t] = jwt[t]
    BY <1>1 DEF Stable
  <2>2. jwt[t].parent # NoToken => jwt'[jwt[t].parent] = jwt[jwt[t].parent]
    BY <1>1 DEF Stable, SuccessorMeansRevoked
  <2>3. QED
    BY <2>1, <2>2 DEF RoleLag
<1>3. ASSUME NEW r \in Request, Issue(r) PROVE RoleLag'
  <2>1. PICK t \in Token \ Issued :
           /\ Issued' = Issued \cup {t} /\ jwt'[t] = NewJwt(r)
           /\ \A s \in Issued : jwt'[s] = jwt[s]
    BY <1>3, IssueOne
  <2>2. /\ jwt'[t].parent = req[r].tok /\ jwt'[t].role = req[r].seen
        /\ jwt'[t].born = req[r].start /\ jwt'[t].access = AccessRole(r)
    BY <2>1 DEF NewJwt
  <2>3. req[r].start <= req[r].seen /\ req[r].start \in Nat /\ req[r].seen \in Nat
    BY <1>3, RequestFields, SessionConstants DEF Issue, RequestsOK, RequestOK, Cleared, Role
  <2>4. CASE req[r].tok = NoToken
    BY <1>2, <2>1, <2>2, <2>3, <2>4 DEF RoleLag, AccessRole
  <2>5. CASE req[r].tok # NoToken
    <3>1. req[r].tok \in Issued
      BY <1>3, <2>5 DEF Issue, RequestsOK, RequestOK
    <3>2. AccessRole(r) >= jwt[req[r].tok].born
      BY <2>5, <3>1 DEF AccessRole, RoleLag
    <3>3. jwt'[t].access >= jwt'[jwt'[t].parent].born
      BY <2>1, <2>2, <3>1, <3>2
    <3>4. QED
      BY <1>2, <2>1, <2>2, <2>3, <2>5, <3>3 DEF RoleLag
  <2>6. QED
    BY <2>4, <2>5
<1>4. CASE UNCHANGED jwt
  <2>1. Issued' = Issued
    BY <1>4 DEF Issued
  <2>2. QED
    BY <1>2, <2>1 DEF RoleLag
<1>5. QED
  BY <1>3, <1>4
     DEF Next, Step, vars, LoginVerify, LoginRehash, RefreshFindToken, RefreshFindUser,
         RefreshRotate, LogoutRevoke, Abort, LoginFind, RefreshBegin, LogoutBegin,
         InsertRow, InsertLost, Expire, UpdateUser, DeleteUser

\* The inductive invariant holds in every reachable state.
THEOREM Invariance == Spec => []IInv
<1>1. Init => IInv
  <2>1. Init => TypeOK
    BY TypeInit
  <2>2. Init => Issued = {}
    BY DEF Init, Issued
  <2>3. Init => RequestsOK
    BY DEF Init, RequestsOK, RequestOK, Idle, Cleared
  <2>4. Init => TableOK
    BY DEF Init, TableOK
  <2>5. QED
    BY <2>1, <2>2, <2>3, <2>4 DEF IInv, SuccessorMeansRevoked, RoleLag
<1>2. IInv /\ [Next]_vars => IInv'
  <2>1. SUFFICES ASSUME IInv, [Next]_vars PROVE IInv'
    OBVIOUS
  <2>2. TypeOK'
    BY <2>1, TypeStep DEF IInv
  <2>3. QED
    BY <2>1, <2>2, RequestStep, TableStep, SuccessorStep, RoleLagStep DEF IInv
<1>3. QED
  BY <1>1, <1>2, PTL DEF Spec

\* Every variable keeps its type.
THEOREM TypeCorrect == Spec => []TypeOK
<1>1. IInv => TypeOK
  BY DEF IInv
<1>2. QED
  BY <1>1, Invariance, PTL

\* Whoever holds a rotated pair: the token presented for it was revoked
\* before the pair existed, and has stayed revoked.
THEOREM RotationRevokes == Spec => []SuccessorMeansRevoked
<1>1. IInv => SuccessorMeansRevoked
  BY DEF IInv
<1>2. QED
  BY <1>1, Invariance, PTL

\* However refreshes and role changes interleave, a refresh token carries a
\* role its owner had during its request, and an access token lags by one
\* rotation at most.
THEOREM RolesLagOneRotation == Spec => []RoleLag
<1>1. IInv => RoleLag
  BY DEF IInv
<1>2. QED
  BY <1>1, Invariance, PTL

----------------------------------------------------------------------------
(* Action properties *)

\* A step of one request leaves the others where they were.
LEMMA OthersStay ==
  ASSUME TypeOK, NEW r \in Request, NEW q \in Request \ {r},
         \/ Step(r) \/ Abort(r)
         \/ \E u \in User : LoginFind(r, u)
         \/ \E t \in Token : RefreshBegin(r, t) \/ LogoutBegin(r, t)
  PROVE  req'[q] = req[q]
BY DEF TypeOK, Step, Abort, LoginFind, RefreshBegin, LogoutBegin, LoginVerify, LoginRehash,
       RefreshFindToken, RefreshFindUser, RefreshRotate, Issue, LogoutRevoke, Goto, Finish

\* The place and the token of the request that takes the step.
LEMMA PlaceAfter ==
  ASSUME TypeOK, NEW r \in Request
  PROVE  /\ Finish(r) => req'[r] = Idle
         /\ \A t \in Token : RefreshBegin(r, t) => req'[r].pc = "findToken"
         /\ \A t \in Token : LogoutBegin(r, t) => req'[r].pc = "revoke"
         /\ \A u \in User : LoginFind(r, u) =>
               /\ req'[r].pc \in {"verify", "rehash"} /\ req'[r].tok = NoToken
               /\ req'[r].user = u
         /\ LoginVerify(r) \/ LoginRehash(r) \/ RefreshFindToken(r) \/ RefreshFindUser(r)
              \/ RefreshRotate(r) =>
               \/ req'[r] = Idle
               \/ /\ req'[r].tok = req[r].tok /\ req'[r].user = req[r].user
                  /\ req'[r].pc \in {"issue", "findUser", "rotate"}
<1>1. Finish(r) => req'[r] = Idle
  BY DEF Finish, TypeOK
<1>2. \A t \in Token : RefreshBegin(r, t) => req'[r].pc = "findToken"
  BY DEF RefreshBegin, TypeOK
<1>3. \A t \in Token : LogoutBegin(r, t) => req'[r].pc = "revoke"
  BY DEF LogoutBegin, Idle, TypeOK
<1>4. \A u \in User : LoginFind(r, u) =>
        /\ req'[r].pc \in {"verify", "rehash"} /\ req'[r].tok = NoToken /\ req'[r].user = u
  BY DEF LoginFind, TypeOK
<1>5. \A label : Goto(r, label) =>
        /\ req'[r].pc = label /\ req'[r].tok = req[r].tok /\ req'[r].user = req[r].user
  BY GotoFields
<1>6. RefreshFindUser(r) =>
        \/ req'[r] = Idle
        \/ /\ req'[r].tok = req[r].tok /\ req'[r].user = req[r].user
           /\ req'[r].pc = "rotate"
  <2>1. req' = [req EXCEPT ![r] = [@ EXCEPT !.pc = "rotate",
                                            !.seen = user[req[r].user].role]]
        => /\ req'[r].tok = req[r].tok /\ req'[r].user = req[r].user
           /\ req'[r].pc = "rotate"
    BY DEF TypeOK, RequestState
  <2>2. QED
    BY <1>1, <2>1 DEF RefreshFindUser
<1>7. LoginVerify(r) \/ LoginRehash(r) \/ RefreshFindToken(r) \/ RefreshRotate(r) =>
        Finish(r) \/ \E label \in {"issue", "findUser"} : Goto(r, label)
  BY DEF LoginVerify, LoginRehash, RefreshFindToken, RefreshRotate
<1>8. QED
  BY <1>1, <1>2, <1>3, <1>4, <1>5, <1>6, <1>7

\* A dead token stays dead, and gets no further successor.
LEMMA DeadStep ==
  ASSUME IInv, [Next]_vars, NEW t \in Token, Dead(t)
  PROVE  Dead(t)' /\ Successors(t)' = Successors(t)
<1> USE DEF IInv
<1>1. row'[t] = "revoked" /\ Stable
  BY StableStep DEF Dead, Stable
<1>2. ASSUME NEW r \in Request, RefreshFindToken(r), req[r].tok = t PROVE Finish(r)
  BY <1>2 DEF RefreshFindToken, Usable, Dead
<1>3. ASSUME NEW q \in Request PROVE ~Holds(q, t)'
  <2>1. CASE req'[q] = req[q]
    BY <2>1 DEF Dead, Holds
  <2>2. CASE req'[q] = Idle
    BY <2>2 DEF Idle, Holds
  <2>3. CASE Step(q) \/ Abort(q)
    <3>1. CASE Issue(q) \/ LogoutRevoke(q) \/ Abort(q)
      BY <2>2, <3>1, PlaceAfter DEF Issue, LogoutRevoke, Abort
    <3>2. CASE RefreshFindToken(q)
      BY <1>2, <2>2, <3>2, PlaceAfter DEF Holds
    <3>3. CASE LoginVerify(q) \/ LoginRehash(q) \/ RefreshFindUser(q) \/ RefreshRotate(q)
      <4>1. req[q].tok # t
        <5>1. CASE LoginVerify(q) \/ LoginRehash(q)
          BY <5>1, SessionConstants
             DEF LoginVerify, LoginRehash, RequestsOK, RequestOK
        <5>2. CASE RefreshFindUser(q) \/ RefreshRotate(q)
          BY <5>2 DEF RefreshFindUser, RefreshRotate, Dead, Holds
        <5>3. QED
          BY <3>3, <5>1, <5>2
      <4>2. QED
        BY <2>2, <3>3, <4>1, PlaceAfter DEF Holds
    <3>4. QED
      BY <2>3, <3>1, <3>2, <3>3 DEF Step
  <2>4. CASE \E u \in User : LoginFind(q, u)
    BY <2>4, PlaceAfter DEF Holds
  <2>5. CASE \E x \in Token : RefreshBegin(q, x) \/ LogoutBegin(q, x)
    BY <2>5, PlaceAfter DEF Holds
  <2>6. QED
    BY <2>1, <2>3, <2>4, <2>5, OthersStay
       DEF Next, vars, InsertRow, InsertLost, Expire, UpdateUser, DeleteUser
<1>4. Successors(t)' = Successors(t)
  <2>1. ASSUME NEW r \in Request, Issue(r) PROVE Successors(t)' = Successors(t)
    <3>1. PICK s \in Token \ Issued :
             /\ Issued' = Issued \cup {s} /\ jwt'[s] = NewJwt(r)
             /\ \A x \in Issued : jwt'[x] = jwt[x]
      BY <2>1, IssueOne
    <3>2. jwt'[s].parent # t
      BY <2>1, <3>1 DEF NewJwt, Issue, Dead, Holds
    <3>3. QED
      BY <3>1, <3>2 DEF Successors
  <2>2. CASE UNCHANGED jwt
    BY <2>2 DEF Successors, Issued
  <2>3. QED
    BY <2>1, <2>2
       DEF Next, Step, vars, LoginVerify, LoginRehash, RefreshFindToken, RefreshFindUser,
           RefreshRotate, LogoutRevoke, Abort, LoginFind, RefreshBegin, LogoutBegin,
           InsertRow, InsertLost, Expire, UpdateUser, DeleteUser
<1>5. QED
  BY <1>1, <1>3, <1>4 DEF Dead

\* A token that was revoked with no refresh in its window is dead for good.
THEOREM DeadForGood == Spec => RevokedStaysDead
<1>1. IInv /\ [Next]_vars =>
        [\A t \in Token : Dead(t) => Dead(t)' /\ Successors(t)' = Successors(t)]_vars
  BY DeadStep
<1>2. QED
  BY <1>1, Invariance, PTL DEF Spec, RevokedStaysDead

\* As long as a user is barred, none of their requests gets past the checks.
LEMMA QuietStep ==
  ASSUME IInv, [Next]_vars, NEW u \in User, Quiet(u), Barred(u)
  PROVE  Quiet(u)' /\ TokensOf(u)' = TokensOf(u)
<1> USE DEF IInv
<1>1. ~Admissible(u)
  BY UserFields DEF Admissible, Barred, UserRow
<1>2. ASSUME NEW q \in Request PROVE ~(Cleared(q)' /\ req'[q].user = u)
  <2>1. CASE req'[q] = req[q]
    BY <2>1 DEF Quiet, Cleared
  <2>2. CASE req'[q] = Idle
    BY <2>2 DEF Idle, Cleared
  <2>3. CASE Step(q) \/ Abort(q)
    <3>1. CASE Issue(q) \/ LogoutRevoke(q) \/ Abort(q)
      BY <2>2, <3>1, PlaceAfter DEF Issue, LogoutRevoke, Abort
    <3>2. CASE RefreshFindToken(q)
      <4>1. Finish(q) \/ Goto(q, "findUser")
        BY <3>2 DEF RefreshFindToken
      <4>2. QED
        BY <2>2, <4>1, PlaceAfter, GotoFields DEF Cleared
    <3>3. CASE LoginVerify(q) \/ LoginRehash(q) \/ RefreshRotate(q)
      <4>1. req[q].user # u
        BY <3>3 DEF LoginVerify, LoginRehash, RefreshRotate, Quiet, Cleared
      <4>2. QED
        BY <2>2, <3>3, <4>1, PlaceAfter
    <3>4. CASE RefreshFindUser(q)
      <4>1. CASE req[q].user = u
        BY <1>1, <2>2, <3>4, <4>1, PlaceAfter DEF RefreshFindUser
      <4>2. CASE req[q].user # u
        BY <2>2, <3>4, <4>2, PlaceAfter
      <4>3. QED
        BY <4>1, <4>2
    <3>5. QED
      BY <2>3, <3>1, <3>2, <3>3, <3>4 DEF Step
  <2>4. CASE \E v \in User : LoginFind(q, v)
    BY <1>1, <2>4, PlaceAfter DEF LoginFind
  <2>5. CASE \E x \in Token : RefreshBegin(q, x) \/ LogoutBegin(q, x)
    BY <2>5, PlaceAfter DEF Cleared
  <2>6. QED
    BY <2>1, <2>3, <2>4, <2>5, OthersStay
       DEF Next, vars, InsertRow, InsertLost, Expire, UpdateUser, DeleteUser
<1>3. TokensOf(u)' = TokensOf(u)
  <2>1. ASSUME NEW r \in Request, Issue(r) PROVE TokensOf(u)' = TokensOf(u)
    <3>1. PICK s \in Token \ Issued :
             /\ Issued' = Issued \cup {s} /\ jwt'[s] = NewJwt(r)
             /\ \A x \in Issued : jwt'[x] = jwt[x]
      BY <2>1, IssueOne
    <3>2. jwt'[s].user # u
      BY <2>1, <3>1 DEF NewJwt, Issue, Quiet, Cleared
    <3>3. QED
      BY <3>1, <3>2 DEF TokensOf
  <2>2. CASE UNCHANGED jwt
    BY <2>2 DEF TokensOf, Issued
  <2>3. QED
    BY <2>1, <2>2
       DEF Next, Step, vars, LoginVerify, LoginRehash, RefreshFindToken, RefreshFindUser,
           RefreshRotate, LogoutRevoke, Abort, LoginFind, RefreshBegin, LogoutBegin,
           InsertRow, InsertLost, Expire, UpdateUser, DeleteUser
<1>4. QED
  BY <1>2, <1>3 DEF Quiet

\* Blocking, or deleting, a user stops every later request of theirs.
THEOREM BarredGetNothing == Spec => BarredStaysOut
<1>1. IInv /\ [Next]_vars =>
        [\A u \in User : Quiet(u) /\ Barred(u) =>
            Quiet(u)' /\ TokensOf(u)' = TokensOf(u)]_vars
  BY QuietStep
<1>2. QED
  BY <1>1, Invariance, PTL DEF Spec, BarredStaysOut

\* A row only leaves "active" by a logout or by a rotation past the checks.
LEMMA KeepStep ==
  ASSUME IInv, [Next]_vars, NEW u \in User, Quiet(u), Barred(u),
         NEW t \in TokensOf(u), row[t] = "active", row'[t] # "active"
  PROVE  \E r \in Request : req[r].pc = "revoke" /\ req[r].tok = t
<1> USE DEF IInv
<1>1. t \in Token /\ jwt[t].user = u
  BY DEF TokensOf, Issued
<1>2. ASSUME NEW r \in Request, LogoutRevoke(r)
      PROVE req[r].pc = "revoke" /\ req[r].tok = t
  BY <1>1, <1>2 DEF LogoutRevoke, TypeOK
<1>3. ASSUME NEW r \in Request, RefreshRotate(r) PROVE FALSE
  <2>1. req[r].tok = t /\ req[r].pc = "rotate"
    BY <1>1, <1>3 DEF RefreshRotate, TypeOK
  <2>2. req[r].user = u
    BY <1>1, <2>1, SessionConstants DEF RequestsOK, RequestOK
  <2>3. QED
    BY <2>1, <2>2 DEF Quiet, Cleared
<1>4. ASSUME NEW x \in Token, InsertRow(x) PROVE FALSE
  BY <1>1, <1>4 DEF InsertRow, TypeOK
<1>5. QED
  BY <1>2, <1>3, <1>4
     DEF Next, Step, vars, LoginVerify, LoginRehash, RefreshFindToken, RefreshFindUser,
         Issue, Abort, LoginFind, RefreshBegin, LogoutBegin, InsertLost, Expire,
         UpdateUser, DeleteUser

\* A user who is let in again finds their sessions where they were.
THEOREM BarringConsumesNothing == Spec => BlockKeepsSessions
<1>1. IInv /\ [Next]_vars =>
        [\A u \in User : Quiet(u) /\ Barred(u) =>
            \A t \in TokensOf(u) :
                row[t] = "active" /\ row'[t] # "active" =>
                    \E r \in Request : req[r].pc = "revoke" /\ req[r].tok = t]_vars
  BY KeepStep
<1>2. QED
  BY <1>1, Invariance, PTL DEF Spec, BlockKeepsSessions
----------------------------------------------------------------------------
(* Refinement of the ledger *)

\* The ledger's view of a token, case by case.
LEMMA StageOf ==
  ASSUME TypeOK, TableOK, NEW t \in Token
  PROVE  /\ t \notin Issued => Stage(t) = "unissued"
         /\ t \in inserting => Stage(t) = "pending"
         /\ row[t] # "none" => Stage(t) = row[t]
         /\ t \in Issued /\ t \notin inserting /\ row[t] = "none" => Stage(t) = "lost"
BY DEF Stage, TableOK, Issued, TypeOK

\* The same of the state a step leads to.
LEMMA StageNext ==
  ASSUME TypeOK', TableOK', NEW t \in Token
  PROVE  /\ t \in inserting' => Stage(t)' = "pending"
         /\ row'[t] # "none" => Stage(t)' = row'[t]
         /\ t \in Issued' /\ t \notin inserting' /\ row'[t] = "none" => Stage(t)' = "lost"
BY DEF Stage, TableOK, Issued, TypeOK

\* A token whose pair, row and INSERT are left alone keeps its stage.
LEMMA StageFrame ==
  ASSUME NEW t \in Token, jwt'[t] = jwt[t], row'[t] = row[t],
         t \in inserting <=> t \in inserting'
  PROVE  Stage(t)' = Stage(t) /\ Replaces(t)' = Replaces(t)
BY DEF Stage, Replaces

\* A step in which one token is revoked, or settles, is one of the ledger's.
LEMMA LedgerMove ==
  ASSUME NEW t \in Token, UNCHANGED jwt,
         \A x \in Token \ {t} : Stage(x)' = Stage(x),
         \/ Stage(t) = "active" /\ Stage(t)' = "revoked"
         \/ Stage(t) = "pending" /\ Stage(t)' \in {"active", "lost"}
  PROVE  Ledger!Next
<1>1. UNCHANGED [x \in Token |-> Replaces(x)]
  BY DEF Replaces
<1>2. CASE Stage(t) = "active" /\ Stage(t)' = "revoked"
  BY <1>1, <1>2 DEF Ledger!Next, Ledger!Revoke
<1>3. CASE Stage(t) = "pending" /\ Stage(t)' \in {"active", "lost"}
  BY <1>1, <1>3 DEF Ledger!Next, Ledger!Settle
<1>4. QED
  BY <1>2, <1>3

\* Every step of the requests is a step of the ledger, or none.
LEMMA LedgerStep ==
  ASSUME IInv, IInv', [Next]_vars
  PROVE  [Ledger!Next]_(Ledger!vars)
<1> USE DEF IInv
<1>1. ASSUME UNCHANGED <<jwt, row, inserting>> PROVE UNCHANGED Ledger!vars
  BY <1>1, StageFrame DEF Ledger!vars
<1>2. ASSUME NEW t \in Token, UNCHANGED <<jwt, inserting>>,
             row' = [row EXCEPT ![t] = "revoked"], row[t] # "none"
      PROVE  [Ledger!Next]_(Ledger!vars)
  <2>1. CASE row[t] = "revoked"
    BY <1>1, <1>2, <2>1 DEF TypeOK
  <2>2. CASE row[t] = "active"
    <3>1. \A x \in Token \ {t} : Stage(x)' = Stage(x)
      BY <1>2, StageFrame DEF TypeOK
    <3>2. row'[t] = "revoked"
      BY <1>2 DEF TypeOK
    <3>3. Stage(t) = "active" /\ Stage(t)' = "revoked"
      BY <2>2, <3>2, StageOf, StageNext
    <3>4. QED
      BY <1>2, <3>1, <3>3, LedgerMove
  <2>3. QED
    BY <1>2, <2>1, <2>2 DEF TypeOK
<1>3. ASSUME NEW r \in Request, RefreshRotate(r) PROVE [Ledger!Next]_(Ledger!vars)
  <2>1. req[r].tok \in Token /\ row[req[r].tok] # "none"
    BY <1>3 DEF RefreshRotate, RequestsOK, RequestOK, Issued
  <2>2. QED
    BY <1>2, <1>3, <2>1 DEF RefreshRotate
<1>4. ASSUME NEW r \in Request, LogoutRevoke(r) PROVE [Ledger!Next]_(Ledger!vars)
  <2>1. CASE req[r].tok \in Token /\ row[req[r].tok] = "active"
    BY <1>2, <1>4, <2>1 DEF LogoutRevoke
  <2>2. CASE ~(req[r].tok \in Token /\ row[req[r].tok] = "active")
    <3>1. row' = row
      BY <1>4, <2>2 DEF LogoutRevoke, TypeOK
    <3>2. QED
      BY <1>1, <1>4, <3>1 DEF LogoutRevoke
  <2>3. QED
    BY <2>1, <2>2
<1>5. ASSUME NEW t \in Token, InsertRow(t) PROVE [Ledger!Next]_(Ledger!vars)
  <2>1. \A x \in Token \ {t} : Stage(x)' = Stage(x)
    BY <1>5, StageFrame DEF InsertRow, TypeOK
  <2>2. row'[t] = "active"
    BY <1>5 DEF InsertRow, TypeOK
  <2>3. Stage(t) = "pending" /\ Stage(t)' = "active"
    BY <1>5, <2>2, StageOf, StageNext DEF InsertRow
  <2>4. QED
    BY <1>5, <2>1, <2>3, LedgerMove DEF InsertRow
<1>6. ASSUME NEW t \in Token, InsertLost(t) PROVE [Ledger!Next]_(Ledger!vars)
  <2>1. \A x \in Token \ {t} : Stage(x)' = Stage(x)
    BY <1>6, StageFrame DEF InsertLost, TypeOK
  <2>2. t \in Issued' /\ t \notin inserting' /\ row'[t] = "none"
    BY <1>6 DEF InsertLost, TableOK, Issued
  <2>3. Stage(t) = "pending" /\ Stage(t)' = "lost"
    BY <1>6, <2>2, StageOf, StageNext DEF InsertLost
  <2>4. QED
    BY <1>6, <2>1, <2>3, LedgerMove DEF InsertLost
<1>7. ASSUME NEW r \in Request, Issue(r) PROVE [Ledger!Next]_(Ledger!vars)
  <2>1. PICK t \in Token \ Issued : /\ jwt' = [jwt EXCEPT ![t] = NewJwt(r)]
                                    /\ inserting' = inserting \cup {t}
    BY <1>7 DEF Issue
  <2>2. jwt'[t] = NewJwt(r) /\ NewJwt(r) # NoJwt /\ NewJwt(r).parent = req[r].tok
    BY <1>7, <2>1, NewJwtType, SessionConstants DEF Issue, TypeOK, NewJwt
  <2>3. \A x \in Token \ {t} : Stage(x)' = Stage(x) /\ Replaces(x)' = Replaces(x)
    <3>1. \A x \in Token \ {t} : jwt'[x] = jwt[x] /\ row'[x] = row[x]
      BY <1>7, <2>1 DEF Issue, TypeOK
    <3>2. QED
      BY <2>1, <3>1, StageFrame
  <2>4. Stage(t) = "unissued" /\ Stage(t)' = "pending"
    <3>1. t \in inserting'
      BY <2>1
    <3>2. QED
      BY <2>1, <3>1, StageOf, StageNext
  <2>5. Replaces(t)' = req[r].tok
    BY <2>2 DEF Replaces
  <2>6. /\ req[r].tok \in Token \cup {NoToken}
        /\ req[r].tok # NoToken => req[r].tok \in Token /\ Stage(req[r].tok) = "revoked"
    <3>1. req[r].tok \in Token \cup {NoToken}
      BY RequestFields
    <3>2. req[r].tok # NoToken => row[req[r].tok] = "revoked"
      BY <1>7 DEF Issue, RequestsOK, RequestOK
    <3>3. QED
      BY <3>1, <3>2, StageOf
  <2>7. [x \in Token |-> Stage(x)]' = [[x \in Token |-> Stage(x)] EXCEPT ![t] = "pending"]
    BY <2>3, <2>4
  <2>8. [x \in Token |-> Replaces(x)]' = [[x \in Token |-> Replaces(x)] EXCEPT ![t] = req[r].tok]
    BY <2>3, <2>5
  <2>9. Ledger!Issue(t, req[r].tok)
    BY <2>4, <2>6, <2>7, <2>8 DEF Ledger!Issue
  <2>10. QED
    BY <2>6, <2>9 DEF Ledger!Next
<1>8. QED
  BY <1>1, <1>3, <1>4, <1>5, <1>6, <1>7
     DEF Next, Step, vars, LoginVerify, LoginRehash, RefreshFindToken, RefreshFindUser,
         Abort, LoginFind, RefreshBegin, LogoutBegin, Expire, UpdateUser, DeleteUser

\* Cut at every await and raced by any number of others, the requests
\* implement the ledger: a token only ever moves forward, and one is issued
\* in place of another only after that one was revoked.
THEOREM LedgerImplemented == Spec => ImplementsLedger
<1>1. Init => Ledger!Init
  BY DEF Init, Ledger!Init, Stage, Replaces
<1>2. IInv /\ IInv' /\ [Next]_vars => [Ledger!Next]_(Ledger!vars)
  BY LedgerStep
<1>3. QED
  BY <1>1, <1>2, Invariance, PTL DEF Spec, ImplementsLedger, Ledger!Spec

----------------------------------------------------------------------------
(* One live token in a session *)

\* f sends each token to the one its chain of rotations began with: the
\* equation that defines Session.
Rooted(f) ==
    f = [t \in Token |-> IF jwt[t] = NoJwt THEN t
                         ELSE IF jwt[t].parent = NoToken THEN t ELSE f[jwt[t].parent]]

\* A token no pair was issued in place of.
Last(s) == Successors(s) = {}

\* A token with this root was replaced twice.
Branched(f, root) == \E p \in Issued : f[p] = root /\ \E a, b \in Successors(p) : a # b

\* Chains start at an issued token, and two that have the same start end in
\* the same token, unless one token with that start was replaced twice.
Linear(f) ==
    /\ \A s \in Issued : f[s] \in Issued
    /\ \A s, t \in Issued : s # t /\ Last(s) /\ Last(t) /\ f[s] = f[t] =>
          Branched(f, f[s])

\* Some f solves the equation (so Session does), and every solution is linear.
Chains == (\E f : Rooted(f)) /\ (\A f : Rooted(f) => Linear(f))

\* The equation, token by token.
LEMMA RootOf ==
  ASSUME TypeOK, NEW f, Rooted(f)
  PROVE  /\ f = [t \in Token |-> f[t]]
         /\ \A t \in Token : t \notin Issued => f[t] = t
         /\ \A t \in Issued : f[t] = IF jwt[t].parent = NoToken THEN t ELSE f[jwt[t].parent]
<1>1. \A t \in Token : f[t] = IF jwt[t] = NoJwt THEN t
                              ELSE IF jwt[t].parent = NoToken THEN t ELSE f[jwt[t].parent]
  BY DEF Rooted
<1>2. f = [t \in Token |-> f[t]]
  BY DEF Rooted
<1>3. QED
  BY <1>1, <1>2 DEF Issued

\* And the other way: these three facts make f a solution.
LEMMA RootedBy ==
  ASSUME NEW f, f = [t \in Token |-> f[t]],
         \A t \in Token : t \notin Issued => f[t] = t,
         \A t \in Issued : f[t] = IF jwt[t].parent = NoToken THEN t ELSE f[jwt[t].parent]
  PROVE  Rooted(f)
<1>1. \A t \in Token : f[t] = IF jwt[t] = NoJwt THEN t
                              ELSE IF jwt[t].parent = NoToken THEN t ELSE f[jwt[t].parent]
  BY DEF Issued
<1>2. QED
  BY <1>1 DEF Rooted

\* Before anything is issued, every token is its own root.
LEMMA ChainsInit == Init => Chains
<1> SUFFICES ASSUME Init PROVE Chains
  OBVIOUS
<1>1. Issued = {}
  BY DEF Init, Issued
<1>2. Rooted([t \in Token |-> t])
  BY DEF Init, Rooted
<1>3. QED
  BY <1>1, <1>2 DEF Chains, Linear

\* What Issue does to the chains: it puts one new token at the end of one.
Extends(t, p) ==
    /\ t \in Token \ Issued
    /\ Issued' = Issued \cup {t}
    /\ p = jwt'[t].parent
    /\ p # NoToken => p \in Issued
    /\ \A s \in Issued : jwt'[s] = jwt[s] /\ jwt[s].parent # t

LEMMA IssueExtends ==
  ASSUME IInv, NEW r \in Request, Issue(r)
  PROVE  \E t \in Token, p \in Token \cup {NoToken} : Extends(t, p)
<1>1. PICK t \in Token \ Issued :
         /\ Issued' = Issued \cup {t} /\ jwt'[t] = NewJwt(r)
         /\ \A s \in Issued : jwt'[s] = jwt[s]
  BY IssueOne
<1>2. jwt'[t].parent = req[r].tok
  BY <1>1 DEF NewJwt
<1>3. req[r].tok # NoToken => req[r].tok \in Issued
  BY DEF Issue, IInv, RequestsOK, RequestOK
<1>4. req[r].tok \in Token \cup {NoToken}
  BY RequestFields DEF IInv
<1>5. ASSUME NEW s \in Issued PROVE jwt[s].parent # t
  BY <1>1, SessionConstants DEF IInv, SuccessorMeansRevoked
<1>6. Extends(t, req[r].tok)
  BY <1>1, <1>2, <1>3, <1>5 DEF Extends
<1>7. QED
  BY <1>4, <1>6

\* The new token is the last of its chain, its predecessor no longer is, and
\* nothing else about who replaced whom changes.
LEMMA SuccessorsAfter ==
  ASSUME NEW t, NEW p, Extends(t, p)
  PROVE  /\ \A s \in Issued : Successors(s) \subseteq Successors(s)'
         /\ p # NoToken => t \in Successors(p)'
         /\ \A f, g, x : (\A s \in Issued : g[s] = f[s]) /\ Branched(f, x) => Branched(g, x)'
         /\ \A s \in Issued : Last(s)' => Last(s) /\ s # p
         /\ \A g : p # NoToken /\ ~Last(p) => Branched(g, g[p])'
<1>1. \A s : Successors(s) \subseteq Successors(s)'
  BY DEF Extends, Successors
<1>2. p # NoToken => t \in Successors(p)'
  BY DEF Extends, Successors
<1>3. \A f, g, x : (\A s \in Issued : g[s] = f[s]) /\ Branched(f, x) => Branched(g, x)'
  BY <1>1 DEF Branched, Extends
<1>4. \A s \in Issued : Last(s)' => Last(s)
  BY <1>1 DEF Last
<1>5. ASSUME p \in Issued, Last(p)' PROVE FALSE
  <2>1. t \in Successors(p)'
    BY <1>2, <1>5, SessionConstants DEF Issued
  <2>2. QED
    BY <1>5, <2>1 DEF Last
<1>6. ASSUME NEW g, p # NoToken, ~Last(p) PROVE Branched(g, g[p])'
  <2>1. PICK a \in Successors(p) : TRUE
    BY <1>6 DEF Last
  <2>2. a \in Successors(p)' /\ t \in Successors(p)' /\ a # t
    BY <1>1, <1>2, <1>6, <2>1 DEF Extends, Successors
  <2>3. p \in Issued'
    BY <1>6 DEF Extends
  <2>4. QED
    BY <2>2, <2>3 DEF Branched
<1>7. QED
  BY <1>1, <1>2, <1>3, <1>4, <1>5, <1>6

\* A solution after the step is one from before it, except at the new token.
LEMMA RootBefore ==
  ASSUME TypeOK, TypeOK', SuccessorMeansRevoked, NEW t, NEW p, Extends(t, p),
         NEW g, Rooted(g)'
  PROVE  /\ Rooted([g EXCEPT ![t] = t])
         /\ g[t] = IF p = NoToken THEN t ELSE g[p]
<1> DEFINE f == [g EXCEPT ![t] = t]
<1>1. /\ g = [x \in Token |-> g[x]]
      /\ \A x \in Token : x \notin Issued' => g[x] = x
      /\ \A x \in Issued' : g[x] = IF jwt'[x].parent = NoToken THEN x
                                   ELSE g[jwt'[x].parent]
  <2>1. \A x \in Token : g[x] = IF jwt'[x] = NoJwt THEN x
                              ELSE IF jwt'[x].parent = NoToken THEN x ELSE g[jwt'[x].parent]
    BY DEF Rooted
  <2>2. g = [x \in Token |-> g[x]]
    BY DEF Rooted
  <2>3. QED
    BY <2>1, <2>2 DEF Issued
<1>2. f = [x \in Token |-> f[x]] /\ f[t] = t /\ \A x \in Token \ {t} : f[x] = g[x]
  BY <1>1 DEF Extends
<1>3. \A x \in Token : x \notin Issued => f[x] = x
  BY <1>1, <1>2 DEF Extends
<1>4. ASSUME NEW x \in Issued
      PROVE f[x] = IF jwt[x].parent = NoToken THEN x ELSE f[jwt[x].parent]
  <2>1. /\ x \in Token /\ x # t /\ x \in Issued' /\ jwt'[x] = jwt[x]
        /\ jwt[x].parent # t
    BY DEF Extends, Issued
  <2>2. jwt[x].parent # NoToken => jwt[x].parent \in Token
    BY DEF SuccessorMeansRevoked, Issued
  <2>3. QED
    BY <1>1, <1>2, <2>1, <2>2
<1>5. Rooted(f)
  <2> HIDE DEF f
  <2> QED
    BY <1>2, <1>3, <1>4, RootedBy
<1>6. g[t] = IF p = NoToken THEN t ELSE g[p]
  BY <1>1 DEF Extends
<1>7. QED
  BY <1>5, <1>6

\* The new token ends its chain alone, or takes the place of its predecessor.
LEMMA NewEnd ==
  ASSUME NEW t, NEW p, Extends(t, p), NEW f, NEW g, Linear(f),
         \A x \in Issued : g[x] = f[x],
         g[t] = IF p = NoToken THEN t ELSE g[p],
         NEW u \in Issued, Last(u)', g[u] = g[t]
  PROVE  Branched(g, g[t])'
<1>1. f[u] \in Issued /\ t \notin Issued
  BY DEF Linear, Extends
<1>2. p # NoToken /\ p \in Issued /\ f[p] = f[u]
  BY <1>1 DEF Extends
<1>3. Last(u) /\ u # p
  BY SuccessorsAfter
<1>4. CASE Last(p)
  <2>1. Branched(f, f[u])
    BY <1>2, <1>3, <1>4 DEF Linear
  <2>2. QED
    BY <2>1, SuccessorsAfter
<1>5. CASE ~Last(p)
  BY <1>2, <1>5, SuccessorsAfter
<1>6. QED
  BY <1>4, <1>5

\* Issue keeps every solution linear.
LEMMA LinearAfter ==
  ASSUME TypeOK, TypeOK', SuccessorMeansRevoked, Chains, NEW t, NEW p, Extends(t, p),
         NEW g, Rooted(g)'
  PROVE  Linear(g)'
<1> DEFINE f == [g EXCEPT ![t] = t]
<1>1. Rooted(f) /\ g[t] = IF p = NoToken THEN t ELSE g[p]
  BY RootBefore
<1>2. Linear(f)
  BY <1>1 DEF Chains
<1>3. \A x \in Issued : g[x] = f[x]
  <2>1. g = [x \in Token |-> g[x]]
    BY DEF Rooted
  <2>2. \A x \in Issued : x \in Token /\ x # t
    BY DEF Extends, Issued
  <2>3. QED
    BY <2>1, <2>2
<1> HIDE DEF f
<1>4. \A s \in Issued' : g[s] \in Issued'
  BY <1>1, <1>2, <1>3 DEF Extends, Linear
<1>5. ASSUME NEW u \in Issued, Last(u)', g[u] = g[t] PROVE Branched(g, g[t])'
  BY <1>1, <1>2, <1>3, <1>5, NewEnd
<1>6. ASSUME NEW s \in Issued, NEW u \in Issued, s # u, Last(s)', Last(u)', g[s] = g[u]
      PROVE Branched(g, g[s])'
  <2>1. Last(s) /\ Last(u) /\ f[s] = f[u]
    BY <1>3, <1>6, SuccessorsAfter
  <2>2. Branched(f, f[s])
    BY <1>2, <1>6, <2>1 DEF Linear
  <2>3. QED
    BY <1>3, <2>2, SuccessorsAfter
<1>7. ASSUME NEW s \in Issued', NEW u \in Issued', s # u, Last(s)', Last(u)', g[s] = g[u]
      PROVE Branched(g, g[s])'
  <2>1. (s \in Issued \/ s = t) /\ (u \in Issued \/ u = t)
    BY DEF Extends
  <2>2. QED
    BY <1>5, <1>6, <1>7, <2>1
<1>8. QED
  BY <1>4, <1>7 DEF Linear

\* Issue leaves a solution: the old one, with the new token at its root.
LEMMA RootAfter ==
  ASSUME TypeOK, TypeOK', SuccessorMeansRevoked, NEW t, NEW p, Extends(t, p),
         NEW f, Rooted(f)
  PROVE  \E g : Rooted(g)'
<1> DEFINE g == [f EXCEPT ![t] = IF p = NoToken THEN t ELSE f[p]]
<1>1. /\ f = [x \in Token |-> f[x]]
      /\ \A x \in Token : x \notin Issued => f[x] = x
      /\ \A x \in Issued : f[x] = IF jwt[x].parent = NoToken THEN x ELSE f[jwt[x].parent]
  BY RootOf
<1>2. /\ g = [x \in Token |-> g[x]] /\ \A x \in Token \ {t} : g[x] = f[x]
      /\ g[t] = IF p = NoToken THEN t ELSE f[p]
  BY <1>1 DEF Extends
<1>3. p # NoToken => p \in Token /\ p # t
  BY DEF Extends, Issued
<1> HIDE DEF g
<1>4. \A x \in Token : x \notin Issued' => g[x] = x
  BY <1>1, <1>2 DEF Extends
<1>5. ASSUME NEW x \in Issued'
      PROVE g[x] = IF jwt'[x].parent = NoToken THEN x ELSE g[jwt'[x].parent]
  <2>1. CASE x = t
    BY <1>2, <1>3, <2>1 DEF Extends
  <2>2. CASE x \in Issued
    <3>1. x \in Token /\ x # t /\ jwt'[x] = jwt[x] /\ jwt[x].parent # t
      BY <2>2 DEF Extends, Issued
    <3>2. jwt[x].parent # NoToken => jwt[x].parent \in Token
      BY <2>2 DEF SuccessorMeansRevoked, Issued
    <3>3. QED
      BY <1>1, <1>2, <2>2, <3>1, <3>2
  <2>3. QED
    BY <2>1, <2>2 DEF Extends
<1>6. \A x \in Token : g[x] = IF jwt'[x] = NoJwt THEN x
                             ELSE IF jwt'[x].parent = NoToken THEN x ELSE g[jwt'[x].parent]
  BY <1>4, <1>5 DEF Issued
<1>7. Rooted(g)'
  BY <1>2, <1>6 DEF Rooted
<1>8. QED
  BY <1>7

\* Every step keeps the chains.
LEMMA ChainsStep ==
  ASSUME IInv, IInv', [Next]_vars, Chains
  PROVE  Chains'
<1>1. ASSUME NEW r \in Request, Issue(r) PROVE Chains'
  <2>1. PICK t \in Token, p \in Token \cup {NoToken} : Extends(t, p)
    BY <1>1, IssueExtends
  <2>2. TypeOK /\ TypeOK' /\ SuccessorMeansRevoked
    BY DEF IInv
  <2>3. \E g : Rooted(g)'
    BY <2>1, <2>2, RootAfter DEF Chains
  <2>4. \A g : Rooted(g)' => Linear(g)'
    BY <2>1, <2>2, LinearAfter
  <2>5. QED
    BY <2>3, <2>4 DEF Chains
<1>2. CASE UNCHANGED jwt
  <2>1. Issued' = Issued
    BY <1>2 DEF Issued
  <2>2. \A s : Last(s)' <=> Last(s)
    BY <1>2, <2>1 DEF Last, Successors
  <2>3. \A f, x : Branched(f, x)' <=> Branched(f, x)
    BY <1>2, <2>1 DEF Branched, Successors
  <2>4. \A f : Linear(f) => Linear(f)'
    BY <2>1, <2>2, <2>3 DEF Linear
  <2>5. \A f : Rooted(f) <=> Rooted(f)'
    BY <1>2 DEF Rooted
  <2>6. QED
    BY <2>4, <2>5 DEF Chains
<1>3. QED
  BY <1>1, <1>2
     DEF Next, Step, vars, LoginVerify, LoginRehash, RefreshFindToken, RefreshFindUser,
         RefreshRotate, LogoutRevoke, Abort, LoginFind, RefreshBegin, LogoutBegin,
         InsertRow, InsertLost, Expire, UpdateUser, DeleteUser

\* A token that still works was not replaced: its row would be revoked.
LEMMA LiveIsLast ==
  ASSUME IInv, NEW s \in Issued, Live(s)
  PROVE  Last(s)
<1>1. ASSUME NEW a \in Successors(s) PROVE FALSE
  <2>1. a \in Issued /\ jwt[a].parent = s /\ s # NoToken /\ s \in Token
    BY SessionConstants DEF Successors, Issued
  <2>2. row[s] = "revoked"
    BY <2>1 DEF IInv, SuccessorMeansRevoked
  <2>3. QED
    BY <2>1, <2>2 DEF IInv, TableOK, Live
<1>2. QED
  BY <1>1 DEF Last

\* Session solves its own equation, because something does.
LEMMA SessionRooted ==
  ASSUME Chains
  PROVE  Rooted(Session)
<1>1. \E f : f = [t \in Token |-> IF jwt[t] = NoJwt THEN t
                                  ELSE IF jwt[t].parent = NoToken THEN t
                                  ELSE f[jwt[t].parent]]
  BY DEF Chains, Rooted
<1>2. QED
  BY <1>1 DEF Session, Rooted

\* Two tokens of one login that both still work come only of a token that
\* two refreshes had read before either revoked it: without such a pair a
\* logout ends the session.
THEOREM OneLiveToken == Spec => []OneLiveTokenPerLinearSession
<1>1. IInv /\ Chains => OneLiveTokenPerLinearSession
  <2> SUFFICES ASSUME IInv, Chains, NEW s \in Issued, NEW t \in Issued,
                      s # t, Live(s), Live(t), Session[s] = Session[t]
               PROVE  Branched(Session, Session[s])
    BY DEF OneLiveTokenPerLinearSession, Branched
  <2>1. Linear(Session)
    BY SessionRooted DEF Chains
  <2>2. Last(s) /\ Last(t)
    BY LiveIsLast
  <2>3. QED
    BY <2>1, <2>2 DEF Linear
<1>2. Init => Chains
  BY ChainsInit
<1>3. IInv /\ IInv' /\ [Next]_vars /\ Chains => Chains'
  BY ChainsStep
<1>4. QED
  BY <1>1, <1>2, <1>3, Invariance, PTL DEF Spec

=============================================================================
