---------------------------- MODULE AuthSessions ----------------------------
(***************************************************************************)
(* Sessions of the users module: login, refresh-token rotation and logout, *)
(* run by concurrent requests against the user and the refresh tables,     *)
(* while an administrator updates or deletes users.                        *)
(*                                                                         *)
(* A handler is cut at its awaits: one action per database statement, with *)
(* the code that runs until the next await.  An access token lives in no   *)
(* table; it is recorded next to the refresh token it is handed out with.  *)
(***************************************************************************)
EXTENDS Naturals, FiniteSets

CONSTANTS
    User,       \* users with a row in the user table
    Token,      \* refresh JWTs that can be issued (a bound: uuid's are endless)
    Request,    \* GraphQL requests in flight at once
    MaxRole,    \* a bound: how often the role of one user is changed
    MaxExpired, \* a bound: how many tokens reach an expiry time
    NoToken,    \* a login has no presented token
    NoJwt,      \* the token has not been issued
    NoUser      \* an idle request works for nobody

\* Roles are version numbers: userUpdate gives a user its next role.
Role == 0..MaxRole

UserRow == [verified : BOOLEAN, blocked : BOOLEAN, deleted : BOOLEAN,
            password : {"none", "legacy", "argon2id"}, role : Role]

\* A pair handed out: the refresh JWT's sub and rid, the rid of the access
\* JWT beside it, and history: the token it replaced, and the owner's role
\* when the request that issued it began.
Jwt == [user : User, role : Role, access : Role,
        parent : Token \cup {NoToken}, born : Role]

\* tok: the presented refresh token; seen: roleId of the User entity read;
\* start: history, the role of the user when the request began.
RequestState ==
    [pc : {"idle", "verify", "rehash", "findToken", "findUser", "rotate",
           "issue", "revoke"},
     user : User \cup {NoUser}, tok : Token \cup {NoToken},
     seen : Role, start : Role]

Idle == [pc |-> "idle", user |-> NoUser, tok |-> NoToken, seen |-> 0, start |-> 0]

ASSUME SessionConstants ==
    /\ MaxRole \in Nat
    /\ MaxExpired \in Nat
    /\ NoToken \notin Token
    /\ NoUser \notin User
    /\ NoJwt \notin Jwt

VARIABLES
    user,       \* the user table
    jwt,        \* every pair ever handed out
    row,        \* the refresh table: isRevoked of each token's row
    inserting,  \* tokens whose un-awaited INSERT is still on its way
    age,        \* the clock, relative to each token's two expiry times
    req         \* the requests in flight

vars == <<user, jwt, row, inserting, age, req>>

TypeOK ==
    /\ user \in [User -> UserRow]
    /\ jwt \in [Token -> Jwt \cup {NoJwt}]
    /\ row \in [Token -> {"none", "active", "revoked"}]
    /\ inserting \subseteq Token
    /\ age \in [Token -> {"fresh", "jwtExpired", "expired"}]
    /\ req \in [Request -> RequestState]

Init ==
    /\ user \in [User -> {x \in UserRow : ~x.blocked /\ ~x.deleted /\ x.role = 0}]
    /\ jwt = [t \in Token |-> NoJwt]
    /\ row = [t \in Token |-> "none"]
    /\ inserting = {}
    /\ age = [t \in Token |-> "fresh"]
    /\ req = [r \in Request |-> Idle]

Issued == {t \in Token : jwt[t] # NoJwt}

\* Mutant of Admissible: the test of blocked is forgotten.
AdmissibleWhenVerified(u) == ~user[u].deleted /\ user[u].verified

\* What findByEmail/findById return and both handlers then test.
Admissible(u) == ~user[u].deleted /\ user[u].verified /\ ~user[u].blocked

Goto(r, label) == req' = [req EXCEPT ![r].pc = label]
Finish(r) == req' = [req EXCEPT ![r] = Idle]

----------------------------------------------------------------------------
(* login: LoginUserHandler, then the resolver's token generation *)

\* findByEmail with the password; a user that is not found, not verified,
\* blocked or without a password is refused at once.
LoginFind(r, u) ==
    /\ req[r].pc = "idle"
    /\ Admissible(u)
    /\ user[u].password # "none"
    /\ req' = [req EXCEPT ![r] =
            [pc |-> IF user[u].password = "legacy" THEN "rehash" ELSE "verify",
             user |-> u, tok |-> NoToken,
             seen |-> user[u].role, start |-> user[u].role]]
    /\ UNCHANGED <<user, jwt, row, inserting, age>>

\* verifyPassword on an up-to-date hash; a mismatch ends the request.
LoginVerify(r) ==
    /\ req[r].pc = "verify"
    /\ Goto(r, "issue") \/ Finish(r)
    /\ UNCHANGED <<user, jwt, row, inserting, age>>

\* verifyPassword on a legacy hash, and after a match the write of its
\* Argon2id replacement, whatever became of the row since it was read.
LoginRehash(r) ==
    /\ req[r].pc = "rehash"
    /\ \/ /\ user' = [user EXCEPT ![req[r].user].password = "argon2id"]
          /\ Goto(r, "issue")
       \/ /\ Finish(r)
          /\ UNCHANGED user
    /\ UNCHANGED <<jwt, row, inserting, age>>

----------------------------------------------------------------------------
(* refreshTokens: RefreshTokensHandler.execute *)

\* validateJwt of the presented token.
RefreshBegin(r, t) ==
    /\ req[r].pc = "idle"
    /\ t \in Issued
    /\ age[t] = "fresh"
    /\ req' = [req EXCEPT ![r] =
            [pc |-> "findToken", user |-> jwt[t].user, tok |-> t,
             seen |-> 0, start |-> user[jwt[t].user].role]]
    /\ UNCHANGED <<user, jwt, row, inserting, age>>

\* Mutant of Usable: isRevoked is not looked at.
UsableWhenStored(t) == row[t] # "none" /\ age[t] # "expired"

\* The row exists, is not revoked, and expiresAt has not passed.
Usable(t) == row[t] = "active" /\ age[t] # "expired"

\* Mutant of RefreshFindToken: the token is consumed before the user is read.
RefreshConsumeToken(r) ==
    /\ req[r].pc = "findToken"
    /\ IF Usable(req[r].tok)
       THEN Goto(r, "findUser") /\ row' = [row EXCEPT ![req[r].tok] = "revoked"]
       ELSE Finish(r) /\ UNCHANGED row
    /\ UNCHANGED <<user, jwt, inserting, age>>

\* SELECT of the token's row: absent, revoked or expired ends the request.
RefreshFindToken(r) ==
    /\ req[r].pc = "findToken"
    /\ IF Usable(req[r].tok)
       THEN Goto(r, "findUser")
       ELSE Finish(r)
    /\ UNCHANGED <<user, jwt, row, inserting, age>>

\* findById and the two status checks.
RefreshFindUser(r) ==
    /\ req[r].pc = "findUser"
    /\ IF Admissible(req[r].user)
       THEN req' = [req EXCEPT ![r] = [@ EXCEPT !.pc = "rotate",
                                                !.seen = user[req[r].user].role]]
       ELSE Finish(r)
    /\ UNCHANGED <<user, jwt, row, inserting, age>>

\* Mutant of RefreshRotate: the new pair is issued without the UPDATE.
RefreshSkipRotate(r) ==
    /\ req[r].pc = "rotate"
    /\ Goto(r, "issue")
    /\ UNCHANGED <<user, jwt, row, inserting, age>>

\* UPDATE ... SET isRevoked = true WHERE id: unconditional.
RefreshRotate(r) ==
    /\ req[r].pc = "rotate"
    /\ row' = [row EXCEPT ![req[r].tok] = "revoked"]
    /\ Goto(r, "issue")
    /\ UNCHANGED <<user, jwt, inserting, age>>

----------------------------------------------------------------------------
(* Issuing a pair, for login and for refresh *)

\* The role in the access token: of the User entity at login, of the
\* presented refresh token's payload on a refresh.
AccessRole(r) == IF req[r].tok = NoToken THEN req[r].seen ELSE jwt[req[r].tok].role

\* Mutant of NewJwt: the refresh token too copies the presented payload.
NewJwtOfCredentials(r) ==
    [user |-> req[r].user, role |-> AccessRole(r), access |-> AccessRole(r),
     parent |-> req[r].tok, born |-> req[r].start]

NewJwt(r) == [user |-> req[r].user, role |-> req[r].seen, access |-> AccessRole(r),
              parent |-> req[r].tok, born |-> req[r].start]

\* generateAccessToken and generateRefreshToken: the row is inserted by a
\* promise nobody awaits, so the answer leaves before the row exists.
Issue(r) ==
    /\ req[r].pc = "issue"
    /\ \E t \in Token \ Issued :
          /\ jwt' = [jwt EXCEPT ![t] = NewJwt(r)]
          /\ inserting' = inserting \cup {t}
    /\ Finish(r)
    /\ UNCHANGED <<user, row, age>>

\* The INSERT takes effect.
InsertRow(t) ==
    /\ t \in inserting
    /\ inserting' = inserting \ {t}
    /\ row' = [row EXCEPT ![t] = "active"]
    /\ UNCHANGED <<user, jwt, age, req>>

\* The INSERT fails or its process dies; catch() logs it, nothing else.
InsertLost(t) ==
    /\ t \in inserting
    /\ inserting' = inserting \ {t}
    /\ UNCHANGED <<user, jwt, row, age, req>>

----------------------------------------------------------------------------
(* logout: AuthServiceAdapter.revokeRefreshToken *)

\* validateJwt of the presented token.
LogoutBegin(r, t) ==
    /\ req[r].pc = "idle"
    /\ t \in Issued
    /\ age[t] = "fresh"
    /\ req' = [req EXCEPT ![r] = [Idle EXCEPT !.pc = "revoke", !.user = jwt[t].user,
                                              !.tok = t]]
    /\ UNCHANGED <<user, jwt, row, inserting, age>>

\* Mutant of LogoutRevoke: a row that is not there yet is written as revoked.
LogoutUpsert(r) ==
    /\ req[r].pc = "revoke"
    /\ row' = [row EXCEPT ![req[r].tok] = "revoked"]
    /\ Finish(r)
    /\ UNCHANGED <<user, jwt, inserting, age>>

\* UPDATE ... WHERE token AND NOT isRevoked: no row, no effect, answer false.
LogoutRevoke(r) ==
    /\ req[r].pc = "revoke"
    /\ row' = [row EXCEPT ![req[r].tok] = IF @ = "active" THEN "revoked" ELSE @]
    /\ Finish(r)
    /\ UNCHANGED <<user, jwt, inserting, age>>

----------------------------------------------------------------------------
(* Everything around the requests *)

\* An await rejects, or the process dies: the request ends where it stands.
Abort(r) ==
    /\ req[r].pc # "idle"
    /\ Finish(r)
    /\ UNCHANGED <<user, jwt, row, inserting, age>>

\* userUpdate: one UPDATE by id, with no test of deletedAt.
UpdateUser(u) ==
    /\ \E b \in BOOLEAN, k \in {user[u].role, user[u].role + 1} \cap Role :
          user' = [user EXCEPT ![u] = [@ EXCEPT !.blocked = b, !.role = k]]
    /\ UNCHANGED <<jwt, row, inserting, age, req>>

\* Mutant of DeleteUser: the row itself is removed.
RemoveUser(u) ==
    /\ ~user[u].deleted
    /\ user' = [v \in User \ {u} |-> user[v]]
    /\ UNCHANGED <<jwt, row, inserting, age, req>>

\* userDelete: sets deletedAt where it is null.
DeleteUser(u) ==
    /\ ~user[u].deleted
    /\ user' = [user EXCEPT ![u].deleted = TRUE]
    /\ UNCHANGED <<jwt, row, inserting, age, req>>

\* Time passes: the JWT's exp, in whole seconds from before the INSERT was
\* built, is reached no later than the row's expiresAt.
Expire(t) ==
    /\ t \in Issued
    /\ age[t] # "expired"
    /\ Cardinality({x \in Token : age[x] # "fresh"} \cup {t}) <= MaxExpired
    /\ age' = [age EXCEPT ![t] = IF @ = "fresh" THEN "jwtExpired" ELSE "expired"]
    /\ UNCHANGED <<user, jwt, row, inserting, req>>

Step(r) ==
    \/ LoginVerify(r) \/ LoginRehash(r)
    \/ RefreshFindToken(r) \/ RefreshFindUser(r) \/ RefreshRotate(r)
    \/ Issue(r) \/ LogoutRevoke(r)

Next ==
    \/ \E r \in Request : Step(r) \/ Abort(r)
    \/ \E r \in Request, u \in User : LoginFind(r, u)
    \/ \E r \in Request, t \in Token : RefreshBegin(r, t) \/ LogoutBegin(r, t)
    \/ \E t \in Token : InsertRow(t) \/ InsertLost(t) \/ Expire(t)
    \/ \E u \in User : UpdateUser(u) \/ DeleteUser(u)

Spec == Init /\ [][Next]_vars

\* Every await of a handler settles, with a value or an error, and the event
\* loop runs the continuation.  The INSERT nobody awaits needs no fairness.
Fairness == \A r \in Request : WF_vars(Step(r) \/ Abort(r))

FairSpec == Spec /\ Fairness

----------------------------------------------------------------------------
(* Properties *)

\* A request that is past the status check of its user.
Cleared(r) == req[r].pc \in {"verify", "rehash", "rotate", "issue"}

Barred(u) == user[u].deleted \/ user[u].blocked \/ ~user[u].verified

Quiet(u) == \A r \in Request : Cleared(r) => req[r].user # u

TokensOf(u) == {t \in Issued : jwt[t].user = u}

\* A refresh that has read the token's row and may still rotate it.
Holds(r, t) == req[r].tok = t /\ req[r].pc \in {"findUser", "rotate", "issue"}

Dead(t) == row[t] = "revoked" /\ \A r \in Request : ~Holds(r, t)

Successors(t) == {s \in Issued : jwt[s].parent = t}

\* The token can be presented with success, now or once its INSERT lands.
Live(t) == t \in inserting \/ row[t] = "active"

\* The token that a login issued, at the start of this token's rotations.
Session[t \in Token] ==
    IF jwt[t] = NoJwt THEN t
    ELSE IF jwt[t].parent = NoToken THEN t ELSE Session[jwt[t].parent]

\* A blocked, unverified or deleted user whose requests are all over gets
\* nothing more: no handler lets a new request of theirs past its checks.
BarredStaysOut ==
    [][\A u \in User : Quiet(u) /\ Barred(u) =>
            Quiet(u)' /\ TokensOf(u)' = TokensOf(u)]_vars

\* A refused refresh consumes nothing: as long as a barred user has no
\* request past the checks, only a logout revokes a token of theirs, so the
\* session goes on where it was when the user is let in again.
BlockKeepsSessions ==
    [][\A u \in User : Quiet(u) /\ Barred(u) =>
            \A t \in TokensOf(u) :
                row[t] = "active" /\ row'[t] # "active" =>
                    \E r \in Request : req[r].pc = "revoke" /\ req[r].tok = t]_vars

\* A revoked token that no refresh in flight has read before its revocation
\* is dead for good: it is never read as valid, never active again (however
\* late an INSERT lands) and never replaced by one more pair.
RevokedStaysDead ==
    [][\A t \in Token : Dead(t) => Dead(t)' /\ Successors(t)' = Successors(t)]_vars

\* Rotation: whoever holds a successor, its predecessor's row was revoked
\* first, and belonged to the same user.
SuccessorMeansRevoked ==
    \A s \in Issued :
        LET p == jwt[s].parent IN
        p # NoToken => p \in Issued /\ row[p] = "revoked" /\ jwt[p].user = jwt[s].user

\* A session whose own tokens were each replaced at most once has at most one
\* token that still works, so that one logout ends it, whatever other sessions do.
OneLiveTokenPerLinearSession ==
    \A s, t \in Issued :
        s # t /\ Live(s) /\ Live(t) /\ Session[s] = Session[t] =>
            \E p \in Issued : Session[p] = Session[s]
                             /\ \E a, b \in Successors(p) : a # b

\* The ledger's view of a token.
Stage(t) ==
    CASE jwt[t] = NoJwt -> "unissued"
      [] t \in inserting -> "pending"
      [] jwt[t] # NoJwt /\ t \notin inserting /\ row[t] = "none" -> "lost"
      [] OTHER -> row[t]

Replaces(t) == IF jwt[t] = NoJwt THEN NoToken ELSE jwt[t].parent

Ledger == INSTANCE RefreshLedger WITH
            stage <- [t \in Token |-> Stage(t)],
            replaces <- [t \in Token |-> Replaces(t)]

\* The requests, cut at every await, implement the ledger: no interleaving
\* of rotations, logouts, late inserts and faults takes a token back.
ImplementsLedger == Ledger!Spec

\* How stale a role in a token can be: a refresh token carries a role its
\* owner had while its request ran; the access token beside it lags by at
\* most one rotation (a refresh copies the presented token's role).
RoleLag ==
    \A t \in Issued :
        /\ jwt[t].role >= jwt[t].born
        /\ jwt[t].access >= IF jwt[t].parent = NoToken THEN jwt[t].born
                            ELSE jwt[jwt[t].parent].born

\* A user who stays barred ends up with no request past the checks: those
\* that had passed them finish or fail, and no new one gets there.
BarringTakesEffect ==
    \A u \in User : <>[]Barred(u) => <>[]Quiet(u)

=============================================================================
