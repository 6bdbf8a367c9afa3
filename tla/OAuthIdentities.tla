--------------------------- MODULE OAuthIdentities ---------------------------
(***************************************************************************)
(* Third-party identities: oauthAuthenticate, oauthLinkProvider and        *)
(* oauthUnlinkProvider against the user and the identity tables.  One      *)
(* action per await that reads or writes; identity reads may be answered   *)
(* by TypeORM's query cache, which no write invalidates.                   *)
(***************************************************************************)
EXTENDS Naturals, FiniteSets

CONSTANTS
    User,       \* user rows; an address reported by a provider stands for its holder
    Provider,   \* google, yandex
    Account,    \* user ids at a provider
    Identity,   \* ids of identity rows (a bound: uuid's are endless)
    Request,    \* GraphQL requests in flight at once
    Cached,     \* whether redis.host is configured: TypeORM then caches every read
    NoIdentity, \* a query that found no row, a row that was never inserted
    NoUser, NoProvider, NoAccount   \* parameters a request does not have

UserRow == [state : {"none", "present", "deleted"}, password : BOOLEAN]

IdentityRow == [user : User, provider : Provider, account : Account, live : BOOLEAN]

\* The cached queries: findByUserIdAndProvider, findByProviderUserId, countByUserId.
OwnQuery == [user : User, provider : Provider]
AccountQuery == [provider : Provider, account : Account]
CountQuery == [count : User]
Query == OwnQuery \cup AccountQuery \cup CountQuery

\* id: the identity an unlink has read; welcome: the user is new;
\* begun: history, the identities that had been inserted when it began.
RequestState ==
    [pc : {"idle", "email", "create", "authInsert", "welcome",
           "account", "linkInsert", "user", "count", "delete"},
     user : User \cup {NoUser}, provider : Provider \cup {NoProvider},
     account : Account \cup {NoAccount}, id : Identity \cup {NoIdentity},
     welcome : BOOLEAN, begun : SUBSET Identity]

Idle == [pc |-> "idle", user |-> NoUser, provider |-> NoProvider, account |-> NoAccount,
         id |-> NoIdentity, welcome |-> FALSE, begun |-> {}]

ASSUME OAuthConstants ==
    /\ Cached \in BOOLEAN
    /\ IsFiniteSet(Identity)
    /\ NoIdentity \notin Identity \cup IdentityRow
    /\ NoUser \notin User /\ NoProvider \notin Provider /\ NoAccount \notin Account

VARIABLES
    user,       \* the user table
    identity,   \* the identity table, with the rows since deleted
    cache,      \* the query cache: {} or {answer} for each query
    welcomed,   \* how many welcome mails each user was sent
    req,        \* the requests in flight
    mishap      \* history: whether two requests ever overlapped, or a read was stale

vars == <<user, identity, cache, welcomed, req, mishap>>

TypeOK ==
    /\ user \in [User -> UserRow]
    /\ identity \in [Identity -> IdentityRow \cup {NoIdentity}]
    /\ cache \in [Query -> SUBSET (Identity \cup {NoIdentity} \cup Nat)]
    /\ welcomed \in [User -> Nat]
    /\ req \in [Request -> RequestState]
    /\ mishap \subseteq {"overlap", "stale"}

Init ==
    /\ user \in [User -> {x \in UserRow : \/ x.state = "none" /\ ~x.password
                                          \/ x.state = "present" /\ x.password}]
    /\ identity = [i \in Identity |-> NoIdentity]
    /\ cache = [q \in Query |-> {}]
    /\ welcomed = [u \in User |-> 0]
    /\ req = [r \in Request |-> Idle]
    /\ mishap = {}

Inserted == {i \in Identity : identity[i] # NoIdentity}
LiveIds == {i \in Inserted : identity[i].live}
IdentitiesOf(u) == {i \in LiveIds : identity[i].user = u}

\* The row a findOne returns: unique for a user and a provider; for an
\* account, any of its rows if there should be several.
One(S) == IF S = {} THEN {NoIdentity} ELSE S
OwnRows(u, p) == One({i \in IdentitiesOf(u) : identity[i].provider = p})
AccountRows(p, a) ==
    One({i \in LiveIds : identity[i].provider = p /\ identity[i].account = a})

\* The answers a read of the identity table may give; what r's read leaves.
Answers(q, fresh) == IF cache[q] = {} THEN fresh ELSE cache[q]
Remember(r, q, answer, fresh) ==
    /\ cache' = IF Cached THEN [cache EXCEPT ![q] = {answer}] ELSE cache
    /\ mishap' = mishap
            \cup (IF \E s \in Request \ {r} : req[s].pc # "idle" THEN {"overlap"} ELSE {})
            \cup (IF answer \notin fresh THEN {"stale"} ELSE {})

Goto(r, label) == req' = [req EXCEPT ![r].pc = label]
Finish(r) == req' = [req EXCEPT ![r] = Idle]
Begin(r, label, u, p, a, i) ==
    req' = [req EXCEPT ![r] = [pc |-> label, user |-> u, provider |-> p, account |-> a,
                               id |-> i, welcome |-> FALSE, begun |-> Inserted]]

----------------------------------------------------------------------------
(* Inserting an identity: oauthAuthenticate and oauthLinkProvider *)

\* identityRepository.create: refused by the unique (userId, providerType).
\* The (providerType, providerUserId) index is not unique.
CanInsert(r) == \A i \in IdentitiesOf(req[r].user) : identity[i].provider # req[r].provider

Insert(r) ==
    \E i \in Identity \ Inserted :
        identity' = [identity EXCEPT ![i] =
            [user |-> req[r].user, provider |-> req[r].provider,
             account |-> req[r].account, live |-> TRUE]]

----------------------------------------------------------------------------
(* oauthAuthenticate: OAuthAuthenticateHandler.execute *)

\* After the code exchange, findByProviderUserId.  For a known account the
\* rest (findById, update of its tokens, the throw of generateRefreshToken)
\* changes nothing that is modelled.
AuthFind(r, p, a) ==
    /\ req[r].pc = "idle"
    /\ \E i \in Answers([provider |-> p, account |-> a], AccountRows(p, a)) :
          /\ Remember(r, [provider |-> p, account |-> a], i, AccountRows(p, a))
          /\ IF i = NoIdentity THEN Begin(r, "email", NoUser, p, a, NoIdentity)
             ELSE UNCHANGED req
    /\ UNCHANGED <<user, identity, welcomed>>

\* findByEmail of the address the provider reports, which u has or may get.
AuthFindEmail(r, u) ==
    /\ req[r].pc = "email"
    /\ req' = [req EXCEPT ![r].user = u,
                          ![r].pc = IF user[u].state = "present" THEN "authInsert" ELSE "create"]
    /\ UNCHANGED <<user, identity, cache, welcomed, mishap>>

\* Mutant of AuthCreateUser: on a conflict the existing row is taken for new.
AuthUpsertUser(r) ==
    /\ req[r].pc = "create"
    /\ user' = [user EXCEPT ![req[r].user].state = "present"]
    /\ req' = [req EXCEPT ![r].welcome = TRUE, ![r].pc = "authInsert"]
    /\ UNCHANGED <<identity, cache, welcomed, mishap>>

\* userRepository.create, without a password: an address that has a row by
\* now, or still has a deleted user's, is refused by its unique index.
AuthCreateUser(r) ==
    /\ req[r].pc = "create"
    /\ IF user[req[r].user].state = "none"
       THEN /\ user' = [user EXCEPT ![req[r].user].state = "present"]
            /\ req' = [req EXCEPT ![r].welcome = TRUE, ![r].pc = "authInsert"]
       ELSE Finish(r) /\ UNCHANGED user
    /\ UNCHANGED <<identity, cache, welcomed, mishap>>

\* create of the identity; the tokens that follow for an old user throw.
AuthInsert(r) ==
    /\ req[r].pc = "authInsert"
    /\ IF CanInsert(r)
       THEN /\ Insert(r)
            /\ IF req[r].welcome THEN Goto(r, "welcome") ELSE Finish(r)
       ELSE Finish(r) /\ UNCHANGED identity
    /\ UNCHANGED <<user, cache, welcomed, mishap>>

\* The welcome mail of a new user; then the throw.
AuthWelcome(r) ==
    /\ req[r].pc = "welcome"
    /\ welcomed' = [welcomed EXCEPT ![req[r].user] = @ + 1]
    /\ Finish(r)
    /\ UNCHANGED <<user, identity, cache, mishap>>

----------------------------------------------------------------------------
(* oauthLinkProvider: OAuthLinkProviderHandler.execute *)

\* findByUserIdAndProvider, for the user of any access token ever issued.
LinkFind(r, u, p, a) ==
    /\ req[r].pc = "idle"
    /\ user[u].state # "none"
    /\ \E i \in Answers([user |-> u, provider |-> p], OwnRows(u, p)) :
          /\ Remember(r, [user |-> u, provider |-> p], i, OwnRows(u, p))
          /\ IF i = NoIdentity THEN Begin(r, "account", u, p, a, NoIdentity)
             ELSE UNCHANGED req
    /\ UNCHANGED <<user, identity, welcomed>>

\* Mutant of LinkFindAccount: only one's own other identities are looked at.
LinkFindOwnAccount(r) ==
    /\ req[r].pc = "account"
    /\ IF OwnRows(req[r].user, req[r].provider) = {NoIdentity}
       THEN Goto(r, "linkInsert") ELSE Finish(r)
    /\ UNCHANGED <<user, identity, cache, welcomed, mishap>>

\* After the code exchange, findByProviderUserId: linked to anyone?
LinkFindAccount(r) ==
    /\ req[r].pc = "account"
    /\ LET q == [provider |-> req[r].provider, account |-> req[r].account]
           rows == AccountRows(req[r].provider, req[r].account) IN
       \E i \in Answers(q, rows) :
          /\ Remember(r, q, i, rows)
          /\ IF i = NoIdentity THEN Goto(r, "linkInsert") ELSE Finish(r)
    /\ UNCHANGED <<user, identity, welcomed>>

\* create of the identity (the notification mail that follows: MailQueue).
LinkInsert(r) ==
    /\ req[r].pc = "linkInsert"
    /\ IF CanInsert(r) THEN Insert(r) ELSE UNCHANGED identity
    /\ Finish(r)
    /\ UNCHANGED <<user, cache, welcomed, mishap>>

----------------------------------------------------------------------------
(* oauthUnlinkProvider: OAuthUnlinkProviderHandler.execute *)

\* findByUserIdAndProvider.
UnlinkFind(r, u, p) ==
    /\ req[r].pc = "idle"
    /\ user[u].state # "none"
    /\ \E i \in Answers([user |-> u, provider |-> p], OwnRows(u, p)) :
          /\ Remember(r, [user |-> u, provider |-> p], i, OwnRows(u, p))
          /\ IF i = NoIdentity THEN UNCHANGED req
             ELSE Begin(r, "user", u, p, NoAccount, i)
    /\ UNCHANGED <<user, identity, welcomed>>

\* findById.
UnlinkFindUser(r) ==
    /\ req[r].pc = "user"
    /\ IF user[req[r].user].state = "present" THEN Goto(r, "count") ELSE Finish(r)
    /\ UNCHANGED <<user, identity, cache, welcomed, mishap>>

\* Mutant of MayUnlink: off by one.
MayUnlinkLast(u, n) == user[u].password \/ n > 0

\* hasPassword (nothing ever clears a password) or more than one identity.
MayUnlink(u, n) == user[u].password \/ n > 1

\* countByUserId, the check, and the best-effort revocation at the provider.
UnlinkCount(r) ==
    /\ req[r].pc = "count"
    /\ LET u == req[r].user
           rows == {Cardinality(IdentitiesOf(u))} IN
       \E n \in Answers([count |-> u], rows) :
          /\ Remember(r, [count |-> u], n, rows)
          /\ IF MayUnlink(u, n) THEN Goto(r, "delete") ELSE Finish(r)
    /\ UNCHANGED <<user, identity, welcomed>>

\* Mutant of UnlinkDelete: by user and provider instead of by id.
UnlinkDeleteOwn(r) ==
    /\ req[r].pc = "delete"
    /\ identity' = [i \in Identity |->
            IF i \in OwnRows(req[r].user, req[r].provider)
            THEN [identity[i] EXCEPT !.live = FALSE] ELSE identity[i]]
    /\ Finish(r)
    /\ UNCHANGED <<user, cache, welcomed, mishap>>

\* delete by id: no row, no effect, and the answer is true all the same.
UnlinkDelete(r) ==
    /\ req[r].pc = "delete"
    /\ identity' = [identity EXCEPT ![req[r].id].live = FALSE]
    /\ Finish(r)
    /\ UNCHANGED <<user, cache, welcomed, mishap>>

----------------------------------------------------------------------------
(* Everything around the requests *)

\* An await rejects or the process dies: what was written stays.
Abort(r) ==
    /\ req[r].pc # "idle"
    /\ Finish(r)
    /\ UNCHANGED <<user, identity, cache, welcomed, mishap>>

\* redis.duration (1000 ms) is over for a cached answer.
CacheExpires(q) ==
    /\ cache[q] # {}
    /\ cache' = [cache EXCEPT ![q] = {}]
    /\ UNCHANGED <<user, identity, welcomed, req, mishap>>

\* Mutant of DeleteUser: the row itself is removed.
RemoveUser(u) ==
    /\ user[u].state = "present"
    /\ user' = [v \in User \ {u} |-> user[v]]
    /\ UNCHANGED <<identity, cache, welcomed, req, mishap>>

\* userDelete: a soft delete, which no identity notices.
DeleteUser(u) ==
    /\ user[u].state = "present"
    /\ user' = [user EXCEPT ![u].state = "deleted"]
    /\ UNCHANGED <<identity, cache, welcomed, req, mishap>>

AuthStep(r) == AuthCreateUser(r) \/ AuthInsert(r) \/ AuthWelcome(r)
LinkStep(r) == LinkFindAccount(r) \/ LinkInsert(r)
UnlinkStep(r) == UnlinkFindUser(r) \/ UnlinkCount(r) \/ UnlinkDelete(r)

Next ==
    \/ \E r \in Request : AuthStep(r) \/ LinkStep(r) \/ UnlinkStep(r) \/ Abort(r)
    \/ \E r \in Request, u \in User : AuthFindEmail(r, u)
    \/ \E r \in Request, p \in Provider, a \in Account :
          AuthFind(r, p, a) \/ \E u \in User : LinkFind(r, u, p, a)
    \/ \E r \in Request, u \in User, p \in Provider : UnlinkFind(r, u, p)
    \/ \E q \in Query : CacheExpires(q)
    \/ \E u \in User : DeleteUser(u)

Spec == Init /\ [][Next]_vars

----------------------------------------------------------------------------
(* Properties *)

\* oauth-link-provider.handler.ts:50, "Check if this OAuth account is already
\* linked to another user": no account belongs to two users.
OneOwnerPerAccount ==
    \A i, j \in LiveIds :
        identity[i].provider = identity[j].provider
            /\ identity[i].account = identity[j].account => i = j

\* oauth-unlink-provider.handler.ts:42, "User must have at least one auth
\* method (password OR at least one OAuth provider)": a user who has linked
\* one keeps one, unless a password does.
LastMethodStays ==
    \A u \in User :
        (\E i \in Inserted : identity[i].user = u) =>
            user[u].password \/ IdentitiesOf(u) # {}

\* It takes two requests at once, or a stale read, to give an account two
\* owners: one after the other, the check does what it says, whatever fails.
OneOwnerUnlessMishap == mishap # {} \/ OneOwnerPerAccount

\* And to take the last way to log in from a user.
LastMethodUnlessMishap == mishap # {} \/ LastMethodStays

\* An identity inserted after an unlink began is not removed by it, even one
\* of the same user and provider (unlinked and linked again meanwhile).
LaterLinkSurvives ==
    [][\A i \in LiveIds : i \notin LiveIds' =>
            \E r \in Request : req[r].pc = "delete" /\ i \in req[r].begun]_vars

\* Whatever first logins race each other, through whatever providers, a user
\* is welcomed at most once, and only with an identity to come back by.
WelcomedOnce ==
    \A u \in User :
        /\ welcomed[u] <= 1
        /\ welcomed[u] = 1 => \E i \in Inserted : identity[i].user = u

=============================================================================
