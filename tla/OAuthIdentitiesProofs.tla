------------------------ MODULE OAuthIdentitiesProofs ------------------------
(***************************************************************************)
(* Proofs about OAuthIdentities, for any sets of users, providers,         *)
(* accounts and requests, any finite identity table, and the query cache   *)
(* on or off.  The invariant adds to the typing what a request holds       *)
(* (RequestOK), what the cache may answer (CacheOK), who is about to be    *)
(* welcomed (WelcomeOK), and, as long as requests neither overlapped nor   *)
(* read a stale answer, that what they have read still holds (SerialOK).   *)
(***************************************************************************)
EXTENDS OAuthIdentities, FiniteSetTheorems, TLAPS

\* A request has the parameters its next step needs; the identity an unlink
\* has read was in the table when it began.
RequestOK(r) ==
    /\ req[r].pc # "idle" => req[r].provider \in Provider
    /\ req[r].pc \notin {"idle", "email"} => req[r].user \in User
    /\ req[r].pc \in {"email", "create", "authInsert", "welcome", "account", "linkInsert"} =>
          req[r].account \in Account
    /\ req[r].pc \in {"user", "count", "delete"} =>
          req[r].id \in Inserted /\ req[r].id \in req[r].begun

RequestsOK == \A r \in Request : RequestOK(r)

\* A cached identity is, or was, in the table.
CacheOK == \A q \in OwnQuery \cup AccountQuery : cache[q] \subseteq Inserted \cup {NoIdentity}

\* Whoever holds the welcome of a user created the row, alone, and has not
\* sent it; a user who was welcomed has a row and had an identity.
HasIdentity(u) == \E i \in Inserted : identity[i].user = u

WelcomeOK ==
    /\ \A r \in Request : req[r].pc = "welcome" => req[r].welcome /\ HasIdentity(req[r].user)
    /\ \A r \in Request : req[r].welcome =>
          /\ req[r].pc \in {"authInsert", "welcome"}
          /\ user[req[r].user].state # "none"
          /\ welcomed[req[r].user] = 0
          /\ \A s \in Request \ {r} : req[s].welcome => req[s].user # req[r].user
    /\ \A u \in User : welcomed[u] # 0 =>
          welcomed[u] = 1 /\ user[u].state # "none" /\ HasIdentity(u)

\* What a request has read and relies on still holds: an account it will insert
\* has no owner; the identity an unlink has read is its user's; a user whose
\* identity is about to be deleted has another way to log in.
Unowned(p, a) == \A i \in LiveIds : identity[i].provider # p \/ identity[i].account # a
Another(u, i) == user[u].password \/ \E j \in IdentitiesOf(u) : j # i
ReadHolds(r) ==
    /\ req[r].pc \in {"email", "create", "authInsert", "linkInsert"} => Unowned(req[r].provider, req[r].account)
    /\ req[r].pc \in {"user", "count", "delete"} => identity[req[r].id].user = req[r].user
    /\ req[r].pc = "delete" => Another(req[r].user, req[r].id)

\* No two requests are under way.
Alone == \A r, s \in Request : req[r].pc # "idle" /\ req[s].pc # "idle" => r = s

Serial == Alone /\ (\A r \in Request : ReadHolds(r)) /\ OneOwnerPerAccount /\ LastMethodStays
SerialOK == mishap = {} => Serial

IInv == TypeOK /\ RequestsOK /\ CacheOK /\ WelcomeOK /\ SerialOK

----------------------------------------------------------------------------
\* The fields of a request.
LEMMA RequestFields ==
  ASSUME TypeOK, NEW r \in Request
  PROVE  /\ req[r] \in RequestState
         /\ req[r].user \in User \cup {NoUser} /\ req[r].provider \in Provider \cup {NoProvider}
         /\ req[r].account \in Account \cup {NoAccount}
         /\ req[r].id \in Identity \cup {NoIdentity}
         /\ req[r].welcome \in BOOLEAN /\ req[r].begun \subseteq Identity
BY DEF TypeOK, RequestState

\* A row of the identity table.
LEMMA RowsOf ==
  ASSUME TypeOK, NEW i \in Inserted
  PROVE  i \in Identity /\ identity[i] \in IdentityRow /\ identity[i].user \in User
<1>1. i \in Identity /\ identity[i] \in IdentityRow
  BY DEF TypeOK, Inserted
<1>2. QED
  BY <1>1 DEF IdentityRow

\* A read of the table finds a row of it, or none.
LEMMA FoundRows ==
  ASSUME NEW u, NEW p, NEW a
  PROVE  /\ OwnRows(u, p) \subseteq Inserted \cup {NoIdentity}
         /\ AccountRows(p, a) \subseteq Inserted \cup {NoIdentity}
BY DEF OwnRows, AccountRows, One, IdentitiesOf, LiveIds

\* The count of a user's identities is a number.
LEMMA CountType == \A u : Cardinality(IdentitiesOf(u)) \in Nat
<1>1. ASSUME NEW u PROVE IsFiniteSet(IdentitiesOf(u))
  <2>1. IdentitiesOf(u) \subseteq Identity
    BY DEF IdentitiesOf, LiveIds, Inserted
  <2>2. QED
    BY <2>1, OAuthConstants, FS_Subset
<1>2. QED
  BY <1>1, FS_CardinalityType

\* Ending a request, or moving it on, keeps req in its range.
Labels == {"idle", "email", "create", "authInsert", "welcome",
           "account", "linkInsert", "user", "count", "delete"}

LEMMA MoveType ==
  ASSUME TypeOK, NEW r \in Request,
         Finish(r) \/ (\E label \in Labels : Goto(r, label)) \/ UNCHANGED req
  PROVE  req' \in [Request -> RequestState]
<1>1. req \in [Request -> RequestState]
  BY DEF TypeOK
<1>2. CASE Finish(r)
  <2>1. Idle \in RequestState
    BY DEF Idle, RequestState
  <2>2. QED
    BY <1>1, <1>2, <2>1 DEF Finish
<1>3. ASSUME NEW label \in Labels, Goto(r, label) PROVE req' \in [Request -> RequestState]
  <2>1. [req[r] EXCEPT !.pc = label] \in RequestState
    BY <1>1 DEF RequestState, Labels
  <2>2. QED
    BY <1>1, <1>3, <2>1 DEF Goto
<1>4. QED
  BY <1>1, <1>2, <1>3

\* A request that begins is typed.
LEMMA BeginType ==
  ASSUME TypeOK, NEW r \in Request, NEW label \in Labels, NEW u \in User \cup {NoUser},
         NEW p \in Provider, NEW a \in Account \cup {NoAccount},
         NEW i \in Identity \cup {NoIdentity}, Begin(r, label, u, p, a, i)
  PROVE  req' \in [Request -> RequestState]
<1>1. Inserted \subseteq Identity
  BY DEF Inserted
<1>2. [pc |-> label, user |-> u, provider |-> p, account |-> a, id |-> i,
       welcome |-> FALSE, begun |-> Inserted] \in RequestState
  BY <1>1 DEF RequestState, Labels
<1>3. QED
  BY <1>2 DEF Begin, TypeOK

\* The answer of a read of the identity table, cached or not, is a row that
\* is, or was, in it.
LEMMA ReadType ==
  ASSUME CacheOK
  PROVE  /\ \A u \in User, p \in Provider :
               \A i \in Answers([user |-> u, provider |-> p], OwnRows(u, p)) :
                  i \in Inserted \cup {NoIdentity}
         /\ \A p \in Provider, a \in Account :
               \A i \in Answers([provider |-> p, account |-> a], AccountRows(p, a)) :
                  i \in Inserted \cup {NoIdentity}
         /\ Inserted \subseteq Identity
<1>1. \A u \in User, p \in Provider : [user |-> u, provider |-> p] \in OwnQuery
  BY DEF OwnQuery
<1>2. \A p \in Provider, a \in Account : [provider |-> p, account |-> a] \in AccountQuery
  BY DEF AccountQuery
<1>3. Inserted \subseteq Identity
  BY DEF Inserted
<1>4. QED
  BY <1>1, <1>2, <1>3, FoundRows DEF Answers, CacheOK

\* An insertion keeps the table typed, and adds to it.
LEMMA InsertType ==
  ASSUME TypeOK, NEW r \in Request, req[r].user \in User, req[r].provider \in Provider,
         req[r].account \in Account, Insert(r)
  PROVE  /\ identity' \in [Identity -> IdentityRow \cup {NoIdentity}]
         /\ \A i \in Inserted : identity'[i] = identity[i]
         /\ \E i \in Inserted' : identity'[i].user = req[r].user
<1>1. PICK i \in Identity \ Inserted : identity' = [identity EXCEPT ![i] =
            [user |-> req[r].user, provider |-> req[r].provider,
             account |-> req[r].account, live |-> TRUE]]
  BY DEF Insert
<1>2. DEFINE new == [user |-> req[r].user, provider |-> req[r].provider,
                     account |-> req[r].account, live |-> TRUE]
<1>3. new \in IdentityRow /\ new.user = req[r].user
  BY DEF IdentityRow
<1>4. new # NoIdentity
  BY <1>3, OAuthConstants
<1>5. identity'[i] = new /\ i \in Inserted'
  BY <1>1, <1>4 DEF TypeOK, Inserted
<1>6. QED
  BY <1>1, <1>3, <1>5 DEF TypeOK, Inserted
\* A deletion, of a row that is there, keeps the table typed.
LEMMA DeleteType ==
  ASSUME TypeOK, RequestsOK, NEW r \in Request, UnlinkDelete(r)
  PROVE  /\ req[r].id \in Inserted
         /\ [identity[req[r].id] EXCEPT !.live = FALSE] \in IdentityRow
         /\ identity' \in [Identity -> IdentityRow \cup {NoIdentity}]
<1>1. req[r].id \in Inserted
  BY DEF RequestsOK, RequestOK, UnlinkDelete
<1>2. req[r].id \in Identity /\ identity[req[r].id] \in IdentityRow
  BY <1>1, RowsOf
<1>3. [identity[req[r].id] EXCEPT !.live = FALSE] \in IdentityRow
  BY <1>2 DEF IdentityRow
<1>4. identity' = [identity EXCEPT ![req[r].id] = [identity[req[r].id] EXCEPT !.live = FALSE]]
  BY <1>2 DEF UnlinkDelete, TypeOK
<1>5. QED
  BY <1>1, <1>2, <1>3, <1>4 DEF TypeOK

----------------------------------------------------------------------------
\* Every step keeps every variable in its range.
LEMMA TypeStep ==
  ASSUME TypeOK, RequestsOK, CacheOK, Next
  PROVE  TypeOK'
<1> USE DEF TypeOK
<1>1. ASSUME NEW r \in Request, AuthCreateUser(r) PROVE TypeOK'
  <2>1. req[r].user \in User /\ req[r] \in RequestState
    BY <1>1, RequestFields DEF AuthCreateUser, RequestsOK, RequestOK
  <2>2. user' \in [User -> UserRow]
    BY <1>1, <2>1 DEF AuthCreateUser, UserRow
  <2>3. [req[r] EXCEPT !.welcome = TRUE, !.pc = "authInsert"] \in RequestState
    BY <2>1 DEF RequestState
  <2>4. req' \in [Request -> RequestState]
    <3>1. CASE user[req[r].user].state = "none"
      <4>1. req' = [req EXCEPT ![r] = [req[r] EXCEPT !.welcome = TRUE, !.pc = "authInsert"]]
        BY <1>1, <3>1 DEF AuthCreateUser
      <4>2. QED
        BY <4>1, <2>3
    <3>2. CASE user[req[r].user].state # "none"
      BY <1>1, <3>2, MoveType DEF AuthCreateUser
    <3>3. QED
      BY <3>1, <3>2
  <2>5. QED
    BY <1>1, <2>2, <2>4 DEF AuthCreateUser
<1>2. ASSUME NEW r \in Request, AuthInsert(r) \/ LinkInsert(r) PROVE TypeOK'
  <2>1. /\ req[r].user \in User /\ req[r].provider \in Provider
        /\ req[r].account \in Account
    BY <1>2 DEF AuthInsert, LinkInsert, RequestsOK, RequestOK
  <2>2. identity' \in [Identity -> IdentityRow \cup {NoIdentity}]
    BY <1>2, <2>1, InsertType DEF AuthInsert, LinkInsert
  <2>3. req' \in [Request -> RequestState]
    BY <1>2, MoveType DEF AuthInsert, LinkInsert, Labels
  <2>4. QED
    BY <1>2, <2>2, <2>3 DEF AuthInsert, LinkInsert
<1>3. ASSUME NEW r \in Request, AuthWelcome(r) PROVE TypeOK'
  <2>1. req[r].user \in User
    BY <1>3 DEF AuthWelcome, RequestsOK, RequestOK
  <2>2. welcomed' \in [User -> Nat]
    BY <1>3, <2>1 DEF AuthWelcome
  <2>3. req' \in [Request -> RequestState]
    BY <1>3, MoveType DEF AuthWelcome
  <2>4. QED
    BY <1>3, <2>2, <2>3 DEF AuthWelcome
<1>4. ASSUME NEW r \in Request, LinkFindAccount(r) PROVE TypeOK'
  <2>1. req[r].provider \in Provider /\ req[r].account \in Account
    BY <1>4 DEF LinkFindAccount, RequestsOK, RequestOK
  <2>2. PICK i \in Answers([provider |-> req[r].provider, account |-> req[r].account],
                           AccountRows(req[r].provider, req[r].account)) :
          /\ Remember(r, [provider |-> req[r].provider, account |-> req[r].account], i,
                      AccountRows(req[r].provider, req[r].account))
          /\ IF i = NoIdentity THEN Goto(r, "linkInsert") ELSE Finish(r)
    BY <1>4 DEF LinkFindAccount
  <2>3. i \in Identity \cup {NoIdentity}
    BY <2>1, <2>2, ReadType
  <2>4. req' \in [Request -> RequestState]
    BY <2>2, MoveType DEF Labels
  <2>5. /\ cache' \in [Query -> SUBSET (Identity \cup {NoIdentity} \cup Nat)]
        /\ mishap' \subseteq {"overlap", "stale"}
    BY <2>2, <2>3 DEF Remember
  <2>6. UNCHANGED <<user, identity, welcomed>>
    BY <1>4 DEF LinkFindAccount
  <2>7. QED
    BY <2>4, <2>5, <2>6
<1>5. ASSUME NEW r \in Request, UnlinkFindUser(r) \/ Abort(r) PROVE TypeOK'
  <2>1. req' \in [Request -> RequestState]
    BY <1>5, MoveType DEF UnlinkFindUser, Abort, Labels
  <2>2. QED
    BY <1>5, <2>1 DEF UnlinkFindUser, Abort
<1>6. ASSUME NEW r \in Request, UnlinkCount(r) PROVE TypeOK'
  <2>1. PICK n \in Answers([count |-> req[r].user], {Cardinality(IdentitiesOf(req[r].user))}) :
          /\ Remember(r, [count |-> req[r].user], n, {Cardinality(IdentitiesOf(req[r].user))})
          /\ IF MayUnlink(req[r].user, n) THEN Goto(r, "delete") ELSE Finish(r)
    BY <1>6 DEF UnlinkCount
  <2>2. req[r].user \in User
    BY <1>6 DEF UnlinkCount, RequestsOK, RequestOK
  <2>3. [count |-> req[r].user] \in Query
    BY <2>2 DEF Query, CountQuery
  <2>4. n \in Identity \cup {NoIdentity} \cup Nat
    BY <2>1, <2>3, CountType DEF Answers
  <2>5. req' \in [Request -> RequestState]
    BY <2>1, MoveType DEF Labels
  <2>6. /\ cache' \in [Query -> SUBSET (Identity \cup {NoIdentity} \cup Nat)]
        /\ mishap' \subseteq {"overlap", "stale"}
    BY <2>1, <2>4 DEF Remember
  <2>7. UNCHANGED <<user, identity, welcomed>>
    BY <1>6 DEF UnlinkCount
  <2>8. QED
    BY <2>5, <2>6, <2>7
<1>7. ASSUME NEW r \in Request, UnlinkDelete(r) PROVE TypeOK'
  <2>1. req' \in [Request -> RequestState]
    BY <1>7, MoveType DEF UnlinkDelete
  <2>2. QED
    BY <1>7, <2>1, DeleteType DEF UnlinkDelete
<1>8. ASSUME NEW r \in Request, NEW u \in User, AuthFindEmail(r, u) PROVE TypeOK'
  <2>1. DEFINE label == IF user[u].state = "present" THEN "authInsert" ELSE "create"
  <2>2. [req[r] EXCEPT !.user = u, !.pc = label] \in RequestState
    BY RequestFields DEF RequestState
  <2>3. req' = [req EXCEPT ![r] = [req[r] EXCEPT !.user = u, !.pc = label]]
    BY <1>8 DEF AuthFindEmail
  <2>4. QED
    BY <1>8, <2>2, <2>3 DEF AuthFindEmail
<1>9. ASSUME NEW r \in Request, NEW p \in Provider, NEW a \in Account, AuthFind(r, p, a)
      PROVE  TypeOK'
  <2>1. PICK i \in Answers([provider |-> p, account |-> a], AccountRows(p, a)) :
          /\ Remember(r, [provider |-> p, account |-> a], i, AccountRows(p, a))
          /\ IF i = NoIdentity THEN Begin(r, "email", NoUser, p, a, NoIdentity)
             ELSE UNCHANGED req
    BY <1>9 DEF AuthFind
  <2>2. i \in Identity \cup {NoIdentity}
    BY <2>1, ReadType
  <2>3. req' \in [Request -> RequestState]
    BY <2>1, BeginType DEF Labels
  <2>4. /\ cache' \in [Query -> SUBSET (Identity \cup {NoIdentity} \cup Nat)]
        /\ mishap' \subseteq {"overlap", "stale"}
    BY <2>1, <2>2 DEF Remember
  <2>5. UNCHANGED <<user, identity, welcomed>>
    BY <1>9 DEF AuthFind
  <2>6. QED
    BY <2>3, <2>4, <2>5
<1>10. ASSUME NEW r \in Request, NEW u \in User, NEW p \in Provider, NEW a \in Account,
              LinkFind(r, u, p, a)
       PROVE  TypeOK'
  <2>1. PICK i \in Answers([user |-> u, provider |-> p], OwnRows(u, p)) :
          /\ Remember(r, [user |-> u, provider |-> p], i, OwnRows(u, p))
          /\ IF i = NoIdentity THEN Begin(r, "account", u, p, a, NoIdentity)
             ELSE UNCHANGED req
    BY <1>10 DEF LinkFind
  <2>2. i \in Identity \cup {NoIdentity}
    BY <2>1, ReadType
  <2>3. req' \in [Request -> RequestState]
    BY <2>1, BeginType DEF Labels
  <2>4. /\ cache' \in [Query -> SUBSET (Identity \cup {NoIdentity} \cup Nat)]
        /\ mishap' \subseteq {"overlap", "stale"}
    BY <2>1, <2>2 DEF Remember
  <2>5. UNCHANGED <<user, identity, welcomed>>
    BY <1>10 DEF LinkFind
  <2>6. QED
    BY <2>3, <2>4, <2>5
<1>11. ASSUME NEW r \in Request, NEW u \in User, NEW p \in Provider, UnlinkFind(r, u, p)
       PROVE  TypeOK'
  <2>1. PICK i \in Answers([user |-> u, provider |-> p], OwnRows(u, p)) :
          /\ Remember(r, [user |-> u, provider |-> p], i, OwnRows(u, p))
          /\ IF i = NoIdentity THEN UNCHANGED req
             ELSE Begin(r, "user", u, p, NoAccount, i)
    BY <1>11 DEF UnlinkFind
  <2>2. i \in Identity \cup {NoIdentity}
    BY <2>1, ReadType
  <2>3. req' \in [Request -> RequestState]
    BY <2>1, <2>2, BeginType DEF Labels
  <2>4. /\ cache' \in [Query -> SUBSET (Identity \cup {NoIdentity} \cup Nat)]
        /\ mishap' \subseteq {"overlap", "stale"}
    BY <2>1, <2>2 DEF Remember
  <2>5. UNCHANGED <<user, identity, welcomed>>
    BY <1>11 DEF UnlinkFind
  <2>6. QED
    BY <2>3, <2>4, <2>5
<1>12. ASSUME NEW q \in Query, CacheExpires(q) PROVE TypeOK'
  BY <1>12 DEF CacheExpires
<1>13. ASSUME NEW u \in User, DeleteUser(u) PROVE TypeOK'
  BY <1>13 DEF DeleteUser, UserRow
<1>14. QED
  BY <1>1, <1>2, <1>3, <1>4, <1>5, <1>6, <1>7, <1>8, <1>9, <1>10, <1>11, <1>12, <1>13
     DEF Next, AuthStep, LinkStep, UnlinkStep
----------------------------------------------------------------------------
\* A row keeps its user, and stays in the table.
Grown == \A i \in Inserted : i \in Inserted' /\ identity'[i].user = identity[i].user

LEMMA GrowStep ==
  ASSUME TypeOK, RequestsOK, Next
  PROVE  Grown
<1>1. ASSUME UNCHANGED identity PROVE Grown
  BY <1>1 DEF Grown, Inserted
<1>2. ASSUME NEW r \in Request, AuthInsert(r) \/ LinkInsert(r) PROVE Grown
  <2>1. /\ req[r].user \in User /\ req[r].provider \in Provider
        /\ req[r].account \in Account
    BY <1>2 DEF AuthInsert, LinkInsert, RequestsOK, RequestOK
  <2>2. CASE Insert(r)
    BY <2>1, <2>2, InsertType DEF Grown, Inserted
  <2>3. QED
    BY <1>1, <1>2, <2>2 DEF AuthInsert, LinkInsert
<1>3. ASSUME NEW r \in Request, UnlinkDelete(r) PROVE Grown
  <2>1. DEFINE gone == [identity[req[r].id] EXCEPT !.live = FALSE]
  <2>2. /\ req[r].id \in Inserted /\ gone \in IdentityRow
        /\ identity' = [identity EXCEPT ![req[r].id] = gone]
    BY <1>3, DeleteType DEF UnlinkDelete, TypeOK, Inserted
  <2>3. gone # NoIdentity
    BY <2>2, OAuthConstants
  <2>4. gone.user = identity[req[r].id].user
    BY <2>2, RowsOf DEF IdentityRow
  <2>5. QED
    BY <2>2, <2>3, <2>4 DEF Grown, Inserted, TypeOK
<1>4. QED
  BY <1>1, <1>2, <1>3
     DEF Next, AuthStep, LinkStep, UnlinkStep, AuthCreateUser, AuthWelcome, LinkFindAccount,
         UnlinkFindUser, UnlinkCount, Abort, AuthFindEmail, AuthFind, LinkFind, UnlinkFind,
         CacheExpires, DeleteUser

----------------------------------------------------------------------------
\* A request whose record a step leaves alone keeps what it has.
LEMMA OthersOK ==
  ASSUME RequestsOK, Grown, NEW s \in Request, req'[s] = req[s]
  PROVE  RequestOK(s)'
BY DEF RequestsOK, RequestOK, Grown

\* Requests go on with the parameters they need.
LEMMA RequestStep ==
  ASSUME TypeOK, RequestsOK, CacheOK, Next
  PROVE  RequestsOK'
<1>0. Grown
  BY GrowStep
<1>1. ASSUME NEW r \in Request, req' = [req EXCEPT ![r] = req'[r]], RequestOK(r)'
      PROVE  RequestsOK'
  <2>1. ASSUME NEW s \in Request, s # r PROVE req'[s] = req[s]
    BY <1>1, <2>1 DEF TypeOK
  <2>2. QED
    BY <1>0, <1>1, <2>1, OthersOK DEF RequestsOK
<1>2. ASSUME UNCHANGED req PROVE RequestsOK'
  BY <1>0, <1>2, OthersOK DEF RequestsOK
<1>3. ASSUME NEW r \in Request, Finish(r) PROVE RequestsOK'
  <2>1. req'[r] = Idle /\ req' = [req EXCEPT ![r] = req'[r]]
    BY <1>3 DEF Finish, TypeOK
  <2>2. RequestOK(r)'
    BY <2>1 DEF RequestOK, Idle
  <2>3. QED
    BY <1>1, <2>1, <2>2
<1>4. ASSUME NEW r \in Request, NEW label \in Labels, Goto(r, label),
             \/ req[r].pc = "account" /\ label = "linkInsert"
             \/ req[r].pc = "user" /\ label = "count"
             \/ req[r].pc = "count" /\ label = "delete"
             \/ req[r].pc = "authInsert" /\ label = "welcome"
      PROVE  RequestsOK'
  <2>1. /\ req' = [req EXCEPT ![r] = req'[r]]
        /\ req'[r] = [req[r] EXCEPT !.pc = label]
    BY <1>4 DEF Goto, TypeOK
  <2>2. /\ req'[r].pc = label /\ req'[r].user = req[r].user
        /\ req'[r].provider = req[r].provider /\ req'[r].account = req[r].account
        /\ req'[r].id = req[r].id /\ req'[r].begun = req[r].begun
    BY <2>1, RequestFields DEF RequestState
  <2>3. RequestOK(r)'
    BY <1>0, <1>4, <2>2 DEF RequestOK, RequestsOK, Grown
  <2>4. QED
    BY <1>1, <2>1, <2>3
<1>5. ASSUME NEW r \in Request, NEW label, NEW u, NEW p \in Provider, NEW a, NEW i,
             Begin(r, label, u, p, a, i),
             \/ label = "email" /\ a \in Account
             \/ label = "account" /\ u \in User /\ a \in Account
             \/ label = "user" /\ u \in User /\ i \in Inserted
      PROVE  RequestsOK'
  <2>1. /\ req' = [req EXCEPT ![r] = req'[r]]
        /\ req'[r] = [pc |-> label, user |-> u, provider |-> p, account |-> a,
                      id |-> i, welcome |-> FALSE, begun |-> Inserted]
    BY <1>5 DEF Begin, TypeOK
  <2>2. RequestOK(r)'
    BY <1>0, <1>5, <2>1 DEF RequestOK, Grown
  <2>3. QED
    BY <1>1, <2>1, <2>2
<1>6. ASSUME NEW r \in Request, AuthCreateUser(r) PROVE RequestsOK'
  <2>1. CASE user[req[r].user].state = "none"
    <3>1. /\ req' = [req EXCEPT ![r] = req'[r]]
          /\ req'[r] = [req[r] EXCEPT !.welcome = TRUE, !.pc = "authInsert"]
      BY <1>6, <2>1 DEF AuthCreateUser, TypeOK
    <3>2. /\ req'[r].pc = "authInsert" /\ req'[r].user = req[r].user
          /\ req'[r].provider = req[r].provider /\ req'[r].account = req[r].account
      BY <3>1, RequestFields DEF RequestState
    <3>3. RequestOK(r)'
      BY <1>6, <3>2 DEF RequestOK, RequestsOK, AuthCreateUser
    <3>4. QED
      BY <1>1, <3>1, <3>3
  <2>2. QED
    BY <1>3, <1>6, <2>1 DEF AuthCreateUser
<1>7. ASSUME NEW r \in Request, NEW u \in User, AuthFindEmail(r, u) PROVE RequestsOK'
  <2>1. DEFINE label == IF user[u].state = "present" THEN "authInsert" ELSE "create"
  <2>2. /\ req' = [req EXCEPT ![r] = req'[r]]
        /\ req'[r] = [req[r] EXCEPT !.user = u, !.pc = label]
    BY <1>7 DEF AuthFindEmail, TypeOK
  <2>3. /\ req'[r].pc \in {"authInsert", "create"} /\ req'[r].user = u
        /\ req'[r].provider = req[r].provider /\ req'[r].account = req[r].account
    BY <2>2, RequestFields DEF RequestState
  <2>4. RequestOK(r)'
    BY <1>7, <2>3 DEF RequestOK, RequestsOK, AuthFindEmail
  <2>5. QED
    BY <1>1, <2>2, <2>4
<1>8. ASSUME NEW r \in Request, AuthInsert(r) \/ LinkInsert(r) \/ AuthWelcome(r) \/ UnlinkDelete(r)
                                \/ Abort(r) \/ UnlinkFindUser(r)
      PROVE  RequestsOK'
  BY <1>3, <1>4, <1>8
     DEF AuthInsert, LinkInsert, AuthWelcome, UnlinkDelete, Abort, UnlinkFindUser, Labels
<1>9. ASSUME NEW r \in Request, LinkFindAccount(r) \/ UnlinkCount(r) PROVE RequestsOK'
  <2>1. \/ Finish(r)
        \/ req[r].pc = "account" /\ Goto(r, "linkInsert")
        \/ req[r].pc = "count" /\ Goto(r, "delete")
    BY <1>9 DEF LinkFindAccount, UnlinkCount
  <2>2. QED
    BY <1>3, <1>4, <2>1 DEF Labels
<1>10. ASSUME NEW r \in Request, NEW p \in Provider, NEW a \in Account, AuthFind(r, p, a)
       PROVE  RequestsOK'
  <2>1. Begin(r, "email", NoUser, p, a, NoIdentity) \/ UNCHANGED req
    BY <1>10 DEF AuthFind
  <2>2. QED
    BY <1>2, <1>5, <2>1
<1>11. ASSUME NEW r \in Request, NEW u \in User, NEW p \in Provider, NEW a \in Account,
              LinkFind(r, u, p, a)
       PROVE  RequestsOK'
  <2>1. Begin(r, "account", u, p, a, NoIdentity) \/ UNCHANGED req
    BY <1>11 DEF LinkFind
  <2>2. QED
    BY <1>2, <1>5, <2>1
<1>12. ASSUME NEW r \in Request, NEW u \in User, NEW p \in Provider, UnlinkFind(r, u, p)
       PROVE  RequestsOK'
  <2>1. \/ UNCHANGED req
        \/ \E i \in Answers([user |-> u, provider |-> p], OwnRows(u, p)) \ {NoIdentity} :
              Begin(r, "user", u, p, NoAccount, i)
    BY <1>12 DEF UnlinkFind
  <2>2. \A i \in Answers([user |-> u, provider |-> p], OwnRows(u, p)) \ {NoIdentity} :
           i \in Inserted
    BY ReadType
  <2>3. QED
    BY <1>2, <1>5, <2>1, <2>2
<1>13. QED
  <2>1. ASSUME \/ \E q \in Query : CacheExpires(q)
               \/ \E u \in User : DeleteUser(u)
        PROVE  RequestsOK'
    BY <1>2, <2>1 DEF CacheExpires, DeleteUser
  <2>2. QED
    BY <1>6, <1>7, <1>8, <1>9, <1>10, <1>11, <1>12, <2>1
       DEF Next, AuthStep, LinkStep, UnlinkStep
----------------------------------------------------------------------------
\* The key of a count is no key of a row.
LEMMA KeysDiffer ==
  ASSUME NEW q \in OwnQuery \cup AccountQuery, NEW u
  PROVE  q # [count |-> u]
<1>1. DOMAIN q \in {{"user", "provider"}, {"provider", "account"}}
  BY DEF OwnQuery, AccountQuery
<1>2. DOMAIN [count |-> u] = {"count"}
  OBVIOUS
<1>3. "user" \notin {"count"} /\ "provider" \notin {"count"}
  OBVIOUS
<1>4. QED
  BY <1>1, <1>2, <1>3

\* What was cached stays an answer the table has given, or could give.
LEMMA CacheStep ==
  ASSUME TypeOK, RequestsOK, CacheOK, Next
  PROVE  CacheOK'
<1>0. Inserted \subseteq Inserted'
  BY GrowStep DEF Grown
<1> DEFINE Keys == OwnQuery \cup AccountQuery
<1>1. Keys \subseteq Query
  BY DEF Query
<1>2. ASSUME UNCHANGED cache PROVE CacheOK'
  BY <1>0, <1>2 DEF CacheOK
<1>3. ASSUME NEW r, NEW k, NEW answer, NEW fresh, Remember(r, k, answer, fresh),
             k \notin Keys \/ answer \in Inserted \cup {NoIdentity}
      PROVE  CacheOK'
  <2>1. ASSUME NEW q \in Keys PROVE cache'[q] \subseteq Inserted' \cup {NoIdentity}
    <3>1. CASE Cached /\ q = k
      <4>1. cache'[q] = {answer}
        BY <1>1, <1>3, <3>1 DEF Remember, TypeOK
      <4>2. QED
        BY <1>0, <1>3, <3>1, <4>1
    <3>2. CASE ~(Cached /\ q = k)
      <4>1. cache'[q] = cache[q]
        BY <1>1, <1>3, <3>2 DEF Remember, TypeOK
      <4>2. QED
        BY <1>0, <4>1 DEF CacheOK
    <3>3. QED
      BY <3>1, <3>2
  <2>2. QED
    BY <2>1 DEF CacheOK
<1>4. ASSUME NEW r \in Request, LinkFindAccount(r) PROVE CacheOK'
  <2>1. req[r].provider \in Provider /\ req[r].account \in Account
    BY <1>4 DEF LinkFindAccount, RequestsOK, RequestOK
  <2>2. QED
    BY <1>3, <1>4, <2>1, ReadType DEF LinkFindAccount
<1>5. ASSUME NEW r \in Request, UnlinkCount(r) PROVE CacheOK'
  <2>1. [count |-> req[r].user] \notin Keys
    BY KeysDiffer
  <2>2. QED
    BY <1>3, <1>5, <2>1 DEF UnlinkCount
<1>6. ASSUME NEW r \in Request, NEW p \in Provider, NEW a \in Account, AuthFind(r, p, a)
      PROVE  CacheOK'
  BY <1>3, <1>6, ReadType DEF AuthFind
<1>7. ASSUME NEW r \in Request, NEW u \in User, NEW p \in Provider, NEW a \in Account,
             LinkFind(r, u, p, a)
      PROVE  CacheOK'
  BY <1>3, <1>7, ReadType DEF LinkFind
<1>8. ASSUME NEW r \in Request, NEW u \in User, NEW p \in Provider, UnlinkFind(r, u, p)
      PROVE  CacheOK'
  BY <1>3, <1>8, ReadType DEF UnlinkFind
<1>9. ASSUME NEW k \in Query, CacheExpires(k) PROVE CacheOK'
  <2>1. ASSUME NEW q \in Keys PROVE cache'[q] \subseteq cache[q]
    BY <1>1, <1>9 DEF CacheExpires, TypeOK
  <2>2. QED
    BY <1>0, <2>1 DEF CacheOK
<1>10. QED
  BY <1>2, <1>4, <1>5, <1>6, <1>7, <1>8, <1>9
     DEF Next, AuthStep, LinkStep, UnlinkStep, AuthCreateUser, AuthInsert, AuthWelcome,
         LinkInsert, UnlinkFindUser, UnlinkDelete, Abort, AuthFindEmail, DeleteUser

----------------------------------------------------------------------------
\* A row that a user has had stays theirs.
LEMMA HasIdentityStays ==
  ASSUME Grown, NEW u, HasIdentity(u)
  PROVE  HasIdentity(u)'
BY DEF HasIdentity, Grown

\* A step that sends no welcome, and gives the turn to nobody, takes nothing
\* from those who have theirs.
LEMMA WelcomeKept ==
  ASSUME TypeOK, WelcomeOK, Grown, UNCHANGED welcomed,
         \A r \in Request : req[r].welcome => req[r].user \in User,
         \A u \in User : user[u].state # "none" => user'[u].state # "none",
         \A r \in Request :
            \/ req'[r] = req[r]
            \/ ~req'[r].welcome /\ req'[r].pc # "welcome"
  PROVE  WelcomeOK'
<1>1. ASSUME NEW r \in Request, req'[r].pc = "welcome"
      PROVE  req'[r].welcome /\ HasIdentity(req[r].user)' /\ req'[r].user = req[r].user
  BY <1>1, HasIdentityStays DEF WelcomeOK
<1>2. ASSUME NEW r \in Request, req'[r].welcome
      PROVE  /\ req'[r].pc \in {"authInsert", "welcome"}
             /\ user'[req'[r].user].state # "none"
             /\ welcomed'[req'[r].user] = 0
             /\ \A s \in Request \ {r} : req'[s].welcome => req'[s].user # req'[r].user
  BY <1>2 DEF WelcomeOK
<1>3. ASSUME NEW u \in User, welcomed'[u] # 0
      PROVE  welcomed'[u] = 1 /\ user'[u].state # "none" /\ HasIdentity(u)'
  BY <1>3, HasIdentityStays DEF WelcomeOK
<1>4. ASSUME NEW r \in Request, req'[r].pc = "welcome" PROVE HasIdentity(req[r].user)'
  BY <1>1, <1>4
<1>5. QED
  BY <1>1, <1>2, <1>3 DEF WelcomeOK, HasIdentity
\* A user's welcome goes to whoever created the row; sending it is the end of it.
LEMMA WelcomeStep ==
  ASSUME TypeOK, RequestsOK, CacheOK, WelcomeOK, Next
  PROVE  WelcomeOK'
<1>0. Grown
  BY GrowStep
<1>1. \A r \in Request : req[r].welcome => req[r].user \in User
  BY DEF WelcomeOK, RequestsOK, RequestOK
<1>2. ASSUME NEW r \in Request, UNCHANGED <<user, welcomed>>,
             \/ UNCHANGED req
             \/ Finish(r)
             \/ \E label \in Labels \ {"welcome"} :
                   Goto(r, label) /\ req[r].pc \notin {"authInsert", "welcome"}
             \/ \E label \in Labels \ {"welcome"} :
                   \E u, p, a, i : Begin(r, label, u, p, a, i)
      PROVE  WelcomeOK'
  <2>1. ASSUME NEW s \in Request
        PROVE  \/ req'[s] = req[s]
               \/ ~req'[s].welcome /\ req'[s].pc # "welcome"
    <3>1. CASE UNCHANGED req
      BY <3>1
    <3>2. CASE Finish(r)
      BY <3>2 DEF Finish, Idle, TypeOK
    <3>3. ASSUME NEW label \in Labels \ {"welcome"}, Goto(r, label),
                 req[r].pc \notin {"authInsert", "welcome"}
          PROVE  \/ req'[s] = req[s]
                 \/ ~req'[s].welcome /\ req'[s].pc # "welcome"
      <4>1. ~req[r].welcome
        BY <3>3 DEF WelcomeOK
      <4>2. req' = [req EXCEPT ![r] = [req[r] EXCEPT !.pc = label]]
        BY <3>3 DEF Goto, TypeOK
      <4>3. [req[r] EXCEPT !.pc = label].welcome = req[r].welcome
            /\ [req[r] EXCEPT !.pc = label].pc = label
        BY RequestFields DEF RequestState
      <4>4. QED
        BY <4>1, <4>2, <4>3 DEF TypeOK
    <3>4. ASSUME NEW label \in Labels \ {"welcome"}, NEW u, NEW p, NEW a, NEW i,
                 Begin(r, label, u, p, a, i)
          PROVE  \/ req'[s] = req[s]
                 \/ ~req'[s].welcome /\ req'[s].pc # "welcome"
      BY <3>4 DEF Begin, TypeOK
    <3>5. QED
      BY <1>2, <3>1, <3>2, <3>3, <3>4
  <2>2. QED
    BY <1>0, <1>1, <1>2, <2>1, WelcomeKept
<1>3. ASSUME NEW r \in Request, AuthCreateUser(r) PROVE WelcomeOK'
  <2>1. CASE user[req[r].user].state # "none"
    BY <1>2, <1>3, <2>1 DEF AuthCreateUser
  <2>2. CASE user[req[r].user].state = "none"
    <3>1. req[r].user \in User
      BY <1>3 DEF AuthCreateUser, RequestsOK, RequestOK
    <3>2. /\ req' = [req EXCEPT ![r] = [req[r] EXCEPT !.welcome = TRUE, !.pc = "authInsert"]]
          /\ user' = [user EXCEPT ![req[r].user].state = "present"]
          /\ UNCHANGED <<identity, welcomed>>
      BY <1>3, <2>2 DEF AuthCreateUser, TypeOK
    <3>3. req'[r].pc = "authInsert" /\ req'[r].user = req[r].user
      BY <3>2, RequestFields DEF RequestState, TypeOK
    <3>4. \A s \in Request \ {r} : req'[s] = req[s]
      BY <3>2 DEF TypeOK
    <3>5. \A u \in User : user'[u].state # "none" <=> user[u].state # "none" \/ u = req[r].user
      BY <2>2, <3>1, <3>2 DEF TypeOK, UserRow
    <3>6. welcomed[req[r].user] = 0
      BY <2>2, <3>1 DEF WelcomeOK
    <3>7. \A s \in Request \ {r} : req[s].welcome => req[s].user # req[r].user
      BY <2>2 DEF WelcomeOK
    <3>8. \A u \in User : HasIdentity(u) => HasIdentity(u)'
      BY <1>0, HasIdentityStays
    <3>9. \A s \in Request : req'[s].pc = "welcome" =>
             req'[s].welcome /\ \E i \in Inserted' : identity'[i].user = req'[s].user
      BY <1>0, <3>3, <3>4 DEF WelcomeOK, HasIdentity, Grown
    <3>10. \A s \in Request : req'[s].welcome =>
              /\ req'[s].pc \in {"authInsert", "welcome"}
              /\ user'[req'[s].user].state # "none"
              /\ welcomed'[req'[s].user] = 0
              /\ \A t \in Request \ {s} : req'[t].welcome => req'[t].user # req'[s].user
      <4>1. ASSUME NEW s \in Request, req'[s].welcome
            PROVE  /\ req'[s].pc \in {"authInsert", "welcome"}
                   /\ req'[s].user \in User
                   /\ user'[req'[s].user].state # "none"
                   /\ welcomed'[req'[s].user] = 0
        <5>1. CASE s = r
          BY <3>1, <3>2, <3>3, <3>5, <3>6, <5>1
        <5>2. CASE s # r
          BY <1>1, <3>2, <3>4, <3>5, <4>1, <5>2 DEF WelcomeOK
        <5>3. QED
          BY <5>1, <5>2
      <4>2. ASSUME NEW s \in Request, req'[s].welcome, NEW t \in Request \ {s}, req'[t].welcome
            PROVE  req'[t].user # req'[s].user
        BY <3>3, <3>4, <3>7, <4>2 DEF WelcomeOK
      <4>3. QED
        BY <4>1, <4>2
    <3>11. \A u \in User : welcomed'[u] # 0 =>
              welcomed'[u] = 1 /\ user'[u].state # "none" /\ HasIdentity(u)'
      BY <3>2, <3>5, <3>8 DEF WelcomeOK
    <3>12. QED
      BY <3>9, <3>10, <3>11 DEF WelcomeOK, HasIdentity
  <2>3. QED
    BY <2>1, <2>2
<1>4. ASSUME NEW r \in Request, AuthInsert(r) PROVE WelcomeOK'
  <2>1. CASE Finish(r)
    BY <1>2, <1>4, <2>1 DEF AuthInsert
  <2>2. CASE Insert(r) /\ req[r].welcome /\ Goto(r, "welcome")
    <3>1. /\ req' = [req EXCEPT ![r] = [req[r] EXCEPT !.pc = "welcome"]]
          /\ UNCHANGED <<user, welcomed>>
      BY <1>4, <2>2 DEF AuthInsert, Goto, TypeOK
    <3>2. req'[r].pc = "welcome" /\ req'[r].user = req[r].user
          /\ req'[r].welcome = req[r].welcome
      BY <3>1, RequestFields DEF RequestState, TypeOK
    <3>3. \A s \in Request \ {r} : req'[s] = req[s]
      BY <3>1 DEF TypeOK
    <3>4. \E i \in Inserted' : identity'[i].user = req[r].user
      BY <1>4, <2>2, InsertType DEF AuthInsert, RequestsOK, RequestOK
    <3>5. \A s \in Request : req'[s].user = req[s].user /\ req'[s].welcome = req[s].welcome
      BY <3>2, <3>3
    <3>6. \A s \in Request : req'[s].pc = "welcome" =>
             req'[s].welcome /\ \E i \in Inserted' : identity'[i].user = req'[s].user
      <4>1. ASSUME NEW s \in Request \ {r}, req'[s].pc = "welcome"
            PROVE  req[s].welcome /\ HasIdentity(req[s].user)
        BY <3>3, <4>1 DEF WelcomeOK
      <4>2. ASSUME NEW s \in Request \ {r}, req'[s].pc = "welcome"
            PROVE  \E i \in Inserted' : identity'[i].user = req[s].user
        BY <1>0, <4>1, <4>2 DEF HasIdentity, Grown
      <4>3. QED
        BY <2>2, <3>4, <3>5, <4>1, <4>2
    <3>7. \A s \in Request : req'[s].welcome => req'[s].pc \in {"authInsert", "welcome"}
      BY <3>2, <3>3 DEF WelcomeOK
    <3>8. \A s \in Request : req'[s].welcome =>
             /\ user'[req'[s].user].state # "none"
             /\ welcomed'[req'[s].user] = 0
             /\ \A t \in Request \ {s} : req'[t].welcome => req'[t].user # req'[s].user
      BY <3>1, <3>5 DEF WelcomeOK
    <3>9. \A u \in User : welcomed'[u] # 0 =>
             welcomed'[u] = 1 /\ user'[u].state # "none" /\ HasIdentity(u)'
      BY <1>0, <3>1, HasIdentityStays DEF WelcomeOK
    <3>10. QED
      BY <3>6, <3>7, <3>8, <3>9 DEF WelcomeOK, HasIdentity
  <2>3. QED
    BY <1>4, <2>1, <2>2 DEF AuthInsert
<1>5. ASSUME NEW r \in Request, AuthWelcome(r) PROVE WelcomeOK'
  <2>1. req[r].user \in User /\ req[r].welcome /\ HasIdentity(req[r].user)
    BY <1>1, <1>5 DEF AuthWelcome, WelcomeOK
  <2>2. /\ welcomed' = [welcomed EXCEPT ![req[r].user] = @ + 1]
        /\ req' = [req EXCEPT ![r] = Idle]
        /\ UNCHANGED <<user, identity>>
    BY <1>5 DEF AuthWelcome, Finish
  <2>3. welcomed'[req[r].user] = 1 /\ \A u \in User \ {req[r].user} : welcomed'[u] = welcomed[u]
    BY <2>1, <2>2 DEF TypeOK, WelcomeOK
  <2>4. req'[r] = Idle /\ \A s \in Request \ {r} : req'[s] = req[s]
    BY <2>2 DEF TypeOK
  <2>5. \A s \in Request : req'[s].pc = "welcome" =>
           req'[s].welcome /\ \E i \in Inserted' : identity'[i].user = req'[s].user
    BY <2>2, <2>4 DEF WelcomeOK, HasIdentity, Idle, Inserted
  <2>6. \A s \in Request : req'[s].welcome =>
           /\ req'[s].pc \in {"authInsert", "welcome"}
           /\ user'[req'[s].user].state # "none"
           /\ welcomed'[req'[s].user] = 0
           /\ \A t \in Request \ {s} : req'[t].welcome => req'[t].user # req'[s].user
    <3>1. ASSUME NEW s \in Request, req'[s].welcome
          PROVE  s # r /\ req'[s] = req[s] /\ req[s].user \in User \ {req[r].user}
      BY <1>1, <2>1, <2>4, <3>1 DEF Idle, WelcomeOK
    <3>2. QED
      BY <2>2, <2>3, <2>4, <3>1 DEF WelcomeOK
  <2>7. \A u \in User : welcomed'[u] # 0 =>
           welcomed'[u] = 1 /\ user'[u].state # "none" /\ HasIdentity(u)'
    <3>1. \A u \in User : HasIdentity(u) => HasIdentity(u)'
      BY <1>0, HasIdentityStays
    <3>2. QED
      BY <2>1, <2>2, <2>3, <3>1 DEF WelcomeOK
  <2>8. QED
    BY <2>5, <2>6, <2>7 DEF WelcomeOK, HasIdentity
<1>6. ASSUME NEW r \in Request, NEW u \in User, AuthFindEmail(r, u) PROVE WelcomeOK'
  <2>1. DEFINE label == IF user[u].state = "present" THEN "authInsert" ELSE "create"
  <2>2. /\ req' = [req EXCEPT ![r] = [req[r] EXCEPT !.user = u, !.pc = label]]
        /\ UNCHANGED <<user, welcomed>>
    BY <1>6 DEF AuthFindEmail
  <2>3. ~req[r].welcome
    BY <1>6 DEF AuthFindEmail, WelcomeOK
  <2>4. /\ [req[r] EXCEPT !.user = u, !.pc = label].welcome = req[r].welcome
        /\ [req[r] EXCEPT !.user = u, !.pc = label].pc # "welcome"
    BY RequestFields DEF RequestState
  <2>5. \A s \in Request :
           \/ req'[s] = req[s]
           \/ ~req'[s].welcome /\ req'[s].pc # "welcome"
    BY <2>2, <2>3, <2>4 DEF TypeOK
  <2>6. QED
    BY <1>0, <1>1, <2>2, <2>5, WelcomeKept
<1>7. ASSUME NEW r \in Request,
             \/ LinkFindAccount(r) \/ LinkInsert(r)
             \/ UnlinkFindUser(r) \/ UnlinkCount(r) \/ UnlinkDelete(r) \/ Abort(r)
      PROVE  WelcomeOK'
  <2>1. "linkInsert" \in Labels \ {"welcome"} /\ "count" \in Labels \ {"welcome"}
        /\ "delete" \in Labels \ {"welcome"}
    BY DEF Labels
  <2>2. UNCHANGED <<user, welcomed>>
    BY <1>7 DEF LinkFindAccount, LinkInsert, UnlinkFindUser, UnlinkCount, UnlinkDelete, Abort
  <2>3. \/ Finish(r)
        \/ \E label \in Labels \ {"welcome"} :
              Goto(r, label) /\ req[r].pc \notin {"authInsert", "welcome"}
    BY <1>7, <2>1
       DEF LinkFindAccount, LinkInsert, UnlinkFindUser, UnlinkCount, UnlinkDelete, Abort
  <2>4. QED
    BY <1>2, <2>2, <2>3
<1>8. ASSUME NEW r \in Request, NEW u \in User, NEW p \in Provider,
             \/ UnlinkFind(r, u, p)
             \/ \E a \in Account : LinkFind(r, u, p, a)
      PROVE  WelcomeOK'
  <2>1. "account" \in Labels \ {"welcome"} /\ "user" \in Labels \ {"welcome"}
    BY DEF Labels
  <2>2. UNCHANGED <<user, welcomed>>
    BY <1>8 DEF UnlinkFind, LinkFind
  <2>3. \/ UNCHANGED req
        \/ \E label \in Labels \ {"welcome"} :
              \E v, q, a, i : Begin(r, label, v, q, a, i)
    BY <1>8, <2>1 DEF UnlinkFind, LinkFind
  <2>4. QED
    BY <1>2, <2>2, <2>3
<1>9. ASSUME NEW q \in Query, CacheExpires(q) PROVE WelcomeOK'
  BY <1>0, <1>1, <1>9, WelcomeKept DEF CacheExpires
<1>10. ASSUME NEW u \in User, DeleteUser(u) PROVE WelcomeOK'
  <2>1. \A v \in User : user[v].state # "none" => user'[v].state # "none"
    BY <1>10 DEF DeleteUser, TypeOK, UserRow
  <2>2. UNCHANGED <<welcomed, req>>
    BY <1>10 DEF DeleteUser
  <2>3. QED
    BY <1>0, <1>1, <2>1, <2>2, WelcomeKept
<1>11. ASSUME NEW r \in Request, NEW p \in Provider, NEW a \in Account, AuthFind(r, p, a)
       PROVE  WelcomeOK'
  <2>1. "email" \in Labels \ {"welcome"}
    BY DEF Labels
  <2>2. UNCHANGED <<user, welcomed>>
    BY <1>11 DEF AuthFind
  <2>3. UNCHANGED req \/ Begin(r, "email", NoUser, p, a, NoIdentity)
    BY <1>11 DEF AuthFind
  <2>4. QED
    BY <1>2, <2>1, <2>2, <2>3
<1>12. QED
  BY <1>3, <1>4, <1>5, <1>6, <1>7, <1>8, <1>9, <1>10, <1>11
     DEF Next, AuthStep, LinkStep, UnlinkStep
----------------------------------------------------------------------------
(* One request after the other *)

\* A read that leaves no mishap was alone, and was answered from the table.
LEMMA ReadAlone ==
  ASSUME NEW r, NEW q, NEW answer, NEW fresh, Remember(r, q, answer, fresh), mishap' = {}
  PROVE  mishap = {} /\ answer \in fresh /\ \A s \in Request \ {r} : req[s].pc = "idle"
BY DEF Remember

\* Where nothing is written but r goes on, what it relies on has to be shown.
GoesOn(r) ==
  /\ UNCHANGED identity /\ \A u \in User : user'[u].password = user[u].password
  /\ \A s \in Request \ {r} : req'[s] = req[s]
  /\ \/ req[r].pc # "idle"
     \/ req'[r].pc = "idle"
     \/ \A s \in Request \ {r} : req[s].pc = "idle"

LEMMA SerialGoesOn ==
  ASSUME RequestsOK, Serial, NEW r \in Request, GoesOn(r), ReadHolds(r)'
  PROVE  Serial'
<1> USE DEF GoesOn
<1>1. LiveIds' = LiveIds /\ Inserted' = Inserted /\ \A u : IdentitiesOf(u)' = IdentitiesOf(u)
  BY DEF LiveIds, Inserted, IdentitiesOf
<1>2. Alone'
  BY DEF Serial, Alone
<1>3. ASSUME NEW s \in Request, s # r PROVE ReadHolds(s)'
  <2>1. req'[s] = req[s] /\ ReadHolds(s) /\ RequestOK(s)
    BY <1>3 DEF Serial, RequestsOK
  <2>2. req[s].pc = "delete" => req[s].user \in User
    BY <2>1 DEF RequestOK
  <2>3. Unowned(req[s].provider, req[s].account) => Unowned(req[s].provider, req[s].account)'
    BY <1>1, <2>1 DEF Unowned
  <2>4. req[s].pc = "delete" => Another(req[s].user, req[s].id)'
    BY <1>1, <2>1, <2>2 DEF ReadHolds, Another
  <2>5. QED
    BY <2>1, <2>3, <2>4 DEF ReadHolds
<1>4. OneOwnerPerAccount'
  BY <1>1 DEF Serial, OneOwnerPerAccount
<1>5. LastMethodStays'
  BY <1>1 DEF Serial, LastMethodStays
<1>6. QED
  BY <1>2, <1>3, <1>4, <1>5 DEF Serial

\* The same where r ends, or nothing moves.
LEMMA SerialStill ==
  ASSUME TypeOK, RequestsOK, Serial, NEW r \in Request, UNCHANGED identity,
         \A u \in User : user'[u].password = user[u].password, Finish(r) \/ UNCHANGED req
  PROVE  Serial'
<1>1. CASE Finish(r)
  <2>1. req'[r].pc = "idle" /\ \A s \in Request \ {r} : req'[s] = req[s]
    BY <1>1 DEF Finish, Idle, TypeOK
  <2>2. GoesOn(r)
    BY <2>1 DEF GoesOn
  <2>3. ReadHolds(r)'
    BY <2>1 DEF ReadHolds
  <2>4. QED
    BY <2>2, <2>3, SerialGoesOn
<1>2. CASE UNCHANGED req
  <2>1. GoesOn(r)
    BY <1>2 DEF GoesOn
  <2>2. ReadHolds(r) /\ RequestOK(r)
    BY DEF Serial, RequestsOK
  <2>3. LiveIds' = LiveIds /\ \A u : IdentitiesOf(u)' = IdentitiesOf(u)
    BY DEF LiveIds, Inserted, IdentitiesOf
  <2>4. req[r].pc = "delete" => req[r].user \in User
    BY <2>2 DEF RequestOK
  <2>5. Unowned(req[r].provider, req[r].account) => Unowned(req[r].provider, req[r].account)'
    BY <1>2, <2>3 DEF Unowned
  <2>6. req[r].pc = "delete" => Another(req[r].user, req[r].id)'
    BY <1>2, <2>2, <2>3, <2>4 DEF ReadHolds, Another
  <2>7. ReadHolds(r)'
    BY <1>2, <2>2, <2>5, <2>6 DEF ReadHolds
  <2>8. QED
    BY <2>1, <2>7, SerialGoesOn
<1>3. QED
  BY <1>1, <1>2

\* A request that alone moves on relies on nothing new.
LEMMA NothingToRely ==
  ASSUME Serial, NEW r \in Request, req[r].pc # "idle", req'[r].pc \in {"idle", "welcome"},
         \A s \in Request \ {r} : req'[s] = req[s]
  PROVE  Alone' /\ \A s \in Request : ReadHolds(s)'
<1>1. \A s \in Request \ {r} : req'[s].pc = "idle"
  BY DEF Serial, Alone
<1>2. Alone'
  BY <1>1 DEF Alone
<1>3. \A s \in Request : ReadHolds(s)'
  BY <1>1 DEF ReadHolds
<1>4. QED
  BY <1>2, <1>3

\* An account nobody owned gets an owner.
LEMMA SerialInsert ==
  ASSUME TypeOK, RequestsOK, Serial, NEW r \in Request, req[r].pc \in {"authInsert", "linkInsert"}, Insert(r),
         req'[r].pc \in {"idle", "welcome"}, \A s \in Request \ {r} : req'[s] = req[s], UNCHANGED user
  PROVE  Serial'
<1>1. PICK i \in Identity \ Inserted : identity' = [identity EXCEPT ![i] =
            [user |-> req[r].user, provider |-> req[r].provider,
             account |-> req[r].account, live |-> TRUE]]
  BY DEF Insert
<1>2. req[r].user \in User /\ req[r].provider \in Provider /\ req[r].account \in Account
  BY DEF RequestsOK, RequestOK
<1> DEFINE new == [user |-> req[r].user, provider |-> req[r].provider,
                   account |-> req[r].account, live |-> TRUE]
<1>3. new # NoIdentity /\ new.live /\ new.user = req[r].user
      /\ new.provider = req[r].provider /\ new.account = req[r].account
  <2>1. new \in IdentityRow
    BY <1>2 DEF IdentityRow
  <2>2. QED
    BY <2>1, OAuthConstants
<1>4. identity'[i] = new /\ \A j \in Identity \ {i} : identity'[j] = identity[j]
  BY <1>1 DEF TypeOK
<1> HIDE DEF new
<1>5. LiveIds' = LiveIds \cup {i} /\ Inserted' = Inserted \cup {i} /\ i \notin LiveIds /\ LiveIds \subseteq Identity
  BY <1>3, <1>4 DEF LiveIds, Inserted
<1>6. Unowned(req[r].provider, req[r].account)
  BY DEF Serial, ReadHolds
<1>7. OneOwnerPerAccount'
  BY <1>3, <1>4, <1>5, <1>6 DEF Serial, OneOwnerPerAccount, Unowned
<1>8. LastMethodStays'
  <2> SUFFICES ASSUME NEW u \in User, NEW j \in Inserted', identity'[j].user = u
               PROVE  user[u].password \/ IdentitiesOf(u)' # {}
    BY DEF LastMethodStays
  <2>1. CASE j = i
    <3>1. i \in IdentitiesOf(u)'
      BY <1>5, <2>1 DEF IdentitiesOf
    <3>2. QED
      BY <3>1
  <2>2. CASE j # i
    <3>1. j \in Inserted /\ identity[j].user = u
      BY <1>4, <1>5, <2>2 DEF Inserted
    <3>2. IdentitiesOf(u) \subseteq IdentitiesOf(u)'
      BY <1>4, <1>5 DEF IdentitiesOf
    <3>3. user[u].password \/ IdentitiesOf(u) # {}
      BY <3>1 DEF Serial, LastMethodStays
    <3>4. QED
      BY <3>2, <3>3
  <2>3. QED
    BY <2>1, <2>2
<1>9. QED
  BY <1>7, <1>8, NothingToRely DEF Serial

\* An identity goes, and its user has another way to log in.
LEMMA SerialDelete ==
  ASSUME TypeOK, RequestsOK, Serial, NEW r \in Request, UnlinkDelete(r)
  PROVE  Serial'
<1> DEFINE i == req[r].id
           gone == [identity[i] EXCEPT !.live = FALSE]
<1>1. i \in Inserted /\ gone \in IdentityRow
  BY DeleteType
<1>2. identity[i] \in IdentityRow /\ i \in Identity
  BY <1>1, RowsOf
<1>3. /\ gone # NoIdentity /\ ~gone.live /\ gone.user = identity[i].user
      /\ gone.provider = identity[i].provider /\ gone.account = identity[i].account
  BY <1>1, <1>2, OAuthConstants DEF IdentityRow
<1>4. identity'[i] = gone /\ \A j \in Identity \ {i} : identity'[j] = identity[j]
  BY <1>2 DEF UnlinkDelete, TypeOK
<1>5. identity[i].user = req[r].user /\ Another(req[r].user, i)
  BY DEF Serial, ReadHolds, UnlinkDelete
<1> HIDE DEF gone, i
<1>6. LiveIds' = LiveIds \ {i} /\ Inserted' = Inserted /\ Inserted \subseteq Identity /\ LiveIds \subseteq Inserted
  BY <1>1, <1>3, <1>4 DEF LiveIds, Inserted
<1>7. OneOwnerPerAccount'
  BY <1>4, <1>6 DEF Serial, OneOwnerPerAccount
<1>8. LastMethodStays'
  <2> SUFFICES ASSUME NEW u \in User, NEW j \in Inserted, identity'[j].user = u
               PROVE  user[u].password \/ IdentitiesOf(u)' # {}
    BY <1>6 DEF LastMethodStays, UnlinkDelete
  <2>1. identity[j].user = u
    BY <1>3, <1>4, <1>6
  <2>2. user[u].password \/ \E k \in IdentitiesOf(u) : k # i
    <3>1. CASE u = req[r].user
      BY <1>5, <3>1 DEF Another
    <3>2. CASE u # req[r].user
      BY <1>5, <2>1, <3>2 DEF Serial, LastMethodStays, IdentitiesOf
    <3>3. QED
      BY <3>1, <3>2
  <2>3. \A k \in IdentitiesOf(u) : k # i => k \in IdentitiesOf(u)'
    BY <1>4, <1>6 DEF IdentitiesOf
  <2>4. QED
    BY <2>2, <2>3
<1>9. req[r].pc # "idle" /\ req'[r].pc = "idle" /\ \A s \in Request \ {r} : req'[s] = req[s]
  BY DEF UnlinkDelete, Finish, Idle, TypeOK
<1>10. Alone' /\ \A s \in Request : ReadHolds(s)'
  BY <1>9, NothingToRely
<1>11. QED
  BY <1>7, <1>8, <1>10 DEF Serial

\* An account the table has no row of has no owner; a row found for a user is theirs;
\* of two identities one is not the one to be deleted.
LEMMA WhatReadsSay ==
  ASSUME TypeOK
  PROVE  /\ \A p, a : NoIdentity \in AccountRows(p, a) => Unowned(p, a)
         /\ \A u, p : \A i \in OwnRows(u, p) : i # NoIdentity => identity[i].user = u
         /\ \A u, i : MayUnlink(u, Cardinality(IdentitiesOf(u))) => Another(u, i)
<1>1. NoIdentity \notin LiveIds
  BY OAuthConstants DEF LiveIds, Inserted
<1>2. \A p, a : NoIdentity \in AccountRows(p, a) => Unowned(p, a)
  BY <1>1 DEF AccountRows, One, Unowned
<1>3. \A u, p : \A i \in OwnRows(u, p) : i # NoIdentity => identity[i].user = u
  BY DEF OwnRows, One, IdentitiesOf
<1>4. ASSUME NEW u, NEW i, MayUnlink(u, Cardinality(IdentitiesOf(u))), ~Another(u, i) PROVE FALSE
  <2>1. Cardinality(IdentitiesOf(u)) > 1 /\ IdentitiesOf(u) \subseteq {i}
    BY <1>4 DEF MayUnlink, Another
  <2>2. IsFiniteSet({i}) /\ Cardinality({i}) = 1
    BY FS_Singleton
  <2>3. Cardinality(IdentitiesOf(u)) <= 1
    BY <2>1, <2>2, FS_Subset
  <2>4. QED
    BY <2>1, <2>3, CountType
<1>5. QED
  BY <1>2, <1>3, <1>4

LEMMA SerialStep ==
  ASSUME TypeOK, RequestsOK, SerialOK, Next
  PROVE  SerialOK'
<1> SUFFICES ASSUME mishap' = {} PROVE Serial'
  BY DEF SerialOK
<1>1. ASSUME NEW r \in Request, AuthCreateUser(r) PROVE Serial'
  <2>1. Serial
    BY <1>1 DEF SerialOK, AuthCreateUser
  <2>2. UNCHANGED identity /\ \A u \in User : user'[u].password = user[u].password
    BY <1>1 DEF AuthCreateUser, TypeOK, UserRow
  <2>3. CASE Finish(r)
    BY <2>1, <2>2, <2>3, SerialStill
  <2>4. CASE req' = [req EXCEPT ![r].welcome = TRUE, ![r].pc = "authInsert"]
    <3>1. req' = [req EXCEPT ![r] = [req[r] EXCEPT !.welcome = TRUE, !.pc = "authInsert"]]
      BY <2>4
    <3>2. /\ req'[r].pc = "authInsert" /\ req'[r].provider = req[r].provider /\ req'[r].account = req[r].account
          /\ \A s \in Request \ {r} : req'[s] = req[s]
      BY <3>1, RequestFields DEF RequestState, TypeOK
    <3>3. req[r].pc = "create" /\ Unowned(req[r].provider, req[r].account)
      BY <1>1, <2>1 DEF AuthCreateUser, Serial, ReadHolds
    <3>4. ReadHolds(r)'
      BY <2>2, <3>2, <3>3 DEF ReadHolds, Unowned, LiveIds, Inserted
    <3>5. QED
      BY <2>1, <2>2, <3>2, <3>3, <3>4, SerialGoesOn DEF GoesOn
  <2>5. QED
    BY <1>1, <2>3, <2>4 DEF AuthCreateUser
<1>2. ASSUME NEW r \in Request, NEW u \in User, AuthFindEmail(r, u) PROVE Serial'
  <2>1. Serial
    BY <1>2 DEF SerialOK, AuthFindEmail
  <2>2. UNCHANGED <<user, identity>>
    BY <1>2 DEF AuthFindEmail
  <2>3. PICK label \in {"authInsert", "create"} : req' = [req EXCEPT ![r] = [req[r] EXCEPT !.user = u, !.pc = label]]
    BY <1>2 DEF AuthFindEmail
  <2>4. /\ req'[r].pc = label /\ req'[r].provider = req[r].provider /\ req'[r].account = req[r].account
        /\ \A s \in Request \ {r} : req'[s] = req[s]
    BY <2>3, RequestFields DEF RequestState, TypeOK
  <2>5. req[r].pc = "email" /\ Unowned(req[r].provider, req[r].account)
    BY <1>2, <2>1 DEF AuthFindEmail, Serial, ReadHolds
  <2>6. ReadHolds(r)'
    BY <2>2, <2>4, <2>5 DEF ReadHolds, Unowned, LiveIds, Inserted
  <2>7. QED
    BY <2>1, <2>2, <2>4, <2>5, <2>6, SerialGoesOn DEF GoesOn
<1>3. ASSUME NEW r \in Request, AuthInsert(r) \/ LinkInsert(r) PROVE Serial'
  <2>1. Serial /\ UNCHANGED user /\ req[r].pc \in {"authInsert", "linkInsert"}
    BY <1>3 DEF SerialOK, AuthInsert, LinkInsert
  <2>2. CASE Insert(r)
    <3>1. Finish(r) \/ Goto(r, "welcome")
      BY <1>3 DEF AuthInsert, LinkInsert
    <3>2. req'[r].pc \in {"idle", "welcome"} /\ \A s \in Request \ {r} : req'[s] = req[s]
      BY <3>1, RequestFields DEF Finish, Goto, Idle, TypeOK, RequestState
    <3>3. QED
      BY <2>1, <2>2, <3>2, SerialInsert
  <2>3. CASE UNCHANGED identity /\ Finish(r)
    BY <2>1, <2>3, SerialStill
  <2>4. QED
    BY <1>3, <2>2, <2>3 DEF AuthInsert, LinkInsert
<1>4. ASSUME NEW r \in Request, AuthWelcome(r) \/ Abort(r) PROVE Serial'
  <2>1. Serial /\ UNCHANGED <<user, identity>> /\ Finish(r)
    BY <1>4 DEF SerialOK, AuthWelcome, Abort
  <2>2. QED
    BY <2>1, SerialStill
<1>5. ASSUME NEW r \in Request, NEW label, Serial, UNCHANGED <<user, identity>>, Goto(r, label), req[r].pc # "idle",
             \/ label = "linkInsert" /\ Unowned(req[r].provider, req[r].account)
             \/ label = "count" /\ req[r].pc = "user"
             \/ label = "delete" /\ req[r].pc = "count" /\ Another(req[r].user, req[r].id)
      PROVE  Serial'
  <2>1. req' = [req EXCEPT ![r] = [req[r] EXCEPT !.pc = label]]
    BY <1>5 DEF Goto
  <2>2. /\ req'[r].pc = label /\ req'[r].user = req[r].user /\ req'[r].id = req[r].id
        /\ req'[r].provider = req[r].provider /\ req'[r].account = req[r].account
        /\ \A s \in Request \ {r} : req'[s] = req[s]
    BY <2>1, RequestFields DEF RequestState, TypeOK
  <2>3. GoesOn(r)
    BY <1>5, <2>2 DEF GoesOn
  <2>4. ReadHolds(r)
    BY <1>5 DEF Serial
  <2>5. ReadHolds(r)'
    <3>1. CASE label = "linkInsert" /\ Unowned(req[r].provider, req[r].account)
      BY <1>5, <2>2, <3>1 DEF ReadHolds, Unowned, LiveIds, Inserted
    <3>2. CASE label = "count" /\ req[r].pc = "user"
      BY <1>5, <2>2, <2>4, <3>2 DEF ReadHolds
    <3>3. CASE label = "delete" /\ req[r].pc = "count" /\ Another(req[r].user, req[r].id)
      BY <1>5, <2>2, <2>4, <3>3 DEF ReadHolds, Another, IdentitiesOf, LiveIds, Inserted
    <3>4. QED
      BY <1>5, <3>1, <3>2, <3>3
  <2>6. QED
    BY <1>5, <2>3, <2>5, SerialGoesOn
<1>6. ASSUME NEW r \in Request, LinkFindAccount(r) PROVE Serial'
  <2>1. PICK i : /\ Remember(r, [provider |-> req[r].provider, account |-> req[r].account], i,
                             AccountRows(req[r].provider, req[r].account))
                 /\ IF i = NoIdentity THEN Goto(r, "linkInsert") ELSE Finish(r)
    BY <1>6 DEF LinkFindAccount
  <2>2. Serial /\ i \in AccountRows(req[r].provider, req[r].account) /\ UNCHANGED <<user, identity>>
    BY <1>6, <2>1, ReadAlone DEF SerialOK, LinkFindAccount
  <2>3. CASE Finish(r)
    BY <2>2, <2>3, SerialStill
  <2>4. CASE i = NoIdentity /\ Goto(r, "linkInsert")
    BY <1>5, <1>6, <2>2, <2>4, WhatReadsSay DEF LinkFindAccount
  <2>5. QED
    BY <2>1, <2>3, <2>4
<1>7. ASSUME NEW r \in Request, UnlinkFindUser(r) PROVE Serial'
  <2>1. Serial /\ UNCHANGED <<user, identity>> /\ req[r].pc = "user"
    BY <1>7 DEF SerialOK, UnlinkFindUser
  <2>2. Goto(r, "count") \/ Finish(r)
    BY <1>7 DEF UnlinkFindUser
  <2>3. QED
    BY <1>5, <2>1, <2>2, SerialStill
<1>8. ASSUME NEW r \in Request, UnlinkCount(r) PROVE Serial'
  <2>1. PICK n : /\ Remember(r, [count |-> req[r].user], n, {Cardinality(IdentitiesOf(req[r].user))})
                 /\ IF MayUnlink(req[r].user, n) THEN Goto(r, "delete") ELSE Finish(r)
    BY <1>8 DEF UnlinkCount
  <2>2. Serial /\ n = Cardinality(IdentitiesOf(req[r].user)) /\ UNCHANGED <<user, identity>> /\ req[r].pc = "count"
    BY <1>8, <2>1, ReadAlone DEF SerialOK, UnlinkCount
  <2>3. CASE Finish(r)
    BY <2>2, <2>3, SerialStill
  <2>4. CASE MayUnlink(req[r].user, n) /\ Goto(r, "delete")
    BY <1>5, <2>2, <2>4, WhatReadsSay
  <2>5. QED
    BY <2>1, <2>3, <2>4
<1>9. ASSUME NEW r \in Request, NEW label, NEW u, NEW p, NEW a, NEW i, Serial, UNCHANGED <<user, identity>>,
             Begin(r, label, u, p, a, i), \A s \in Request \ {r} : req[s].pc = "idle",
             \/ label = "email" /\ Unowned(p, a)
             \/ label = "account"
             \/ label = "user" /\ identity[i].user = u
      PROVE  Serial'
  <2>1. /\ req'[r] = [pc |-> label, user |-> u, provider |-> p, account |-> a,
                      id |-> i, welcome |-> FALSE, begun |-> Inserted]
        /\ \A s \in Request \ {r} : req'[s] = req[s]
    BY <1>9 DEF Begin, TypeOK
  <2>2. /\ req'[r].pc = label /\ req'[r].user = u /\ req'[r].provider = p /\ req'[r].account = a /\ req'[r].id = i
    BY <2>1
  <2>3. ReadHolds(r)'
    BY <1>9, <2>2 DEF ReadHolds, Unowned, LiveIds, Inserted
  <2>4. QED
    BY <1>9, <2>1, <2>3, SerialGoesOn DEF GoesOn
<1>10. ASSUME NEW r \in Request, NEW p \in Provider, NEW a \in Account, AuthFind(r, p, a) PROVE Serial'
  <2>1. PICK i : /\ Remember(r, [provider |-> p, account |-> a], i, AccountRows(p, a))
                 /\ IF i = NoIdentity THEN Begin(r, "email", NoUser, p, a, NoIdentity) ELSE UNCHANGED req
    BY <1>10 DEF AuthFind
  <2>2. /\ Serial /\ i \in AccountRows(p, a) /\ UNCHANGED <<user, identity>>
        /\ \A s \in Request \ {r} : req[s].pc = "idle"
    BY <1>10, <2>1, ReadAlone DEF SerialOK, AuthFind
  <2>3. CASE UNCHANGED req
    BY <2>2, <2>3, SerialStill
  <2>4. CASE i = NoIdentity /\ Begin(r, "email", NoUser, p, a, NoIdentity)
    <3>1. Unowned(p, a)
      BY <2>2, <2>4, WhatReadsSay
    <3>2. QED
      BY <1>9, <2>2, <2>4, <3>1
  <2>5. QED
    BY <2>1, <2>3, <2>4
<1>11. ASSUME NEW r \in Request, NEW u \in User, NEW p \in Provider, NEW a \in Account, LinkFind(r, u, p, a)
       PROVE  Serial'
  <2>1. PICK i : /\ Remember(r, [user |-> u, provider |-> p], i, OwnRows(u, p))
                 /\ IF i = NoIdentity THEN Begin(r, "account", u, p, a, NoIdentity) ELSE UNCHANGED req
    BY <1>11 DEF LinkFind
  <2>2. Serial /\ UNCHANGED <<user, identity>> /\ \A s \in Request \ {r} : req[s].pc = "idle"
    BY <1>11, <2>1, ReadAlone DEF SerialOK, LinkFind
  <2>3. CASE UNCHANGED req
    BY <2>2, <2>3, SerialStill
  <2>4. CASE Begin(r, "account", u, p, a, NoIdentity)
    BY <1>9, <2>2, <2>4
  <2>5. QED
    BY <2>1, <2>3, <2>4
<1>12. ASSUME NEW r \in Request, NEW u \in User, NEW p \in Provider, UnlinkFind(r, u, p) PROVE Serial'
  <2>1. PICK i : /\ Remember(r, [user |-> u, provider |-> p], i, OwnRows(u, p))
                 /\ IF i = NoIdentity THEN UNCHANGED req ELSE Begin(r, "user", u, p, NoAccount, i)
    BY <1>12 DEF UnlinkFind
  <2>2. /\ Serial /\ i \in OwnRows(u, p) /\ UNCHANGED <<user, identity>>
        /\ \A s \in Request \ {r} : req[s].pc = "idle"
    BY <1>12, <2>1, ReadAlone DEF SerialOK, UnlinkFind
  <2>3. CASE UNCHANGED req
    BY <2>2, <2>3, SerialStill
  <2>4. CASE i # NoIdentity /\ Begin(r, "user", u, p, NoAccount, i)
    <3>1. identity[i].user = u
      BY <2>2, <2>4, WhatReadsSay
    <3>2. QED
      BY <1>9, <2>2, <2>4, <3>1
  <2>5. QED
    BY <2>1, <2>3, <2>4
<1>13. ASSUME Serial, UNCHANGED <<identity, req>>, \A u \in User : user'[u].password = user[u].password PROVE Serial'
  <2>1. CASE \E r \in Request : TRUE
    BY <1>13, <2>1, SerialStill
  <2>2. CASE Request = {}
    BY <1>13, <2>2 DEF Serial, Alone, OneOwnerPerAccount, LastMethodStays, LiveIds, Inserted, IdentitiesOf
  <2>3. QED
    BY <2>1, <2>2
<1>14. ASSUME NEW q \in Query, CacheExpires(q) PROVE Serial'
  BY <1>13, <1>14 DEF CacheExpires, SerialOK
<1>15. ASSUME NEW u \in User, DeleteUser(u) PROVE Serial'
  <2>1. \A v \in User : user'[v].password = user[v].password
    BY <1>15 DEF DeleteUser, TypeOK, UserRow
  <2>2. QED
    BY <1>13, <1>15, <2>1 DEF DeleteUser, SerialOK
<1>16. ASSUME NEW r \in Request, UnlinkDelete(r) PROVE Serial'
  BY <1>16, SerialDelete DEF UnlinkDelete, SerialOK
<1>17. QED
  BY <1>1, <1>2, <1>3, <1>4, <1>6, <1>7, <1>8, <1>10, <1>11, <1>12, <1>14, <1>15, <1>16
     DEF Next, AuthStep, LinkStep, UnlinkStep
----------------------------------------------------------------------------
LEMMA Initially == Init => IInv
<1> SUFFICES ASSUME Init PROVE IInv
  OBVIOUS
<1>1. \A r \in Request : req[r] = Idle
  BY DEF Init
<1>2. Idle \in RequestState
  BY DEF Idle, RequestState
<1>3. TypeOK
  BY <1>2 DEF Init, TypeOK, UserRow
<1>4. RequestsOK
  BY <1>1 DEF RequestsOK, RequestOK, Idle
<1>5. CacheOK
  BY DEF Init, CacheOK, Query
<1>6. WelcomeOK
  BY <1>1 DEF Init, WelcomeOK, Idle
<1>7. Inserted = {}
  BY DEF Init, Inserted
<1>8. SerialOK
  BY <1>1, <1>7 DEF SerialOK, Serial, Alone, ReadHolds, OneOwnerPerAccount, LastMethodStays, LiveIds, Idle
<1>9. QED
  BY <1>3, <1>4, <1>5, <1>6, <1>8 DEF IInv

LEMMA Stutter == IInv /\ UNCHANGED vars => IInv'
<1> SUFFICES ASSUME IInv, UNCHANGED vars PROVE IInv'
  OBVIOUS
<1>1. TypeOK'
  BY DEF IInv, vars, TypeOK
<1>2. RequestsOK' /\ CacheOK'
  BY DEF IInv, vars, RequestsOK, RequestOK, CacheOK, Inserted
<1>3. WelcomeOK'
  BY DEF IInv, vars, WelcomeOK, HasIdentity, Inserted
<1>4. SerialOK'
  BY DEF IInv, vars, SerialOK, Serial, Alone, ReadHolds, Unowned, Another, OneOwnerPerAccount, LastMethodStays,
         IdentitiesOf, LiveIds, Inserted
<1>5. QED
  BY <1>1, <1>2, <1>3, <1>4 DEF IInv

\* The inductive invariant holds throughout.
THEOREM Invariance == Spec => []IInv
<1>1. IInv /\ [Next]_vars => IInv'
  BY TypeStep, RequestStep, CacheStep, WelcomeStep, SerialStep, Stutter DEF IInv
<1>2. QED
  BY <1>1, Initially, PTL DEF Spec

\* The tables, the cache and the requests stay in their ranges, for every
\* interleaving of the handlers of modules/oauth.
THEOREM TypeCorrect == Spec => []TypeOK
<1>1. IInv => TypeOK
  BY DEF IInv
<1>2. QED
  BY <1>1, Invariance, PTL

\* The unique index on the address is what makes the welcome mail single
\* (oauth-authenticate.handler.ts): whatever first logins race each other,
\* only the request whose INSERT created the row sends it, once.
THEOREM NewcomersWelcomedOnce == Spec => []WelcomedOnce
<1>1. IInv => WelcomedOnce
  <2> SUFFICES ASSUME IInv, NEW u \in User
        PROVE  /\ welcomed[u] <= 1
               /\ welcomed[u] = 1 => \E i \in Inserted : identity[i].user = u
    BY DEF WelcomedOnce
  <2>1. welcomed[u] = 0 \/ welcomed[u] = 1
    BY DEF IInv, WelcomeOK
  <2>2. QED
    BY <2>1 DEF IInv, WelcomeOK, HasIdentity
<1>2. QED
  BY <1>1, Invariance, PTL

\* oauth-unlink-provider.handler.ts deletes by the id it has read: however
\* long its awaits take, an identity linked after it began stays.
THEOREM LaterLinksStay == Spec => LaterLinkSurvives
<1> DEFINE Kept(i) == i \notin LiveIds' =>
                          \E r \in Request : req[r].pc = "delete" /\ i \in req[r].begun
<1>1. ASSUME TypeOK, RequestsOK, NEW i \in LiveIds,
             UNCHANGED identity \/ (\E r \in Request : Insert(r)
                                        /\ req[r].user \in User /\ req[r].provider \in Provider
                                        /\ req[r].account \in Account)
      PROVE  i \in LiveIds'
  <2>1. CASE UNCHANGED identity
    BY <2>1 DEF LiveIds, Inserted
  <2>2. ASSUME NEW r \in Request, Insert(r), req[r].user \in User,
               req[r].provider \in Provider, req[r].account \in Account
        PROVE  i \in LiveIds'
    <3>1. i \in Identity /\ identity[i] # NoIdentity /\ identity[i].live
      BY DEF LiveIds, Inserted
    <3>2. identity'[i] = identity[i]
      BY <1>1, <2>2, <3>1, InsertType DEF Inserted
    <3>3. QED
      BY <3>1, <3>2 DEF LiveIds, Inserted
  <2>3. QED
    BY <1>1, <2>1, <2>2
<1>2. ASSUME TypeOK, RequestsOK, NEW i \in LiveIds, NEW r \in Request,
             AuthInsert(r) \/ LinkInsert(r)
      PROVE  i \in LiveIds'
  <2>1. /\ req[r].user \in User /\ req[r].provider \in Provider
        /\ req[r].account \in Account
    BY <1>2 DEF AuthInsert, LinkInsert, RequestsOK, RequestOK
  <2>2. Insert(r) \/ UNCHANGED identity
    BY <1>2 DEF AuthInsert, LinkInsert
  <2>3. QED
    BY <1>1, <1>2, <2>1, <2>2
<1>3. ASSUME TypeOK, RequestsOK, NEW i \in LiveIds, NEW r \in Request, UnlinkDelete(r)
      PROVE  Kept(i)
  <2>1. req[r].pc = "delete" /\ req[r].id \in req[r].begun
    BY <1>3 DEF UnlinkDelete, RequestsOK, RequestOK
  <2>2. CASE i = req[r].id
    BY <2>1, <2>2
  <2>3. CASE i # req[r].id
    <3>1. i \in Identity /\ identity'[i] = identity[i]
      BY <1>3, <2>3 DEF UnlinkDelete, TypeOK, LiveIds, Inserted
    <3>2. i \in LiveIds'
      BY <3>1 DEF LiveIds, Inserted
    <3>3. QED
      BY <3>2
  <2>4. QED
    BY <2>2, <2>3
<1>4. ASSUME TypeOK, RequestsOK, Next, NEW i \in LiveIds PROVE Kept(i)
  <2>1. \/ UNCHANGED identity
        \/ \E r \in Request : AuthInsert(r) \/ LinkInsert(r) \/ UnlinkDelete(r)
    BY <1>4
       DEF Next, AuthStep, LinkStep, UnlinkStep, AuthCreateUser, AuthWelcome, LinkFindAccount,
           UnlinkFindUser, UnlinkCount, Abort, AuthFindEmail, AuthFind, LinkFind, UnlinkFind,
           CacheExpires, DeleteUser
  <2>2. QED
    BY <1>1, <1>2, <1>3, <1>4, <2>1
<1>5. IInv /\ [Next]_vars => [\A i \in LiveIds : Kept(i)]_vars
  BY <1>4 DEF IInv
<1>6. QED
  BY <1>5, Invariance, PTL DEF Spec, LaterLinkSurvives

\* oauth-link-provider.handler.ts:50 and oauth-authenticate.handler.ts: requests
\* that do not overlap and read the table itself, not a stale answer, give no
\* account a second owner, whatever fails, expires or is deleted between them.
THEOREM OneOwnerInTurn == Spec => []OneOwnerUnlessMishap
<1>1. IInv => OneOwnerUnlessMishap
  BY DEF IInv, SerialOK, Serial, OneOwnerUnlessMishap
<1>2. QED
  BY <1>1, Invariance, PTL

\* oauth-unlink-provider.handler.ts:42: nor do they take from a user the last
\* way to log in.
THEOREM LastMethodInTurn == Spec => []LastMethodUnlessMishap
<1>1. IInv => LastMethodUnlessMishap
  BY DEF IInv, SerialOK, Serial, LastMethodUnlessMishap
<1>2. QED
  BY <1>1, Invariance, PTL
=============================================================================
