--------------------------- MODULE AccountsProofs ---------------------------
(***************************************************************************)
(* Who is welcomed, what a client misses and when the unique index strikes, *)
(* for any number of users, requests and changes.  Inductive is where a      *)
(* user's welcome stands: with the request that has inserted the row, or    *)
(* with the handlers, and never with both.                                  *)
(***************************************************************************)
EXTENDS Accounts, TLAPS

Inserted(c) == req[c].step = "inserted"

\* A request that has inserted a row is the only one with that row, whose
\* handlers have not been called yet.
InsertsOK ==
    /\ \A c \in Creator : Inserted(c) =>
          /\ req[c].user \in User /\ user[req[c].user] # NoUser
          /\ notifying[req[c].user] = "none"
    /\ \A c, d \in Creator : Inserted(c) /\ Inserted(d) /\ req[c].user = req[d].user => c = d

\* Where the welcome of u stands.
WelcomeOK(u) ==
    /\ note[u] # NoNote => notifying[u] \in {"push", "done"}
    /\ notifying[u] # "none" => user[u] # NoUser
    /\ notifying[u] = "none" <=> mailing[u] = "none"
    /\ user[u] # NoUser =>
          u \in mishap \/ notifying[u] # "none" \/ \E c \in Creator : Inserted(c) /\ req[c].user = u
    /\ notifying[u] \in {"push", "done"} => u \in mishap \/ note[u] # NoNote
    /\ acting[u] # "none" => note[u] # NoNote

\* A sure list was read through a subscription in effect, and misses nothing.
ClientOK(u) ==
    /\ client[u].listed = "sure" => client[u].channel = "on"
    /\ client[u].listed = "sure" /\ notifying[u] = "done" /\ Visible(u) # NoNote
          => client[u].shows \/ client[u].coming \/ u \in mishap

\* An address that a request saw free is free of live accounts unless it was raced.
FreeOK ==
    \A c \in Creator : req[c].step = "hash" =>
        /\ req[c].email \in Email
        /\ ~req[c].raced => \A u \in Holders(req[c].email) : ~Live(u)

IInv ==
    /\ TypeOK /\ InsertsOK /\ FreeOK
    /\ \A u \in User : WelcomeOK(u) /\ ClientOK(u)

----------------------------------------------------------------------------
(* Types                                                                   *)

LEMMA IdleRequest == Idle \in Request
BY DEF Idle, Request

LEMMA HashRequest ==
    ASSUME NEW e \in Email PROVE [Idle EXCEPT !.step = "hash", !.email = e] \in Request
BY DEF Idle, Request

LEMMA ConflictRequest == [Idle EXCEPT !.step = "conflict"] \in Request
BY DEF Idle, Request

LEMMA InsertedRequest ==
    ASSUME NEW u \in User PROVE [Idle EXCEPT !.step = "inserted", !.user = u] \in Request
BY DEF Idle, Request

\* Replacing one request.
LEMMA OneRequest ==
    ASSUME req \in [Creator -> Request], NEW c \in Creator, NEW r \in Request, req' = [req EXCEPT ![c] = r]
    PROVE  req' \in [Creator -> Request]
OBVIOUS

\* Being raced changes nothing else of a request.
LEMMA RacedShape ==
    ASSUME req \in [Creator -> Request], NEW e
    PROVE  /\ Raced(e) \in [Creator -> Request]
           /\ \A c \in Creator : /\ Raced(e)[c].step = req[c].step
                                 /\ Raced(e)[c].email = req[c].email
                                 /\ Raced(e)[c].user = req[c].user
                                 /\ Raced(e)[c].raced = (req[c].raced \/ (req[c].step = "hash" /\ req[c].email = e))
<1>1. ASSUME NEW c \in Creator
      PROVE  LET raced == req[c].raced \/ (req[c].step = "hash" /\ req[c].email = e)
                 r == [req[c] EXCEPT !.raced = @ \/ (req[c].step = "hash" /\ req[c].email = e)]
             IN  r \in Request /\ r.step = req[c].step /\ r.email = req[c].email /\ r.user = req[c].user /\ r.raced = raced
    BY DEF Request
<1>2. QED
    BY <1>1 DEF Raced

LEMMA TypeStays == IInv /\ [Next]_vars => TypeOK'
<1> SUFFICES ASSUME TypeOK, InsertsOK, FreeOK, \A u \in User : WelcomeOK(u), [Next]_vars PROVE TypeOK'
    BY DEF IInv
<1> USE DEF TypeOK, accounts, handlers, inbox
<1>1. CASE UNCHANGED vars
    BY <1>1 DEF vars
<1>2. ASSUME NEW c \in Creator, NEW e \in Email, CheckEmail(c, e) PROVE TypeOK'
    <2>1. req' = [req EXCEPT ![c] = Idle] \/ req' = [req EXCEPT ![c] = [Idle EXCEPT !.step = "hash", !.email = e]]
        BY <1>2 DEF CheckEmail
    <2>2. req' \in [Creator -> Request]
        BY <2>1, IdleRequest, HashRequest, OneRequest
    <2>3. QED
        BY <1>2, <2>2 DEF CheckEmail
<1>3. ASSUME NEW c \in Creator, NEW u \in User, InsertUser(c, u) PROVE TypeOK'
    <2>1. CASE Holders(req[c].email) # {}
        <3>1. req' \in [Creator -> Request]
            BY <1>3, <2>1, ConflictRequest, OneRequest DEF InsertUser
        <3>2. QED
            BY <1>3, <2>1, <3>1 DEF InsertUser
    <2>2. CASE Holders(req[c].email) = {}
        <3>1. Raced(req[c].email) \in [Creator -> Request]
            BY RacedShape
        <3>2. req' \in [Creator -> Request]
            <4>1. [Idle EXCEPT !.step = "inserted", !.user = u] \in Request
                BY InsertedRequest
            <4>2. req' = [Raced(req[c].email) EXCEPT ![c] = [Idle EXCEPT !.step = "inserted", !.user = u]]
                BY <1>3, <2>2 DEF InsertUser
            <4>3. QED
                BY <3>1, <4>1, <4>2
        <3>3. user' \in [User -> Account \cup {NoUser}]
            <4>1. [email |-> req[c].email, deleted |-> FALSE] \in Account
                BY <1>3 DEF InsertUser, FreeOK, Account
            <4>2. user' = [user EXCEPT ![u] = [email |-> req[c].email, deleted |-> FALSE]]
                BY <1>3, <2>2 DEF InsertUser
            <4>3. QED
                BY <4>1, <4>2
        <3>4. QED
            BY <1>3, <3>2, <3>3 DEF InsertUser
    <2>3. QED
        BY <2>1, <2>2
<1>4. ASSUME NEW c \in Creator, PublishCreated(c) PROVE TypeOK'
    <2>1. req' \in [Creator -> Request]
        BY <1>4, IdleRequest, OneRequest DEF PublishCreated
    <2>2. req[c].user \in User
        BY <1>4 DEF PublishCreated, InsertsOK, Inserted
    <2>3. CASE Live(req[c].user)
        BY <1>4, <2>1, <2>3 DEF PublishCreated, Handling
    <2>4. CASE ~Live(req[c].user)
        BY <1>4, <2>1, <2>2, <2>4 DEF PublishCreated
    <2>5. QED
        BY <2>3, <2>4
<1>5. ASSUME NEW u \in User, Handle(u) PROVE TypeOK'
    <2>1. CASE SaveNote(u)
        BY <1>5, <2>1 DEF SaveNote, Note, Handling
    <2>2. CASE PushNote(u)
        <3>1. [client[u] EXCEPT !.coming = client[u].channel = "on"] \in Client
            BY <1>5 DEF Client
        <3>2. client' = [client EXCEPT ![u] = [client[u] EXCEPT !.coming = client[u].channel = "on"]]
            BY <2>2 DEF PushNote
        <3>3. client' \in [User -> Client]
            BY <3>1, <3>2
        <3>4. QED
            BY <1>5, <2>2, <3>3 DEF PushNote, Handling
    <2>3. CASE SaveMail(u)
        BY <1>5, <2>3 DEF SaveMail, Handling
    <2>4. CASE HandlerFails(u)
        BY <1>5, <2>4 DEF HandlerFails, Handling
    <2>5. QED
        BY <1>5, <2>1, <2>2, <2>3, <2>4 DEF Handle
<1>6. ASSUME NEW u \in User, DeleteUser(u) PROVE TypeOK'
    <2> DEFINE gone == [user[u] EXCEPT !.deleted = TRUE]
    <2>1. gone \in Account
        BY <1>6 DEF DeleteUser, Live, Account
    <2>2. user' = [user EXCEPT ![u] = gone]
        BY <1>6 DEF DeleteUser
    <2> HIDE DEF gone
    <2>3. user' \in [User -> Account \cup {NoUser}]
        BY <2>1, <2>2
    <2>4. changes' \in 0..MaxChanges
        BY <1>6, AccountsAssumption DEF DeleteUser
    <2>5. QED
        BY <1>6, <2>3, <2>4 DEF DeleteUser
<1>7. ASSUME NEW u \in User, NEW e \in Email, UpdateEmail(u, e) PROVE TypeOK'
    <2>1. user' \in [User -> Account \cup {NoUser}] /\ changes' \in 0..MaxChanges
        BY <1>7, AccountsAssumption DEF UpdateEmail, Account
    <2>2. req' \in [Creator -> Request]
        BY <1>7, RacedShape DEF UpdateEmail
    <2>3. QED
        BY <1>7, <2>1, <2>2 DEF UpdateEmail
<1>8. ASSUME NEW u \in User, Use(u) PROVE TypeOK'
    <2>1. CASE Subscribe(u) \/ TakeEffect(u) \/ Disconnect(u) \/ Arrive(u) \/ LosePush(u)
        <3>1. /\ Offline \in Client /\ Asked \in Client
              /\ [client[u] EXCEPT !.channel = "on"] \in Client
              /\ [client[u] EXCEPT !.coming = FALSE, !.shows = TRUE] \in Client
              /\ [client[u] EXCEPT !.coming = FALSE] \in Client
            BY <1>8 DEF Offline, Asked, Client
        <3>2. \E k \in Client : client' = [client EXCEPT ![u] = k]
            BY <2>1, <3>1 DEF Subscribe, TakeEffect, Disconnect, Arrive, LosePush
        <3>3. client' \in [User -> Client] /\ mishap' \subseteq User
            BY <1>8, <2>1, <3>2 DEF Subscribe, TakeEffect, Disconnect, Arrive, LosePush, handlers
        <3>4. QED
            BY <2>1, <3>3 DEF Subscribe, TakeEffect, Disconnect, Arrive, LosePush, handlers
    <2>2. CASE List(u)
        <3>1. Answer(u) \in 0..NotAsked
            BY <1>8 DEF Answer, Count, NotAsked
        <3> DEFINE listing == [client[u] EXCEPT !.listed = IF client[u].channel = "on" /\ remembered[u] = NotAsked
                                                            THEN "sure" ELSE "unsure",
                                                !.shows = @ \/ Answer(u) > 0]
        <3>2. listing \in Client
            BY <1>8 DEF Client
        <3>3. client' = [client EXCEPT ![u] = listing]
            BY <2>2 DEF List
        <3> HIDE DEF listing
        <3>4. client' \in [User -> Client]
            BY <3>2, <3>3
        <3>5. remembered' \in [User -> 0..NotAsked]
            BY <2>2, <3>1 DEF List
        <3>6. QED
            BY <2>2, <3>4, <3>5 DEF List
    <2>3. CASE FindNote(u, "read") \/ FindNote(u, "delete")
        BY <1>8, <2>3 DEF FindNote
    <2>4. CASE MarkRead(u)
        BY <1>8, <2>4 DEF MarkRead, WelcomeOK, Note
    <2>5. CASE DeleteNote(u)
        <3>1. note[u] \in Note
            BY <1>8, <2>5 DEF DeleteNote, WelcomeOK
        <3>2. [note[u] EXCEPT !.deleted = TRUE] \in Note /\ [client[u] EXCEPT !.shows = FALSE] \in Client
            BY <1>8, <3>1 DEF Note, Client
        <3>3. note' \in [User -> Note \cup {NoNote}] /\ client' \in [User -> Client]
            BY <1>8, <2>5, <3>2 DEF DeleteNote
        <3>4. QED
            BY <1>8, <2>5, <3>3 DEF DeleteNote
    <2>6. CASE MarkAllRead(u)
        BY <1>8, <2>6 DEF MarkAllRead, Note
    <2>7. CASE Forget(u)
        BY <1>8, <2>7 DEF Forget, NotAsked
    <2>8. QED
        BY <1>8, <2>1, <2>2, <2>3, <2>4, <2>5, <2>6, <2>7 DEF Use
<1>9. CASE Crash
    BY <1>9, IdleRequest DEF Crash, Handling, Client, Offline
<1>10. QED
    BY <1>1, <1>2, <1>3, <1>4, <1>5, <1>6, <1>7, <1>8, <1>9, AccountsAssumption DEF Next, Create

----------------------------------------------------------------------------
(* The row and its request                                                 *)

\* A deleted row is a row.
LEMMA RowStays ==
    ASSUME NEW a \in Account
    PROVE  [a EXCEPT !.deleted = TRUE] \in Account /\ [a EXCEPT !.deleted = TRUE] # NoUser
BY AccountsAssumption DEF Account

LEMMA InsertsStay == IInv /\ TypeOK' /\ [Next]_vars => InsertsOK'
<1> SUFFICES ASSUME TypeOK, TypeOK', InsertsOK, FreeOK, \A u \in User : WelcomeOK(u), [Next]_vars PROVE InsertsOK'
    BY DEF IInv
<1>1. ASSUME UNCHANGED <<req, user, notifying>> PROVE InsertsOK'
    BY <1>1 DEF InsertsOK, Inserted
<1>2. ASSUME NEW c \in Creator, NEW e \in Email, CheckEmail(c, e) PROVE InsertsOK'
    <2>1. req'[c].step # "inserted" /\ \A d \in Creator \ {c} : req'[d] = req[d]
        BY <1>2 DEF CheckEmail, TypeOK, Idle
    <2>2. QED
        BY <1>2, <2>1 DEF CheckEmail, InsertsOK, Inserted, handlers
<1>3. ASSUME NEW c \in Creator, NEW u \in User, InsertUser(c, u) PROVE InsertsOK'
    <2>1. UNCHANGED <<notifying, mailing>>
        BY <1>3 DEF InsertUser, handlers
    <2>2. CASE Holders(req[c].email) # {}
        <3>1. UNCHANGED user /\ req'[c].step # "inserted" /\ \A d \in Creator \ {c} : req'[d] = req[d]
            BY <1>3, <2>2 DEF InsertUser, TypeOK, Idle
        <3>2. QED
            BY <2>1, <3>1 DEF InsertsOK, Inserted
    <2>3. CASE Holders(req[c].email) = {}
        <3>1. /\ req'[c].user = u
              /\ \A d \in Creator \ {c} : req'[d].step = req[d].step /\ req'[d].user = req[d].user
            <4>1. req' = [Raced(req[c].email) EXCEPT ![c] = [Idle EXCEPT !.step = "inserted", !.user = u]]
                BY <1>3, <2>3 DEF InsertUser
            <4>2. [Idle EXCEPT !.step = "inserted", !.user = u].user = u
                BY DEF Idle
            <4>3. QED
                BY <4>1, <4>2, RacedShape DEF TypeOK
        <3>2. user[u] = NoUser /\ user'[u] # NoUser /\ \A v \in User \ {u} : user'[v] = user[v]
            <4>1. [email |-> req[c].email, deleted |-> FALSE] \in Account
                BY <1>3 DEF InsertUser, FreeOK, Account
            <4>2. user[u] = NoUser /\ user' = [user EXCEPT ![u] = [email |-> req[c].email, deleted |-> FALSE]]
                BY <1>3, <2>3 DEF InsertUser
            <4>3. QED
                BY <4>1, <4>2, AccountsAssumption DEF TypeOK
        <3>3. notifying[u] = "none"
            BY <3>2 DEF WelcomeOK
        <3>4. \A d \in Creator : Inserted(d) => req[d].user # u
            BY <3>2 DEF InsertsOK
        <3>5. QED
            BY <2>1, <3>1, <3>2, <3>3, <3>4 DEF InsertsOK, Inserted
    <2>4. QED
        BY <2>2, <2>3
<1>4. ASSUME NEW c \in Creator, PublishCreated(c) PROVE InsertsOK'
    <2>1. req'[c].step # "inserted" /\ \A d \in Creator \ {c} : req'[d] = req[d]
        BY <1>4 DEF PublishCreated, TypeOK, Idle
    <2>2. Inserted(c) /\ req[c].user \in User
        BY <1>4 DEF PublishCreated, InsertsOK, Inserted
    <2>3. \A v \in User \ {req[c].user} : notifying'[v] = notifying[v]
        BY <1>4 DEF PublishCreated, TypeOK
    <2>4. \A d \in Creator \ {c} : Inserted(d) => req[d].user # req[c].user
        BY <2>2 DEF InsertsOK
    <2>5. QED
        BY <1>4, <2>1, <2>3, <2>4 DEF PublishCreated, InsertsOK, Inserted
<1>5. ASSUME NEW u \in User, Handle(u) PROVE InsertsOK'
    <2>1. UNCHANGED <<req, user>>
        BY <1>5 DEF Handle, SaveNote, PushNote, SaveMail, HandlerFails, accounts
    <2>2. \A v \in User : notifying[v] = "none" => notifying'[v] = "none"
        BY <1>5 DEF Handle, SaveNote, PushNote, SaveMail, HandlerFails, TypeOK
    <2>3. QED
        BY <2>1, <2>2 DEF InsertsOK, Inserted
<1>6. ASSUME NEW u \in User, DeleteUser(u) PROVE InsertsOK'
    <2>1. \A v \in User : user[v] # NoUser => user'[v] # NoUser
        BY <1>6, RowStays DEF DeleteUser, Live, TypeOK
    <2>2. QED
        BY <1>6, <2>1 DEF DeleteUser, InsertsOK, Inserted, handlers
<1>7. ASSUME NEW u \in User, NEW e \in Email, UpdateEmail(u, e) PROVE InsertsOK'
    <2>1. \A v \in User : user[v] # NoUser => user'[v] # NoUser
        BY <1>7, AccountsAssumption DEF UpdateEmail, TypeOK, Account
    <2>2. \A d \in Creator : req'[d].step = req[d].step /\ req'[d].user = req[d].user
        BY <1>7, RacedShape DEF UpdateEmail, TypeOK
    <2>3. QED
        BY <1>7, <2>1, <2>2 DEF UpdateEmail, InsertsOK, Inserted, handlers
<1>8. ASSUME NEW u \in User, Use(u) PROVE InsertsOK'
    BY <1>1, <1>8 DEF Use, Subscribe, TakeEffect, Disconnect, Arrive, LosePush, List, FindNote, MarkRead, DeleteNote, MarkAllRead, Forget, accounts, handlers
<1>9. CASE Crash
    BY <1>9 DEF Crash, InsertsOK, Inserted, Idle
<1>10. CASE UNCHANGED vars
    BY <1>1, <1>10 DEF vars
<1>11. QED
    BY <1>2, <1>3, <1>4, <1>5, <1>6, <1>7, <1>8, <1>9, <1>10, AccountsAssumption DEF Next, Create

----------------------------------------------------------------------------
(* The address                                                             *)

\* No address gains a live account but those others took meanwhile.
StaysFree(c) ==
    req'[c].step = "hash" =>
        /\ req[c].step = "hash" /\ req'[c].email = req[c].email
        /\ ~req'[c].raced => ~req[c].raced
                             /\ \A u \in User : Live(u)' /\ user'[u].email = req[c].email
                                                   => Live(u) /\ user[u].email = req[c].email

LEMMA FreeStays == ASSUME TypeOK, FreeOK, \A c \in Creator : StaysFree(c) PROVE FreeOK'
BY DEF FreeOK, Holders, Live, StaysFree

LEMMA FreeHolds == IInv /\ TypeOK' /\ [Next]_vars => FreeOK'
<1> SUFFICES ASSUME TypeOK, TypeOK', FreeOK, [Next]_vars PROVE FreeOK'
    BY DEF IInv
<1>1. ASSUME UNCHANGED <<req, user>> PROVE FreeOK'
    BY <1>1, FreeStays DEF Live, StaysFree
<1>2. ASSUME NEW c \in Creator, NEW e \in Email, CheckEmail(c, e) PROVE FreeOK'
    <2>1. \A d \in Creator \ {c} : req'[d] = req[d]
        BY <1>2 DEF CheckEmail, TypeOK
    <2>2. UNCHANGED user
        BY <1>2 DEF CheckEmail
    <2>3. req'[c].step = "hash" => req'[c].email = e /\ \A u \in Holders(e) : ~Live(u)
        BY <1>2 DEF CheckEmail, TypeOK, Idle
    <2>4. QED
        BY <2>1, <2>2, <2>3 DEF FreeOK, Holders, Live
<1>3. ASSUME NEW c \in Creator, NEW u \in User, InsertUser(c, u) PROVE FreeOK'
    <2>1. CASE Holders(req[c].email) # {}
        <3>1. UNCHANGED user /\ req'[c].step # "hash" /\ \A d \in Creator \ {c} : req'[d] = req[d]
            BY <1>3, <2>1 DEF InsertUser, TypeOK, Idle
        <3>2. QED
            BY <3>1, FreeStays DEF Live, StaysFree
    <2>2. CASE Holders(req[c].email) = {}
        <3>1. req' = [Raced(req[c].email) EXCEPT ![c] = [Idle EXCEPT !.step = "inserted", !.user = u]]
            BY <1>3, <2>2 DEF InsertUser
        <3>2. [Idle EXCEPT !.step = "inserted", !.user = u].step # "hash"
            BY DEF Idle
        <3>3. req'[c].step # "hash" /\ \A d \in Creator \ {c} : req'[d] = Raced(req[c].email)[d]
            BY <3>1, <3>2, RacedShape DEF TypeOK
        <3>4. user'[u].email = req[c].email /\ \A v \in User \ {u} : user'[v] = user[v]
            BY <1>3, <2>2 DEF InsertUser, TypeOK
        <3>5. \A d \in Creator \ {c} :
                 /\ req'[d].step = req[d].step /\ req'[d].email = req[d].email
                 /\ req'[d].raced = (req[d].raced \/ (req[d].step = "hash" /\ req[d].email = req[c].email))
            BY <3>3, RacedShape DEF TypeOK
        <3>6. StaysFree(c)
            BY <3>3 DEF StaysFree
        <3>7. ASSUME NEW d \in Creator \ {c} PROVE StaysFree(d)
            <4> SUFFICES ASSUME req'[d].step = "hash", ~req'[d].raced
                         PROVE  \A v \in User : Live(v)' /\ user'[v].email = req[d].email
                                                => Live(v) /\ user[v].email = req[d].email
                BY <3>5 DEF StaysFree
            <4>1. req[d].email # req[c].email
                BY <3>5
            <4>2. \A v \in User : user'[v].email = req[d].email => user'[v] = user[v]
                BY <3>4, <4>1
            <4>3. QED
                BY <4>2 DEF Live
        <3>8. QED
            BY <3>6, <3>7, FreeStays
    <2>3. QED
        BY <2>1, <2>2
<1>4. ASSUME NEW c \in Creator, PublishCreated(c) PROVE FreeOK'
    <2>1. UNCHANGED user /\ req'[c].step # "hash" /\ \A d \in Creator \ {c} : req'[d] = req[d]
        BY <1>4 DEF PublishCreated, TypeOK, Idle
    <2>2. QED
        BY <2>1, FreeStays DEF Live, StaysFree
<1>5. ASSUME NEW u \in User, Handle(u) PROVE FreeOK'
    BY <1>1, <1>5 DEF Handle, SaveNote, PushNote, SaveMail, HandlerFails, accounts
<1>6. ASSUME NEW u \in User, DeleteUser(u) PROVE FreeOK'
    <2>1. UNCHANGED req /\ ~Live(u)' /\ \A v \in User \ {u} : user'[v] = user[v]
        BY <1>6, AccountsAssumption DEF DeleteUser, Live, TypeOK, Account
    <2>2. QED
        BY <2>1, FreeStays DEF Live, StaysFree
<1>7. ASSUME NEW u \in User, NEW e \in Email, UpdateEmail(u, e) PROVE FreeOK'
    <2>1. user'[u].email = e /\ \A v \in User \ {u} : user'[v] = user[v]
        BY <1>7, AccountsAssumption DEF UpdateEmail, TypeOK, Account
    <2>2. \A d \in Creator :
             /\ req'[d].step = req[d].step /\ req'[d].email = req[d].email
             /\ req'[d].raced = (req[d].raced \/ (req[d].step = "hash" /\ req[d].email = e))
        BY <1>7, RacedShape DEF UpdateEmail, TypeOK
    <2>3. ASSUME NEW d \in Creator PROVE StaysFree(d)
        <3> SUFFICES ASSUME req'[d].step = "hash", ~req'[d].raced
                     PROVE  \A v \in User : Live(v)' /\ user'[v].email = req[d].email
                                            => Live(v) /\ user[v].email = req[d].email
            BY <2>2 DEF StaysFree
        <3>1. req[d].email # e
            BY <2>2
        <3>2. \A v \in User : user'[v].email = req[d].email => user'[v] = user[v]
            BY <2>1, <3>1
        <3>3. QED
            BY <3>2 DEF Live
    <2>4. QED
        BY <2>3, FreeStays
<1>8. ASSUME NEW u \in User, Use(u) PROVE FreeOK'
    BY <1>1, <1>8 DEF Use, Subscribe, TakeEffect, Disconnect, Arrive, LosePush, List, FindNote, MarkRead, DeleteNote, MarkAllRead, Forget, accounts
<1>9. CASE Crash
    BY <1>9, FreeStays DEF Crash, Idle, StaysFree
<1>10. CASE UNCHANGED vars
    BY <1>1, <1>10 DEF vars
<1>11. QED
    BY <1>2, <1>3, <1>4, <1>5, <1>6, <1>7, <1>8, <1>9, <1>10, AccountsAssumption DEF Next, Create

----------------------------------------------------------------------------
(* The welcome                                                             *)

\* Rows stay, and whose request has inserted one keeps it.
LEMMA WelcomeKept ==
    ASSUME NEW u \in User, WelcomeOK(u),
           UNCHANGED <<note, notifying, mailing, acting>>, mishap \subseteq mishap',
           user'[u] # NoUser => user[u] # NoUser, user[u] # NoUser => user'[u] # NoUser,
           \A c \in Creator : Inserted(c) /\ req[c].user = u => Inserted(c)' /\ req'[c].user = u
    PROVE  WelcomeOK(u)'
BY DEF WelcomeOK

LEMMA WelcomeHolds == IInv /\ TypeOK' /\ [Next]_vars => \A u \in User : WelcomeOK(u)'
<1> SUFFICES ASSUME TypeOK, TypeOK', InsertsOK, FreeOK, \A u \in User : WelcomeOK(u), [Next]_vars,
                    NEW v \in User
             PROVE  WelcomeOK(v)'
    BY DEF IInv
<1>1. CASE UNCHANGED vars
    BY <1>1, WelcomeKept DEF vars, Inserted
<1>2. ASSUME NEW c \in Creator, NEW e \in Email, CheckEmail(c, e) PROVE WelcomeOK(v)'
    <2>1. ~Inserted(c) /\ \A d \in Creator \ {c} : req'[d] = req[d]
        BY <1>2 DEF CheckEmail, Inserted, TypeOK
    <2>2. QED
        BY <1>2, <2>1, WelcomeKept DEF CheckEmail, Inserted, handlers, inbox
<1>3. ASSUME NEW c \in Creator, NEW u \in User, InsertUser(c, u) PROVE WelcomeOK(v)'
    <2>1. UNCHANGED <<note, notifying, mailing, acting, mishap>> /\ ~Inserted(c)
        BY <1>3 DEF InsertUser, handlers, inbox, Inserted
    <2>2. CASE Holders(req[c].email) # {}
        <3>1. UNCHANGED user /\ \A d \in Creator \ {c} : req'[d] = req[d]
            BY <1>3, <2>2 DEF InsertUser, TypeOK
        <3>2. QED
            BY <2>1, <3>1, WelcomeKept DEF Inserted
    <2>3. CASE Holders(req[c].email) = {}
        <3>1. req' = [Raced(req[c].email) EXCEPT ![c] = [Idle EXCEPT !.step = "inserted", !.user = u]]
            BY <1>3, <2>3 DEF InsertUser
        <3>2. [Idle EXCEPT !.step = "inserted", !.user = u].user = u
              /\ [Idle EXCEPT !.step = "inserted", !.user = u].step = "inserted"
            BY DEF Idle
        <3>3. /\ Inserted(c)' /\ req'[c].user = u
              /\ \A d \in Creator \ {c} : req'[d].step = req[d].step /\ req'[d].user = req[d].user
            BY <3>1, <3>2, RacedShape DEF TypeOK, Inserted
        <3>4. /\ user[u] = NoUser /\ \A w \in User \ {u} : user'[w] = user[w]
              /\ user' = [user EXCEPT ![u] = [email |-> req[c].email, deleted |-> FALSE]]
            BY <1>3, <2>3 DEF InsertUser, TypeOK
        <3>5. CASE v = u
            BY <2>1, <3>3, <3>4, <3>5 DEF WelcomeOK
        <3>6. CASE v # u
            <4>1. \A d \in Creator : Inserted(d) /\ req[d].user = v => Inserted(d)' /\ req'[d].user = v
                BY <2>1, <3>3 DEF Inserted
            <4>2. QED
                BY <2>1, <3>4, <3>6, <4>1, WelcomeKept
        <3>7. QED
            BY <3>5, <3>6
    <2>4. QED
        BY <2>2, <2>3
<1>4. ASSUME NEW c \in Creator, PublishCreated(c) PROVE WelcomeOK(v)'
    <2>1. /\ Inserted(c) /\ req[c].user \in User /\ user[req[c].user] # NoUser
          /\ notifying[req[c].user] = "none"
        BY <1>4 DEF PublishCreated, InsertsOK, Inserted
    <2>2. \A d \in Creator \ {c} : req'[d] = req[d] /\ (Inserted(d) => req[d].user # req[c].user)
        BY <1>4, <2>1 DEF PublishCreated, InsertsOK, TypeOK
    <2>3. UNCHANGED <<user, note, acting>>
        BY <1>4 DEF PublishCreated, inbox
    <2>4. CASE v = req[c].user
        <3>1. note[v] = NoNote /\ mailing[v] = "none" /\ acting[v] = "none"
            BY <2>1, <2>4 DEF WelcomeOK, TypeOK
        <3>2. CASE Live(v)
            <4>1. notifying'[v] = "save" /\ mailing'[v] = "save"
                BY <1>4, <2>4, <3>2 DEF PublishCreated, TypeOK
            <4>2. QED
                BY <2>1, <2>3, <2>4, <3>1, <4>1 DEF WelcomeOK
        <3>3. CASE ~Live(v)
            <4>1. UNCHANGED <<notifying, mailing>> /\ v \in mishap'
                BY <1>4, <2>4, <3>3 DEF PublishCreated
            <4>2. QED
                BY <2>1, <2>3, <2>4, <3>1, <4>1 DEF WelcomeOK
        <3>4. QED
            BY <3>2, <3>3
    <2>5. CASE v # req[c].user
        <3>1. notifying'[v] = notifying[v] /\ mailing'[v] = mailing[v] /\ mishap \subseteq mishap'
            BY <1>4, <2>5 DEF PublishCreated, TypeOK
        <3>2. \A d \in Creator : Inserted(d) /\ req[d].user = v => Inserted(d)' /\ req'[d].user = v
            BY <2>2, <2>5 DEF Inserted
        <3>3. QED
            BY <2>3, <3>1, <3>2 DEF WelcomeOK
    <2>6. QED
        BY <2>4, <2>5
<1>5. ASSUME NEW u \in User, Handle(u) PROVE WelcomeOK(v)'
    <2>1. UNCHANGED <<req, user, acting>> /\ mishap \subseteq mishap'
        BY <1>5 DEF Handle, SaveNote, PushNote, SaveMail, HandlerFails, accounts, inbox
    <2>2. \A c \in Creator : Inserted(c) => Inserted(c)' /\ req'[c].user = req[c].user
        BY <2>1 DEF Inserted
    <2>3. CASE SaveNote(u)
        <3>0. [read |-> FALSE, deleted |-> FALSE] \in Note
            BY DEF Note
        <3>1. [read |-> FALSE, deleted |-> FALSE] # NoNote
            BY <3>0, AccountsAssumption
        <3>2. QED
            BY <2>1, <2>2, <2>3, <3>1 DEF SaveNote, WelcomeOK, TypeOK
    <2>4. CASE PushNote(u)
        BY <2>1, <2>2, <2>4 DEF PushNote, WelcomeOK, TypeOK
    <2>5. CASE SaveMail(u)
        BY <2>1, <2>2, <2>5 DEF SaveMail, WelcomeOK, TypeOK
    <2>6. CASE HandlerFails(u)
        BY <2>1, <2>2, <2>6 DEF HandlerFails, WelcomeOK, TypeOK
    <2>7. QED
        BY <1>5, <2>3, <2>4, <2>5, <2>6 DEF Handle
<1>6. ASSUME NEW u \in User, DeleteUser(u) PROVE WelcomeOK(v)'
    <2>1. user'[v] # NoUser <=> user[v] # NoUser
        BY <1>6, RowStays DEF DeleteUser, Live, TypeOK
    <2>2. QED
        BY <1>6, <2>1, WelcomeKept DEF DeleteUser, handlers, inbox, Inserted
<1>7. ASSUME NEW u \in User, NEW e \in Email, UpdateEmail(u, e) PROVE WelcomeOK(v)'
    <2>1. user'[v] # NoUser <=> user[v] # NoUser
        BY <1>7, AccountsAssumption DEF UpdateEmail, TypeOK, Account
    <2>2. \A d \in Creator : req'[d].step = req[d].step /\ req'[d].user = req[d].user
        BY <1>7, RacedShape DEF UpdateEmail, TypeOK
    <2>3. QED
        BY <1>7, <2>1, <2>2, WelcomeKept DEF UpdateEmail, handlers, inbox, Inserted
<1>8. ASSUME NEW u \in User, Use(u) PROVE WelcomeOK(v)'
    <2>1. UNCHANGED <<req, user, notifying, mailing>> /\ mishap \subseteq mishap'
        BY <1>8 DEF Use, Subscribe, TakeEffect, Disconnect, Arrive, LosePush, List, FindNote, MarkRead, DeleteNote, MarkAllRead, Forget, accounts, handlers
    <2>2. note'[v] # NoNote <=> note[v] # NoNote
        <3>1. CASE UNCHANGED note
            BY <3>1
        <3>2. CASE MarkRead(u) \/ DeleteNote(u) \/ MarkAllRead(u)
            <4>1. note[u] # NoNote
                BY <1>8, <3>2 DEF MarkRead, DeleteNote, MarkAllRead, WelcomeOK
            <4>2. [note[u] EXCEPT !.read = TRUE] # NoNote /\ [note[u] EXCEPT !.deleted = TRUE] # NoNote
                BY <1>8, <4>1, AccountsAssumption DEF TypeOK, Note
            <4>3. note' = [note EXCEPT ![u] = [note[u] EXCEPT !.read = TRUE]]
                  \/ note' = [note EXCEPT ![u] = [note[u] EXCEPT !.deleted = TRUE]]
                BY <3>2 DEF MarkRead, DeleteNote, MarkAllRead
            <4>4. QED
                BY <4>1, <4>2, <4>3 DEF TypeOK
        <3>3. QED
            BY <1>8, <3>1, <3>2 DEF Use, Subscribe, TakeEffect, Disconnect, Arrive, LosePush, List, FindNote, Forget
    <2>3. acting'[v] # "none" => acting[v] # "none" \/ note[v] # NoNote
        BY <1>8 DEF Use, Subscribe, TakeEffect, Disconnect, Arrive, LosePush, List, FindNote, MarkRead, DeleteNote, MarkAllRead, Forget, inbox, TypeOK
    <2>4. QED
        BY <2>1, <2>2, <2>3 DEF WelcomeOK, Inserted
<1>9. CASE Crash
    <2>1. UNCHANGED <<user, note>> /\ acting'[v] = "none"
        BY <1>9 DEF Crash
    <2>2. /\ notifying'[v] = IF notifying[v] = "none" THEN "none" ELSE "done"
          /\ mailing'[v] = IF mailing[v] = "none" THEN "none" ELSE "done"
        BY <1>9 DEF Crash
    <2>3. /\ mishap \subseteq mishap' /\ (notifying[v] \in {"save", "push"} => v \in mishap')
          /\ \A c \in Creator : Inserted(c) /\ req[c].user = v => v \in mishap'
        BY <1>9 DEF Crash, Inserted
    <2>4. notifying[v] \in {"none", "save", "push", "done"}
        BY DEF TypeOK, Handling
    <2>5. QED
        BY <2>1, <2>2, <2>3, <2>4 DEF WelcomeOK
<1>10. QED
    BY <1>1, <1>2, <1>3, <1>4, <1>5, <1>6, <1>7, <1>8, <1>9, AccountsAssumption DEF Next, Create

----------------------------------------------------------------------------
(* The client                                                              *)

LEMMA ClientHolds == IInv /\ TypeOK' /\ [Next]_vars => \A u \in User : ClientOK(u)'
<1> SUFFICES ASSUME TypeOK, TypeOK', InsertsOK, \A u \in User : WelcomeOK(u) /\ ClientOK(u), [Next]_vars,
                    NEW v \in User
             PROVE  ClientOK(v)'
    BY DEF IInv
<1>1. ASSUME UNCHANGED <<note, client>>, mishap \subseteq mishap', notifying'[v] = "done" => notifying[v] = "done"
      PROVE  ClientOK(v)'
    BY <1>1 DEF ClientOK, Visible
<1>2. ASSUME NEW c \in Creator, (\E e \in Email : CheckEmail(c, e)) \/ (\E u \in User : InsertUser(c, u)) PROVE ClientOK(v)'
    BY <1>1, <1>2 DEF CheckEmail, InsertUser, handlers, inbox
<1>3. ASSUME NEW c \in Creator, PublishCreated(c) PROVE ClientOK(v)'
    <2>1. notifying'[v] = "done" => notifying[v] = "done"
        BY <1>3 DEF PublishCreated, TypeOK
    <2>2. mishap \subseteq mishap' /\ UNCHANGED <<note, client>>
        BY <1>3 DEF PublishCreated, inbox
    <2>3. QED
        BY <1>1, <2>1, <2>2
<1>4. ASSUME NEW u \in User, Handle(u) PROVE ClientOK(v)'
    <2>1. CASE SaveNote(u)
        <3>1. UNCHANGED <<client, mishap>> /\ notifying'[u] = "push"
            BY <2>1 DEF SaveNote, inbox, TypeOK
        <3>2. v # u => notifying'[v] = notifying[v] /\ note'[v] = note[v]
            BY <2>1 DEF SaveNote, TypeOK
        <3>3. QED
            BY <3>1, <3>2 DEF ClientOK, Visible
    <2>2. CASE PushNote(u)
        <3>1. UNCHANGED <<note, mishap>>
            BY <2>2 DEF PushNote
        <3>2. v # u => notifying'[v] = notifying[v] /\ client'[v] = client[v]
            BY <2>2 DEF PushNote, TypeOK
        <3> DEFINE pushed == [client[u] EXCEPT !.coming = client[u].channel = "on"]
        <3>3. /\ pushed.listed = client[u].listed /\ pushed.channel = client[u].channel
              /\ pushed.coming = (client[u].channel = "on")
            BY DEF TypeOK, Client
        <3>4. client' = [client EXCEPT ![u] = pushed]
            BY <2>2 DEF PushNote
        <3> HIDE DEF pushed
        <3>5. client'[u] = pushed
            BY <3>4 DEF TypeOK
        <3>6. QED
            BY <3>1, <3>2, <3>3, <3>5 DEF ClientOK, Visible
    <2>3. CASE SaveMail(u)
        BY <1>1, <2>3 DEF SaveMail, inbox
    <2>4. CASE HandlerFails(u)
        <3>1. UNCHANGED <<note, client>> /\ mishap' = mishap \cup {u}
            BY <2>4 DEF HandlerFails, inbox
        <3>2. v # u => notifying'[v] = notifying[v]
            BY <2>4 DEF HandlerFails, TypeOK
        <3>3. QED
            BY <3>1, <3>2 DEF ClientOK, Visible
    <2>5. QED
        BY <1>4, <2>1, <2>2, <2>3, <2>4 DEF Handle
<1>5. ASSUME NEW u \in User, DeleteUser(u) \/ \E e \in Email : UpdateEmail(u, e) PROVE ClientOK(v)'
    BY <1>1, <1>5 DEF DeleteUser, UpdateEmail, handlers, inbox
<1>6. ASSUME NEW u \in User, Use(u) PROVE ClientOK(v)'
    <2>1. UNCHANGED <<notifying, mailing>> /\ mishap \subseteq mishap'
        BY <1>6 DEF Use, Subscribe, TakeEffect, Disconnect, Arrive, LosePush, List, FindNote, MarkRead, DeleteNote, MarkAllRead, Forget, handlers
    <2>2. CASE Subscribe(u) \/ TakeEffect(u) \/ Disconnect(u) \/ Arrive(u) \/ LosePush(u)
        <3>1. /\ Offline.listed = "no" /\ Asked.listed = "no"
              /\ [client[u] EXCEPT !.channel = "on"].listed = client[u].listed
            BY DEF Offline, Asked, TypeOK, Client
        <3>2. UNCHANGED note
            BY <2>2 DEF Subscribe, TakeEffect, Disconnect, Arrive, LosePush
        <3>3. CASE v # u
            <4>1. client'[v] = client[v]
                BY <2>2, <3>3 DEF Subscribe, TakeEffect, Disconnect, Arrive, LosePush, TypeOK
            <4>2. QED
                BY <2>1, <3>2, <4>1 DEF ClientOK, Visible
        <3>4. CASE v = u /\ (Subscribe(u) \/ Disconnect(u))
            <4>1. client'[v].listed = "no"
                BY <3>1, <3>4 DEF Subscribe, Disconnect, TypeOK
            <4>2. QED
                BY <4>1 DEF ClientOK
        <3>5. CASE v = u /\ TakeEffect(u)
            <4>1. client'[v] = [client[u] EXCEPT !.channel = "on"] /\ client[u].channel = "asked"
                BY <3>5 DEF TakeEffect, TypeOK
            <4>2. QED
                BY <3>1, <3>5, <4>1 DEF ClientOK
        <3>6. CASE v = u /\ Arrive(u)
            <4>1. client'[v] = [client[u] EXCEPT !.coming = FALSE, !.shows = TRUE]
                BY <3>6 DEF Arrive, TypeOK
            <4>2. client'[v].shows /\ client'[v].listed = client[v].listed /\ client'[v].channel = client[v].channel
                BY <3>6, <4>1 DEF TypeOK, Client
            <4>3. QED
                BY <4>2 DEF ClientOK
        <3>7. CASE v = u /\ LosePush(u)
            <4>1. client'[v] = [client[u] EXCEPT !.coming = FALSE] /\ v \in mishap'
                BY <3>7 DEF LosePush, TypeOK
            <4>2. client'[v].listed = client[v].listed /\ client'[v].channel = client[v].channel
                BY <3>7, <4>1 DEF TypeOK, Client
            <4>3. QED
                BY <4>1, <4>2 DEF ClientOK
        <3>8. QED
            BY <2>2, <3>3, <3>4, <3>5, <3>6, <3>7
    <2>3. CASE List(u)
        <3> DEFINE listing == [client[u] EXCEPT !.listed = IF client[u].channel = "on" /\ remembered[u] = NotAsked
                                                            THEN "sure" ELSE "unsure",
                                                !.shows = @ \/ Answer(u) > 0]
        <3>1. /\ listing.channel = client[u].channel
              /\ listing.listed = IF client[u].channel = "on" /\ remembered[u] = NotAsked THEN "sure" ELSE "unsure"
              /\ listing.shows = (client[u].shows \/ Answer(u) > 0)
            BY DEF TypeOK, Client
        <3>2. client' = [client EXCEPT ![u] = listing] /\ UNCHANGED note
            BY <2>3 DEF List
        <3> HIDE DEF listing
        <3>3. remembered[u] = NotAsked /\ Visible(u) # NoNote => Answer(u) > 0
            BY DEF Answer, Count
        <3>4. CASE v = u
            <4>1. client'[v] = listing
                BY <3>2, <3>4 DEF TypeOK
            <4>2. listing.listed = "sure" /\ Visible(v) # NoNote => listing.shows
                BY <3>1, <3>3, <3>4
            <4>3. Visible(v)' = Visible(v)
                BY <3>2 DEF Visible
            <4>4. QED
                BY <3>1, <3>2, <3>4, <4>1, <4>2, <4>3 DEF ClientOK
        <3>5. CASE v # u
            <4>1. client'[v] = client[v]
                BY <3>2, <3>5 DEF TypeOK
            <4>2. QED
                BY <2>1, <3>2, <4>1 DEF ClientOK, Visible
        <3>6. QED
            BY <3>4, <3>5
    <2>4. CASE FindNote(u, "read") \/ FindNote(u, "delete") \/ Forget(u)
        BY <1>1, <2>1, <2>4 DEF FindNote, Forget
    <2>5. CASE MarkRead(u) \/ MarkAllRead(u)
        <3>1. note[u] \in Note
            BY <1>6, <2>5 DEF MarkRead, MarkAllRead, WelcomeOK, TypeOK
        <3>2. [note[u] EXCEPT !.read = TRUE].deleted = note[u].deleted
            BY <3>1 DEF Note
        <3>3. note' = [note EXCEPT ![u] = [note[u] EXCEPT !.read = TRUE]] /\ UNCHANGED client
            BY <2>5 DEF MarkRead, MarkAllRead, inbox
        <3>4. Visible(v)' # NoNote => Visible(v) # NoNote
            BY <3>1, <3>2, <3>3, AccountsAssumption DEF Visible, TypeOK
        <3>5. QED
            BY <2>1, <3>3, <3>4 DEF ClientOK
    <2>6. CASE DeleteNote(u)
        <3>1. note[u] \in Note
            BY <1>6, <2>6 DEF DeleteNote, WelcomeOK, TypeOK
        <3>2. [note[u] EXCEPT !.deleted = TRUE].deleted = TRUE /\ [note[u] EXCEPT !.deleted = TRUE] \in Note
            BY <3>1 DEF Note
        <3>3. /\ note' = [note EXCEPT ![u] = [note[u] EXCEPT !.deleted = TRUE]]
              /\ client' = [client EXCEPT ![u] = [client[u] EXCEPT !.shows = FALSE]]
            BY <2>6 DEF DeleteNote
        <3>4. /\ [client[u] EXCEPT !.shows = FALSE].channel = client[u].channel
              /\ [client[u] EXCEPT !.shows = FALSE].listed = client[u].listed
            BY DEF TypeOK, Client
        <3>5. CASE v = u
            <4>1. Visible(v)' = NoNote
                BY <3>2, <3>3, <3>5, AccountsAssumption DEF Visible, TypeOK
            <4>2. QED
                BY <3>3, <3>4, <3>5, <4>1 DEF ClientOK, TypeOK
        <3>6. CASE v # u
            <4>1. client'[v] = client[v] /\ note'[v] = note[v]
                BY <3>3, <3>6 DEF TypeOK
            <4>2. QED
                BY <2>1, <4>1 DEF ClientOK, Visible
        <3>7. QED
            BY <3>5, <3>6
    <2>7. QED
        BY <1>6, <2>2, <2>3, <2>4, <2>5, <2>6 DEF Use
<1>7. CASE Crash
    <2>1. client'[v].listed = "no"
        BY <1>7 DEF Crash, Offline
    <2>2. QED
        BY <2>1 DEF ClientOK
<1>8. CASE UNCHANGED vars
    BY <1>1, <1>8 DEF vars
<1>9. QED
    BY <1>2, <1>3, <1>4, <1>5, <1>6, <1>7, <1>8, AccountsAssumption DEF Next, Create

----------------------------------------------------------------------------
(* The theorems                                                            *)

LEMMA InitHolds == Init => IInv
<1> SUFFICES ASSUME Init PROVE IInv
    OBVIOUS
<1>1. TypeOK
    BY IdleRequest, AccountsAssumption DEF Init, TypeOK, Handling, NotAsked, Client, Offline
<1>2. InsertsOK /\ FreeOK
    BY DEF Init, InsertsOK, FreeOK, Inserted, Idle
<1>3. ASSUME NEW u \in User PROVE WelcomeOK(u) /\ ClientOK(u)
    BY <1>3 DEF Init, WelcomeOK, ClientOK, Offline
<1>4. QED
    BY <1>1, <1>2, <1>3 DEF IInv

\* What the proofs below rest on holds in every reachable state.
THEOREM Invariance == Spec => []IInv
<1>1. IInv /\ [Next]_vars => IInv'
    <2> SUFFICES ASSUME IInv, [Next]_vars PROVE IInv'
        OBVIOUS
    <2>1. TypeOK'
        BY TypeStays
    <2>2. InsertsOK' /\ FreeOK'
        BY <2>1, InsertsStay, FreeHolds
    <2>3. \A u \in User : WelcomeOK(u)' /\ ClientOK(u)'
        BY <2>1, WelcomeHolds, ClientHolds
    <2>4. QED
        BY <2>1, <2>2, <2>3 DEF IInv
<1>2. QED
    BY <1>1, InitHolds, PTL DEF Spec

\* Rows, requests, handlers and clients stay of their types, however many there are.
THEOREM TypeCorrect == Spec => []TypeOK
<1>1. IInv => TypeOK
    BY DEF IInv
<1>2. QED
    BY <1>1, Invariance, PTL

\* UserCreatedEvent reaches both handlers for every account whose creation met
\* no crash, error or deletion, and nobody else is notified.
THEOREM EveryAccountIsWelcomed == Spec => []WelcomedUnlessMishap
<1>1. IInv => WelcomedUnlessMishap
    <2> SUFFICES ASSUME IInv, NEW u \in User
                 PROVE  /\ note[u] # NoNote => user[u] # NoUser
                        /\ user[u] # NoUser =>
                              \/ u \in mishap
                              \/ \E c \in Creator : req[c].step = "inserted" /\ req[c].user = u
                              \/ "save" \in {notifying[u], mailing[u]}
                              \/ note[u] # NoNote /\ mailing[u] = "done"
        BY DEF WelcomedUnlessMishap
    <2>1. WelcomeOK(u) /\ notifying[u] \in Handling /\ mailing[u] \in Handling \ {"push"}
        BY DEF IInv, TypeOK
    <2>2. QED
        BY <2>1 DEF WelcomeOK, Handling, Inserted
<1>2. QED
    BY <1>1, Invariance, PTL

\* A subscription in effect before the list is read is enough not to miss the
\* notification, whatever the order of its save, its push and the list.
THEOREM SubscribersMissNothing == Spec => []NothingMissed
<1>1. IInv => NothingMissed
    BY DEF IInv, NothingMissed, ClientOK
<1>2. QED
    BY <1>1, Invariance, PTL

\* The unique index refuses an insertion only where existsByEmail, which looks
\* at live accounts only, was overtaken or did not look.
THEOREM ConflictsAreExplained == Spec => ConflictExplained
<1> DEFINE Explained ==
        \A c \in Creator :
            (req[c].step = "hash" /\ req'[c].step = "conflict") =>
                req[c].raced \/ \E u \in Holders(req[c].email) : user[u].deleted
<1>1. IInv /\ [Next]_vars => [Explained]_vars
    <2> SUFFICES ASSUME IInv, Next, NEW c \in Creator,
                        req[c].step = "hash", req'[c].step = "conflict", ~req[c].raced
                 PROVE  \E u \in Holders(req[c].email) : user[u].deleted
        OBVIOUS
    <2>1. req \in [Creator -> Request]
        BY DEF IInv, TypeOK
    <2>2. Holders(req[c].email) # {}
        <3>1. \A e : Raced(e)[c].step = "hash"
            BY <2>1, RacedShape
        <3>2. Create
            <4>1. ~(Crash \/ \E u \in User : Handle(u) \/ DeleteUser(u))
                BY DEF Crash, Handle, SaveNote, PushNote, SaveMail, HandlerFails, DeleteUser, accounts, Idle
            <4>2. ~\E u \in User, e \in Email : UpdateEmail(u, e)
                BY <3>1 DEF UpdateEmail
            <4>3. ~\E u \in Reader : Use(u)
                BY DEF Use, Subscribe, TakeEffect, Disconnect, Arrive, LosePush, List, FindNote, MarkRead, DeleteNote, MarkAllRead, Forget, accounts
            <4>4. QED
                BY <4>1, <4>2, <4>3 DEF Next
        <3>3. PICK d \in Creator : \/ \E e \in Email : CheckEmail(d, e)
                                   \/ \E u \in User : InsertUser(d, u)
                                   \/ PublishCreated(d)
            BY <3>2 DEF Create
        <3>4. d = c
            <4>1. CASE \E e \in Email : CheckEmail(d, e)
                BY <2>1, <4>1 DEF CheckEmail, Idle
            <4>2. CASE \E u \in User : InsertUser(d, u)
                <5> SUFFICES ASSUME d # c PROVE req'[c].step = "hash"
                    OBVIOUS
                <5>1. Raced(req[d].email) \in [Creator -> Request] /\ Raced(req[d].email)[c].step = "hash"
                    BY <2>1, <3>1, RacedShape
                <5>2. QED
                    BY <2>1, <4>2, <5>1 DEF InsertUser
            <4>3. CASE PublishCreated(d)
                BY <2>1, <4>3 DEF PublishCreated
            <4>4. QED
                BY <3>3, <4>1, <4>2, <4>3
        <3>5. PICK u \in User : InsertUser(c, u)
            BY <3>3, <3>4 DEF CheckEmail, PublishCreated
        <3>6. CASE Holders(req[c].email) = {}
            <4>1. req'[c] = [Idle EXCEPT !.step = "inserted", !.user = u]
                BY <3>1, <3>5, <3>6, <2>1 DEF InsertUser, Raced
            <4>2. QED
                BY <4>1 DEF Idle
        <3>7. QED
            BY <3>6
    <2>3. PICK u \in Holders(req[c].email) : TRUE
        BY <2>2
    <2>4. ~Live(u)
        BY <2>3 DEF IInv, FreeOK
    <2>5. QED
        BY <2>3, <2>4 DEF Live, Holders
<1>2. QED
    BY <1>1, Invariance, PTL DEF Spec, ConflictExplained
=============================================================================
