------------------------------ MODULE Accounts ------------------------------
(***************************************************************************)
(* Accounts made by administrators, and the welcome each gets: creating one *)
(* publishes UserCreatedEvent, one handler of which mails a welcome and the *)
(* other stores a notification and then pushes it to the subscribers of the *)
(* user's channel.  Clients subscribe, list, mark and delete notifications; *)
(* what the repository finds is remembered for a second.  The welcome is    *)
(* the only notification the system makes, so a user has one at most.       *)
(***************************************************************************)
EXTENDS Naturals

CONSTANTS
    User,        \* rows of user
    Reader,      \* those that use their notifications
    Email,
    Creator,     \* requests to userCreate; each may be made again
    MaxChanges,  \* bound: calls of userUpdate and userDelete
    NoUser, NoNote, NoEmail

Account == [email : Email, deleted : BOOLEAN]
Note == [read : BOOLEAN, deleted : BOOLEAN]
Request == [step : {"idle", "hash", "inserted", "conflict"},
            email : Email \cup {NoEmail}, user : User \cup {NoUser},
            raced : BOOLEAN]   \* history: somebody took the email after this request saw it free
Idle == [step |-> "idle", email |-> NoEmail, user |-> NoUser, raced |-> FALSE]

ASSUME AccountsAssumption ==
    /\ MaxChanges \in Nat /\ Reader \subseteq User
    /\ NoUser \notin Account \cup User /\ NoNote \notin Note /\ NoEmail \notin Email

VARIABLES
    user, note,   \* rows; the notification of each user
    req,
    notifying,    \* UserCreatedEventHandler of each user
    mailing,      \* UserCreatedEmailEventHandler of each user
    remembered,   \* query cache: how many notifications the list found for each user, or NotAsked
    client,       \* each user's client, see Client
    acting,       \* each user's call between findByIdAndUserId and its update
    changes,
    mishap        \* history: users whose welcome met a crash, an error or a deletion

vars == <<user, note, req, notifying, mailing, remembered, client, acting, changes, mishap>>
accounts == <<user, req, changes>>
handlers == <<notifying, mailing, mishap>>
inbox == <<remembered, client, acting>>

NotAsked == 2
Handling == {"none", "save", "push", "done"}
\* A subscription is asked for and takes effect in Redis later, which nobody tells
\* the client.  A list is "sure" when it was read from the database after that.
\* coming: a push is on its way.
Client == [channel : {"off", "asked", "on"}, listed : {"no", "unsure", "sure"},
           coming : BOOLEAN, shows : BOOLEAN]
Offline == [channel |-> "off", listed |-> "no", coming |-> FALSE, shows |-> FALSE]
Asked == [Offline EXCEPT !.channel = "asked"]
Live(u) == user[u] # NoUser /\ ~user[u].deleted
Holders(e) == {u \in User : user[u] # NoUser /\ user[u].email = e}
Visible(u) == IF note[u] # NoNote /\ note[u].deleted THEN NoNote ELSE note[u]
Count(u) == IF Visible(u) = NoNote THEN 0 ELSE 1
Answer(u) == IF remembered[u] = NotAsked THEN Count(u) ELSE remembered[u]

Init ==
    /\ user = [u \in User |-> NoUser] /\ note = [u \in User |-> NoNote]
    /\ req = [c \in Creator |-> Idle]
    /\ notifying = [u \in User |-> "none"] /\ mailing = [u \in User |-> "none"]
    /\ remembered = [u \in User |-> NotAsked]
    /\ client = [u \in User |-> Offline]
    /\ acting = [u \in User |-> "none"]
    /\ changes = 0 /\ mishap = {}
-----------------------------------------------------------------------------
(***************************************************************************)
(* userCreate, from await to await                                         *)
(***************************************************************************)
\* Mutant of CheckEmail: left to the index.
CheckNothing(c, e) ==
    /\ req[c].step \in {"idle", "conflict"}
    /\ req' = [req EXCEPT ![c] = [Idle EXCEPT !.step = "hash", !.email = e]]
    /\ UNCHANGED <<user, note, handlers, inbox, changes>>

\* existsByEmail does not look at deleted accounts.
CheckEmail(c, e) ==
    /\ req[c].step \in {"idle", "conflict"}
    /\ req' = [req EXCEPT ![c] = IF \E u \in Holders(e) : Live(u)
                                 THEN Idle
                                 ELSE [Idle EXCEPT !.step = "hash", !.email = e]]
    /\ UNCHANGED <<user, note, handlers, inbox, changes>>

\* What requests that saw e free do not know yet.
Raced(e) == [d \in Creator |-> [req[d] EXCEPT !.raced = @ \/ (req[d].step = "hash" /\ req[d].email = e)]]

\* Mutant of InsertUser: the event is published before the row is there.
InsertUserLate(c, u) ==
    LET e == req[c].email
    IN  /\ req[c].step = "hash" /\ user[u] = NoUser
        /\ notifying' = [notifying EXCEPT ![u] = "save"]
        /\ mailing' = [mailing EXCEPT ![u] = "save"]
        /\ IF Holders(e) # {}
           THEN req' = [req EXCEPT ![c] = [Idle EXCEPT !.step = "conflict"]] /\ UNCHANGED user
           ELSE /\ user' = [user EXCEPT ![u] = [email |-> e, deleted |-> FALSE]]
                /\ req' = [Raced(e) EXCEPT ![c] = Idle]
        /\ UNCHANGED <<note, mishap, inbox, changes>>

\* The unique index looks at every account.
InsertUser(c, u) ==
    LET e == req[c].email
    IN  /\ req[c].step = "hash"
        /\ IF Holders(e) # {}
           THEN req' = [req EXCEPT ![c] = [Idle EXCEPT !.step = "conflict"]] /\ UNCHANGED user
           ELSE /\ user[u] = NoUser
                /\ user' = [user EXCEPT ![u] = [email |-> e, deleted |-> FALSE]]
                /\ req' = [Raced(e) EXCEPT ![c] = [Idle EXCEPT !.step = "inserted", !.user = u]]
        /\ UNCHANGED <<note, handlers, inbox, changes>>

\* create reads the account back, and only then the event is published.
PublishCreated(c) ==
    LET u == req[c].user
    IN  /\ req[c].step = "inserted"
        /\ req' = [req EXCEPT ![c] = Idle]
        /\ IF Live(u)
           THEN /\ notifying' = [notifying EXCEPT ![u] = "save"]
                /\ mailing' = [mailing EXCEPT ![u] = "save"]
                /\ UNCHANGED mishap
           ELSE /\ mishap' = mishap \cup {u}
                /\ UNCHANGED <<notifying, mailing>>
        /\ UNCHANGED <<user, note, inbox, changes>>

(***************************************************************************)
(* The two handlers of UserCreatedEvent                                    *)
(***************************************************************************)
SaveNote(u) ==
    /\ notifying[u] = "save"
    /\ note' = [note EXCEPT ![u] = [read |-> FALSE, deleted |-> FALSE]]
    /\ notifying' = [notifying EXCEPT ![u] = "push"]
    /\ UNCHANGED <<accounts, mailing, mishap, inbox>>

\* Redis passes a push on to who is subscribed, and keeps it for nobody.
PushNote(u) ==
    /\ notifying[u] = "push"
    /\ notifying' = [notifying EXCEPT ![u] = "done"]
    /\ client' = [client EXCEPT ![u].coming = client[u].channel = "on"]
    /\ UNCHANGED <<accounts, note, mailing, mishap, remembered, acting>>

SaveMail(u) ==
    /\ mailing[u] = "save"
    /\ mailing' = [mailing EXCEPT ![u] = "done"]
    /\ UNCHANGED <<accounts, note, notifying, mishap, inbox>>

\* The event bus drops what a handler throws; the mail's handler catches it itself.
HandlerFails(u) ==
    /\ \/ notifying[u] \in {"save", "push"} /\ notifying' = [notifying EXCEPT ![u] = "done"]
          /\ UNCHANGED mailing
       \/ mailing[u] = "save" /\ mailing' = [mailing EXCEPT ![u] = "done"] /\ UNCHANGED notifying
    /\ mishap' = mishap \cup {u}
    /\ UNCHANGED <<accounts, note, inbox>>

(***************************************************************************)
(* userUpdate and userDelete                                               *)
(***************************************************************************)
\* update has no condition on deletedAt.
UpdateEmail(u, e) ==
    /\ changes < MaxChanges /\ changes' = changes + 1
    /\ user[u] # NoUser /\ Holders(e) = {}
    /\ user' = [user EXCEPT ![u].email = e]
    /\ req' = Raced(e)
    /\ UNCHANGED <<note, handlers, inbox>>

\* Mutant of DeleteUser: the address goes with the account.
DeleteUserAndEmail(u) ==
    /\ changes < MaxChanges /\ changes' = changes + 1
    /\ Live(u)
    /\ user' = [user EXCEPT ![u] = [email |-> NoEmail, deleted |-> TRUE]]
    /\ UNCHANGED <<req, note, handlers, inbox>>

DeleteUser(u) ==
    /\ changes < MaxChanges /\ changes' = changes + 1
    /\ Live(u)
    /\ user' = [user EXCEPT ![u].deleted = TRUE]
    /\ UNCHANGED <<req, note, handlers, inbox>>

(***************************************************************************)
(* The user's notifications.  Tokens outlive the account: a deleted user   *)
(* may still call until the access token expires.                          *)
(***************************************************************************)
Subscribe(u) ==
    /\ user[u] # NoUser /\ client[u].channel = "off"
    /\ client' = [client EXCEPT ![u] = Asked]
    /\ UNCHANGED <<accounts, note, handlers, remembered, acting>>

TakeEffect(u) ==
    /\ client[u].channel = "asked"
    /\ client' = [client EXCEPT ![u].channel = "on"]
    /\ UNCHANGED <<accounts, note, handlers, remembered, acting>>

Arrive(u) ==
    /\ client[u].coming
    /\ client' = [client EXCEPT ![u].coming = FALSE, ![u].shows = TRUE]
    /\ UNCHANGED <<accounts, note, handlers, remembered, acting>>

\* The subscriber's connection to Redis breaks and is made again.
LosePush(u) ==
    /\ client[u].coming
    /\ client' = [client EXCEPT ![u].coming = FALSE]
    /\ mishap' = mishap \cup {u}
    /\ UNCHANGED <<accounts, note, notifying, mailing, remembered, acting>>

Disconnect(u) ==
    /\ client[u].channel # "off"
    /\ client' = [client EXCEPT ![u] = Offline]
    /\ UNCHANGED <<accounts, note, handlers, remembered, acting>>

\* A list adds what it holds to what pushes have shown.
List(u) ==
    /\ client[u].channel # "off"
    /\ client' = [client EXCEPT ![u].listed = IF client[u].channel = "on" /\ remembered[u] = NotAsked
                                              THEN "sure" ELSE "unsure",
                                ![u].shows = @ \/ Answer(u) > 0]
    /\ remembered' = [remembered EXCEPT ![u] = Answer(u)]
    /\ UNCHANGED <<accounts, note, handlers, acting>>

\* notificationMarkRead and notificationDelete first find the row, or remember
\* to have found it; what they do not find they refuse.
FindNote(u, what) ==
    /\ acting[u] = "none" /\ note[u] # NoNote
    /\ acting' = [acting EXCEPT ![u] = what]
    /\ UNCHANGED <<accounts, note, handlers, remembered, client>>

\* Neither update has a condition on deletedAt.
MarkRead(u) ==
    /\ acting[u] = "read"
    /\ acting' = [acting EXCEPT ![u] = "none"]
    /\ note' = [note EXCEPT ![u].read = TRUE]
    /\ UNCHANGED <<accounts, handlers, remembered, client>>

DeleteNote(u) ==
    /\ acting[u] = "delete"
    /\ acting' = [acting EXCEPT ![u] = "none"]
    /\ note' = [note EXCEPT ![u].deleted = TRUE]
    /\ client' = [client EXCEPT ![u].shows = FALSE]
    /\ UNCHANGED <<accounts, handlers, remembered>>

MarkAllRead(u) ==
    /\ note[u] # NoNote /\ ~note[u].read
    /\ note' = [note EXCEPT ![u].read = TRUE]
    /\ UNCHANGED <<accounts, handlers, inbox>>

Forget(u) ==
    /\ remembered[u] # NotAsked
    /\ remembered' = [remembered EXCEPT ![u] = NotAsked]
    /\ UNCHANGED <<accounts, note, handlers, client, acting>>

\* The process dies, and with it its requests, handlers and connections; the
\* cache is in Redis.
Crash ==
    /\ mishap' = mishap \cup {u \in User : \/ notifying[u] \in {"save", "push"} \/ mailing[u] = "save"
                                           \/ \E c \in Creator : req[c].step = "inserted" /\ req[c].user = u}
    /\ mishap' # mishap
    /\ req' = [c \in Creator |-> Idle]
    /\ notifying' = [u \in User |-> IF notifying[u] = "none" THEN "none" ELSE "done"]
    /\ mailing' = [u \in User |-> IF mailing[u] = "none" THEN "none" ELSE "done"]
    /\ client' = [u \in User |-> Offline]
    /\ acting' = [u \in User |-> "none"]
    /\ UNCHANGED <<user, note, remembered, changes>>
-----------------------------------------------------------------------------
Create ==
    \E c \in Creator : \/ \E e \in Email : CheckEmail(c, e)
                       \/ \E u \in User : InsertUser(c, u)
                       \/ PublishCreated(c)

\* Mutant of Handle: pushed first, then stored.
HandlePushFirst(u) ==
    \/ /\ notifying[u] = "save" /\ notifying' = [notifying EXCEPT ![u] = "push"]
       /\ client' = [client EXCEPT ![u].coming = client[u].channel = "on"]
       /\ UNCHANGED <<accounts, note, mailing, mishap, remembered, acting>>
    \/ /\ notifying[u] = "push" /\ notifying' = [notifying EXCEPT ![u] = "done"]
       /\ note' = [note EXCEPT ![u] = [read |-> FALSE, deleted |-> FALSE]]
       /\ UNCHANGED <<accounts, mailing, mishap, inbox>>
    \/ SaveMail(u)

Handle(u) == SaveNote(u) \/ PushNote(u) \/ SaveMail(u) \/ HandlerFails(u)

Use(u) ==
    \/ Subscribe(u) \/ TakeEffect(u) \/ Disconnect(u) \/ Arrive(u) \/ LosePush(u) \/ List(u)
    \/ FindNote(u, "read") \/ FindNote(u, "delete") \/ MarkRead(u) \/ DeleteNote(u) \/ MarkAllRead(u)
    \/ Forget(u)

Next ==
    \/ Create \/ Crash
    \/ \E u \in User : Handle(u) \/ DeleteUser(u) \/ \E e \in Email : UpdateEmail(u, e)
    \/ \E u \in Reader : Use(u)

Spec == Init /\ [][Next]_vars

(***************************************************************************)
(* Properties                                                              *)
(***************************************************************************)
TypeOK ==
    /\ user \in [User -> Account \cup {NoUser}] /\ note \in [User -> Note \cup {NoNote}]
    /\ req \in [Creator -> Request]
    /\ notifying \in [User -> Handling] /\ mailing \in [User -> Handling \ {"push"}]
    /\ remembered \in [User -> 0..NotAsked]
    /\ client \in [User -> Client]
    /\ acting \in [User -> {"none", "read", "delete"}]
    /\ changes \in 0..MaxChanges /\ mishap \subseteq User

\* Once nothing is under way for a user, the user has a notification, if only a
\* deleted one, and both handlers have run, unless a crash, an error or a
\* deletion during the creation is to blame; nobody else has a notification.
WelcomedUnlessMishap ==
    \A u \in User :
        /\ note[u] # NoNote => user[u] # NoUser
        /\ user[u] # NoUser =>
              \/ u \in mishap
              \/ \E c \in Creator : req[c].step = "inserted" /\ req[c].user = u
              \/ "save" \in {notifying[u], mailing[u]}
              \/ note[u] # NoNote /\ mailing[u] = "done"

\* A client whose list was read from the database after its subscription took
\* effect shows the notification once the handler is done, or is about to: a push
\* is on its way.  Whether the save, the push or the list came first does not
\* matter; a lost push is a mishap.
NothingMissed ==
    \A u \in User :
        (client[u].listed = "sure" /\ notifying[u] = "done" /\ Visible(u) # NoNote)
            => client[u].shows \/ client[u].coming \/ u \in mishap

\* userCreate runs into the unique index only if the email was taken meanwhile,
\* or is that of a deleted account.
ConflictExplained ==
    [][\A c \in Creator :
          (req[c].step = "hash" /\ req'[c].step = "conflict") =>
             req[c].raced \/ \E u \in Holders(req[c].email) : user[u].deleted]_vars
=============================================================================
