----------------------------- MODULE MagicLinks -----------------------------
(***************************************************************************)
(* Magic links of the users module: a request stores a token and mails it, *)
(* and a visit presents it to be logged in.  One action per await of the   *)
(* two handlers; the mail queue is the environment, which may deliver a    *)
(* job any time after it is added (module MailQueue).                      *)
(***************************************************************************)
EXTENDS Naturals, FiniteSets

CONSTANTS
    Link,       \* link tokens, one per requestMagicLink (a bound)
    Visit,      \* calls of authenticateWithMagicLink (a bound)
    Email,      \* addresses links are asked for
    Origin,     \* ip addresses: the fingerprint of a request
    NoLink,     \* the row of a token that has not been stored
    NoOrigin    \* a visit that has not begun

LinkRow == [email : Email, origin : Origin, used : BOOLEAN, expired : BOOLEAN]

VisitState == [pc : {"idle", "findUser", "mark", "issue", "refused", "thrown", "fault"},
               link : Link \cup {NoLink}, origin : Origin \cup {NoOrigin}]

IdleVisit == [pc |-> "idle", link |-> NoLink, origin |-> NoOrigin]

ASSUME LinkConstants == NoLink \notin Link \cup LinkRow /\ NoOrigin \notin Origin

VARIABLES
    link,       \* the magic_link_token table
    mailed,     \* links in a mail job, hence readable by the addressee
    user,       \* the user table, by address
    ask,        \* the requestMagicLink call that makes each link
    visit       \* the authenticateWithMagicLink calls

vars == <<link, mailed, user, ask, visit>>

TypeOK ==
    /\ link \in [Link -> LinkRow \cup {NoLink}]
    /\ mailed \subseteq Link
    /\ user \in [Email -> {"none", "present", "deleted"}]
    /\ ask \in [Link -> {"idle", "saveMail", "queue", "success", "failed"}]
    /\ visit \in [Visit -> VisitState]

Init ==
    /\ link = [l \in Link |-> NoLink]
    /\ mailed = {}
    /\ user \in [Email -> {"none", "present"}]
    /\ ask = [l \in Link |-> "idle"]
    /\ visit = [v \in Visit |-> IdleVisit]

Stored == {l \in Link : link[l] # NoLink}

----------------------------------------------------------------------------
(* requestMagicLink: MagicLinkRequestHandler.execute *)

\* A row asked for by address e from origin o.
NewLink(e, o) == [email |-> e, origin |-> o, used |-> FALSE, expired |-> FALSE]

\* Mutant of InsertLink: the INSERT is started and not awaited.
InsertLinkUnawaited(l, e, o) ==
    /\ \/ ask[l] = "idle" /\ ask' = [ask EXCEPT ![l] = "saveMail"] /\ UNCHANGED link
       \/ /\ ask[l] # "idle" /\ l \notin Stored
          /\ link' = [link EXCEPT ![l] = NewLink(e, o)]
          /\ UNCHANGED ask
    /\ UNCHANGED <<mailed, user, visit>>

\* magicLinkTokenRepository.create.  Nothing is asked about the address.
InsertLink(l, e, o) ==
    /\ ask[l] = "idle"
    /\ link' = [link EXCEPT ![l] = NewLink(e, o)]
    /\ ask' = [ask EXCEPT ![l] = "saveMail"]
    /\ UNCHANGED <<mailed, user, visit>>

\* mailRepository.create: the mail's own row, before its job.
SaveMail(l) ==
    /\ ask[l] = "saveMail"
    /\ ask' = [ask EXCEPT ![l] = "queue"]
    /\ UNCHANGED <<link, mailed, user, visit>>

\* addToQueue, and the answer { success: true }.
QueueMail(l) ==
    /\ ask[l] = "queue"
    /\ mailed' = mailed \cup {l}
    /\ ask' = [ask EXCEPT ![l] = "success"]
    /\ UNCHANGED <<link, user, visit>>

\* An await rejects (no template, no database, no Redis), baseUrl is not
\* configured, or the process dies: what was written stays.
AskFails(l) ==
    /\ ask[l] \in {"saveMail", "queue"}
    /\ ask' = [ask EXCEPT ![l] = "failed"]
    /\ UNCHANGED <<link, mailed, user, visit>>

----------------------------------------------------------------------------
(* authenticateWithMagicLink: MagicLinkAuthenticateHandler.execute *)

\* Mutant of IsValid: isUsed is not looked at.
IsUnexpired(l) == ~link[l].expired

IsValid(l) == ~link[l].used /\ ~link[l].expired

MatchesFingerprint(l, o) == link[l].origin = o

\* findByToken, then isValid and matchesFingerprint on what it returned.
VisitLink(v, l, o) ==
    /\ visit[v].pc = "idle"
    /\ l \in mailed
    /\ visit' = [visit EXCEPT ![v] =
            [pc |-> IF l \in Stored /\ IsValid(l) /\ MatchesFingerprint(l, o)
                    THEN "findUser" ELSE "refused",
             link |-> l, origin |-> o]]
    /\ UNCHANGED <<link, mailed, user, ask>>

\* Mutant of FindUser: the link is marked as used before the user is known.
FindUserAfterMark(v) ==
    /\ visit[v].pc = "findUser"
    /\ link' = [link EXCEPT ![visit[v].link].used = TRUE]
    /\ visit' = [visit EXCEPT ![v].pc =
            IF user[link[visit[v].link].email] = "present" THEN "mark" ELSE "refused"]
    /\ UNCHANGED <<mailed, user, ask>>

\* findByEmail: whoever has the address now; verified and blocked are not read.
FindUser(v) ==
    /\ visit[v].pc = "findUser"
    /\ visit' = [visit EXCEPT ![v].pc =
            IF user[link[visit[v].link].email] = "present" THEN "mark" ELSE "refused"]
    /\ UNCHANGED <<link, mailed, user, ask>>

\* markAsUsed: UPDATE by id, unconditional.
MarkAsUsed(v) ==
    /\ visit[v].pc = "mark"
    /\ link' = [link EXCEPT ![visit[v].link].used = TRUE]
    /\ visit' = [visit EXCEPT ![v].pc = "issue"]
    /\ UNCHANGED <<mailed, user, ask>>

\* generateRefreshToken is given { ip } for a request: reading its headers
\* throws, after the access token was signed and before anything is returned.
IssueThrows(v) ==
    /\ visit[v].pc = "issue"
    /\ visit' = [visit EXCEPT ![v].pc = "thrown"]
    /\ UNCHANGED <<link, mailed, user, ask>>

\* An await rejects or the process dies.
VisitFails(v) ==
    /\ visit[v].pc \in {"findUser", "mark", "issue"}
    /\ visit' = [visit EXCEPT ![v].pc = "fault"]
    /\ UNCHANGED <<link, mailed, user, ask>>

----------------------------------------------------------------------------
\* The link's ttl is over.
Expire(l) ==
    /\ l \in Stored
    /\ ~link[l].expired
    /\ link' = [link EXCEPT ![l].expired = TRUE]
    /\ UNCHANGED <<mailed, user, ask, visit>>

\* userCreate.  A deleted user's row keeps its address: no second one.
CreateUser(e) ==
    /\ user[e] = "none"
    /\ user' = [user EXCEPT ![e] = "present"]
    /\ UNCHANGED <<link, mailed, ask, visit>>

\* Mutant of DeleteUser: the row itself is removed.
RemoveUser(e) ==
    /\ user[e] = "present"
    /\ user' = [x \in Email \ {e} |-> user[x]]
    /\ UNCHANGED <<link, mailed, ask, visit>>

\* userDelete: findByEmail no longer returns the row.
DeleteUser(e) ==
    /\ user[e] = "present"
    /\ user' = [user EXCEPT ![e] = "deleted"]
    /\ UNCHANGED <<link, mailed, ask, visit>>

\* userUpdate with a new email, of a user deleted or not: f must be free.
ChangeEmail(e, f) ==
    /\ user[e] # "none"
    /\ user[f] = "none"
    /\ user' = [user EXCEPT ![e] = "none", ![f] = user[e]]
    /\ UNCHANGED <<link, mailed, ask, visit>>

Next ==
    \/ \E l \in Link, e \in Email, o \in Origin : InsertLink(l, e, o)
    \/ \E l \in Link : SaveMail(l) \/ QueueMail(l) \/ AskFails(l) \/ Expire(l)
    \/ \E v \in Visit, l \in Link, o \in Origin : VisitLink(v, l, o)
    \/ \E v \in Visit : FindUser(v) \/ MarkAsUsed(v) \/ IssueThrows(v) \/ VisitFails(v)
    \/ \E e \in Email : CreateUser(e) \/ DeleteUser(e)
    \/ \E e, f \in Email : ChangeEmail(e, f)

Spec == Init /\ [][Next]_vars

----------------------------------------------------------------------------
(* Properties *)

\* A visit that has seen its link valid.
Passed(v, l) == visit[v].link = l /\ visit[v].pc \in {"findUser", "mark", "issue"}

Spent(l) == l \in Stored /\ link[l].used /\ \A v \in Visit : ~Passed(v, l)

\* A used link whose visits are all over is spent for good: isUsed is never
\* reset and no later visit gets past the checks.
SpentForGood ==
    [][\A l \in Link : Spent(l) => Spent(l)']_vars

\* A visit that is refused (wrong origin, no user, too late) does not use the
\* link up: each used link was used by a visit from where it was asked for,
\* that found a user.
RefusalKeepsLink ==
    \A l \in Stored : link[l].used =>
        \E v \in Visit : /\ visit[v].link = l
                        /\ visit[v].origin = link[l].origin
                        /\ visit[v].pc \in {"issue", "thrown", "fault"}

\* A link that can be read in a mailbox has its row, so its first visit is
\* never refused as invalid; and success is answered only for such a link.
MailedLinkWorks ==
    /\ mailed \subseteq Stored
    /\ \A l \in Link : ask[l] = "success" => l \in mailed

\* magic-link-authenticate.handler.ts:13, "Validates the token and generates
\* JWT tokens": a visit whose link was valid, and whose awaits all settle
\* well, does not end in an error.
ValidLinkGeneratesTokens ==
    \A v \in Visit : visit[v].pc # "thrown"

=============================================================================
