--------------------------- MODULE BrowserSession ---------------------------
(***************************************************************************)
(* One browser, its tabs and the API: how the token pairs of login and      *)
(* refreshTokens travel by cookies, by answers, or by both, what the CSRF    *)
(* guard lets through, and what a logout ends.  A pair is a number: access,  *)
(* refresh and csrf token have that number, and 0 is none.  A refresh        *)
(* token's row is inserted by a promise nobody awaits.  AuthSessions has the *)
(* server's side of a session in full.                                      *)
(***************************************************************************)
EXTENDS Naturals, Sequences, FiniteSets

CONSTANTS
    Tab,        \* tabs, each with at most one request under way
    Graphiql,   \* tabs that show GraphiQL, outside production
    MaxPairs    \* bound: pairs issued

ASSUME BrowserAssumption == MaxPairs \in Nat /\ Graphiql \subseteq Tab

Pair == 0..MaxPairs
Tokens == [access : Pair, refresh : Pair, csrf : Pair]
NoTokens == [access |-> 0, refresh |-> 0, csrf |-> 0]
Config == [mode : {"COOKIES_ONLY", "RESPONSE_ONLY", "HYBRID"},
           csrf : BOOLEAN,   \* auth.csrf.enabled
           named : BOOLEAN]  \* refresh and csrf cookies have the names the readers look for
\* Of what a request carries, the server looks at the refresh token (tok) and at
\* whether the CSRF tokens match (passes); new and cookie are its answer.
Call == [kind : {"login", "refresh", "logout"},
         pc : {"sent", "read", "revoked", "answered"},
         tok : Pair, passes : BOOLEAN, new : Pair, cookie : {"keep", "set", "clear"}]
Idle == [pc |-> "idle"]

VARIABLES
    config,
    issued,  \* the pairs in the order they were issued: the login each comes from
    dead,    \* revoked refresh tokens
    inserting, \* pairs whose refresh row is still on its way
    lost,    \* pairs whose refresh row could not be inserted
    jar,     \* the browser's cookies
    memory,  \* what each tab keeps of its answers
    call,
    told,    \* history: logins a logout has answered success for
    forked,  \* history: logins with a refresh token revoked while its refresh was under way
    broken   \* history: a refresh broke off, or an answer with cookies was lost
vars == <<config, issued, dead, inserting, lost, jar, memory, call, told, forked, broken>>
server == <<issued, dead, inserting, lost>>
history == <<told, forked, broken>>

Init ==
    /\ config \in Config
    /\ issued = <<>> /\ dead = {} /\ inserting = {} /\ lost = {}
    /\ jar = NoTokens
    /\ memory = [t \in Tab |-> NoTokens]
    /\ call = [t \in Tab |-> Idle]
    /\ told = {} /\ forked = {} /\ broken = FALSE

\* Not revoked; and its row is there for a refresh or a logout to find.
Kept(n) == n \in DOMAIN issued \ dead
Live(n) == Kept(n) /\ n \notin inserting \cup lost

(***************************************************************************)
(* Requests                                                                *)
(***************************************************************************)
\* The cookie under the name the reader looks for.
Named(cookie) == IF config.named THEN cookie ELSE 0

\* The double submit: what CsrfGuard lets through.
CsrfPasses(t, kind, sent) ==
    \/ ~config.csrf
    \/ t \in Graphiql
    \/ kind = "login"
    \/ Named(jar.csrf) # 0 /\ sent.csrf = Named(jar.csrf)

\* The cookie goes before the input.
RefreshToken(sent) == IF Named(jar.refresh) # 0 THEN Named(jar.refresh) ELSE sent.refresh

\* A tab sends its cookies and either hands over what it keeps or relies on them
\* alone; the CSRF header comes from the cookie or from an answer.
Send(t) ==
    /\ call[t] = Idle
    /\ \E kind \in {"login", "refresh", "logout"}, kept \in {memory[t], NoTokens},
          csrf \in {jar.csrf, memory[t].csrf} :
          LET sent == [kept EXCEPT !.csrf = csrf]
          IN  call' = [call EXCEPT ![t] =
                [kind |-> kind, pc |-> "sent", tok |-> RefreshToken(sent),
                 passes |-> CsrfPasses(t, kind, sent), new |-> 0, cookie |-> "keep"]]
    /\ UNCHANGED <<config, server, jar, memory, history>>

\* With its answer a request's tokens are forgotten.
Answer(t, new, cookie) ==
    call' = [call EXCEPT ![t] = [@ EXCEPT !.pc = "answered", !.tok = 0, !.passes = FALSE,
                                          !.new = new, !.cookie = cookie]]
Refused(t) == Answer(t, 0, "keep")

Refuse(t) ==
    /\ call[t].pc = "sent" /\ ~call[t].passes
    /\ Refused(t)
    /\ UNCHANGED <<config, server, jar, memory, history>>

Served(t, kind) == call[t].pc = "sent" /\ call[t].kind = kind /\ call[t].passes
SetAuthCookies == IF config.mode = "RESPONSE_ONLY" THEN "keep" ELSE "set"
Fresh == Len(issued) + 1

\* A pair is answered with as soon as it is signed, its row follows or is lost.
Issue(t, root) ==
    /\ Fresh <= MaxPairs
    /\ issued' = Append(issued, root)
    /\ inserting' = inserting \cup {Fresh}
    /\ Answer(t, Fresh, SetAuthCookies)
    /\ UNCHANGED <<config, dead, lost, jar, memory, history>>

\* login, once the password is right; authenticateWithMagicLink and
\* oauthAuthenticate hand out their pairs the same way.
Login(t) == Served(t, "login") /\ Issue(t, Fresh)

\* The INSERT takes effect; or it fails, which is logged and nothing else.
InsertRow(n) ==
    /\ n \in inserting /\ inserting' = inserting \ {n}
    /\ UNCHANGED <<config, issued, dead, lost, jar, memory, call, history>>

InsertLost(n) ==
    /\ n \in inserting /\ inserting' = inserting \ {n}
    /\ lost' = lost \cup {n}
    /\ UNCHANGED <<config, issued, dead, jar, memory, call, history>>

\* refreshTokens up to the look at the token's row and at its user.
RefreshRead(t) ==
    /\ Served(t, "refresh")
    /\ \/ Live(call[t].tok) /\ call' = [call EXCEPT ![t].pc = "read"]
       \/ Refused(t)  \* no token, a dead one, or its user is barred
    /\ UNCHANGED <<config, server, jar, memory, history>>

\* Mutant of Revoked: the old token stays.
RevokedNothing(tok) == dead
Revoked(tok) == dead \cup {tok}

\* refreshTokens: the old token is revoked, by its row's id.
RefreshRevoke(t) ==
    LET tok == call[t].tok IN
    /\ call[t].pc = "read"
    /\ dead' = Revoked(tok)
    /\ forked' = IF Live(tok) THEN forked ELSE forked \cup {issued[tok]}
    /\ call' = [call EXCEPT ![t].pc = "revoked"]
    /\ UNCHANGED <<config, issued, inserting, lost, jar, memory, told, broken>>

\* refreshTokens: the new pair of the same login.
RefreshIssue(t) == call[t].pc = "revoked" /\ Issue(t, issued[call[t].tok])

\* An await fails: once the old token is revoked, it is gone all the same.
RefreshFails(t) ==
    /\ call[t].pc \in {"read", "revoked"}
    /\ broken' = (broken \/ call[t].pc = "revoked")
    /\ Refused(t)
    /\ UNCHANGED <<config, server, jar, memory, told, forked>>

\* logout: without a token nothing happens; with one the cookies go whatever
\* became of it, and success says that its row was there and not yet revoked.
\* An UPDATE that fails, or whose reply is lost, passes for no success.
Logout(t) ==
    LET tok == call[t].tok IN
    /\ Served(t, "logout")
    /\ IF tok = 0 THEN Refused(t) ELSE Answer(t, 0, "clear")
    /\ \/ Live(tok) /\ dead' = dead \cup {tok} /\ told' \in {told, told \cup {issued[tok]}}
       \/ UNCHANGED <<dead, told>>
    /\ UNCHANGED <<config, issued, inserting, lost, jar, memory, forked, broken>>

Granted(new) == [access |-> new, refresh |-> new, csrf |-> IF config.csrf THEN new ELSE 0]
\* Mutant of Cleared: the refresh cookie forgotten.
ClearedButRefresh == [NoTokens EXCEPT !.refresh = jar.refresh]
Cleared == NoTokens

\* The cookies an answer leaves in the browser.
Jar(c) ==
    CASE c.cookie = "set" -> Granted(c.new)
      [] c.cookie = "clear" -> Cleared
      [] c.cookie = "keep" -> jar

\* What an answer tells its tab: nothing in COOKIES_ONLY but a refresh's csrf token.
Told(c) ==
    LET pair == IF config.mode = "COOKIES_ONLY" THEN 0 ELSE c.new
    IN  [access |-> pair, refresh |-> pair,
         csrf |-> IF c.kind = "refresh" THEN c.new ELSE IF config.csrf THEN pair ELSE 0]

\* An answer arrives: cookies first, then the tab keeps the new pair, or
\* forgets its own after a logout.
Receive(t) ==
    LET c == call[t] IN
    /\ c.pc = "answered"
    /\ jar' = Jar(c)
    /\ memory' = IF c.new # 0 THEN [memory EXCEPT ![t] = Told(c)]
                 ELSE IF c.cookie = "clear" THEN [memory EXCEPT ![t] = NoTokens]
                 ELSE memory
    /\ call' = [call EXCEPT ![t] = Idle]
    /\ UNCHANGED <<config, server, history>>

\* The answer is lost: what the server did stands.
Lose(t) ==
    /\ call[t].pc = "answered"
    /\ call' = [call EXCEPT ![t] = Idle]
    /\ broken' = (broken \/ call[t].cookie # "keep")
    /\ UNCHANGED <<config, server, jar, memory, told, forked>>

Refresh(t) == RefreshRead(t) \/ RefreshRevoke(t) \/ RefreshIssue(t) \/ RefreshFails(t)
Serve(t) == Refuse(t) \/ Login(t) \/ Refresh(t) \/ Logout(t)
Next ==
    \/ \E t \in Tab : Send(t) \/ Serve(t) \/ Receive(t) \/ Lose(t)
    \/ \E n \in inserting : InsertRow(n) \/ InsertLost(n)
Spec == Init /\ [][Next]_vars

(***************************************************************************)
(* Properties                                                              *)
(***************************************************************************)
\* A logout that answers success has ended the session: no refresh token that
\* comes from that login is live, however late its row was inserted, unless one
\* was revoked while a refresh had already seen it live.
SuccessEndsSession ==
    \A n \in DOMAIN issued : Live(n) /\ issued[n] \in told => issued[n] \in forked

\* Once all is quiet, the refresh cookie is live, whichever order the answers of
\* two tabs came in, unless a new pair or a logout's answer went missing; or its
\* row is still on its way, or could not be inserted.
NoDeadCookie ==
    (\A t \in Tab : call[t] = Idle) /\ ~broken /\ jar.refresh # 0 =>
        Live(jar.refresh) \/ jar.refresh \in inserting \cup lost
=============================================================================
