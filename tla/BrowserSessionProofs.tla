------------------------ MODULE BrowserSessionProofs ------------------------
(***************************************************************************)
(* For any number of tabs, pairs and overlapping requests: a logout that     *)
(* answers success has ended the session, and a quiet browser keeps no       *)
(* revoked refresh cookie.  The first is inductive with: a login whose chain *)
(* never forked has at most one refresh token that is not revoked, and none  *)
(* once a logout has answered success or while a refresh is about to issue   *)
(* the next.  The second with: a pair on its way to the browser is not       *)
(* revoked and held by nobody, so it can only be revoked once it has arrived,*)
(* and whoever revokes it will answer with what replaces it, or break off.   *)
(***************************************************************************)
EXTENDS BrowserSession, TLAPS

\* What a request is made of, as far as the argument needs it.
CallsOK ==
    /\ call \in [Tab -> Call \cup {Idle}]
    /\ jar \in Tokens /\ memory \in [Tab -> Tokens]
    /\ config \in Config

\* Pairs come from logins no later than themselves, and so do the logins told.
RootsOK ==
    /\ issued \in Seq(Nat) /\ Len(issued) <= MaxPairs
    /\ \A n \in DOMAIN issued : issued[n] <= n
    /\ \A r \in told : r \in Nat /\ r <= Len(issued)

\* A refresh under way has seen a token that was issued.
Busy(t) == call[t].pc \in {"read", "revoked"}
ReadIssued == \A t \in Tab : Busy(t) => call[t].tok \in DOMAIN issued

\* A chain that never forked has at most one token that is not revoked, and none
\* once a logout has answered success.
OneKept ==
    \A m, n \in DOMAIN issued : Kept(m) /\ Kept(n) /\ issued[m] = issued[n] /\ issued[m] \notin forked => m = n
EndsKept == \A n \in DOMAIN issued : Kept(n) /\ issued[n] \in told => issued[n] \in forked

\* Nor has it one while a refresh, and then only one, is about to issue the next.
Root(t) == issued[call[t].tok]
Handing(t) == call[t].pc = "revoked"
HandedOn ==
    \A t \in Tab : Handing(t) /\ Root(t) \notin forked =>
        /\ Root(t) \notin told
        /\ \A n \in DOMAIN issued : Kept(n) => issued[n] # Root(t)
        /\ \A s \in Tab \ {t} : Handing(s) => Root(s) # Root(t)

----------------------------------------------------------------------------
(* Calls                                                                   *)

LEMMA ZeroIsPair == 0 \in Pair
BY BrowserAssumption DEF Pair

\* What an answer makes of its request.
Answers(t, c, new, cookie) ==
    /\ call' = [call EXCEPT ![t] = c]
    /\ c \in Call /\ c.pc = "answered" /\ c.tok = 0 /\ c.new = new /\ c.cookie = cookie

\* A call that is under way is a call.
LEMMA UnderWay ==
    ASSUME call \in [Tab -> Call \cup {Idle}], NEW t \in Tab, call[t].pc # "idle"
    PROVE  call[t] \in Call
BY DEF Idle

LEMMA AnswerIs ==
    ASSUME CallsOK, NEW t \in Tab, call[t].pc # "idle",
           NEW new \in Pair, NEW cookie \in {"keep", "set", "clear"}, Answer(t, new, cookie)
    PROVE  \E c : Answers(t, c, new, cookie)
<1> DEFINE c == [call[t] EXCEPT !.pc = "answered", !.tok = 0, !.passes = FALSE, !.new = new, !.cookie = cookie]
<1>1. call[t] \in Call
    BY UnderWay DEF CallsOK
<1>2. c \in Call /\ c.pc = "answered" /\ c.tok = 0 /\ c.new = new /\ c.cookie = cookie
    BY <1>1, ZeroIsPair DEF Call
<1>3. call' = [call EXCEPT ![t] = c]
    BY DEF Answer
<1> HIDE DEF c
<1>4. QED
    BY <1>2, <1>3 DEF Answers

LEMMA NoTokensAreTokens == NoTokens \in Tokens
BY ZeroIsPair DEF NoTokens, Tokens

\* What a request is sent with.
Sends(t, c) ==
    /\ call' = [call EXCEPT ![t] = c]
    /\ c \in Call /\ c.pc = "sent" /\ c.new = 0
    /\ c.tok \in {0, jar.refresh, memory[t].refresh}

LEMMA SendIs ==
    ASSUME CallsOK, NEW t \in Tab, Send(t)
    PROVE  \E c : Sends(t, c)
<1>1. PICK kind \in {"login", "refresh", "logout"}, kept \in {memory[t], NoTokens}, csrf \in {jar.csrf, memory[t].csrf} :
          call' = [call EXCEPT ![t] =
                [kind |-> kind, pc |-> "sent", tok |-> RefreshToken([kept EXCEPT !.csrf = csrf]),
                 passes |-> CsrfPasses(t, kind, [kept EXCEPT !.csrf = csrf]), new |-> 0, cookie |-> "keep"]]
    BY DEF Send
<1> DEFINE sent == [kept EXCEPT !.csrf = csrf]
<1>2. kept \in Tokens /\ jar \in Tokens /\ memory[t] \in Tokens
    BY NoTokensAreTokens DEF CallsOK
<1>3. sent.refresh = kept.refresh /\ kept.refresh \in {0, memory[t].refresh}
    BY <1>2 DEF Tokens, NoTokens
<1>4. CsrfPasses(t, kind, sent) \in BOOLEAN
    BY DEF CsrfPasses, CallsOK, Config
<1> HIDE DEF sent
<1>5. RefreshToken(sent) \in {0, jar.refresh, memory[t].refresh}
    BY <1>3 DEF RefreshToken, Named
<1>6. RefreshToken(sent) \in Pair
    BY <1>2, <1>5, ZeroIsPair DEF Tokens
<1> DEFINE c == [kind |-> kind, pc |-> "sent", tok |-> RefreshToken(sent),
                 passes |-> CsrfPasses(t, kind, sent), new |-> 0, cookie |-> "keep"]
<1>7. c \in Call
    BY <1>4, <1>6, ZeroIsPair DEF Call
<1>8. c.pc = "sent" /\ c.new = 0 /\ c.tok \in {0, jar.refresh, memory[t].refresh}
    BY <1>5
<1>9. call' = [call EXCEPT ![t] = c]
    BY <1>1 DEF sent
<1> HIDE DEF c
<1>10. QED
    BY <1>7, <1>8, <1>9 DEF Sends

\* A refresh that goes on to its next step keeps its token.
GoesOn(t, c) ==
    /\ call' = [call EXCEPT ![t] = c]
    /\ c \in Call /\ c.tok = call[t].tok

LEMMA GoesOnIs ==
    ASSUME CallsOK, NEW t \in Tab, call[t].pc # "idle",
           NEW pc \in {"read", "revoked"}, call' = [call EXCEPT ![t].pc = pc]
    PROVE  \E c : GoesOn(t, c) /\ c.pc = pc
<1> DEFINE c == [call[t] EXCEPT !.pc = pc]
<1>1. call[t] \in Call
    BY UnderWay DEF CallsOK
<1>2. c \in Call /\ c.pc = pc /\ c.tok = call[t].tok
    BY <1>1 DEF Call
<1>3. call' = [call EXCEPT ![t] = c]
    OBVIOUS
<1> HIDE DEF c
<1>4. QED
    BY <1>2, <1>3 DEF GoesOn

\* Every step of the server answers, or goes on with a refresh.
LEMMA CallsStay == CallsOK /\ RootsOK /\ [Next]_vars => CallsOK'
<1> SUFFICES ASSUME CallsOK, RootsOK, [Next]_vars PROVE CallsOK'
    OBVIOUS
<1>1. CASE UNCHANGED vars
    BY <1>1 DEF CallsOK, vars
<1>2. ASSUME NEW t \in Tab, NEW c \in Call \cup {Idle}, call' = [call EXCEPT ![t] = c],
             UNCHANGED <<config, jar, memory>>
      PROVE  CallsOK'
    BY <1>2 DEF CallsOK
<1>3. ASSUME NEW t \in Tab, call[t].pc # "idle",
             NEW new \in Pair, NEW cookie \in {"keep", "set", "clear"}, Answer(t, new, cookie),
             UNCHANGED <<config, jar, memory>>
      PROVE  CallsOK'
    BY <1>2, <1>3, AnswerIs DEF Answers
<1>4. ASSUME NEW t \in Tab, Send(t) PROVE CallsOK'
    BY <1>2, <1>4, SendIs DEF Sends, Send
<1>5. ASSUME NEW t \in Tab, call[t].pc # "idle",
             NEW pc \in {"read", "revoked"}, call' = [call EXCEPT ![t].pc = pc],
             UNCHANGED <<config, jar, memory>>
      PROVE  CallsOK'
    BY <1>2, <1>5, GoesOnIs DEF GoesOn
<1>6. SetAuthCookies \in {"keep", "set", "clear"} /\ (Fresh <= MaxPairs => Fresh \in Pair)
    BY BrowserAssumption DEF SetAuthCookies, Fresh, Pair, RootsOK
<1>7. ASSUME NEW t \in Tab, NEW root, call[t].pc # "idle", Issue(t, root) PROVE CallsOK'
    BY <1>3, <1>6, <1>7 DEF Issue
<1>8. ASSUME NEW t \in Tab, Serve(t) PROVE CallsOK'
    <2>1. CASE Refuse(t)
        BY <1>3, <2>1, ZeroIsPair DEF Refuse, Refused
    <2>2. CASE Login(t)
        BY <1>7, <2>2 DEF Login, Served
    <2>3. CASE RefreshRead(t)
        <3>1. CASE Refused(t)
            BY <1>3, <2>3, <3>1, ZeroIsPair DEF RefreshRead, Refused, Served
        <3>2. CASE call' = [call EXCEPT ![t].pc = "read"]
            BY <1>5, <2>3, <3>2 DEF RefreshRead, Served
        <3>3. QED
            BY <2>3, <3>1, <3>2 DEF RefreshRead
    <2>4. CASE RefreshRevoke(t)
        BY <1>5, <2>4 DEF RefreshRevoke
    <2>5. CASE RefreshIssue(t)
        BY <1>7, <2>5 DEF RefreshIssue
    <2>6. CASE RefreshFails(t)
        BY <1>3, <2>6, ZeroIsPair DEF RefreshFails, Refused
    <2>7. CASE Logout(t)
        BY <1>3, <2>7, ZeroIsPair DEF Logout, Served, Refused
    <2>8. QED
        BY <1>8, <2>1, <2>2, <2>3, <2>4, <2>5, <2>6, <2>7 DEF Serve, Refresh
<1>9. ASSUME NEW t \in Tab, Receive(t) PROVE CallsOK'
    <2> DEFINE c == call[t]
    <2>1. c \in Call
        BY <1>9, UnderWay DEF CallsOK, Receive
    <2>2. c.new \in Pair /\ c.cookie \in {"keep", "set", "clear"}
        BY <2>1 DEF Call
    <2>3. Granted(c.new) \in Tokens /\ Cleared \in Tokens
        BY <2>2, ZeroIsPair, NoTokensAreTokens DEF Granted, Cleared, Tokens
    <2>4. Told(c) \in Tokens
        BY <2>2, ZeroIsPair DEF Told, Tokens
    <2>5. jar' \in Tokens
        BY <1>9, <2>2, <2>3 DEF Receive, Jar, CallsOK
    <2>6. memory' \in [Tab -> Tokens]
        BY <1>9, <2>4, NoTokensAreTokens DEF Receive, CallsOK
    <2>7. QED
        BY <1>9, <2>5, <2>6 DEF Receive, CallsOK
<1>10. ASSUME NEW t \in Tab, Lose(t) PROVE CallsOK'
    BY <1>10 DEF Lose, CallsOK
<1>11. ASSUME NEW n \in inserting, InsertRow(n) \/ InsertLost(n) PROVE CallsOK'
    BY <1>11 DEF InsertRow, InsertLost, CallsOK
<1>12. QED
    BY <1>1, <1>4, <1>8, <1>9, <1>10, <1>11 DEF Next

----------------------------------------------------------------------------
(* Sessions                                                                *)

Session == RootsOK /\ ReadIssued /\ OneKept /\ EndsKept /\ HandedOn

\* Whatever refresh is busy after a step was so before, with the same token, or
\* has just read one.
Steady ==
    \A s \in Tab :
        /\ Busy(s)' => call'[s].tok \in DOMAIN issued
        /\ Handing(s)' => Handing(s) /\ call'[s].tok = call[s].tok

\* A step that changes one call, and has it not go on with a revoked token.
LEMMA OneCallChanges ==
    ASSUME CallsOK, ReadIssued, NEW t \in Tab, NEW c, call' = [call EXCEPT ![t] = c],
           c.pc # "revoked", c.pc = "read" => c.tok \in DOMAIN issued
    PROVE  Steady
<1>1. call'[t] = c /\ \A s \in Tab \ {t} : call'[s] = call[s]
    BY DEF CallsOK
<1>2. QED
    BY <1>1 DEF Steady, ReadIssued, Busy, Handing

\* No session changes.
LEMMA SessionStays ==
    ASSUME Session, UNCHANGED <<issued, dead, told, forked>>, Steady
    PROVE  Session'
<1>1. RootsOK' /\ ReadIssued' /\ OneKept' /\ EndsKept'
    BY DEF Session, RootsOK, ReadIssued, OneKept, EndsKept, Kept, Steady
<1>2. HandedOn'
    BY DEF Session, HandedOn, Steady, Root, Kept
<1>3. QED
    BY <1>1, <1>2 DEF Session

\* A new pair joins a chain that has no token left, or none yet.
LEMMA PairJoins ==
    ASSUME Session, Fresh <= MaxPairs, NEW root \in Nat, root <= Fresh, issued' = Append(issued, root),
           UNCHANGED <<dead, told, forked>>, Steady,
           root \notin forked =>
               /\ root \notin told
               /\ \A n \in DOMAIN issued : Kept(n) => issued[n] # root
               /\ \A s \in Tab : Handing(s)' => Root(s) # root
    PROVE  Session'
<1> USE DEF Session, Fresh
<1>1. DOMAIN issued = 1..Len(issued) /\ Len(issued) \in Nat /\ issued \in Seq(Nat)
    BY DEF RootsOK
<1>2. /\ issued' \in Seq(Nat) /\ Len(issued') = Len(issued) + 1
      /\ DOMAIN issued' = 1..(Len(issued) + 1)
      /\ issued'[Len(issued) + 1] = root
      /\ \A n \in DOMAIN issued : issued'[n] = issued[n]
    BY <1>1
<1>3. RootsOK'
    BY <1>1, <1>2 DEF RootsOK
<1>4. ReadIssued'
    BY <1>1, <1>2 DEF ReadIssued, Steady
<1>5. \A n \in DOMAIN issued : Kept(n)' = Kept(n)
    BY <1>1, <1>2 DEF Kept
<1>6. OneKept'
    <2> SUFFICES ASSUME NEW m \in DOMAIN issued', NEW n \in DOMAIN issued', Kept(m)', Kept(n)',
                        issued'[m] = issued'[n], issued'[m] \notin forked
                 PROVE  m = n
        BY DEF OneKept
    <2>1. CASE m \in DOMAIN issued /\ n \in DOMAIN issued
        BY <1>2, <1>5, <2>1 DEF OneKept
    <2>2. CASE m = Len(issued) + 1 /\ n \in DOMAIN issued
        BY <1>2, <1>5, <2>2
    <2>3. CASE m \in DOMAIN issued /\ n = Len(issued) + 1
        BY <1>2, <1>5, <2>3
    <2>4. QED
        BY <1>1, <1>2, <2>1, <2>2, <2>3
<1>7. EndsKept'
    BY <1>1, <1>2, <1>5 DEF EndsKept
<1>8. \A s \in Tab : Handing(s)' => Root(s)' = Root(s) /\ Handing(s)
    BY <1>2 DEF Root, Steady, Busy, Handing
<1>9. HandedOn'
    <2> SUFFICES ASSUME NEW s \in Tab, Handing(s)', Root(s)' \notin forked
                 PROVE  /\ Root(s)' \notin told
                        /\ \A n \in DOMAIN issued' : Kept(n)' => issued'[n] # Root(s)'
                        /\ \A u \in Tab \ {s} : Handing(u)' => Root(u)' # Root(s)'
        BY DEF HandedOn
    <2>1. /\ Root(s) \notin told
          /\ \A n \in DOMAIN issued : Kept(n) => issued[n] # Root(s)
          /\ \A u \in Tab \ {s} : Handing(u) => Root(u) # Root(s)
        BY <1>8 DEF HandedOn
    <2>2. Root(s)' = Root(s) /\ Root(s) # root
        BY <1>8
    <2>3. ASSUME NEW n \in DOMAIN issued', Kept(n)' PROVE issued'[n] # Root(s)
        BY <1>1, <1>2, <1>5, <2>1, <2>2, <2>3
    <2>4. QED
        BY <1>8, <2>1, <2>2, <2>3
<1>10. QED
    BY <1>3, <1>4, <1>6, <1>7, <1>9

\* A refresh takes its chain's only token, or forks the chain.
LEMMA RevokingHands ==
    ASSUME CallsOK, Session, NEW t \in Tab, RefreshRevoke(t)
    PROVE  Session'
<1> USE DEF Session
<1> DEFINE tok == call[t].tok
           root == issued[tok]
<1>1. PICK c : GoesOn(t, c) /\ c.pc = "revoked"
    BY GoesOnIs DEF RefreshRevoke
<1>2. /\ call'[t].pc = "revoked" /\ call'[t].tok = tok
      /\ \A s \in Tab \ {t} : call'[s] = call[s]
    BY <1>1 DEF GoesOn, CallsOK
<1>3. /\ tok \in DOMAIN issued /\ call[t].pc = "read"
      /\ dead' = dead \cup {tok} /\ UNCHANGED <<issued, told>>
      /\ forked' = IF Live(tok) THEN forked ELSE forked \cup {root}
    BY DEF RefreshRevoke, ReadIssued, Busy, Revoked
<1> HIDE DEF tok, root
<1>4. \A n \in DOMAIN issued : Kept(n)' => Kept(n) /\ n # tok
    BY <1>3 DEF Kept
<1>5. \A r : r \notin forked' => r \notin forked
    BY <1>3
<1>6. root = issued[tok] /\ (root \notin forked' => Kept(tok) /\ root \notin forked)
    BY <1>3 DEF root, Live
<1>7. RootsOK' /\ OneKept' /\ EndsKept'
    BY <1>3, <1>4, <1>5 DEF RootsOK, OneKept, EndsKept
<1>8. ReadIssued'
    BY <1>2, <1>3 DEF ReadIssued, Busy
<1>9. Root(t)' = root /\ \A s \in Tab \ {t} : Root(s)' = Root(s) /\ Handing(s)' = Handing(s)
    BY <1>2, <1>3, <1>6 DEF Root, Handing
<1>10. ASSUME root \notin forked'
       PROVE  /\ root \notin told
              /\ \A n \in DOMAIN issued : Kept(n)' => issued[n] # root
              /\ \A s \in Tab \ {t} : Handing(s) => Root(s) # root
    <2>1. Kept(tok) /\ root \notin forked
        BY <1>6, <1>10
    <2>2. root \notin told
        BY <1>3, <1>6, <2>1 DEF EndsKept
    <2>3. \A n \in DOMAIN issued : Kept(n)' => issued[n] # root
        BY <1>3, <1>4, <1>6, <2>1 DEF OneKept
    <2>4. \A s \in Tab \ {t} : Handing(s) => Root(s) # root
        BY <1>3, <1>6, <2>1 DEF HandedOn
    <2>5. QED
        BY <2>2, <2>3, <2>4
<1>11. HandedOn'
    <2> SUFFICES ASSUME NEW s \in Tab, Handing(s)', Root(s)' \notin forked'
                 PROVE  /\ Root(s)' \notin told
                        /\ \A n \in DOMAIN issued : Kept(n)' => issued[n] # Root(s)'
                        /\ \A u \in Tab \ {s} : Handing(u)' => Root(u)' # Root(s)'
        BY <1>3 DEF HandedOn
    <2>1. CASE s = t
        BY <1>9, <1>10, <2>1
    <2>2. CASE s # t
        <3>1. /\ Handing(s) /\ Root(s)' = Root(s) /\ Root(s) \notin forked
            BY <1>5, <1>9, <2>2
        <3>2. /\ Root(s) \notin told
              /\ \A n \in DOMAIN issued : Kept(n) => issued[n] # Root(s)
              /\ \A u \in Tab \ {s} : Handing(u) => Root(u) # Root(s)
            BY <3>1 DEF HandedOn
        <3>3. Root(t)' # Root(s)'
            BY <1>9, <1>10, <2>2, <3>1
        <3>4. QED
            BY <1>4, <1>9, <3>1, <3>2, <3>3
    <2>3. QED
        BY <2>1, <2>2
<1>12. QED
    BY <1>7, <1>8, <1>11

\* A logout that answers success takes the chain's only token.
LEMMA RevokingEnds ==
    ASSUME Session, NEW tok, Live(tok), dead' = dead \cup {tok}, told' \in {told, told \cup {issued[tok]}},
           UNCHANGED <<issued, forked>>, Steady
    PROVE  Session'
<1> USE DEF Session
<1>1. DOMAIN issued = 1..Len(issued) /\ Len(issued) \in Nat /\ issued \in Seq(Nat)
    BY DEF RootsOK
<1>2. Kept(tok) /\ tok \in DOMAIN issued
    BY DEF Live, Kept
<1>3. \A n \in DOMAIN issued : Kept(n)' => Kept(n) /\ n # tok
    BY DEF Kept
<1>4. issued[tok] \in Nat /\ issued[tok] <= Len(issued)
    BY <1>1, <1>2 DEF RootsOK
<1>5. RootsOK'
    BY <1>1, <1>4 DEF RootsOK
<1>6. ReadIssued'
    BY DEF ReadIssued, Steady
<1>7. OneKept'
    BY <1>3 DEF OneKept
<1>8. EndsKept'
    BY <1>2, <1>3 DEF EndsKept, OneKept
<1>9. HandedOn'
    <2> SUFFICES ASSUME NEW s \in Tab, Handing(s)', Root(s)' \notin forked
                 PROVE  /\ Root(s)' \notin told'
                        /\ \A n \in DOMAIN issued : Kept(n)' => issued[n] # Root(s)'
                        /\ \A u \in Tab \ {s} : Handing(u)' => Root(u)' # Root(s)'
        BY DEF HandedOn
    <2>1. \A u \in Tab : Handing(u)' => Handing(u) /\ Root(u)' = Root(u)
        BY DEF Steady, Root
    <2>2. /\ Root(s) \notin told
          /\ \A n \in DOMAIN issued : Kept(n) => issued[n] # Root(s)
          /\ \A u \in Tab \ {s} : Handing(u) => Root(u) # Root(s)
        BY <2>1 DEF HandedOn
    <2>3. QED
        BY <1>2, <1>3, <2>1, <2>2
<1>10. QED
    BY <1>5, <1>6, <1>7, <1>8, <1>9

LEMMA SessionHolds == CallsOK /\ Session /\ [Next]_vars => Session'
<1> SUFFICES ASSUME CallsOK, Session, [Next]_vars PROVE Session'
    OBVIOUS
<1>1. ReadIssued /\ RootsOK
    BY DEF Session
<1>2. CASE call' = call /\ UNCHANGED <<issued, dead, told, forked>>
    BY <1>1, <1>2, SessionStays DEF Steady, ReadIssued, Busy, Handing
<1>3. ASSUME NEW t \in Tab, call[t].pc # "idle",
             NEW new \in Pair, NEW cookie \in {"keep", "set", "clear"}, Answer(t, new, cookie)
      PROVE  Steady
    <2>1. PICK c : Answers(t, c, new, cookie)
        BY <1>3, AnswerIs
    <2>2. QED
        BY <1>1, <2>1, OneCallChanges DEF Answers
<1>4. ASSUME NEW t \in Tab, Send(t) PROVE Session'
    <2>1. PICK c : Sends(t, c)
        BY <1>4, SendIs
    <2>2. Steady
        BY <1>1, <2>1, OneCallChanges DEF Sends
    <2>3. QED
        BY <1>4, <2>2, SessionStays DEF Send, server, history
<1>5. ASSUME NEW t \in Tab, Receive(t) \/ Lose(t) PROVE Session'
    <2>1. call' = [call EXCEPT ![t] = Idle] /\ Idle.pc = "idle"
        BY <1>5 DEF Receive, Lose, Idle
    <2>2. Steady
        BY <1>1, <2>1, OneCallChanges
    <2>3. QED
        BY <1>5, <2>2, SessionStays DEF Receive, Lose, server, history
<1>6. SetAuthCookies \in {"keep", "set", "clear"} /\ (Fresh <= MaxPairs => Fresh \in Pair)
    BY <1>1, BrowserAssumption DEF SetAuthCookies, Fresh, Pair, RootsOK
<1>7. DOMAIN issued = 1..Len(issued) /\ Len(issued) \in Nat /\ issued \in Seq(Nat)
    BY <1>1 DEF RootsOK
<1>8. ASSUME NEW t \in Tab, Serve(t) PROVE Session'
    <2>1. CASE Refuse(t)
        <3>1. Steady
            BY <1>3, <2>1, ZeroIsPair DEF Refuse, Refused
        <3>2. QED
            BY <2>1, <3>1, SessionStays DEF Refuse, server, history
    <2>2. CASE Login(t)
        <3>1. Fresh <= MaxPairs /\ issued' = Append(issued, Fresh) /\ UNCHANGED <<dead, told, forked>>
            BY <2>2 DEF Login, Issue, history
        <3>2. Steady
            BY <1>3, <1>6, <2>2 DEF Login, Served, Issue
        <3>3. Fresh \in Nat /\ Fresh \notin told /\ \A n \in DOMAIN issued : issued[n] # Fresh
            BY <1>1, <1>7 DEF Fresh, RootsOK
        <3>4. \A s \in Tab : Handing(s)' => Root(s) # Fresh
            BY <1>1, <3>2, <3>3 DEF Steady, Root, ReadIssued, Busy, Handing
        <3>5. QED
            BY <3>1, <3>2, <3>3, <3>4, PairJoins
    <2>3. CASE RefreshRead(t)
        <3>1. CASE Refused(t)
            <4>1. Steady
                BY <1>3, <2>3, <3>1, ZeroIsPair DEF RefreshRead, Refused, Served
            <4>2. QED
                BY <2>3, <4>1, SessionStays DEF RefreshRead, server, history
        <3>2. CASE Live(call[t].tok) /\ call' = [call EXCEPT ![t].pc = "read"]
            <4>1. PICK c : GoesOn(t, c) /\ c.pc = "read"
                BY <2>3, <3>2, GoesOnIs DEF RefreshRead, Served
            <4>2. Steady
                BY <1>1, <3>2, <4>1, OneCallChanges DEF GoesOn, Live, Kept
            <4>3. QED
                BY <2>3, <4>2, SessionStays DEF RefreshRead, server, history
        <3>3. QED
            BY <2>3, <3>1, <3>2 DEF RefreshRead
    <2>4. CASE RefreshRevoke(t)
        BY <2>4, RevokingHands
    <2>5. CASE RefreshIssue(t)
        <3>1. /\ Fresh <= MaxPairs /\ issued' = Append(issued, Root(t)) /\ UNCHANGED <<dead, told, forked>>
              /\ Handing(t)
            BY <2>5 DEF RefreshIssue, Issue, history, Root, Handing
        <3>2. PICK c : Answers(t, c, Fresh, SetAuthCookies)
            BY <1>6, <2>5, AnswerIs DEF RefreshIssue, Issue
        <3>3. Steady
            BY <1>1, <3>2, OneCallChanges DEF Answers
        <3>4. ~Handing(t)'
            BY <3>2 DEF Answers, Handing, CallsOK
        <3>5. call[t].tok \in DOMAIN issued
            BY <1>1, <3>1 DEF ReadIssued, Busy, Handing
        <3>6. Root(t) \in Nat /\ Root(t) <= Fresh
            BY <1>1, <1>7, <3>5 DEF Root, RootsOK, Fresh
        <3>7. Root(t) \notin forked =>
                  /\ Root(t) \notin told
                  /\ \A n \in DOMAIN issued : Kept(n) => issued[n] # Root(t)
                  /\ \A s \in Tab : Handing(s)' => Root(s) # Root(t)
            BY <3>1, <3>3, <3>4 DEF Session, HandedOn, Steady
        <3>8. PICK root : root = Root(t)
            OBVIOUS
        <3>9. QED
            BY <3>1, <3>3, <3>6, <3>7, <3>8, PairJoins
    <2>6. CASE RefreshFails(t)
        <3>1. Steady
            BY <1>3, <2>6, ZeroIsPair DEF RefreshFails, Refused
        <3>2. QED
            BY <2>6, <3>1, SessionStays DEF RefreshFails, server
    <2>7. CASE Logout(t)
        <3>1. Steady
            BY <1>3, <2>7, ZeroIsPair DEF Logout, Refused, Served
        <3>2. UNCHANGED <<issued, forked>>
            BY <2>7 DEF Logout
        <3>3. CASE UNCHANGED <<dead, told>>
            BY <3>1, <3>2, <3>3, SessionStays
        <3>4. CASE ~UNCHANGED <<dead, told>>
            BY <2>7, <3>1, <3>2, <3>4, RevokingEnds DEF Logout
        <3>5. QED
            BY <3>3, <3>4
    <2>8. QED
        BY <1>8, <2>1, <2>2, <2>3, <2>4, <2>5, <2>6, <2>7 DEF Serve, Refresh
<1>9. CASE UNCHANGED vars
    BY <1>2, <1>9 DEF vars
<1>10. ASSUME NEW n \in inserting, InsertRow(n) \/ InsertLost(n) PROVE Session'
    BY <1>2, <1>10 DEF InsertRow, InsertLost, history
<1>11. QED
    BY <1>4, <1>5, <1>8, <1>9, <1>10 DEF Next

----------------------------------------------------------------------------
(* The refresh cookie                                                      *)

\* The refresh tokens a tab keeps or its request presents.
HeldBy(n, t) ==
    \/ memory[t].refresh = n
    \/ call[t].pc # "idle" /\ call[t].tok = n
Held(n) == jar.refresh = n \/ \E t \in Tab : HeldBy(n, t)
Brings(t) == call[t].pc = "answered" /\ call[t].new # 0

\* What the browser holds, and what is revoked, was issued.
HeldIssued == \A n \in Pair : Held(n) \/ n \in dead => n <= Len(issued)
\* A new pair on its way is not revoked, and nobody has it yet.
Unseen(t) ==
    /\ call[t].new \in Pair /\ Kept(call[t].new) /\ ~Held(call[t].new)
    /\ \A s \in Tab \ {t} : Brings(s) => call[s].new # call[t].new
NewUnheld == \A t \in Tab : Brings(t) => Unseen(t)
\* Cookies are set with a new pair, and never in RESPONSE_ONLY.
CookiesSet ==
    /\ config.mode = "RESPONSE_ONLY" => jar.refresh = 0
    /\ \A t \in Tab : call[t].pc = "answered" /\ call[t].cookie = "set" =>
           call[t].new # 0 /\ config.mode # "RESPONSE_ONLY"
\* An answer that will replace the cookies, or a refresh that will give one.
Replaces(t) == (call[t].pc = "answered" /\ call[t].cookie # "keep") \/ call[t].pc = "revoked"
\* A revoked refresh cookie is about to be replaced.
CookieReplaced == ~broken /\ jar.refresh # 0 /\ ~Kept(jar.refresh) => \E t \in Tab : Replaces(t)

Cookies == HeldIssued /\ NewUnheld /\ CookiesSet /\ CookieReplaced

\* A request presents a pair.
LEMMA TokensArePairs == CallsOK => \A t \in Tab : call[t].pc # "idle" => call[t].tok \in Pair
BY UnderWay DEF CallsOK, Call

\* Revoked is at most what the browser holds.
RevokesHeld == dead \subseteq dead' /\ \A n \in dead' : n \in dead \/ (n \in Pair /\ Held(n))

\* A request that brings no pair and presents nothing the browser did not hold.
Quiet(c) ==
    /\ c.pc = "answered" => c.new = 0
    /\ c.pc # "idle" => c.tok = 0 \/ Held(c.tok)

LEMMA NothingBrought ==
    ASSUME CallsOK, RootsOK, HeldIssued, NewUnheld,
           NEW t \in Tab, NEW c, call' = [call EXCEPT ![t] = c], Quiet(c),
           UNCHANGED <<issued, jar, memory>>, RevokesHeld
    PROVE  HeldIssued' /\ NewUnheld'
<1>1. Len(issued) \in Nat
    BY DEF RootsOK
<1>2. /\ call'[t] = c /\ \A s \in Tab \ {t} : call'[s] = call[s]
    BY DEF CallsOK
<1>3. ASSUME NEW n, Held(n)' PROVE Held(n) \/ n = 0
    <2>1. jar.refresh = n \/ \E s \in Tab : HeldBy(n, s)'
        BY <1>3 DEF Held
    <2>2. ASSUME NEW s \in Tab \ {t}, HeldBy(n, s)' PROVE HeldBy(n, s)
        BY <1>2, <2>2 DEF HeldBy
    <2>3. HeldBy(n, t)' => HeldBy(n, t) \/ (c.pc # "idle" /\ n = c.tok)
        BY <1>2 DEF HeldBy
    <2>4. c.pc # "idle" /\ n = c.tok => Held(n) \/ n = 0
        BY DEF Quiet
    <2>5. QED
        BY <2>1, <2>2, <2>3, <2>4 DEF Held
<1>4. HeldIssued'
    BY <1>1, <1>3, BrowserAssumption DEF HeldIssued, RevokesHeld, Pair
<1>5. ~Brings(t)' /\ \A s \in Tab \ {t} : Brings(s)' = Brings(s)
    BY <1>2 DEF Brings, Quiet
<1>6. \A n : Kept(n) /\ ~Held(n) => Kept(n)'
    BY DEF Kept, RevokesHeld
<1>7. ASSUME NEW s \in Tab \ {t}, Brings(s) PROVE Unseen(s)'
    <2>1. /\ call[s].new \in Pair /\ Kept(call[s].new) /\ ~Held(call[s].new) /\ call[s].new # 0
          /\ \A u \in Tab \ {s} : Brings(u) => call[u].new # call[s].new
        BY <1>7 DEF NewUnheld, Unseen, Brings
    <2>2. PICK new : new = call[s].new
        OBVIOUS
    <2>3. call'[s].new = new
        BY <1>2, <2>2
    <2>4. \A u \in Tab \ {s} : Brings(u)' => call'[u].new # new
        BY <1>2, <1>5, <2>1, <2>2
    <2>5. new \in Pair /\ Kept(new)' /\ ~Held(new)'
        BY <1>3, <1>6, <2>1, <2>2
    <2>6. QED
        BY <2>3, <2>4, <2>5 DEF Unseen
<1>8. QED
    BY <1>4, <1>5, <1>7 DEF NewUnheld

\* A pair just issued is live and nobody has it.
LEMMA PairBrought ==
    ASSUME CallsOK, RootsOK, HeldIssued, NewUnheld, NEW new, new = Fresh, new <= MaxPairs,
           NEW t \in Tab, call[t].pc # "idle", NEW c, NEW cookie, Answers(t, c, new, cookie),
           NEW root, issued' = Append(issued, root), UNCHANGED <<jar, memory>>, RevokesHeld
    PROVE  HeldIssued' /\ NewUnheld'
<1>1. Len(issued) \in Nat /\ new = Len(issued) + 1 /\ new \in Pair /\ new # 0
    BY BrowserAssumption DEF RootsOK, Fresh, Pair
<1>2. DOMAIN issued = 1..Len(issued) /\ Len(issued') = new /\ DOMAIN issued' = 1..new
    BY <1>1 DEF RootsOK
<1>3. /\ call'[t] = c /\ \A s \in Tab \ {t} : call'[s] = call[s]
      /\ c.pc = "answered" /\ c.new = new /\ c.tok = 0
    BY DEF CallsOK, Answers
<1>4. ASSUME NEW n, Held(n)' PROVE Held(n) \/ n = 0
    <2>1. jar.refresh = n \/ \E s \in Tab : HeldBy(n, s)'
        BY <1>4 DEF Held
    <2>2. ASSUME NEW s \in Tab, HeldBy(n, s)' PROVE HeldBy(n, s) \/ n = 0
        BY <1>3, <2>2 DEF HeldBy
    <2>3. QED
        BY <2>1, <2>2 DEF Held
<1>5. ~Held(new) /\ new \notin dead /\ ~Held(new)'
    BY <1>1, <1>4 DEF HeldIssued
<1>6. HeldIssued'
    BY <1>1, <1>2, <1>4, BrowserAssumption DEF HeldIssued, RevokesHeld, Pair
<1>7. Kept(new)' /\ ~Held(new)'
    <2>1. new \in DOMAIN issued'
        BY <1>1, <1>2
    <2>2. QED
        BY <1>5, <2>1 DEF Kept, RevokesHeld
<1>8. Brings(t)' /\ \A s \in Tab \ {t} : Brings(s)' = Brings(s)
    BY <1>1, <1>3 DEF Brings
<1>9. \A n : Kept(n) /\ ~Held(n) => Kept(n)' /\ n # new
    BY <1>1, <1>2 DEF Kept, RevokesHeld
<1>10. ASSUME NEW s \in Tab \ {t}, Brings(s) PROVE Unseen(s)' /\ call'[s].new # new
    <2>1. /\ call[s].new \in Pair /\ Kept(call[s].new) /\ ~Held(call[s].new) /\ call[s].new # 0
          /\ \A u \in Tab \ {s} : Brings(u) => call[u].new # call[s].new
        BY <1>10 DEF NewUnheld, Unseen, Brings
    <2>2. PICK m : m = call[s].new
        OBVIOUS
    <2>3. call'[s].new = m
        BY <1>3, <2>2
    <2>4. m \in Pair /\ Kept(m)' /\ ~Held(m)' /\ m # new
        BY <1>4, <1>9, <2>1, <2>2
    <2>5. \A u \in Tab \ {s} : Brings(u)' => call'[u].new # m
        BY <1>3, <1>8, <2>1, <2>2, <2>4
    <2>6. QED
        BY <2>3, <2>4, <2>5 DEF Unseen
<1>11. Unseen(t)'
    BY <1>1, <1>3, <1>7, <1>8, <1>10 DEF Unseen
<1>12. NewUnheld'
    BY <1>8, <1>10, <1>11 DEF NewUnheld
<1>13. QED
    BY <1>6, <1>12

\* An answer is received: what it brings is held from now on, and it is no
\* longer on its way.
LEMMA PairReceived ==
    ASSUME CallsOK, RootsOK, HeldIssued, NewUnheld, NEW t \in Tab, Receive(t)
    PROVE  HeldIssued' /\ NewUnheld'
<1> DEFINE c == call[t]
<1>1. Len(issued) \in Nat /\ DOMAIN issued = 1..Len(issued)
    BY DEF RootsOK
<1>2. /\ c.pc = "answered" /\ c.new \in Pair /\ c.cookie \in {"keep", "set", "clear"}
      /\ call'[t] = Idle /\ \A s \in Tab \ {t} : call'[s] = call[s]
    BY UnderWay DEF CallsOK, Receive, Call
<1>3. jar' = Jar(c) /\ UNCHANGED <<issued, dead>>
    BY DEF Receive, server
<1>4. jar'.refresh \in {0, c.new, jar.refresh}
    BY <1>2, <1>3 DEF Jar, Granted, Cleared, NoTokens
<1>5. memory'[t].refresh \in {0, c.new, memory[t].refresh} /\ \A s \in Tab \ {t} : memory'[s] = memory[s]
    BY <1>2 DEF CallsOK, Receive, Told, NoTokens
<1>6. PICK new : new = c.new
    OBVIOUS
<1>7. ASSUME NEW n, Held(n)' PROVE Held(n) \/ n = 0 \/ n = new
    <2>1. jar'.refresh = n \/ \E s \in Tab : HeldBy(n, s)'
        BY <1>7 DEF Held
    <2>2. ASSUME NEW s \in Tab \ {t}, HeldBy(n, s)' PROVE HeldBy(n, s)
        BY <1>2, <1>5, <2>2 DEF HeldBy
    <2>3. HeldBy(n, t)' => HeldBy(n, t) \/ n = 0 \/ n = new
        <3>1. call'[t].pc = "idle"
            BY <1>2 DEF Idle
        <3>2. HeldBy(n, t)' => memory'[t].refresh = n
            BY <3>1 DEF HeldBy
        <3>3. memory[t].refresh = n => HeldBy(n, t)
            BY DEF HeldBy
        <3>4. QED
            BY <1>5, <1>6, <3>2, <3>3
    <2>4. QED
        BY <1>4, <1>6, <2>1, <2>2, <2>3 DEF Held
<1>8. new = 0 \/ (new <= Len(issued) /\ \A s \in Tab \ {t} : Brings(s) => call[s].new # new)
    BY <1>1, <1>2, <1>6 DEF NewUnheld, Unseen, Brings, Kept
<1>9. HeldIssued'
    BY <1>1, <1>3, <1>7, <1>8, BrowserAssumption DEF HeldIssued, Pair
<1>10. ~Brings(t)' /\ \A s \in Tab \ {t} : Brings(s)' = Brings(s)
    BY <1>2 DEF Brings, Idle
<1>11. ASSUME NEW s \in Tab \ {t}, Brings(s) PROVE Unseen(s)'
    <2>1. /\ call[s].new \in Pair /\ Kept(call[s].new) /\ ~Held(call[s].new) /\ call[s].new # 0
          /\ call[s].new # new
          /\ \A u \in Tab \ {s} : Brings(u) => call[u].new # call[s].new
        BY <1>8, <1>11 DEF NewUnheld, Unseen, Brings
    <2>2. PICK m : m = call[s].new
        OBVIOUS
    <2>3. call'[s].new = m
        BY <1>2, <2>2
    <2>4. m \in Pair /\ Kept(m)' /\ ~Held(m)'
        BY <1>3, <1>7, <2>1, <2>2 DEF Kept
    <2>5. \A u \in Tab \ {s} : Brings(u)' => call'[u].new # m
        BY <1>2, <1>10, <2>1, <2>2
    <2>6. QED
        BY <2>3, <2>4, <2>5 DEF Unseen
<1>12. QED
    BY <1>9, <1>10, <1>11 DEF NewUnheld

\* An answer that replaces the cookies, or that leaves them as they were.
LEMMA AnswerReplaces ==
    ASSUME CallsOK, CookiesSet, CookieReplaced,
           NEW t \in Tab, call[t].pc # "answered", NEW c, NEW new, NEW cookie, Answers(t, c, new, cookie),
           UNCHANGED <<config, jar>>, ~broken' => ~broken,
           cookie = "set" => new # 0 /\ config.mode # "RESPONSE_ONLY",
           \/ jar.refresh = 0
           \/ cookie # "keep"
           \/ call[t].pc # "revoked" /\ (Kept(jar.refresh) => Kept(jar.refresh)')
    PROVE  CookiesSet' /\ CookieReplaced'
<1>1. /\ call'[t] = c /\ \A s \in Tab \ {t} : call'[s] = call[s]
      /\ c.pc = "answered" /\ c.new = new /\ c.cookie = cookie
    BY DEF CallsOK, Answers
<1>2. CookiesSet'
    BY <1>1 DEF CookiesSet
<1>3. \A s \in Tab \ {t} : Replaces(s) => Replaces(s)'
    BY <1>1 DEF Replaces
<1>4. cookie # "keep" => Replaces(t)'
    BY <1>1 DEF Replaces
<1>5. call[t].pc # "revoked" => ~Replaces(t)
    BY DEF Replaces
<1>6. CookieReplaced'
    BY <1>3, <1>4, <1>5 DEF CookieReplaced
<1>7. QED
    BY <1>2, <1>6

\* A request that is neither answered now nor was before.
LEMMA NothingReplaces ==
    ASSUME CallsOK, CookiesSet, CookieReplaced,
           NEW t \in Tab, NEW c, call' = [call EXCEPT ![t] = c], c.pc # "answered",
           ~broken' => ~broken /\ ~Replaces(t),
           UNCHANGED <<config, jar, issued, dead>>
    PROVE  CookiesSet' /\ CookieReplaced'
<1>1. call'[t] = c /\ \A s \in Tab \ {t} : call'[s] = call[s]
    BY DEF CallsOK
<1>2. CookiesSet'
    BY <1>1 DEF CookiesSet
<1>3. \A s \in Tab : s # t /\ Replaces(s) => Replaces(s)'
    BY <1>1 DEF Replaces
<1>4. Kept(jar.refresh)' = Kept(jar.refresh)
    BY DEF Kept
<1>5. CookieReplaced'
    BY <1>3, <1>4 DEF CookieReplaced
<1>6. QED
    BY <1>2, <1>5

\* An answer that arrives leaves the cookies, removes them or brings live ones.
LEMMA ReceivedReplaces ==
    ASSUME CallsOK, NewUnheld, CookiesSet, CookieReplaced, NEW t \in Tab, Receive(t)
    PROVE  CookiesSet' /\ CookieReplaced'
<1> DEFINE c == call[t]
<1>1. /\ c.pc = "answered" /\ c.cookie \in {"keep", "set", "clear"}
      /\ call'[t] = Idle /\ \A s \in Tab \ {t} : call'[s] = call[s]
      /\ jar' = Jar(c)
    BY UnderWay DEF CallsOK, Receive, Call
<1>2. UNCHANGED <<config, issued, dead, broken>>
    BY DEF Receive, server, history
<1>3. call'[t].pc = "idle"
    BY <1>1 DEF Idle
<1>4. CASE c.cookie = "set"
    <2>1. jar'.refresh = c.new /\ c.new # 0 /\ config.mode # "RESPONSE_ONLY"
        BY <1>1, <1>4 DEF Jar, Granted, CookiesSet
    <2>2. CookiesSet'
        BY <1>1, <1>2, <1>3, <2>1 DEF CookiesSet
    <2>3. Kept(c.new)
        BY <1>1, <2>1 DEF NewUnheld, Unseen, Brings
    <2>4. Kept(jar.refresh)'
        BY <1>2, <2>1, <2>3 DEF Kept
    <2>5. QED
        BY <2>2, <2>4 DEF CookieReplaced
<1>5. CASE c.cookie = "clear"
    <2>1. jar'.refresh = 0
        BY <1>1, <1>5 DEF Jar, Cleared, NoTokens
    <2>2. CookiesSet'
        BY <1>1, <1>2, <1>3, <2>1 DEF CookiesSet
    <2>3. QED
        BY <2>1, <2>2 DEF CookieReplaced
<1>6. CASE c.cookie = "keep"
    <2>1. jar' = jar
        BY <1>1, <1>6 DEF Jar
    <2>2. ~Replaces(t) /\ Idle.pc # "answered"
        BY <1>1, <1>6 DEF Replaces, Idle
    <2>3. call' = [call EXCEPT ![t] = Idle]
        BY DEF Receive
    <2>4. QED
        BY <1>2, <2>1, <2>2, <2>3, NothingReplaces DEF server
<1>7. QED
    BY <1>1, <1>4, <1>5, <1>6

LEMMA CookiesStay == CallsOK /\ RootsOK /\ ReadIssued /\ Cookies /\ [Next]_vars => Cookies'
<1> SUFFICES ASSUME CallsOK, RootsOK, ReadIssued, Cookies, [Next]_vars PROVE Cookies'
    OBVIOUS
<1> USE DEF Cookies
<1>1. CASE UNCHANGED <<config, issued, dead, jar, memory, call, broken>>
    BY <1>1 DEF HeldIssued, NewUnheld, Unseen, CookiesSet, CookieReplaced, Held, HeldBy, Brings, Kept, Replaces
\* A request sent, read or given up.
<1>2. ASSUME NEW t \in Tab, NEW c, call' = [call EXCEPT ![t] = c], c.pc # "answered", Quiet(c),
             ~broken' => ~broken /\ ~Replaces(t),
             UNCHANGED <<config, issued, dead, jar, memory>>
      PROVE  Cookies'
    <2>1. RevokesHeld
        BY <1>2 DEF RevokesHeld
    <2>2. HeldIssued' /\ NewUnheld'
        BY <1>2, <2>1, NothingBrought
    <2>3. CookiesSet' /\ CookieReplaced'
        BY <1>2, NothingReplaces
    <2>4. QED
        BY <2>2, <2>3
<1>3. ASSUME NEW t \in Tab, Send(t) PROVE Cookies'
    <2>1. PICK c : Sends(t, c)
        BY <1>3, SendIs
    <2>2. Held(jar.refresh) /\ Held(memory[t].refresh)
        BY DEF Held, HeldBy
    <2>3. Quiet(c)
        BY <2>1, <2>2 DEF Quiet, Sends
    <2>4. ~Replaces(t)
        BY <1>3 DEF Send, Replaces, Idle
    <2>5. QED
        BY <1>2, <1>3, <2>1, <2>3, <2>4 DEF Sends, Send, server, history
\* A request answered without a pair.
<1>4. ASSUME NEW t \in Tab, call[t].pc \in {"sent", "read", "revoked"}, NEW cookie \in {"keep", "clear"},
             Answer(t, 0, cookie),
             UNCHANGED <<config, issued, jar, memory>>, RevokesHeld,
             broken' \/ (~broken /\ (cookie = "clear" \/ (call[t].pc # "revoked" /\ dead' = dead)))
      PROVE  Cookies'
    <2>1. PICK c : Answers(t, c, 0, cookie)
        BY <1>4, ZeroIsPair, AnswerIs
    <2>2. call' = [call EXCEPT ![t] = c] /\ c.new = 0 /\ c.tok = 0 /\ c.pc = "answered"
        BY <2>1 DEF Answers
    <2>3. Quiet(c)
        BY <2>2 DEF Quiet
    <2>4. HeldIssued' /\ NewUnheld'
        BY <1>4, <2>2, <2>3, NothingBrought
    <2>5. CASE broken'
        <3>1. CookiesSet'
            BY <1>4, <2>1 DEF Answers, CallsOK, CookiesSet
        <3>2. QED
            BY <2>4, <2>5, <3>1 DEF CookieReplaced
    <2>6. CASE ~broken /\ (cookie = "clear" \/ (call[t].pc # "revoked" /\ dead' = dead))
        <3>1. cookie = "clear" \/ (call[t].pc # "revoked" /\ (Kept(jar.refresh) => Kept(jar.refresh)'))
            BY <1>4, <2>6 DEF Kept
        <3>2. CookiesSet' /\ CookieReplaced'
            BY <1>4, <2>1, <2>6, <3>1, AnswerReplaces
        <3>3. QED
            BY <2>4, <3>2
    <2>7. QED
        BY <1>4, <2>5, <2>6
\* A request answered with one.
<1>5. ASSUME NEW t \in Tab, call[t].pc \in {"sent", "revoked"}, NEW root, Issue(t, root) PROVE Cookies'
    <2>1. PICK new : new = Fresh
        OBVIOUS
    <2>2. new \in Pair /\ new # 0 /\ SetAuthCookies \in {"keep", "set", "clear"}
        BY <1>5, <2>1, BrowserAssumption DEF Issue, Fresh, Pair, RootsOK, SetAuthCookies
    <2>3. PICK c : Answers(t, c, new, SetAuthCookies)
        BY <1>5, <2>1, <2>2, AnswerIs DEF Issue
    <2>4. UNCHANGED <<config, jar, memory, broken>> /\ issued' = Append(issued, root) /\ new <= MaxPairs
        BY <1>5, <2>1 DEF Issue, history
    <2>5. RevokesHeld
        BY <1>5 DEF Issue, RevokesHeld
    <2>6. HeldIssued' /\ NewUnheld'
        BY <1>5, <2>1, <2>3, <2>4, <2>5, PairBrought
    <2>7. jar.refresh = 0 \/ SetAuthCookies # "keep"
        BY DEF SetAuthCookies, CookiesSet
    <2>8. SetAuthCookies = "set" => config.mode # "RESPONSE_ONLY"
        BY DEF SetAuthCookies
    <2>9. CookiesSet' /\ CookieReplaced'
        BY <1>5, <2>2, <2>3, <2>4, <2>7, <2>8, AnswerReplaces
    <2>10. QED
        BY <2>6, <2>9
<1>6. ASSUME NEW t \in Tab, RefreshRevoke(t) PROVE Cookies'
    <2>1. PICK c : GoesOn(t, c) /\ c.pc = "revoked"
        BY <1>6, GoesOnIs DEF RefreshRevoke
    <2>2. /\ call' = [call EXCEPT ![t] = c] /\ c.tok = call[t].tok
          /\ call'[t].pc = "revoked" /\ \A s \in Tab \ {t} : call'[s] = call[s]
        BY <2>1 DEF GoesOn, CallsOK
    <2>3. call[t].pc = "read" /\ Held(call[t].tok)
        BY <1>6 DEF RefreshRevoke, Held, HeldBy
    <2>4. Quiet(c)
        BY <2>1, <2>2, <2>3 DEF Quiet
    <2>5. call[t].tok \in Pair
        BY <2>3, TokensArePairs
    <2>6. RevokesHeld
        BY <1>6, <2>3, <2>5 DEF RefreshRevoke, RevokesHeld, Revoked
    <2>7. UNCHANGED <<config, issued, jar, memory, broken>>
        BY <1>6 DEF RefreshRevoke
    <2>8. HeldIssued' /\ NewUnheld'
        BY <2>2, <2>4, <2>6, <2>7, NothingBrought
    <2>9. CookiesSet'
        BY <2>2, <2>7 DEF CookiesSet
    <2>10. CookieReplaced'
        BY <2>2 DEF CookieReplaced, Replaces
    <2>11. QED
        BY <2>8, <2>9, <2>10
<1>7. ASSUME NEW t \in Tab, Serve(t) PROVE Cookies'
    <2>1. CASE Refuse(t)
        BY <1>4, <2>1 DEF Refuse, Refused, server, history, RevokesHeld
    <2>2. CASE Login(t)
        BY <1>5, <2>2 DEF Login, Served
    <2>3. CASE RefreshRead(t)
        <3>1. CASE Refused(t)
            BY <1>4, <2>3, <3>1 DEF RefreshRead, Refused, Served, server, history, RevokesHeld
        <3>2. CASE call' = [call EXCEPT ![t].pc = "read"]
            <4>1. call[t].pc = "sent"
                BY <2>3 DEF RefreshRead, Served
            <4>2. PICK c : GoesOn(t, c) /\ c.pc = "read"
                BY <3>2, <4>1, GoesOnIs
            <4>3. Quiet(c) /\ ~Replaces(t)
                BY <4>1, <4>2 DEF Quiet, GoesOn, Held, HeldBy, Replaces
            <4>4. QED
                BY <1>2, <2>3, <4>2, <4>3 DEF GoesOn, RefreshRead, server, history
        <3>3. QED
            BY <2>3, <3>1, <3>2 DEF RefreshRead
    <2>4. CASE RefreshRevoke(t)
        BY <1>6, <2>4
    <2>5. CASE RefreshIssue(t)
        BY <1>5, <2>5 DEF RefreshIssue
    <2>6. CASE RefreshFails(t)
        <3>1. RevokesHeld /\ UNCHANGED <<config, issued, dead, jar, memory>>
            BY <2>6 DEF RefreshFails, server, RevokesHeld
        <3>2. CASE call[t].pc = "revoked"
            BY <1>4, <2>6, <3>1, <3>2 DEF RefreshFails, Refused
        <3>3. CASE call[t].pc = "read"
            <4>1. broken' \/ ~broken
                BY <2>6, <3>3 DEF RefreshFails
            <4>2. QED
                BY <1>4, <2>6, <3>1, <3>3, <4>1 DEF RefreshFails, Refused
        <3>4. QED
            BY <2>6, <3>2, <3>3 DEF RefreshFails
    <2>7. CASE Logout(t)
        <3>1. call[t].pc = "sent" /\ UNCHANGED <<config, issued, jar, memory, broken>>
            BY <2>7 DEF Logout, Served
        <3>2. call[t].tok \in Pair /\ Held(call[t].tok)
            BY <3>1, TokensArePairs DEF Held, HeldBy
        <3>3. RevokesHeld
            BY <2>7, <3>2 DEF Logout, RevokesHeld
        <3>4. CASE call[t].tok = 0
            <4>1. ~Live(call[t].tok)
                BY <3>4 DEF Live, Kept, RootsOK
            <4>2. QED
                BY <1>4, <2>7, <3>1, <3>3, <3>4, <4>1 DEF Logout, Refused
        <3>5. CASE call[t].tok # 0
            BY <1>4, <2>7, <3>1, <3>3, <3>5 DEF Logout
        <3>6. QED
            BY <3>4, <3>5
    <2>8. QED
        BY <1>7, <2>1, <2>2, <2>3, <2>4, <2>5, <2>6, <2>7 DEF Serve, Refresh
<1>8. ASSUME NEW t \in Tab, Receive(t) PROVE Cookies'
    BY <1>8, PairReceived, ReceivedReplaces
<1>9. ASSUME NEW t \in Tab, Lose(t) PROVE Cookies'
    <2>1. Idle.pc = "idle"
        BY DEF Idle
    <2>2. call' = [call EXCEPT ![t] = Idle] /\ UNCHANGED <<config, issued, dead, jar, memory>>
        BY <1>9 DEF Lose, server
    <2>3. Quiet(Idle)
        BY <2>1 DEF Quiet
    <2>4. ~broken' => ~broken /\ ~Replaces(t)
        BY <1>9 DEF Lose, Replaces
    <2>5. QED
        BY <1>2, <2>1, <2>2, <2>3, <2>4
<1>10. ASSUME NEW n \in inserting, InsertRow(n) \/ InsertLost(n) PROVE Cookies'
    BY <1>1, <1>10 DEF InsertRow, InsertLost, history
<1>11. CASE UNCHANGED vars
    BY <1>1, <1>11 DEF vars
<1>12. QED
    BY <1>3, <1>7, <1>8, <1>9, <1>10, <1>11 DEF Next

----------------------------------------------------------------------------
(* Results                                                                 *)

IInv == CallsOK /\ Session /\ Cookies

LEMMA InitHolds == Init => IInv
<1> SUFFICES ASSUME Init PROVE IInv
    OBVIOUS
<1>1. CallsOK
    BY NoTokensAreTokens DEF Init, CallsOK
<1>2. \A t \in Tab : call[t].pc = "idle"
    BY DEF Init, Idle
<1>3. Session
    BY <1>2, BrowserAssumption
       DEF Init, Session, RootsOK, ReadIssued, Busy, OneKept, EndsKept, HandedOn, Handing
<1>4. \A n : Held(n) \/ n \in dead => n = 0
    BY <1>2 DEF Init, Held, HeldBy, NoTokens
<1>5. Len(issued) = 0 /\ jar.refresh = 0
    BY DEF Init, NoTokens
<1>6. HeldIssued
    BY <1>4, <1>5 DEF HeldIssued
<1>7. Cookies
    BY <1>2, <1>5, <1>6 DEF Cookies, NewUnheld, Brings, CookiesSet, CookieReplaced
<1>8. QED
    BY <1>1, <1>3, <1>7 DEF IInv

\* The inductive invariant holds throughout.
THEOREM Invariance == Spec => []IInv
<1>1. IInv /\ [Next]_vars => IInv'
    BY CallsStay, SessionHolds, CookiesStay DEF IInv, Session
<1>2. QED
    BY InitHolds, <1>1, PTL DEF Spec

\* Logout (auth-service.adapter.ts, revokeRefreshToken): success means that no token
\* of that login is live, nor will be when its row is inserted at last, unless a
\* refresh had read one before it was revoked.
THEOREM SuccessIsFinal == Spec => []SuccessEndsSession
<1>1. IInv => SuccessEndsSession
    BY DEF IInv, Session, EndsKept, SuccessEndsSession, Live
<1>2. QED
    BY Invariance, <1>1, PTL

\* Cookies against answers (user.resolver.ts; setAuthCookies and clearAuthCookies):
\* once no request is under way, the refresh cookie is live in whatever order the
\* answers came, unless a refresh broke off, an answer with cookies was lost, or the
\* cookie's row (generateRefreshToken does not wait for it) is not there.
THEOREM QuietCookieIsLive == Spec => []NoDeadCookie
<1>1. ASSUME IInv, \A t \in Tab : call[t] = Idle, ~broken, jar.refresh # 0 PROVE Kept(jar.refresh)
    BY <1>1 DEF IInv, Cookies, CookieReplaced, Replaces, Idle
<1>2. IInv => NoDeadCookie
    BY <1>1 DEF NoDeadCookie, Live
<1>3. QED
    BY Invariance, <1>2, PTL
=============================================================================
