--------------------------- MODULE RefreshLedger ---------------------------
(***************************************************************************)
(* What the refresh table promises, whatever requests race on it: the life *)
(* of a refresh token is a one-way street, and a token is issued in place  *)
(* of another only after that one was revoked.                             *)
(***************************************************************************)
CONSTANTS Token, NoToken

VARIABLES
    stage,      \* how far each token is
    replaces    \* the token it was issued in place of

vars == <<stage, replaces>>

Init ==
    /\ stage = [t \in Token |-> "unissued"]
    /\ replaces = [t \in Token |-> NoToken]

\* A login issues a token, or a refresh in place of the revoked token p.
Issue(t, p) ==
    /\ stage[t] = "unissued"
    /\ p = NoToken \/ (p \in Token /\ stage[p] = "revoked")
    /\ stage' = [stage EXCEPT ![t] = "pending"]
    /\ replaces' = [replaces EXCEPT ![t] = p]

\* Its row appears, or never will.
Settle(t) ==
    /\ stage[t] = "pending"
    /\ \E s \in {"active", "lost"} : stage' = [stage EXCEPT ![t] = s]
    /\ UNCHANGED replaces

Revoke(t) ==
    /\ stage[t] = "active"
    /\ stage' = [stage EXCEPT ![t] = "revoked"]
    /\ UNCHANGED replaces

Next ==
    \E t \in Token : Settle(t) \/ Revoke(t) \/ \E p \in Token \cup {NoToken} : Issue(t, p)

Spec == Init /\ [][Next]_vars
=============================================================================
