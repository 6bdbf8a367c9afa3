-------------------------- MODULE MCBrowserSession --------------------------
(* Two tabs of one browser, the second one GraphiQL.                         *)
EXTENDS BrowserSession
CONSTANTS t1, t2

\* One thing goes missing: a row, or an answer and whatever follows.
OneMishap == Cardinality(lost) + (IF broken THEN 1 ELSE 0) < 2
\* Of three pairs one at least is a rotation.
TwoLogins == Cardinality({issued[n] : n \in DOMAIN issued}) < 3
=============================================================================
