----------------------------- MODULE MCAccounts -----------------------------
(* Accounts with two requests over two rows and two addresses. *)
EXTENDS Accounts, TLC
CONSTANTS u1, u2, e1, e2, c1, c2

MCUser == {u1, u2}
MCReader == {u1}
MCEmail == {e1, e2}
MCCreator == {c1, c2}
\* The welcome of one user at a time goes wrong.
OneMishap == mishap # User
MCSymmetry == Permutations(MCEmail) \cup Permutations(MCCreator)
=============================================================================
