---------------------------- MODULE MCBootstrap ----------------------------
(* Bootstrap on two instances and two users, one of them the seeded account. *)
EXTENDS Bootstrap, TLC
CONSTANTS p1, p2, acc, oth

MCInstance == {p1, p2}
MCUser == {acc, oth}
MCSymmetry == Permutations(MCInstance)
\* A third start, or a second change or rejected call, but not both.
StartsOrEvents == starts < 3 \/ edits + rejected < 2
=============================================================================
