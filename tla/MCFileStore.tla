---------------------------- MODULE MCFileStore ----------------------------
(* FileStore on two users, two names and two overlapping requests. *)
EXTENDS FileStore, TLC
CONSTANTS u1, u2, n1, n2, f1, f2, r1, r2

MCUser == {u1, u2}
MCStaff == {}
MCName == {n1, n2}
MCFileId == {f1, f2}
MCRequest == {r1, r2}
\* A third call, or a fourth put, but not both.
CallsOrPuts == calls < 3 \/ puts + Cardinality(Unsent) < 4
\* The set of initial slugs is closed under permutations of the names.
MCSymmetry == UNION {Permutations(S) : S \in {MCUser, MCName, MCFileId, MCRequest}}
=============================================================================
