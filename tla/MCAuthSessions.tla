--------------------------- MODULE MCAuthSessions ---------------------------
EXTENDS AuthSessions, TLC

Symmetry == Permutations(Token) \cup Permutations(Request) \cup Permutations(User)
=============================================================================
