------------------------- MODULE MCOAuthIdentities -------------------------
EXTENDS OAuthIdentities, TLC

Symmetry == Permutations(User) \cup Permutations(Provider) \cup Permutations(Account)
                \cup Permutations(Identity) \cup Permutations(Request)

\* A bound: how many answers are cached at once.
OneCached == Cardinality({q \in Query : cache[q] # {}}) <= 1
=============================================================================
