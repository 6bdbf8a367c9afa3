---------------------------- MODULE MCMagicLinks ----------------------------
EXTENDS MagicLinks, TLC

Symmetry == Permutations(Link) \cup Permutations(Visit)
                \cup Permutations(Email) \cup Permutations(Origin)
=============================================================================
