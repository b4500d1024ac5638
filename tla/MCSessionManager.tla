-------------------------- MODULE MCSessionManager --------------------------
EXTENDS SessionInvariants, SessionRefinement, TLC
HashSymmetry == Permutations(Torrents)
=============================================================================
