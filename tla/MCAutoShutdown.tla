--------------------------- MODULE MCAutoShutdown ---------------------------
(* AutoShutdown on a small instance.                                       *)
EXTENDS AutoShutdown, TLC
HashSymmetry == Permutations(Torrents)
=============================================================================
