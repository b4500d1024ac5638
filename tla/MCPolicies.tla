----------------------------- MODULE MCPolicies -----------------------------
(* Policies on a small instance.                                           *)
EXTENDS Policies, TLC
TorrentSymmetry == Permutations(Torrents)
=============================================================================
