------------------------- MODULE MCRefreshFamilies -------------------------
(* RefreshFamilies on small instances. *)
EXTENDS RefreshFamilies, TLC

Symmetry == Permutations(Requests) \cup Permutations(Users) \cup Permutations(Keys)
=============================================================================
