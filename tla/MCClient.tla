------------------------------ MODULE MCClient ------------------------------
(* Two users, every kind of page, calls of earlier pages still under way. *)
EXTENDS Client, TLC

Symmetric == Permutations(Users) \cup Permutations(CallIds)
=============================================================================
