------------------------------ MODULE MCServer ------------------------------
(* Model-checking instances of Server. *)
EXTENDS Server, TLC

\* Clients are interchangeable: used for the run without temporal properties.
ClientSymmetry == Permutations(Clients)
=============================================================================
