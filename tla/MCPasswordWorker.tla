-------------------------- MODULE MCPasswordWorker --------------------------
(* Model-checking instances of PasswordWorker. *)
EXTENDS PasswordWorker
=============================================================================
