---------------------------- MODULE MCScoreboard ----------------------------
(* Three users, two challenges, answers before and at the end of the contest. *)
EXTENDS Scoreboard
=============================================================================
