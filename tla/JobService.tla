----------------------------- MODULE JobService -----------------------------
(***************************************************************************)
(* What the event loop relies on when it hands work to a background        *)
(* service (the database pool of db.c, the password worker of              *)
(* password_worker.c): every accepted job is finished once and delivered   *)
(* back to the loop once, nothing is delivered that was not accepted,      *)
(* nothing is accepted after the service was stopped, and the service is   *)
(* released only when nothing is owed.  A job is named after the request   *)
(* context it carries; a context has at most one job outstanding, and may  *)
(* be submitted again after its delivery (handler chains do so).           *)
(***************************************************************************)
CONSTANT Jobs

VARIABLES
    status,     \* where each job is
    phase       \* life of the service

vars == <<status, phase>>

TypeOK ==
    /\ status \in [Jobs -> {"idle", "accepted", "finished"}]
    /\ phase \in {"open", "stopping", "released"}

Init ==
    /\ status = [j \in Jobs |-> "idle"]
    /\ phase = "open"

Submit(j) ==
    /\ phase = "open"
    /\ status[j] = "idle"
    /\ status' = [status EXCEPT ![j] = "accepted"]
    /\ UNCHANGED phase

Finish(j) ==
    /\ status[j] = "accepted"
    /\ status' = [status EXCEPT ![j] = "finished"]
    /\ UNCHANGED phase

Deliver(j) ==
    /\ status[j] = "finished"
    /\ status' = [status EXCEPT ![j] = "idle"]
    /\ UNCHANGED phase

\* Stopping may finish accepted jobs on the spot, as cancelled.
Stop(cancelled) ==
    /\ phase = "open"
    /\ \A j \in cancelled : status[j] = "accepted"
    /\ status' = [j \in Jobs |-> IF j \in cancelled THEN "finished" ELSE status[j]]
    /\ phase' = "stopping"

Release ==
    /\ phase = "stopping"
    /\ \A j \in Jobs : status[j] = "idle"
    /\ phase' = "released"
    /\ UNCHANGED status

Next ==
    \/ \E j \in Jobs : Submit(j) \/ Finish(j) \/ Deliver(j)
    \/ \E cancelled \in SUBSET Jobs : Stop(cancelled)
    \/ Release

EveryJobReturns == \A j \in Jobs : status[j] = "accepted" ~> status[j] = "idle"
StopReleases == phase = "stopping" ~> phase = "released"

Spec == Init /\ [][Next]_vars /\ EveryJobReturns /\ StopReleases
=============================================================================
