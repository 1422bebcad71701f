----------------------------- MODULE MCContest -----------------------------
(***************************************************************************)
(* Workloads of three requests on one or two challenges: changes that race *)
(* in a contest that has begun, and answers and challenges of one user     *)
(* with his own and the public listings that should show them, also before *)
(* the start.                                                              *)
(***************************************************************************)
EXTENDS Contest, TLC

CONSTANTS r1, r2, r3, u1, u2, f1, f2, f3, c1

OneSeed == {[id |-> c1, owner |-> u1, flag |-> f1]}
Symmetric == Permutations({r1, r2, r3})

Begun == {r \in Requests : pc[r] # "idle"}
Only(ops) == \A r \in Begun : arg[r].op \in ops

\* u1 owns the challenge; u2 answers it, and tries to change it at most once.
Races ==
    /\ Only({"put", "delete", "submit"})
    /\ Begun # {} => started
    /\ \A r \in Begun : arg[r].op = "submit" => arg[r].user = u2
    /\ \A r \in Begun : arg[r].op = "put" /\ arg[r].user = u2 => arg[r].flag = f2
    /\ Cardinality({r \in Begun : arg[r].op # "submit" /\ arg[r].user = u2}) <= 1

Listings ==
    /\ \A r \in Begun : arg[r].user \in {u1, None}
    /\ Only({"delete", "submit", "mine", "answers"}) \/ Only({"create", "list", "own"})

WorkloadSpec == Init /\ [][Next /\ (Races' \/ Listings')]_vars
=============================================================================
