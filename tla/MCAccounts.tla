----------------------------- MODULE MCAccounts -----------------------------
(***************************************************************************)
(* Two workloads on an instance of Accounts: up to three signups and       *)
(* logins that race for a new name, and four logins, authenticated         *)
(* requests and logouts of an old account while its tokens expire.         *)
(***************************************************************************)
EXTENDS Accounts, TLC

CONSTANTS r1, r2, r3, r4, p1, p2

Symmetric == Permutations({r1, r2, r3, r4})

Begun == {r \in Requests : pc[r] # "idle"}

RaceForAName ==
    /\ Cardinality(Begun) <= 3
    /\ now = 0
    /\ \A r \in Begun : arg[r].op \in {"signup", "login"} /\ arg[r].name = "bob"

UseOfSessions ==
    \A r \in Begun : arg[r].op = "login" => arg[r].name = "alice" /\ arg[r].pwd = p1

Workload ==
    \/ RaceForAName
    \/ UseOfSessions /\ \A r \in Begun : arg[r].op # "signup"

WorkloadSpec == Init /\ [][Next /\ Workload']_vars
=============================================================================
