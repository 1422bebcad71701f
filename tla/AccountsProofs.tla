--------------------------- MODULE AccountsProofs ---------------------------
(***************************************************************************)
(* Proofs about Accounts for every number of requests, names, passwords    *)
(* and every time to live: one winner for a name, truthful refusals, a     *)
(* session behind every token, logout that revokes, and no token refused   *)
(* that is still good.                                                     *)
(***************************************************************************)
EXTENDS Accounts, TLAPS

-----------------------------------------------------------------------------
(* The inductive invariant. *)

Row(r) == [id |-> r, name |-> arg[r].name, pwd |-> arg[r].pwd]

\* The password of the request is the password of the account it names.
Proven(r) == \E u \in users : u.name = arg[r].name /\ u.pwd = arg[r].pwd

\* The token of login s is no longer good.
Gone(s) == s \in deleted \/ Expired(now, s)

SignupStages == {"signup_2", "signup_3", "signup_4", "signup_5"}
LoginStages == {"login_2", "login_3", "login_4", "login_5"}

\* The two keys of the table users, and where its new rows come from: each
\* was inserted by the statement of the signup it is named after.
UsersTable ==
    /\ \A u, v \in users : u.name = v.name => u = v
    /\ \A u, v \in users : u.id = v.id => u = v
    /\ \A u \in users :
           u.id \in Requests =>
               /\ arg[u.id].op = "signup" /\ u = Row(u.id)
               /\ \/ pc[u.id] = "signup_4" /\ res[u.id] # "pending"
                  \/ pc[u.id] \in {"signup_5", "done"}

\* A session that a logout deleted belongs to a token and never returns.
SessionsTable == deleted \subseteq Tokens /\ deleted \cap sessions = {}

\* The handler of a request belongs to its operation; an answer ends it.
Control(r) ==
    /\ pc[r] = "idle" => arg[r].op = "none" /\ r \notin late
    /\ arg[r].op \in {"signup", "login"} => arg[r].name \in Names /\ arg[r].pwd \in Passwords
    /\ pc[r] \in SignupStages => arg[r].op = "signup"
    /\ pc[r] \in LoginStages => arg[r].op = "login"
    /\ pc[r] = "auth_2" => arg[r].op \in {"access", "logout"}
    /\ pc[r] = "logout_2" => arg[r].op = "logout"
    /\ pc[r] # "done" => answer[r] = "none"
    /\ pc[r] \in {"idle", "login_2"} => user[r] = None
    /\ res[r] = "invalid" => pc[r] = "login_3"
    /\ res[r] = "error" => r \in hurt \/ pc[r] = "signup_4"

\* What a signup knows about the table at each stage.
SignupFacts(r) ==
    /\ pc[r] \in {"signup_2", "signup_5", "login_2"} => rows[r] \subseteq users
    /\ pc[r] = "signup_4" /\ res[r] = "ok" => Row(r) \in users /\ rows[r] = {r}
    /\ (pc[r] = "signup_4" /\ res[r] = "error") \/ pc[r] = "signup_5" =>
           /\ r \in hurt \/ Taken(arg[r].name)
           /\ (\E u \in users : u.id = r) => ~dbUp /\ res[r] # "ok"
    /\ pc[r] = "signup_5" /\ res[r] = "ok" => r \in hurt \/ Registered(r)

\* What a login knows: the account it found has the name it was given, and
\* after login_3 also the password; its session outlives its answer.
LoginFacts(r) ==
    /\ pc[r] = "login_3" /\ user[r] # None =>
           \E u \in users : u.id = user[r] /\ u.name = arg[r].name
    /\ pc[r] = "login_3" /\ res[r] = "ok" /\ user[r] # None => Proven(r)
    /\ pc[r] \in {"login_4", "login_5"} => Proven(r)
    /\ pc[r] = "login_5" /\ res[r] = "ok" => r \in sessions \/ Gone(r)

\* What a request with a token knows: the token was handed out, and the rows
\* it selected hold its session unless the token is no longer good.
TokenFacts(r) ==
    /\ arg[r].op \in {"access", "logout"} => arg[r].sid \in Tokens
    /\ pc[r] = "auth_2" /\ res[r] = "ok" => arg[r].sid \in rows[r] \/ Gone(arg[r].sid)
    /\ r \in late =>
           /\ arg[r].op \in {"access", "logout"} /\ arg[r].sid \in deleted
           /\ pc[r] = "auth_2" => arg[r].sid \notin rows[r]
           /\ pc[r] # "logout_2"
    /\ pc[r] = "logout_2" /\ res[r] = "ok" => arg[r].sid \in deleted

\* What an answer promises its client, now and later.
Answered(r) ==
    /\ Ended(r, "signup", "201") => Row(r) \in users
    /\ Ended(r, "signup", "409") => \E u \in Owners(r) : u.id # r
    /\ Ended(r, "signup", "500") \/ Ended(r, "signup", "503") => r \in hurt
    /\ Ended(r, "login", "200") => Proven(r) /\ (r \in sessions \/ Gone(r))
    /\ Ended(r, "access", "401") \/ Ended(r, "logout", "401") => Gone(arg[r].sid)
    /\ r \in late => answer[r] # "200"

Facts(r) == Control(r) /\ SignupFacts(r) /\ LoginFacts(r) /\ TokenFacts(r) /\ Answered(r)

IInv == TypeOK /\ UsersTable /\ SessionsTable /\ \A r \in Requests : Facts(r)

-----------------------------------------------------------------------------
(* Statements. *)

Did(status, result, u, s) == [status |-> status, rows |-> result, users |-> u, sessions |-> s]

\* What each handler's statement returns and leaves in the tables, one case
\* per handler that waits for one.
LEMMA StatementIs ==
    ASSUME NEW r
    PROVE  /\ pc[r] \in {"signup_2", "signup_5", "login_2"} =>
                  Statement(r) = Did("ok", users, users, sessions)
           /\ pc[r] = "signup_4" /\ Taken(Row(r).name) =>
                  Statement(r) = Did("error", {}, users, sessions)
           /\ pc[r] = "signup_4" /\ ~Taken(Row(r).name) =>
                  Statement(r) = Did("ok", {r}, users \cup {Row(r)}, sessions)
           /\ pc[r] = "login_4" =>
                  Statement(r) = Did("ok", sessions \ LiveSessions, users, LiveSessions)
           /\ pc[r] = "login_5" =>
                  Statement(r) = Did("ok", {r}, users, sessions \cup {r})
           /\ pc[r] = "auth_2" =>
                  Statement(r) = Did("ok", LiveSessions, users, sessions)
           /\ pc[r] = "logout_2" =>
                  Statement(r) = Did("ok", {arg[r].sid} \cap sessions, users,
                                     Without(arg[r].sid))
<1> USE DEF Statement, Did, Row
<1>1. ASSUME pc[r] \in {"signup_2", "signup_5", "login_2"}
      PROVE  Statement(r) = Did("ok", users, users, sessions)
  BY <1>1, Zenon
<1>2. ASSUME pc[r] = "signup_4", Taken(Row(r).name)
      PROVE  Statement(r) = Did("error", {}, users, sessions)
  BY <1>2, Zenon
<1>3. ASSUME pc[r] = "signup_4", ~Taken(Row(r).name)
      PROVE  Statement(r) = Did("ok", {r}, users \cup {Row(r)}, sessions)
  BY <1>3, Zenon
<1>4. ASSUME pc[r] = "login_4"
      PROVE  Statement(r) = Did("ok", sessions \ LiveSessions, users, LiveSessions)
  BY <1>4, Zenon
<1>5. ASSUME pc[r] = "login_5"
      PROVE  Statement(r) = Did("ok", {r}, users, sessions \cup {r})
  BY <1>5, Zenon
<1>6. ASSUME pc[r] = "auth_2"
      PROVE  Statement(r) = Did("ok", LiveSessions, users, sessions)
  BY <1>6, Zenon
<1>7. ASSUME pc[r] = "logout_2"
      PROVE  Statement(r) = Did("ok", {arg[r].sid} \cap sessions, users, Without(arg[r].sid))
  BY <1>7, Zenon
<1> HIDE DEF Statement, Did, Row
<1>8. QED BY <1>1, <1>2, <1>3, <1>4, <1>5, <1>6, <1>7

-----------------------------------------------------------------------------
(* Type correctness. *)

\* Moving a request along keeps its control state in range and forgets its
\* result.
LEMMA MoveType ==
    ASSUME TypeOK, NEW r \in Requests, NEW stage \in Stages, NEW status \in Statuses,
           WaitFor(r, stage) \/ Answer(r, status), UNCHANGED users
    PROVE  /\ pc' \in [Requests -> Stages]
           /\ res' \in [Requests -> {"pending", "ok", "invalid", "error"}]
           /\ rows' \in [Requests -> (SUBSET users') \cup (SUBSET Requests)]
           /\ \A q \in Requests : res'[q] = "pending" => rows'[q] = {}
           /\ answer' \in [Requests -> Statuses]
<1>1. rows' = [rows EXCEPT ![r] = {}] /\ res' = [res EXCEPT ![r] = "pending"]
  BY DEF WaitFor, Answer, Consumed
<1>2. rows' \in [Requests -> (SUBSET users') \cup (SUBSET Requests)]
  <2>1. rows \in [Requests -> (SUBSET users') \cup (SUBSET Requests)]
    BY DEF TypeOK
  <2>2. {} \in (SUBSET users') \cup (SUBSET Requests)
    OBVIOUS
  <2>3. QED BY <1>1, <2>1, <2>2
<1>3. \A q \in Requests : res'[q] = "pending" => rows'[q] = {}
  BY <1>1 DEF TypeOK
<1>4. QED BY SMTT(30), <1>1, <1>2, <1>3 DEF TypeOK, WaitFor, Answer, Stages, Statuses

\* Every statement leaves rows and tables in their ranges.
LEMMA StatementType ==
    ASSUME IInv, NEW r \in Requests, Waiting(r, OnDatabase)
    PROVE  /\ Statement(r).status \in {"ok", "error"}
           /\ Statement(r).rows \subseteq Statement(r).users \/ Statement(r).rows \subseteq Requests
           /\ users \subseteq Statement(r).users
           /\ Statement(r).users \subseteq Accounts
           /\ Statement(r).sessions \subseteq Requests
<1>0. TypeOK /\ Control(r) /\ TokenFacts(r)
  BY DEF IInv, Facts
<1> DEFINE Typed(u, s) == u \subseteq Accounts /\ users \subseteq u /\ s \subseteq Requests
<1>1. ASSUME NEW status \in {"ok", "error"}, NEW result, NEW u, NEW s,
             Statement(r) = Did(status, result, u, s),
             Typed(u, s), result \subseteq u \/ result \subseteq Requests
      PROVE  /\ Statement(r).status \in {"ok", "error"}
             /\ Statement(r).rows \subseteq Statement(r).users \/ Statement(r).rows \subseteq Requests
             /\ users \subseteq Statement(r).users
             /\ Statement(r).users \subseteq Accounts
             /\ Statement(r).sessions \subseteq Requests
  <2>1. /\ Statement(r).status = status /\ Statement(r).rows = result
        /\ Statement(r).users = u /\ Statement(r).sessions = s
    BY <1>1 DEF Did
  <2>2. QED BY <1>1, <2>1
<1>2. Typed(users, sessions)
  BY <1>0 DEF TypeOK
<1>3. CASE pc[r] \in {"signup_2", "signup_5", "login_2"}
  BY <1>1, <1>2, <1>3, StatementIs
<1>4. CASE pc[r] = "signup_4"
  <2>1. Row(r) \in Accounts
    BY <1>0, <1>4 DEF Control, SignupStages, Row, Accounts, TypeOK
  <2>2. Typed(users \cup {Row(r)}, sessions) /\ {r} \subseteq Requests
    BY <1>2, <2>1
  <2>3. CASE Taken(Row(r).name)
    <3>1. Statement(r) = Did("error", {}, users, sessions) /\ {} \subseteq users
      BY <1>4, <2>3, StatementIs
    <3>2. QED BY ONLY <1>2, <3>1 DEF Did
  <2>4. CASE ~Taken(Row(r).name)
    <3>1. Statement(r) = Did("ok", {r}, users \cup {Row(r)}, sessions)
      BY <1>4, <2>4, StatementIs
    <3>2. QED BY ONLY <2>2, <3>1 DEF Did
  <2>5. QED BY <2>3, <2>4
<1>5. CASE pc[r] = "login_4" \/ pc[r] = "auth_2"
  <2>1. /\ Typed(users, LiveSessions) /\ LiveSessions \subseteq Requests
        /\ sessions \ LiveSessions \subseteq Requests
    BY <1>2 DEF LiveSessions
  <2>2. QED BY <1>1, <1>2, <1>5, <2>1, StatementIs
<1>6. CASE pc[r] = "login_5"
  <2>1. Typed(users, sessions \cup {r}) /\ {r} \subseteq Requests
    BY <1>2
  <2>2. QED BY <1>1, <1>6, <2>1, StatementIs
<1>7. CASE pc[r] = "logout_2"
  <2>1. Typed(users, Without(arg[r].sid)) /\ {arg[r].sid} \cap sessions \subseteq Requests
    BY <1>2 DEF Without
  <2>2. QED BY <1>1, <1>7, <2>1, StatementIs
<1>8. QED BY <1>3, <1>4, <1>5, <1>6, <1>7 DEF Waiting, OnDatabase

\* Every handler keeps every variable in its range.
LEMMA HandlerType ==
    ASSUME IInv, NEW r \in Requests, Handler(r) \/ Abandon(r)
    PROVE  TypeOK'
<1>0. TypeOK
  BY DEF IInv
<1> USE <1>0 DEF tables, Rest
<1> DEFINE Moves == \E stage \in Stages, status \in Statuses :
                        WaitFor(r, stage) \/ Answer(r, status)
           Others == UNCHANGED <<user, issued, tables, dbUp, now, deleted, revoked, late>>
<1> USE DEF Stages, Statuses
<1>1. ASSUME Moves, UNCHANGED users
      PROVE  /\ pc' \in [Requests -> Stages]
             /\ res' \in [Requests -> {"pending", "ok", "invalid", "error"}]
             /\ rows' \in [Requests -> (SUBSET users') \cup (SUBSET Requests)]
             /\ \A q \in Requests : res'[q] = "pending" => rows'[q] = {}
             /\ answer' \in [Requests -> Statuses]
  BY <1>1, MoveType DEF Stages, Statuses
<1>2. CASE Signup1(r) \/ Login1(r)
  <2>1. Moves
    BY <1>2 DEF Signup1, Login1, Arrive, Refused
  <2>2. PICK n \in Names, p \in Passwords, op \in {"signup", "login"} :
            /\ arg' = [arg EXCEPT ![r] = [op |-> op, name |-> n, pwd |-> p, sid |-> None]]
            /\ hurt' \in {hurt, hurt \cup {r}}
    BY <1>2 DEF Signup1, Login1, Arrive, Refused
  <2>3. Others
    BY <1>2 DEF Signup1, Login1
  <2>4. arg' \in [Requests -> [op : {"none", "signup", "login", "access", "logout"},
                               name : Names \cup {None}, pwd : Passwords \cup {None},
                               sid : Requests \cup {None}]]
    BY <2>2 DEF TypeOK
  <2>5. QED BY <1>1, <2>1, <2>2, <2>3, <2>4 DEF TypeOK
<1>3. CASE Signup2(r) \/ Signup3(r) \/ Signup4(r) \/ Signup5(r)
  <2>1. Moves
    BY <1>3 DEF Signup2, Signup3, Signup4, Signup5, SubmitPassword, Refused
  <2>2. QED BY <1>1, <1>3, <2>1 DEF Signup2, Signup3, Signup4, Signup5, SubmitPassword,
                                    Refused, TypeOK
<1>4. CASE Login2(r) \/ Login3(r) \/ Login4(r) \/ Login5(r)
  <2>1. Moves
    BY <1>4 DEF Login2, Login3, Login4, Login5, SubmitPassword, Refused
  <2>2. user' \in [Requests -> Requests \cup Names \cup {None}]
    <3>1. CASE Login2(r) /\ Registered(r) /\ ~UNCHANGED user
      <4>1. PICK u \in Found(r) : user' = [user EXCEPT ![r] = u.id]
        BY <3>1 DEF Login2
      <4>2. u \in users
        BY <3>1, <4>1 DEF Found, Login2, Resumes, IInv, Facts, SignupFacts
      <4>3. u.id \in Requests \cup Names
        BY <4>2 DEF TypeOK, Accounts
      <4>4. QED BY <4>1, <4>3 DEF TypeOK
    <3>2. CASE UNCHANGED user
      BY <3>2 DEF TypeOK
    <3>3. QED BY <1>4, <3>1, <3>2 DEF Login2, Login3, Login4, Login5, Registered
  <2>3. issued' \in [Requests -> 0..MaxTime]
    BY <1>4 DEF Login2, Login3, Login4, Login5, TypeOK
  <2>4. QED BY <1>1, <1>4, <2>1, <2>2, <2>3
            DEF Login2, Login3, Login4, Login5, SubmitPassword, Refused, TypeOK
<1>5. CASE Auth1(r)
  <2>1. Moves
    BY <1>5 DEF Auth1, Arrive, Refused
  <2>2. PICK s \in Tokens, op \in {"access", "logout"} :
            /\ arg' = [arg EXCEPT ![r] = [op |-> op, name |-> None, pwd |-> None, sid |-> s]]
            /\ hurt' \in {hurt, hurt \cup {r}}
            /\ late' \in {late, late \cup {r}}
    BY <1>5 DEF Auth1, Arrive, Refused
  <2>3. UNCHANGED <<user, issued, tables, dbUp, now, deleted, revoked>>
    BY <1>5 DEF Auth1
  <2>4. [op |-> op, name |-> None, pwd |-> None, sid |-> s] \in
            [op : {"none", "signup", "login", "access", "logout"},
             name : Names \cup {None}, pwd : Passwords \cup {None}, sid : Requests \cup {None}]
    BY DEF Tokens
  <2>5. arg' \in [Requests -> [op : {"none", "signup", "login", "access", "logout"},
                               name : Names \cup {None}, pwd : Passwords \cup {None},
                               sid : Requests \cup {None}]]
    BY <2>2, <2>4 DEF TypeOK
  <2>6. QED BY <1>1, <2>1, <2>2, <2>3, <2>5 DEF TypeOK
<1>6. CASE Auth2(r) \/ Logout2(r) \/ Abandon(r)
  <2>1. Moves
    BY <1>6 DEF Auth2, Logout2, Abandon, Refused
  <2>2. revoked' \subseteq deleted'
    <3>1. CASE Logout2(r)
      <4>1. ~Failed(r) => arg[r].sid \in deleted
        BY <3>1 DEF Logout2, Failed, TypeOK, Resumes, IInv, Facts, TokenFacts, Control
      <4>2. QED BY <3>1, <4>1 DEF Logout2, TypeOK
    <3>2. CASE UNCHANGED <<revoked, deleted>>
      BY <3>2 DEF TypeOK
    <3>3. QED BY <1>6, <3>1, <3>2 DEF Auth2, Abandon
  <2>3. QED BY <1>1, <1>6, <2>1, <2>2 DEF Auth2, Logout2, Abandon, Refused, TypeOK
<1>7. QED BY <1>2, <1>3, <1>4, <1>5, <1>6 DEF Handler

\* The services keep every variable in its range.
LEMMA ServiceType ==
    ASSUME IInv, NEW r \in Requests,
           ExecStatement(r) \/ FailStatement(r) \/ FinishPassword(r)
    PROVE  TypeOK'
<1>0. TypeOK
  BY DEF IInv
<1> USE <1>0 DEF tables
<1>1. ASSUME Apply(r), Waiting(r, OnDatabase)
      PROVE  /\ users \subseteq users' /\ users' \subseteq Accounts
             /\ sessions' \subseteq Requests
             /\ deleted \subseteq deleted' /\ deleted' \subseteq Requests
  BY <1>1, StatementType DEF Apply, TypeOK, Waiting, OnDatabase, IInv, Facts, TokenFacts, Tokens, Control
<1>2. CASE ExecStatement(r)
  <2> DEFINE result == Statement(r).rows
  <2>1. /\ result \subseteq users' \/ result \subseteq Requests
        /\ Statement(r).status \in {"ok", "error"}
        /\ users \subseteq users'
    BY <1>2, StatementType DEF ExecStatement, Apply
  <2>2. /\ rows' = [rows EXCEPT ![r] = result] /\ res' = [res EXCEPT ![r] = Statement(r).status]
    BY <1>2 DEF ExecStatement
  <2> HIDE DEF result
  <2>3. rows' \in [Requests -> (SUBSET users') \cup (SUBSET Requests)]
    <3>1. result \in (SUBSET users') \cup (SUBSET Requests)
      BY <2>1
    <3>2. rows \in [Requests -> (SUBSET users') \cup (SUBSET Requests)]
      BY <2>1 DEF TypeOK
    <3>3. QED BY <2>2, <3>1, <3>2
  <2>4. \A q \in Requests : res'[q] = "pending" => rows'[q] = {}
    BY <2>1, <2>2 DEF TypeOK
  <2>5. res' \in [Requests -> {"pending", "ok", "invalid", "error"}]
    BY <2>1, <2>2 DEF TypeOK
  <2>6. QED BY <1>1, <1>2, <2>3, <2>4, <2>5 DEF ExecStatement, TypeOK
<1>3. CASE FailStatement(r)
  <2>1. /\ users \subseteq users' /\ users' \subseteq Accounts
        /\ sessions' \subseteq Requests
        /\ deleted \subseteq deleted' /\ deleted' \subseteq Requests
    BY <1>1, <1>3 DEF FailStatement, TypeOK
  <2>2. rows' \in [Requests -> (SUBSET users') \cup (SUBSET Requests)]
    BY <1>3, <2>1 DEF FailStatement, TypeOK
  <2>3. QED BY <1>3, <2>1, <2>2 DEF FailStatement, TypeOK
<1>4. CASE FinishPassword(r)
  BY <1>4 DEF FinishPassword, TypeOK
<1>5. QED BY <1>2, <1>3, <1>4

-----------------------------------------------------------------------------
(* What a step of one request can do to the others. *)

\* The step belongs to request r, which is not over: it moves no other
\* request, adds at most the account of r, and takes no good session.
Local(r) ==
    /\ pc[r] # "done"
    /\ \A q \in Requests \ {r} :
           /\ pc'[q] = pc[q] /\ res'[q] = res[q] /\ rows'[q] = rows[q] /\ arg'[q] = arg[q]
           /\ user'[q] = user[q] /\ issued'[q] = issued[q] /\ answer'[q] = answer[q]
           /\ q \in late' => q \in late
    /\ users \subseteq users' /\ users' \subseteq users \cup {Row(r)}
    /\ deleted \subseteq deleted' /\ hurt \subseteq hurt'
    /\ dbUp' => dbUp
    /\ now' = now
    /\ \A s \in sessions : s \in sessions' \/ Gone(s)'

\* A token stays a token, and one that is no longer good stays so.
LEMMA TokensStay ==
    ASSUME IInv, NEW r \in Requests, Local(r)
    PROVE  /\ r \notin Tokens /\ Tokens \subseteq Tokens'
           /\ \A s \in Requests \ {r} : Gone(s) => Gone(s)'
<1>1. r \notin Tokens
  BY DEF IInv, Facts, Control, Local, Tokens
<1>2. Tokens \subseteq Tokens'
  BY <1>1 DEF Local, Tokens
<1>3. ASSUME NEW s \in Requests \ {r}, Gone(s) PROVE Gone(s)'
  BY <1>3 DEF Gone, Expired, Expiry, Local
<1>4. QED BY <1>1, <1>2, <1>3

\* What the other requests know stays true: other accounts only appear, a
\* session only goes when its token is no longer good.
LEMMA OthersKeep ==
    ASSUME IInv, NEW r \in Requests, Local(r), NEW q \in Requests \ {r}
    PROVE  Facts(q)'
<1>0. /\ TypeOK /\ Facts(q) /\ q # r
      /\ pc'[q] = pc[q] /\ res'[q] = res[q] /\ rows'[q] = rows[q] /\ arg'[q] = arg[q]
      /\ user'[q] = user[q] /\ issued'[q] = issued[q] /\ answer'[q] = answer[q]
      /\ q \in late' => q \in late
      /\ users \subseteq users' /\ hurt \subseteq hurt' /\ deleted \subseteq deleted'
  BY DEF IInv, Local
<1>1. Control(q)'
  BY <1>0 DEF Facts, Control
<1>2. SignupFacts(q)'
  <2>1. ASSUME NEW u \in users', u.id = q PROVE u \in users
    BY <2>1 DEF Local, Row
  <2>2. dbUp' => dbUp
    BY DEF Local
  <2>3. Row(q)' = Row(q) /\ (Taken(arg[q].name) => Taken(arg[q].name)')
    BY <1>0 DEF Row, Taken
  <2>4. Registered(q)' = Registered(q)
    BY <1>0 DEF Registered, Found
  <2>5. QED BY <1>0, <2>1, <2>2, <2>3, <2>4 DEF Facts, SignupFacts
<1>3. Proven(q) => Proven(q)'
  BY <1>0 DEF Proven
<1>4. q \in sessions \/ Gone(q) => q \in sessions' \/ Gone(q)'
  BY TokensStay DEF Local
<1>5. LoginFacts(q)'
  BY <1>0, <1>3, <1>4 DEF Facts, LoginFacts
<1>6. ASSUME arg[q].op \in {"access", "logout"}
      PROVE  /\ arg[q].sid \in Tokens'
             /\ Gone(arg[q].sid) => Gone(arg[q].sid)'
  BY <1>0, <1>6, TokensStay DEF Facts, TokenFacts, Tokens
<1>7. TokenFacts(q)'
  BY <1>0, <1>6 DEF Facts, TokenFacts, Control
<1>8. Answered(q)'
  <2>1. Row(q)' = Row(q)
    BY <1>0 DEF Row
  <2>2. (\E u \in Owners(q) : u.id # q) => (\E u \in Owners(q) : u.id # q)'
    BY <1>0 DEF Owners
  <2>3. QED BY <1>0, <1>3, <1>4, <1>6, <2>1, <2>2 DEF Facts, Answered, Ended
<1>9. QED BY <1>1, <1>2, <1>5, <1>7, <1>8 DEF Facts

-----------------------------------------------------------------------------
(* The handlers. *)

\* A handler writes its own request only, and no table.
LEMMA HandlerLocal ==
    ASSUME IInv, NEW r \in Requests, Handler(r) \/ Abandon(r)
    PROVE  Local(r) /\ UNCHANGED <<users, sessions, deleted, dbUp, now>>
<1>0. TypeOK
  BY DEF IInv
<1> USE <1>0 DEF tables, Rest
<1> DEFINE Moves == \E stage \in Stages, status \in Statuses :
                        WaitFor(r, stage) \/ Answer(r, status)
           Own(f, g) == \A q \in Requests \ {r} : g[q] = f[q]
<1> USE DEF Stages, Statuses
<1>1. ASSUME Moves PROVE Own(pc, pc') /\ Own(res, res') /\ Own(rows, rows') /\ Own(answer, answer')
  BY <1>1 DEF WaitFor, Answer, Consumed, TypeOK
<1>2. ASSUME Moves, Own(arg, arg'), Own(user, user'), Own(issued, issued'), pc[r] # "done",
             late' \subseteq late \cup {r}, hurt \subseteq hurt',
             UNCHANGED <<users, sessions, deleted, dbUp, now>>
      PROVE  Local(r)
  BY <1>1, <1>2 DEF Local
<1>3. CASE Signup1(r) \/ Login1(r) \/ Auth1(r)
  <2>1. Moves /\ Own(arg, arg') /\ hurt \subseteq hurt' /\ late' \subseteq late \cup {r}
        /\ pc[r] = "idle"
    BY <1>3 DEF Signup1, Login1, Auth1, Arrive, Refused, TypeOK
  <2>2. UNCHANGED <<user, issued, users, sessions, deleted, dbUp, now>>
    BY <1>3 DEF Signup1, Login1, Auth1
  <2>3. QED BY <1>2, <2>1, <2>2
<1>4. CASE Signup2(r) \/ Signup3(r) \/ Signup4(r) \/ Signup5(r)
  <2>1. Moves /\ hurt \subseteq hurt' /\ pc[r] # "done"
    BY <1>4 DEF Signup2, Signup3, Signup4, Signup5, SubmitPassword, Refused, Resumes
  <2>2. UNCHANGED <<arg, user, issued, users, sessions, deleted, dbUp, now, late>>
    BY <1>4 DEF Signup2, Signup3, Signup4, Signup5
  <2>3. QED BY <1>2, <2>1, <2>2
<1>5. CASE Login2(r) \/ Login3(r) \/ Login4(r) \/ Login5(r)
  <2>1. Moves /\ hurt \subseteq hurt' /\ pc[r] # "done"
    BY <1>5 DEF Login2, Login3, Login4, Login5, SubmitPassword, Refused, Resumes
  <2>2. Own(user, user') /\ Own(issued, issued')
    BY <1>5 DEF Login2, Login3, Login4, Login5, TypeOK
  <2>3. UNCHANGED <<arg, users, sessions, deleted, dbUp, now, late>>
    BY <1>5 DEF Login2, Login3, Login4, Login5
  <2>4. QED BY <1>2, <2>1, <2>2, <2>3
<1>6. CASE Auth2(r) \/ Logout2(r) \/ Abandon(r)
  <2>1. Moves /\ hurt \subseteq hurt' /\ pc[r] # "done"
    BY <1>6 DEF Auth2, Logout2, Abandon, Refused, Resumes
  <2>2. UNCHANGED <<arg, user, issued, users, sessions, deleted, dbUp, now, late>>
    BY <1>6 DEF Auth2, Logout2, Abandon
  <2>3. QED BY <1>2, <2>1, <2>2
<1>7. QED BY <1>3, <1>4, <1>5, <1>6 DEF Handler

\* What every handler of request r leaves behind in it: it waits for a next
\* result or is answered, and either way its result is gone.
LEMMA Moved ==
    ASSUME TypeOK, NEW r \in Requests
    PROVE  /\ \A stage \in Stages :
                  WaitFor(r, stage) =>
                      /\ pc'[r] = stage /\ res'[r] = "pending" /\ rows'[r] = {}
                      /\ answer'[r] = answer[r]
           /\ \A status \in Statuses :
                  Answer(r, status) =>
                      /\ pc'[r] = "done" /\ res'[r] = "pending" /\ rows'[r] = {}
                      /\ answer'[r] = status
BY DEF TypeOK, WaitFor, Answer, Consumed

\* The handlers of signup: 409 needs a row that was selected, 201 the row that
\* was inserted, and every 500 a service that failed.
LEMMA SignupHandlers ==
    ASSUME IInv, NEW r \in Requests,
           Signup1(r) \/ Signup2(r) \/ Signup3(r) \/ Signup4(r) \/ Signup5(r)
    PROVE  Facts(r)'
<1>0. TypeOK /\ Facts(r) /\ UsersTable
  BY DEF IInv
<1>1. UNCHANGED <<users, sessions, deleted, dbUp, now>>
  BY HandlerLocal DEF Handler
<1> USE <1>0, <1>1, Moved
    DEF Stages, Statuses, SignupStages, LoginStages, Facts, Control, SignupFacts, LoginFacts,
        TokenFacts, Answered, Ended, Rest
<1>2. CASE Signup1(r)
  BY <1>2 DEF Signup1, Arrive, Refused, TypeOK
<1>3. CASE Signup2(r)
  BY SMTT(30), <1>3 DEF Signup2, SubmitPassword, Refused, Resumes, Failed, TypeOK, Registered, Found, Owners, UsersTable
<1>4. CASE Signup3(r)
  BY <1>4 DEF Signup3, Refused, Resumes, Failed, TypeOK
<1>5. CASE Signup4(r)
  BY <1>5 DEF Signup4, Refused, Resumes, Failed, TypeOK, Row, Taken
<1>6. CASE Signup5(r)
  BY <1>6 DEF Signup5, Refused, Resumes, Failed, TypeOK, Registered, Found, Owners, UsersTable
<1>7. QED BY <1>2, <1>3, <1>4, <1>5, <1>6

\* The handlers of login: the id that login_2 keeps names the account, and
\* the token that login_5 hands out has its row.
LEMMA LoginHandlers ==
    ASSUME IInv, NEW r \in Requests,
           Login1(r) \/ Login2(r) \/ Login3(r) \/ Login4(r) \/ Login5(r)
    PROVE  Facts(r)'
<1>0. TypeOK /\ Facts(r)
  BY DEF IInv
<1>1. UNCHANGED <<users, sessions, deleted, dbUp, now>>
  BY HandlerLocal DEF Handler
<1> USE <1>0, <1>1, Moved
    DEF Stages, Statuses, SignupStages, LoginStages, Facts, Control, SignupFacts, LoginFacts,
        TokenFacts, Answered, Ended, Rest
<1>2. CASE Login1(r)
  <2>1. PICK n \in Names, p \in Passwords :
            /\ arg'[r] = [op |-> "login", name |-> n, pwd |-> p, sid |-> None]
            /\ \/ WaitFor(r, "login_2") /\ UNCHANGED hurt
               \/ Answer(r, "500") /\ hurt' = hurt \cup {r}
            /\ pc[r] = "idle"
    BY <1>2 DEF Login1, Arrive, Refused, TypeOK
  <2>2. UNCHANGED <<user, late>>
    BY <1>2 DEF Login1
  <2>3. QED BY <2>1, <2>2
<1>3. CASE Login2(r)
  <2>1. user'[r] = None \/ \E u \in users : u.id = user'[r] /\ u.name = arg[r].name
    BY <1>3 DEF Login2, Resumes, Registered, Found, TypeOK
  <2>2. QED BY <1>3, <2>1 DEF Login2, SubmitPassword, Refused, Resumes, Failed, TypeOK
<1>4. CASE Login3(r)
  BY <1>4 DEF Login3, Refused, Resumes, Failed, TypeOK, Proven
<1>5. CASE Login4(r)
  BY <1>5 DEF Login4, Refused, Resumes, Failed, TypeOK, Proven
<1>6. CASE Login5(r)
  <2>1. UNCHANGED <<arg, user, issued, hurt, late>> /\ pc[r] = "login_5" /\ r \notin late
    BY <1>6 DEF Login5, Resumes
  <2>2. (Proven(r) => Proven(r)') /\ (Gone(r) => Gone(r)')
    BY <2>1 DEF Proven, Gone, Expired, Expiry
  <2>3. QED BY <1>6, <2>1, <2>2 DEF Login5, Resumes, Failed, TypeOK
<1>7. QED BY <1>2, <1>3, <1>4, <1>5, <1>6

\* The handlers that check a token, and what ends any request early: 401 needs
\* a token that is no longer good, and a token revoked before the request
\* began finds no row.
LEMMA TokenHandlers ==
    ASSUME IInv, NEW r \in Requests, Auth1(r) \/ Auth2(r) \/ Logout2(r) \/ Abandon(r)
    PROVE  Facts(r)'
<1>0. TypeOK /\ Facts(r)
  BY DEF IInv
<1>1. UNCHANGED <<users, sessions, deleted, dbUp, now>>
  BY HandlerLocal DEF Handler
<1>2. Local(r)
  BY HandlerLocal DEF Handler
<1>3. Tokens \subseteq Tokens' /\ \A s \in Tokens : s # r /\ issued'[s] = issued[s]
  BY <1>2, TokensStay DEF Local, Tokens
<1> USE <1>0, <1>1, Moved
    DEF Stages, Statuses, SignupStages, LoginStages, Facts, Control, SignupFacts, LoginFacts,
        TokenFacts, Answered, Ended, Rest
<1>4. CASE Auth1(r)
  <2>1. PICK s \in Tokens, op \in {"access", "logout"} :
            /\ arg' = [arg EXCEPT ![r] = [op |-> op, name |-> None, pwd |-> None, sid |-> s]]
            /\ \/ WaitFor(r, "auth_2")
               \/ Answer(r, "500")
               \/ Answer(r, "401") /\ Expired(now, s)
            /\ late' = IF s \in revoked THEN late \cup {r} ELSE late
    BY <1>4 DEF Auth1, Arrive, Refused
  <2>2. Expired(now, s) => Gone(s)'
    BY <1>1, <1>3 DEF Gone, Expired, Expiry
  <2>3. arg'[r] = [op |-> op, name |-> None, pwd |-> None, sid |-> s]
    BY <2>1 DEF TypeOK
  <2>4. pc[r] = "idle" /\ UNCHANGED user /\ revoked \subseteq deleted
    BY <1>4 DEF Auth1, Arrive, TypeOK
  <2>5. QED BY <1>3, <2>1, <2>2, <2>3, <2>4
<1>5. CASE Auth2(r)
  <2>1. arg' = arg /\ arg[r].sid \in Tokens' /\ (Gone(arg[r].sid) => Gone(arg[r].sid)')
    BY <1>1, <1>3, <1>5 DEF Auth2, Resumes, Gone, Expired, Expiry
  <2>2. Expired(now, arg[r].sid) => Gone(arg[r].sid)
    BY DEF Gone
  <2>3. QED BY <1>5, <2>1, <2>2 DEF Auth2, Refused, Resumes, Failed, Verified, TypeOK
<1>6. CASE Logout2(r)
  <2>1. arg' = arg /\ arg[r].sid \in Tokens'
    BY <1>3, <1>6 DEF Logout2, Resumes
  <2>2. QED BY <1>6, <2>1 DEF Logout2, Resumes, Failed, TypeOK
<1>7. CASE Abandon(r)
  <2>1. arg' = arg /\ (arg[r].op \in {"access", "logout"} => arg[r].sid \in Tokens')
    BY <1>3, <1>7 DEF Abandon
  <2>2. QED BY <1>7, <2>1 DEF Abandon, TypeOK
<1>8. QED BY <1>4, <1>5, <1>6, <1>7

\* The handlers keep the facts about the tables: the row of a signup is there
\* from its INSERT on, and a deleted session has its token still.
LEMMA HandlerTables ==
    ASSUME IInv, NEW r \in Requests, Handler(r) \/ Abandon(r)
    PROVE  UsersTable' /\ SessionsTable'
<1>0. /\ TypeOK /\ UsersTable /\ SessionsTable /\ Local(r)
      /\ UNCHANGED <<users, sessions, deleted, dbUp, now>>
  BY HandlerLocal DEF IInv
<1>1. SessionsTable'
  BY <1>0, TokensStay DEF SessionsTable
<1>2. ASSUME NEW u \in users, u.id = r
      PROVE  arg'[r] = arg[r] /\ pc'[r] \in {"signup_5", "done"}
  <2>1. (pc[r] = "signup_4" /\ res[r] # "pending") \/ pc[r] = "signup_5"
    BY <1>0, <1>2 DEF UsersTable, Local
  <2>2. Signup4(r) \/ Signup5(r) \/ Abandon(r)
    BY <2>1 DEF Handler, Signup1, Signup2, Signup3, Login1, Login2, Login3, Login4, Login5,
                Auth1, Auth2, Logout2, Arrive, Resumes
  <2>3. QED BY <1>0, <2>2, Moved DEF Signup4, Signup5, Abandon, Refused, Rest, Stages, Statuses
<1>3. UsersTable'
  <2>1. ASSUME NEW u \in users, u.id \in Requests
        PROVE  /\ arg'[u.id] = arg[u.id]
               /\ \/ pc'[u.id] = "signup_4" /\ res'[u.id] # "pending"
                  \/ pc'[u.id] \in {"signup_5", "done"}
    BY <1>0, <1>2, <2>1 DEF Local, UsersTable
  <2>2. QED BY <1>0, <2>1 DEF UsersTable, Row
<1>4. QED BY <1>1, <1>3

-----------------------------------------------------------------------------
(* The database, the password worker and the clock. *)

\* What the statement of a request does to the tables, however it is reported.
LEMMA Applied ==
    ASSUME IInv, NEW r \in Requests, Waiting(r, OnDatabase), Apply(r), UNCHANGED <<now, issued>>
    PROVE  /\ \/ UNCHANGED users
              \/ pc[r] = "signup_4" /\ ~Taken(arg[r].name) /\ users' = users \cup {Row(r)}
           /\ deleted' = IF pc[r] = "logout_2" THEN deleted \cup {arg[r].sid} ELSE deleted
           /\ sessions' \subseteq IF pc[r] = "login_5" THEN sessions \cup {r} ELSE sessions
           /\ pc[r] = "logout_2" => arg[r].sid \notin sessions'
           /\ \A s \in sessions : s \in sessions' \/ Gone(s)'
<1>0. TypeOK
  BY DEF IInv
<1>1. Row(r).name = arg[r].name
  BY DEF Row
<1>2. deleted' = IF pc[r] = "logout_2" THEN deleted \cup {arg[r].sid} ELSE deleted
  BY DEF Apply
<1>3. ASSUME NEW s \in sessions \ LiveSessions PROVE Gone(s)'
  BY <1>0, <1>3, TimesAreNatural DEF LiveSessions, Purged, Gone, Expired, Expiry, TypeOK
<1>4. CASE pc[r] \in {"signup_2", "signup_5", "login_2", "auth_2"}
  <2>1. users' = users /\ sessions' = sessions
    BY <1>4, StatementIs DEF Apply, Did
  <2>2. QED BY <1>2, <1>4, <2>1
<1>5. CASE pc[r] = "signup_4"
  <2>1. /\ sessions' = sessions
        /\ \/ UNCHANGED users
           \/ ~Taken(arg[r].name) /\ users' = users \cup {Row(r)}
    BY <1>1, <1>5, StatementIs DEF Apply, Did
  <2>2. QED BY <1>2, <1>5, <2>1
<1>6. CASE pc[r] = "login_4"
  <2>1. users' = users /\ sessions' = LiveSessions
    BY <1>6, StatementIs DEF Apply, Did
  <2>2. LiveSessions \subseteq sessions
    BY DEF LiveSessions
  <2>3. QED BY <1>2, <1>3, <1>6, <2>1, <2>2
<1>7. CASE pc[r] = "login_5"
  <2>1. users' = users /\ sessions' = sessions \cup {r}
    BY <1>7, StatementIs DEF Apply, Did
  <2>2. QED BY <1>2, <1>7, <2>1
<1>8. CASE pc[r] = "logout_2"
  <2>1. users' = users /\ sessions' = sessions \ {arg[r].sid}
    BY <1>8, StatementIs DEF Apply, Did, Without
  <2>2. QED BY <1>2, <1>8, <2>1 DEF Gone
<1>9. QED BY <1>4, <1>5, <1>6, <1>7, <1>8 DEF Waiting, OnDatabase

\* The tables after a statement, whether it is reported as done or as failed.
LEMMA StatementStep ==
    ASSUME IInv, NEW r \in Requests, ExecStatement(r) \/ FailStatement(r)
    PROVE  Local(r) /\ UsersTable' /\ SessionsTable'
<1>0. TypeOK /\ UsersTable /\ SessionsTable /\ Facts(r)
  BY DEF IInv
<1>1. /\ Waiting(r, OnDatabase)
      /\ UNCHANGED <<pc, arg, user, issued, answer, now, revoked, late>>
      /\ hurt \subseteq hurt' /\ (dbUp' => dbUp)
      /\ Apply(r) \/ UNCHANGED <<tables, deleted>>
      /\ \A q \in Requests \ {r} : res'[q] = res[q] /\ rows'[q] = rows[q]
      /\ res'[r] # "pending"
  <2>1. CASE ExecStatement(r)
    BY <1>0, <2>1, StatementType DEF ExecStatement, TypeOK
  <2>2. CASE FailStatement(r)
    BY <1>0, <2>2 DEF FailStatement, TypeOK
  <2>3. QED BY <2>1, <2>2
<1>2. /\ \/ UNCHANGED users
         \/ pc[r] = "signup_4" /\ ~Taken(arg[r].name) /\ users' = users \cup {Row(r)}
      /\ deleted \subseteq deleted'
      /\ deleted' \subseteq IF pc[r] = "logout_2" THEN deleted \cup {arg[r].sid} ELSE deleted
      /\ sessions' \subseteq IF pc[r] = "login_5" THEN sessions \cup {r} ELSE sessions
      /\ arg[r].sid \in deleted' => arg[r].sid \notin sessions' \/ arg[r].sid \in deleted
      /\ \A s \in sessions : s \in sessions' \/ Gone(s)'
  <2>1. CASE Apply(r)
    BY <1>1, <2>1, Applied
  <2>2. CASE UNCHANGED <<tables, deleted>>
    BY <2>2 DEF tables
  <2>3. QED BY <1>1, <2>1, <2>2
<1>3. Local(r)
  BY <1>1, <1>2 DEF Local, Waiting, OnDatabase
<1>4. SessionsTable'
  <2>1. deleted' \subseteq Tokens'
    BY <1>0, <1>1, <1>2, <1>3, TokensStay DEF SessionsTable, Facts, TokenFacts, Control
  <2>2. r \notin deleted'
    BY <1>1, <1>3, <2>1, TokensStay DEF Tokens
  <2>3. QED BY <1>0, <1>2, <2>1, <2>2 DEF SessionsTable
<1>5. UsersTable'
  <2>1. ASSUME NEW u \in users, u.id \in Requests
        PROVE  \/ pc'[u.id] = "signup_4" /\ res'[u.id] # "pending"
               \/ pc'[u.id] \in {"signup_5", "done"}
    BY <1>0, <1>1, <2>1 DEF UsersTable
  <2>2. CASE UNCHANGED users
    BY <1>0, <1>1, <2>1, <2>2 DEF UsersTable, Row
  <2>3. CASE pc[r] = "signup_4" /\ ~Taken(arg[r].name) /\ users' = users \cup {Row(r)}
    <3>1. \A u \in users : u.id # r /\ u.name # arg[r].name
      BY <1>0, <1>1, <2>3 DEF UsersTable, Taken, Waiting
    <3>2. Row(r).id = r /\ Row(r).name = arg[r].name /\ Row(r)' = Row(r)
      BY <1>1 DEF Row
    <3>3. arg[r].op = "signup"
      BY <1>0, <2>3 DEF Facts, Control, SignupStages
    <3>4. \A u \in users : u.id \in Requests => arg[u.id].op = "signup" /\ u = Row(u.id)
      BY <1>0 DEF UsersTable
    <3>5. \A q \in Requests : Row(q)' = Row(q)
      BY <1>1 DEF Row
    <3>6. ASSUME NEW u \in users', u.id \in Requests
          PROVE  /\ arg'[u.id].op = "signup" /\ u = Row(u.id)'
                 /\ \/ pc'[u.id] = "signup_4" /\ res'[u.id] # "pending"
                    \/ pc'[u.id] \in {"signup_5", "done"}
      BY <1>1, <2>1, <2>3, <3>2, <3>3, <3>4, <3>5, <3>6
    <3>7. ASSUME NEW u \in users', NEW v \in users', u.name = v.name \/ u.id = v.id
          PROVE  u = v
      BY <1>0, <2>3, <3>1, <3>2, <3>7 DEF UsersTable
    <3>8. QED BY <3>6, <3>7 DEF UsersTable
  <2>4. QED BY <1>2, <2>2, <2>3
<1>6. QED BY <1>3, <1>4, <1>5

\* A statement that is reported as done: what its handler will be told is
\* true of the tables it leaves.
LEMMA ExecFacts ==
    ASSUME IInv, NEW r \in Requests, ExecStatement(r)
    PROVE  Facts(r)'
<1>0. TypeOK /\ Facts(r) /\ UsersTable /\ SessionsTable /\ Local(r) /\ SessionsTable'
  BY StatementStep DEF IInv
<1>1. /\ pc[r] \in OnDatabase /\ res[r] = "pending" /\ dbUp /\ dbUp' /\ Apply(r)
      /\ res'[r] = Statement(r).status /\ rows'[r] = Statement(r).rows
      /\ UNCHANGED <<pc, arg, user, issued, answer, now, hurt, late>>
  BY <1>0 DEF ExecStatement, Waiting, TypeOK
<1>2. Tokens' = Tokens /\ users \subseteq users' /\ deleted \subseteq deleted'
  BY <1>0, <1>1 DEF Tokens, Local
<1>3. answer[r] = "none" /\ pc[r] # "done"
  BY <1>0, <1>1 DEF Facts, Control, OnDatabase
<1>4. (Proven(r) => Proven(r)') /\ Row(r)' = Row(r)
  BY <1>1, <1>2 DEF Proven, Row
<1> USE <1>0, <1>1, <1>2, <1>3, <1>4
    DEF SignupStages, LoginStages, OnDatabase, Facts, Control, SignupFacts, LoginFacts,
        TokenFacts, Answered, Ended
<1>5. CASE pc[r] \in {"signup_2", "login_2"}
  <2>1. res'[r] = "ok" /\ rows'[r] = users /\ users' = users
    BY <1>5, StatementIs DEF Apply, Did
  <2>2. QED BY <1>5, <2>1
<1>6. CASE pc[r] = "signup_5"
  <2>1. res'[r] = "ok" /\ rows'[r] = users /\ users' = users
    BY <1>6, StatementIs DEF Apply, Did
  <2>2. \A u \in users : u.id # r
    BY <1>6
  <2>3. r \in hurt \/ (Taken(arg[r].name)' /\ Registered(r)')
    BY <1>6, <2>1 DEF Taken, Registered, Found
  <2>4. QED BY <1>6, <2>1, <2>2, <2>3
<1>7. CASE pc[r] = "signup_4"
  <2>1. \A u \in users : u.id # r
    BY <1>7 DEF UsersTable
  <2>2. CASE Taken(Row(r).name)
    <3>1. res'[r] = "error" /\ rows'[r] = {} /\ users' = users
      BY <1>7, <2>2, StatementIs DEF Apply, Did
    <3>2. Taken(arg[r].name)'
      BY <2>2, <3>1 DEF Taken, Row
    <3>3. QED BY <1>7, <2>1, <3>1, <3>2
  <2>3. CASE ~Taken(Row(r).name)
    <3>1. res'[r] = "ok" /\ rows'[r] = {r} /\ Row(r) \in users'
      BY <1>7, <2>3, StatementIs DEF Apply, Did
    <3>2. QED BY <1>7, <3>1
  <2>4. QED BY <2>2, <2>3
<1>8. CASE pc[r] = "login_4"
  <2>1. res'[r] = "ok"
    BY <1>8, StatementIs DEF Did
  <2>2. QED BY <1>8, <2>1
<1>9. CASE pc[r] = "login_5"
  <2>1. res'[r] = "ok" /\ r \in sessions'
    BY <1>9, StatementIs DEF Apply, Did
  <2>2. QED BY <1>9, <2>1
<1>10. CASE pc[r] = "auth_2"
  <2>1. res'[r] = "ok" /\ rows'[r] = LiveSessions /\ sessions' = sessions
    BY <1>10, StatementIs DEF Apply, Did
  <2>2. LiveSessions \subseteq sessions
    BY DEF LiveSessions
  <2>3. r \in late => arg[r].sid \notin rows'[r]
    BY <1>10, <2>1, <2>2 DEF SessionsTable
  <2>4. arg[r].sid \in LiveSessions \/ Gone(arg[r].sid)'
    <3> DEFINE s == arg[r].sid
    <3>1. s \in Tokens /\ s \in Requests /\ Facts(s)
      BY <1>10 DEF Tokens, IInv
    <3>2. s \in sessions \/ Gone(s)
      BY <3>1 DEF Tokens
    <3>3. Gone(s) => Gone(s)'
      BY DEF Gone, Expired, Expiry
    <3>4. s \in sessions \ LiveSessions => Gone(s)
      BY <3>1, TimesAreNatural DEF LiveSessions, Purged, Gone, Expired, Expiry, TypeOK
    <3>5. QED BY <3>2, <3>3, <3>4
  <2>5. QED BY <1>10, <2>1, <2>3, <2>4
<1>11. CASE pc[r] = "logout_2"
  <2>1. res'[r] = "ok" /\ arg[r].sid \in deleted'
    BY <1>11, StatementIs DEF Apply, Did
  <2>2. QED BY <1>11, <2>1
<1>12. QED BY <1>5, <1>6, <1>7, <1>8, <1>9, <1>10, <1>11

\* A statement that is reported as failed may still have had its effect, but
\* then the connection is gone and no later SELECT of the request succeeds.
LEMMA FailFacts ==
    ASSUME IInv, NEW r \in Requests, FailStatement(r)
    PROVE  Facts(r)'
<1>0. TypeOK /\ Facts(r) /\ UsersTable /\ Local(r)
  BY StatementStep DEF IInv
<1>1. /\ pc[r] \in OnDatabase /\ res[r] = "pending" /\ rows[r] = {}
      /\ res'[r] = "error" /\ hurt' = hurt \cup {r}
      /\ \/ UNCHANGED <<tables, deleted, dbUp>>
         \/ dbUp' = FALSE /\ (Apply(r) \/ UNCHANGED <<tables, deleted>>)
      /\ UNCHANGED <<pc, rows, arg, user, issued, answer, now, late>>
  BY <1>0 DEF FailStatement, Waiting, TypeOK
<1>2. Tokens' = Tokens /\ users \subseteq users' /\ deleted \subseteq deleted'
  BY <1>0, <1>1 DEF Tokens, Local
<1>3. answer[r] = "none" /\ pc[r] # "done"
  BY <1>0, <1>1 DEF Facts, Control, OnDatabase
<1>4. (Proven(r) => Proven(r)') /\ Row(r)' = Row(r) /\ rows'[r] \subseteq users'
  BY <1>1, <1>2 DEF Proven, Row
<1>5. pc[r] \in {"signup_4", "signup_5"} => ((\E u \in users' : u.id = r) => ~dbUp')
  <2>1. CASE UNCHANGED <<tables, deleted, dbUp>>
    BY <1>0, <1>1, <2>1 DEF tables, UsersTable, Facts, SignupFacts
  <2>2. CASE dbUp' = FALSE
    BY <2>2
  <2>3. QED BY <1>1, <2>1, <2>2
<1>6. QED
  BY <1>0, <1>1, <1>2, <1>3, <1>4, <1>5
  DEF SignupStages, LoginStages, OnDatabase, Facts, Control, SignupFacts, LoginFacts,
      TokenFacts, Answered, Ended

\* The password worker says "ok" to a login only for the password of the
\* account that login_2 found, if it found one.
LEMMA PasswordStep ==
    ASSUME IInv, NEW r \in Requests, FinishPassword(r)
    PROVE  Local(r) /\ UsersTable' /\ SessionsTable' /\ Facts(r)'
<1>0. TypeOK /\ Facts(r) /\ UsersTable /\ SessionsTable
  BY DEF IInv
<1>1. /\ pc[r] \in OnWorker /\ res[r] = "pending"
      /\ \/ res'[r] = IF pc[r] = "signup_3" \/ Matches(r) THEN "ok" ELSE "invalid"
         \/ res'[r] = "error" /\ r \in hurt'
      /\ hurt \subseteq hurt'
      /\ \A q \in Requests \ {r} : res'[q] = res[q]
      /\ UNCHANGED <<pc, rows, arg, user, issued, answer, users, sessions, dbUp, now, deleted,
                     late>>
  BY <1>0 DEF FinishPassword, Waiting, TypeOK, tables
<1>2. Local(r)
  BY <1>1 DEF Local, OnWorker
<1>3. UsersTable'
  BY <1>0, <1>1 DEF UsersTable, Row, OnWorker
<1>4. SessionsTable'
  BY <1>0, <1>1 DEF SessionsTable, Tokens
<1>5. Facts(r)'
  <2>1. ASSUME pc[r] = "login_3", Matches(r), user[r] # None PROVE Proven(r)
    BY <1>0, <2>1 DEF Matches, Proven, Facts, LoginFacts, UsersTable
  <2>2. Tokens' = Tokens /\ Proven(r)' = Proven(r)
    BY <1>1 DEF Tokens, Proven
  <2>3. answer[r] = "none"
    BY <1>0, <1>1 DEF Facts, Control, OnWorker
  <2>4. QED
    BY <1>0, <1>1, <2>1, <2>2, <2>3
    DEF SignupStages, LoginStages, OnWorker, Facts, Control, SignupFacts, LoginFacts,
        TokenFacts, Answered, Ended
<1>6. QED BY <1>2, <1>3, <1>4, <1>5

\* Time passes: a token that is no longer good never becomes good again.
LEMMA TickStep == IInv /\ Tick => IInv'
<1> SUFFICES ASSUME IInv, Tick PROVE IInv'
  OBVIOUS
<1>0. /\ TypeOK /\ now' = now + 1 /\ now < MaxTime
      /\ UNCHANGED <<pc, res, rows, arg, user, issued, answer, users, sessions, dbUp, hurt,
                     deleted, revoked, late>>
  BY DEF IInv, Tick, request, tables, history
<1>1. TypeOK'
  BY <1>0, TimesAreNatural DEF TypeOK
<1>2. \A s \in Requests : Gone(s) => Gone(s)'
  BY <1>0, TimesAreNatural DEF Gone, Expired, Expiry, TypeOK
<1>3. Tokens' = Tokens /\ Tokens \subseteq Requests
  BY <1>0 DEF Tokens
<1>4. UsersTable' /\ SessionsTable'
  BY <1>0, <1>3 DEF IInv, UsersTable, SessionsTable, Row
<1>5. ASSUME NEW r \in Requests PROVE Facts(r)'
  <2>1. Facts(r)
    BY DEF IInv
  <2>2. /\ Proven(r)' = Proven(r) /\ Row(r)' = Row(r) /\ Owners(r)' = Owners(r)
        /\ Registered(r)' = Registered(r) /\ Taken(arg[r].name)' = Taken(arg[r].name)
    BY <1>0 DEF Proven, Row, Owners, Registered, Found, Taken
  <2>3. Control(r)' /\ SignupFacts(r)' /\ LoginFacts(r)'
    BY <1>0, <1>2, <2>1, <2>2 DEF Facts, Control, SignupFacts, LoginFacts
  <2>4. arg[r].sid \in Tokens /\ Gone(arg[r].sid) => Gone(arg[r].sid)'
    BY <1>0, <1>2, <1>3
  <2>5. TokenFacts(r)' /\ Answered(r)'
    BY <1>0, <1>2, <1>3, <2>1, <2>2, <2>4 DEF Facts, TokenFacts, Answered, Ended, Control
  <2>6. QED BY <2>3, <2>5 DEF Facts
<1>6. QED BY <1>1, <1>4, <1>5 DEF IInv

-----------------------------------------------------------------------------
(* Theorems. *)

\* The initial state satisfies the invariant; the seeded accounts are rows of
\* no request.
LEMMA InitIInv == Init => IInv
<1> SUFFICES ASSUME Init PROVE IInv
  OBVIOUS
<1>1. TypeOK
  <2>1. users \subseteq Accounts
    BY SeedsAreNames DEF Init, Accounts
  <2>2. rows \in [Requests -> (SUBSET users) \cup (SUBSET Requests)]
    <3>1. {} \in (SUBSET users) \cup (SUBSET Requests)
      OBVIOUS
    <3>2. QED BY <3>1 DEF Init
  <2>3. issued \in [Requests -> 0..MaxTime] /\ now \in 0..MaxTime
    BY TimesAreNatural DEF Init
  <2>4. QED BY <2>1, <2>2, <2>3 DEF Init, TypeOK, Stages, Statuses
<1>2. UsersTable /\ SessionsTable
  BY SeedsAreNames, IdsAreUnique DEF Init, UsersTable, SessionsTable
<1>3. ASSUME NEW r \in Requests PROVE Facts(r)
  BY DEF Init, Facts, Control, SignupFacts, LoginFacts, TokenFacts, Answered, Ended,
         SignupStages, LoginStages
<1>4. QED BY <1>1, <1>2, <1>3 DEF IInv

\* The invariant is inductive.
LEMMA StepIInv == IInv /\ [Next]_vars => IInv'
<1> SUFFICES ASSUME IInv, [Next]_vars PROVE IInv'
  OBVIOUS
<1>1. ASSUME NEW r \in Requests, Handler(r) \/ Abandon(r) PROVE IInv'
  <2>1. TypeOK' /\ UsersTable' /\ SessionsTable' /\ Local(r)
    BY <1>1, HandlerType, HandlerTables, HandlerLocal
  <2>2. Facts(r)'
    BY <1>1, SignupHandlers, LoginHandlers, TokenHandlers DEF Handler
  <2>3. QED BY <2>1, <2>2, OthersKeep DEF IInv
<1>2. ASSUME NEW r \in Requests,
             ExecStatement(r) \/ FailStatement(r) \/ FinishPassword(r)
      PROVE  IInv'
  <2>1. TypeOK' /\ UsersTable' /\ SessionsTable' /\ Local(r) /\ Facts(r)'
    BY <1>2, ServiceType, StatementStep, ExecFacts, FailFacts, PasswordStep
  <2>2. QED BY <2>1, OthersKeep DEF IInv
<1>3. CASE Tick
  BY <1>3, TickStep
<1>4. CASE UNCHANGED vars
  BY <1>4 DEF vars, request, tables, history, IInv, TypeOK, UsersTable, SessionsTable, Facts,
              Control, SignupFacts, LoginFacts, TokenFacts, Answered, Ended, Tokens, Row,
              Proven, Gone, Expired, Expiry, Owners, Registered, Found, Taken
<1>5. QED BY <1>1, <1>2, <1>3, <1>4 DEF Next

\* The inductive invariant holds in every reachable state.
THEOREM Invariance == Spec => []IInv
<1>1. QED BY InitIInv, StepIInv, PTL DEF Spec

\* Type correctness of requests, tables and clock.
THEOREM TypeCorrect == Spec => []TypeOK
<1>1. IInv => TypeOK
  BY DEF IInv
<1>2. QED BY <1>1, Invariance, PTL

\* However many signups race for a name, the one answered 201 owns the
\* stored account and no other row has its name.
THEOREM OneWinner == Spec => []CreatedOwnsTheName
<1>1. ASSUME IInv PROVE CreatedOwnsTheName
  <2> SUFFICES ASSUME NEW r \in Requests, Ended(r, "signup", "201")
               PROVE  Owners(r) = {Row(r)}
    BY DEF CreatedOwnsTheName, Row
  <2>1. Row(r) \in users /\ Row(r).name = arg[r].name
    BY <1>1 DEF IInv, Facts, Answered, Row
  <2>2. QED BY <1>1, <2>1 DEF IInv, UsersTable, Owners
<1>2. QED BY <1>1, Invariance, PTL

\* A refused signup is told the truth: 409 names somebody else's account, and
\* 500 and 503 mean that a service failed this very request.
THEOREM TrueRefusals == Spec => []ConflictIsTrue
<1>1. IInv => ConflictIsTrue
  BY DEF IInv, Facts, Answered, ConflictIsTrue
<1>2. QED BY <1>1, Invariance, PTL

\* Every token was given for the password of its account, and has its session
\* until a logout deletes it or its grace period is over.
THEOREM TokensAreBacked == Spec => []TokenHasSession
<1>1. ASSUME IInv PROVE TokenHasSession
  <2> SUFFICES ASSUME NEW r \in Tokens
               PROVE  /\ \E u \in Owners(r) : u.pwd = arg[r].pwd
                      /\ r \in sessions \/ r \in deleted \/ Expired(now, r)
    BY DEF TokenHasSession
  <2>1. r \in Requests /\ Ended(r, "login", "200")
    BY DEF Tokens, Ended
  <2>2. QED BY <1>1, <2>1 DEF IInv, Facts, Answered, Proven, Gone, Owners
<1>2. QED BY <1>1, Invariance, PTL

\* Once a logout was answered 200, no request that starts with its token is
\* served, whatever other requests and failures come between.
THEOREM LogoutIsFinal == Spec => []LogoutRevokes
<1>1. IInv => LogoutRevokes
  BY DEF IInv, TypeOK, Facts, Answered, LogoutRevokes
<1>2. QED BY <1>1, Invariance, PTL

\* A token that is in time and was not logged out is never answered 401.
THEOREM GoodTokensAreHonoured == Spec => []ValidTokenHonoured
<1>1. IInv => ValidTokenHonoured
  BY DEF IInv, Facts, Answered, Gone, ValidTokenHonoured
<1>2. QED BY <1>1, Invariance, PTL
=============================================================================
