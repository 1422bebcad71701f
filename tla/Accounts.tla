------------------------------ MODULE Accounts ------------------------------
(***************************************************************************)
(* Accounts and sessions: the handler chains of app/handler_auth.c for     *)
(* signup, login, authenticated requests and logout, against the tables    *)
(* users and auth_sessions, with the token time rules of app/auth.c.       *)
(*                                                                         *)
(* A request runs one handler at a time on the event loop; between two     *)
(* handlers its statement is executed by the database (or its password by  *)
(* the worker) at some later moment, interleaved with every other request. *)
(* pc[r] is ctx->current_handler, res[r] the state of the result it will   *)
(* be given and rows[r] the rows that came with it (returned by a SELECT,  *)
(* touched by another statement).  Statements run in any order, which      *)
(* includes the queue order of DbPool.  Ids are random in the code and     *)
(* unique here: an account and a session are named after the request that  *)
(* created them.  Requests whose input is refused (400) are left out.      *)
(***************************************************************************)
EXTENDS Naturals, FiniteSets

CONSTANTS
    Requests,
    Ops,            \* which of signup, login, access and logout requests do
    Names, Passwords,
    SeededNames, SeedPassword,  \* accounts from before the server started
    Ttl, Skew,      \* config->ttl, AUTH_CLOCK_SKEW
    MaxTime,        \* bound on the clock
    None

ASSUME SeedsAreNames == SeededNames \subseteq Names /\ SeedPassword \in Passwords
ASSUME TimesAreNatural == Ttl \in Nat \ {0} /\ Skew \in Nat /\ MaxTime \in Nat
ASSUME IdsAreUnique == Requests \cap Names = {}
ASSUME OpsAreKnown == Ops \subseteq {"signup", "login", "access", "logout"}

VARIABLES
    pc, res, rows,  \* current handler of a request, and what it will be given
    arg,            \* what the request asks for
    user,           \* state->user_id: account found by login
    issued,         \* state->issued_at
    answer,         \* the response
    users,          \* table users: its rows
    sessions,       \* table auth_sessions: ids of the rows
    dbUp,           \* the worker's connection; once lost it stays lost
    now,            \* UTC
    hurt,           \* history: requests that met a failing service
    deleted,        \* history: sessions whose logout DELETE was executed
    revoked,        \* history: sessions whose logout was answered with 200
    late            \* history: accesses that began after such an answer

request == <<pc, res, rows, arg, user, issued, answer>>
tables == <<users, sessions>>
history == <<hurt, deleted, revoked, late>>
vars == <<request, tables, dbUp, now, history>>

Accounts == [id : Requests \cup Names, name : Names, pwd : Passwords]
Stages == {"idle", "signup_2", "signup_3", "signup_4", "signup_5", "login_2", "login_3",
           "login_4", "login_5", "auth_2", "logout_2", "done"}
Statuses == {"none", "200", "201", "401", "409", "500", "503", "dropped"}

\* Every variable in its range; a result does not outlive the handler that
\* was given it (db_task_free).
TypeOK ==
    /\ pc \in [Requests -> Stages]
    /\ res \in [Requests -> {"pending", "ok", "invalid", "error"}]
    /\ rows \in [Requests -> (SUBSET users) \cup (SUBSET Requests)]
    /\ \A r \in Requests : res[r] = "pending" => rows[r] = {}
    /\ arg \in [Requests -> [op : {"none", "signup", "login", "access", "logout"},
                             name : Names \cup {None}, pwd : Passwords \cup {None},
                             sid : Requests \cup {None}]]
    /\ user \in [Requests -> Requests \cup Names \cup {None}]
    /\ issued \in [Requests -> 0..MaxTime]
    /\ answer \in [Requests -> Statuses]
    /\ users \subseteq Accounts
    /\ sessions \subseteq Requests
    /\ dbUp \in BOOLEAN
    /\ now \in 0..MaxTime
    /\ hurt \subseteq Requests /\ late \subseteq Requests
    /\ revoked \subseteq deleted /\ deleted \subseteq Requests

Init ==
    /\ pc = [r \in Requests |-> "idle"]
    /\ res = [r \in Requests |-> "pending"]
    /\ rows = [r \in Requests |-> {}]
    /\ arg = [r \in Requests |-> [op |-> "none", name |-> None, pwd |-> None, sid |-> None]]
    /\ user = [r \in Requests |-> None]
    /\ issued = [r \in Requests |-> 0]
    /\ answer = [r \in Requests |-> "none"]
    /\ users = {[id |-> n, name |-> n, pwd |-> SeedPassword] : n \in SeededNames}
    /\ sessions = {}
    /\ dbUp = TRUE
    /\ now = 0
    /\ hurt = {} /\ late = {} /\ deleted = {} /\ revoked = {}

-----------------------------------------------------------------------------
(* Moving a request along. *)

\* db_task_free: the handler is done with its result.
Consumed(r) ==
    /\ res' = [res EXCEPT ![r] = "pending"]
    /\ rows' = [rows EXCEPT ![r] = {}]

\* Return false: wait for the next handler's result.
WaitFor(r, stage) ==
    /\ pc' = [pc EXCEPT ![r] = stage]
    /\ Consumed(r)
    /\ UNCHANGED answer

\* Return true: the response goes out, the request is over.
Answer(r, status) ==
    /\ pc' = [pc EXCEPT ![r] = "done"]
    /\ Consumed(r)
    /\ answer' = [answer EXCEPT ![r] = status]

\* A continuation runs when its result has arrived.
Resumes(r, stage) == pc[r] = stage /\ res[r] # "pending"

Failed(r) == res[r] = "error"

\* Submitting a statement or a job can fail on the spot (no memory, stopped).
Refused(r, status) == Answer(r, status) /\ hurt' = hurt \cup {r}

-----------------------------------------------------------------------------
(* The database and the password worker. *)

BugNoGrace(t, exp) == exp <= t

\* DELETE ... WHERE expires_at <= UTC_TIMESTAMP() - INTERVAL 30 SECOND.
Purged(t, exp) == exp + Skew <= t

Expiry(s) == issued[s] + Ttl

\* The SELECT of auth_1: rows that are not past their grace period.
LiveSessions == {s \in sessions : ~Purged(now, Expiry(s))}

BugNoUniqueKey(n) == FALSE

\* The unique key on users.username.
Taken(n) == \E u \in users : u.name = n

BugKeepsRow(s) == sessions

\* DELETE FROM auth_sessions WHERE id=? AND user_id=?
Without(s) == sessions \ {s}

\* What the statement queued for the handler pc[r] returns or touches, and
\* the tables after it.
Statement(r) ==
    LET sid == arg[r].sid
        row == [id |-> r, name |-> arg[r].name, pwd |-> arg[r].pwd]
        Do(status, result, u, s) == [status |-> status, rows |-> result, users |-> u, sessions |-> s]
    IN  CASE pc[r] \in {"signup_2", "signup_5", "login_2"} -> Do("ok", users, users, sessions)
          [] pc[r] = "signup_4" /\ Taken(row.name) -> Do("error", {}, users, sessions)
          [] pc[r] = "signup_4" /\ ~Taken(row.name) -> Do("ok", {r}, users \cup {row}, sessions)
          [] pc[r] = "login_4" -> Do("ok", sessions \ LiveSessions, users, LiveSessions)
          [] pc[r] = "login_5" -> Do("ok", {r}, users, sessions \cup {r})
          [] pc[r] = "auth_2" -> Do("ok", LiveSessions, users, sessions)
          [] pc[r] = "logout_2" -> Do("ok", {sid} \cap sessions, users, Without(sid))

OnDatabase == {"signup_2", "signup_4", "signup_5", "login_2", "login_4", "login_5", "auth_2",
               "logout_2"}
OnWorker == {"signup_3", "login_3"}

Waiting(r, stages) == pc[r] \in stages /\ res[r] = "pending"

Apply(r) ==
    /\ users' = Statement(r).users
    /\ sessions' = Statement(r).sessions
    /\ deleted' = IF pc[r] = "logout_2" THEN deleted \cup {arg[r].sid} ELSE deleted

ExecStatement(r) ==
    /\ Waiting(r, OnDatabase)
    /\ dbUp
    /\ res' = [res EXCEPT ![r] = Statement(r).status]
    /\ rows' = [rows EXCEPT ![r] = Statement(r).rows]
    /\ Apply(r)
    /\ UNCHANGED <<pc, arg, user, issued, answer, dbUp, now, hurt, revoked, late>>

\* The statement fails without effect, as every statement does once the
\* connection is gone; or the connection breaks during it, with its effect
\* applied or not.  A broken connection is never opened again.
FailStatement(r) ==
    /\ Waiting(r, OnDatabase)
    /\ \/ UNCHANGED <<tables, deleted, dbUp>>
       \/ dbUp /\ dbUp' = FALSE /\ Apply(r)
       \/ dbUp /\ dbUp' = FALSE /\ UNCHANGED <<tables, deleted>>
    /\ res' = [res EXCEPT ![r] = "error"]
    /\ hurt' = hurt \cup {r}
    /\ UNCHANGED <<pc, rows, arg, user, issued, answer, now, revoked, late>>

\* crypto_pwhash_str_verify; nothing verifies against the dummy hash.
Matches(r) == \E u \in users : u.id = user[r] /\ u.pwd = arg[r].pwd

\* The password worker finishes the job of a request (PasswordWorker).
FinishPassword(r) ==
    /\ Waiting(r, OnWorker)
    /\ \/ /\ res' = [res EXCEPT ![r] = IF pc[r] = "signup_3" \/ Matches(r) THEN "ok" ELSE "invalid"]
          /\ UNCHANGED hurt
       \/ res' = [res EXCEPT ![r] = "error"] /\ hurt' = hurt \cup {r}
    /\ UNCHANGED <<pc, rows, arg, user, issued, answer, tables, dbUp, now, deleted, revoked, late>>

-----------------------------------------------------------------------------
(* Signup. *)

\* A request arrives; its first handler queues a statement (or cannot).
Arrive(r, what, stage) ==
    /\ pc[r] = "idle"
    /\ what.op \in Ops
    /\ arg' = [arg EXCEPT ![r] = what]
    /\ \/ WaitFor(r, stage) /\ UNCHANGED hurt
       \/ Refused(r, "500")

Signup1(r) ==
    /\ \E n \in Names, p \in Passwords :
           Arrive(r, [op |-> "signup", name |-> n, pwd |-> p, sid |-> None], "signup_2")
    /\ UNCHANGED <<user, issued, tables, dbUp, now, deleted, revoked, late>>

\* What every continuation leaves alone.
Rest == <<arg, tables, dbUp, now, deleted, late>>

Found(r) == {u \in rows[r] : u.name = arg[r].name}
Registered(r) == Found(r) # {}

\* submit_password: queued, or 503 when the worker is full or stopped, or 500.
SubmitPassword(r, stage) ==
    \/ WaitFor(r, stage) /\ UNCHANGED hurt
    \/ Refused(r, "503")
    \/ Refused(r, "500")

Signup2(r) ==
    /\ Resumes(r, "signup_2")
    /\ \/ Failed(r) /\ Answer(r, "500") /\ UNCHANGED hurt
       \/ ~Failed(r) /\ Registered(r) /\ Answer(r, "409") /\ UNCHANGED hurt
       \/ ~Failed(r) /\ ~Registered(r) /\ SubmitPassword(r, "signup_3")
    /\ UNCHANGED <<Rest, user, issued, revoked>>

\* Hash failed: 500.  Else INSERT the account under a fresh id.
Signup3(r) ==
    /\ Resumes(r, "signup_3")
    /\ \/ Failed(r) /\ Answer(r, "500") /\ UNCHANGED hurt
       \/ ~Failed(r) /\ WaitFor(r, "signup_4") /\ UNCHANGED hurt
       \/ ~Failed(r) /\ Refused(r, "500")
    /\ UNCHANGED <<Rest, user, issued, revoked>>

\* A failing INSERT may mean that the name was taken since: look again.
Signup4(r) ==
    /\ Resumes(r, "signup_4")
    /\ \/ ~Failed(r) /\ Answer(r, IF rows[r] = {r} THEN "201" ELSE "500") /\ UNCHANGED hurt
       \/ Failed(r) /\ WaitFor(r, "signup_5") /\ UNCHANGED hurt
       \/ Failed(r) /\ Refused(r, "500")
    /\ UNCHANGED <<Rest, user, issued, revoked>>

BugAlwaysConflict(r) ==
    /\ Resumes(r, "signup_5")
    /\ Answer(r, "409")
    /\ UNCHANGED <<Rest, user, issued, revoked, hurt>>

Signup5(r) ==
    /\ Resumes(r, "signup_5")
    /\ Answer(r, IF ~Failed(r) /\ Registered(r) THEN "409" ELSE "500")
    /\ UNCHANGED <<Rest, user, issued, revoked, hurt>>

-----------------------------------------------------------------------------
(* Login. *)

Login1(r) ==
    /\ \E n \in Names, p \in Passwords :
           Arrive(r, [op |-> "login", name |-> n, pwd |-> p, sid |-> None], "login_2")
    /\ UNCHANGED <<user, issued, tables, dbUp, now, deleted, revoked, late>>

\* Find the user; verify against the stored hash, or the dummy hash.
Login2(r) ==
    /\ Resumes(r, "login_2")
    /\ \/ Failed(r) /\ Answer(r, "500") /\ UNCHANGED <<hurt, user>>
       \/ /\ ~Failed(r)
          /\ \/ ~Registered(r) /\ UNCHANGED user
             \/ \E u \in Found(r) : user' = [user EXCEPT ![r] = u.id]
          /\ SubmitPassword(r, "login_3")
    /\ UNCHANGED <<Rest, issued, revoked>>

\* Wrong password or unknown user: 401.  Else purge old sessions.
Login3(r) ==
    /\ Resumes(r, "login_3")
    /\ \/ Failed(r) /\ Answer(r, "500") /\ UNCHANGED hurt
       \/ ~Failed(r) /\ (res[r] # "ok" \/ user[r] = None) /\ Answer(r, "401") /\ UNCHANGED hurt
       \/ /\ ~Failed(r) /\ res[r] = "ok" /\ user[r] # None
          /\ (WaitFor(r, "login_4") /\ UNCHANGED hurt) \/ Refused(r, "500")
    /\ UNCHANGED <<Rest, user, issued, revoked>>

BugTokenFirst(r) ==
    /\ Resumes(r, "login_4")
    /\ issued' = [issued EXCEPT ![r] = now]
    /\ Answer(r, "200") /\ UNCHANGED hurt
    /\ UNCHANGED <<Rest, user, revoked>>

\* Issue the token (iat = nbf = now, exp = now + ttl) and store its session.
Login4(r) ==
    /\ Resumes(r, "login_4")
    /\ \/ Failed(r) /\ Answer(r, "500") /\ UNCHANGED <<hurt, issued>>
       \/ /\ ~Failed(r)
          /\ issued' = [issued EXCEPT ![r] = now]
          /\ (WaitFor(r, "login_5") /\ UNCHANGED hurt) \/ Refused(r, "500")
    /\ UNCHANGED <<Rest, user, revoked>>

Login5(r) ==
    /\ Resumes(r, "login_5")
    /\ Answer(r, IF ~Failed(r) /\ rows[r] = {r} THEN "200" ELSE "500")
    /\ UNCHANGED <<Rest, user, issued, revoked, hurt>>

-----------------------------------------------------------------------------
(* Requests that need a session: any authenticated operation, and logout. *)

\* Tokens a client may hold: those of logins that were answered.
Tokens == {s \in Requests : arg[s].op = "login" /\ answer[s] = "200"}

\* auth_token_verify at time t; iat and nbf never lie in the future.
Expired(t, s) == t >= Expiry(s) + Skew

\* Check the token's own claims, then look its session up.
Auth1(r) ==
    /\ \E s \in Tokens, op \in {"access", "logout"} :
           LET what == [op |-> op, name |-> None, pwd |-> None, sid |-> s]
           IN  /\ \/ ~Expired(now, s) /\ Arrive(r, what, "auth_2")
                  \/ /\ Expired(now, s)
                     /\ pc[r] = "idle" /\ op \in Ops
                     /\ arg' = [arg EXCEPT ![r] = what]
                     /\ Answer(r, "401") /\ UNCHANGED hurt
               /\ late' = IF s \in revoked THEN late \cup {r} ELSE late
    /\ UNCHANGED <<user, issued, tables, dbUp, now, deleted, revoked>>

\* The row of the token is among those selected; the token is still in time.
Verified(r) == arg[r].sid \in rows[r] /\ ~Expired(now, arg[r].sid)

\* The rows are bound and compared; then the operation's own first handler
\* runs in the same call: an access is served, a logout queues its DELETE.
Auth2(r) ==
    /\ Resumes(r, "auth_2")
    /\ \/ Failed(r) /\ Answer(r, "500") /\ UNCHANGED hurt
       \/ ~Failed(r) /\ ~Verified(r) /\ Answer(r, "401") /\ UNCHANGED hurt
       \/ /\ ~Failed(r) /\ Verified(r) /\ arg[r].op = "access"
          /\ Answer(r, "200") /\ UNCHANGED hurt
       \/ /\ ~Failed(r) /\ Verified(r) /\ arg[r].op = "logout"
          /\ (WaitFor(r, "logout_2") /\ UNCHANGED hurt) \/ Refused(r, "500")
    /\ UNCHANGED <<Rest, user, issued, revoked>>

\* The row may already be gone (a second logout, a purge): still 200.
Logout2(r) ==
    /\ Resumes(r, "logout_2")
    /\ \/ Failed(r) /\ Answer(r, "500") /\ UNCHANGED revoked
       \/ ~Failed(r) /\ Answer(r, "200") /\ revoked' = revoked \cup {arg[r].sid}
    /\ UNCHANGED <<Rest, user, issued, hurt>>

\* The client left: its result is dropped, what the statement did stays.
Abandon(r) ==
    /\ pc[r] \notin {"idle", "done"} /\ res[r] # "pending"
    /\ Answer(r, "dropped")
    /\ UNCHANGED <<Rest, user, issued, revoked, hurt>>

-----------------------------------------------------------------------------
Tick ==
    /\ now < MaxTime
    /\ now' = now + 1
    /\ UNCHANGED <<request, tables, dbUp, history>>

Handler(r) ==
    \/ Signup1(r) \/ Signup2(r) \/ Signup3(r) \/ Signup4(r) \/ Signup5(r)
    \/ Login1(r) \/ Login2(r) \/ Login3(r) \/ Login4(r) \/ Login5(r)
    \/ Auth1(r) \/ Auth2(r) \/ Logout2(r)

Next ==
    \/ \E r \in Requests : Handler(r) \/ ExecStatement(r) \/ FailStatement(r)
                             \/ FinishPassword(r) \/ Abandon(r)
    \/ Tick

Spec == Init /\ [][Next]_vars

-----------------------------------------------------------------------------
(* Properties. *)

Ended(r, op, status) == arg[r].op = op /\ answer[r] = status

Owners(r) == {u \in users : u.name = arg[r].name}

\* handler_auth.c:130-238.  Two signups may both see a name as free.  The one
\* answered 201 owns the stored account for good, so no name has two winners.
CreatedOwnsTheName ==
    \A r \in Requests :
        Ended(r, "signup", "201") => Owners(r) = {[id |-> r, name |-> arg[r].name, pwd |-> arg[r].pwd]}

\* handler_auth.c:204-235.  A refused signup is told the truth.  With 409 the
\* name belongs to an account that another request made, never to the one this
\* very request just inserted; with 500 or 503 the database or the worker
\* failed it, for losing the race for a name is no server error.
ConflictIsTrue ==
    \A r \in Requests :
        /\ Ended(r, "signup", "409") => \E u \in Owners(r) : u.id # r
        /\ Ended(r, "signup", "500") \/ Ended(r, "signup", "503") => r \in hurt

\* handler_auth.c:253-356.  A token is handed out for the password of the
\* account only, however the login interleaves with the signup that creates
\* it, and has its session row until a logout deletes it or its grace period
\* is over: the purge of another login takes no row whose token is accepted.
TokenHasSession ==
    \A r \in Tokens :
        /\ \E u \in Owners(r) : u.pwd = arg[r].pwd
        /\ r \in sessions \/ r \in deleted \/ Expired(now, r)

\* handler_auth.c:434-506.  After a logout was answered 200 no request that
\* starts with the same token is served.
LogoutRevokes == \A r \in late : answer[r] # "200"

\* handler_auth.c:359-477.  A token is refused only if it is past its time or
\* a logout deleted its session; never because of another client's login.
ValidTokenHonoured ==
    \A r \in Requests :
        Ended(r, "access", "401") \/ Ended(r, "logout", "401") =>
            arg[r].sid \in deleted \/ Expired(now, arg[r].sid)
=============================================================================
