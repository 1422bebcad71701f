------------------------------ MODULE Contest ------------------------------
(***************************************************************************)
(* Challenges and answers: the handler chains of app/handler_challenge.c   *)
(* and app/handler_answer.c against the tables challenges and answers.     *)
(*                                                                         *)
(* The chains check first and act later: between the SELECT that finds a   *)
(* challenge and the statement that changes it, every other request may    *)
(* run its own.  As in Accounts, pc[r] is the handler that waits, res[r]   *)
(* the state of its result and rows[r] what came with it.  Requests start  *)
(* here with the user that auth_2 verified.  A challenge's texts and genre *)
(* are always written together: they are one value, called its flag.  Ids  *)
(* are AUTO_INCREMENT, never used twice: a row is named after the request  *)
(* that inserts it.  Requests whose input is refused (400) are left out;   *)
(* what POST and PUT do not refuse is a flag that no answer can match.     *)
(***************************************************************************)
EXTENDS Naturals, FiniteSets

CONSTANTS
    Requests,
    Ops,            \* which operations requests do
    Users,
    Flags,
    Undecodable,    \* flags spelt with half a surrogate pair: stored, but no text
    Seeds,          \* challenges (rows) from before the server started
    Gated,          \* CONTEST_START_AT is set, and still to come when the server starts
    MaxHurt,        \* bound: requests that meet a fault other than a lost connection
    None            \* no id: no filter in a listing

AllOps == {"create", "put", "delete", "submit", "list", "own", "answers", "mine"}

ASSUME OpsAreKnown == Ops \subseteq AllOps /\ Gated \in BOOLEAN /\ MaxHurt \in Nat
ASSUME SomeFlagsAreTexts == Undecodable \subseteq Flags
ASSUME NoneIsNoId == None \notin Requests \cup {c.id : c \in Seeds}
ASSUME SeedsAreRows ==
    /\ \A c \in Seeds : c \in [id : {c.id}, owner : Users, flag : Flags]
    /\ \A c \in Seeds : c.id \notin Requests
    /\ \A c, d \in Seeds : c.id = d.id => c = d

VARIABLES
    pc, res, rows,  \* current handler of a request, and what it will be given
    arg,            \* who asks for what
    grade,          \* is_correct, a parameter of the queued INSERT
    answer, body,   \* the response: status and rows it shows
    challenges, answers,        \* the tables
    dbUp,           \* the worker's connection; once lost it stays lost
    started,        \* now >= contest_start_at
    hurt,           \* history: requests that met a failing database or clock
    flagsSeen,      \* history: flags of its challenge while a request runs
    tookEffect,     \* history: PUTs whose content the row had after the UPDATE
    acked           \* history: answers already acknowledged when a request began

request == <<pc, res, rows, arg, grade, answer, body>>
tables == <<challenges, answers>>
history == <<hurt, flagsSeen, tookEffect, acked>>
vars == <<request, tables, dbUp, started, history>>

Ids == Requests \cup {c.id : c \in Seeds}
Challenges == [id : Ids, owner : Users, flag : Flags]
Answers == [id : Requests, challenge : Ids, user : Users, flag : Flags, correct : BOOLEAN]
Stages == {"idle", "create_2", "put_2", "put_3", "put_4", "delete_2", "delete_3", "delete_4",
           "submit_2", "submit_3", "submit_4", "submit_5", "list_2", "own_2", "answers_2",
           "answers_3", "mine_2", "mine_3", "done"}
Statuses == {"none", "200", "201", "403", "404", "500", "dropped"}

\* Every variable in its range; a result does not outlive the handler that
\* was given it (free_challenge_task, free_answer_task).
TypeOK ==
    /\ pc \in [Requests -> Stages]
    /\ res \in [Requests -> {"pending", "ok", "error"}]
    /\ rows \in [Requests -> (SUBSET Challenges) \cup (SUBSET Answers)]
    /\ \A r \in Requests : res[r] = "pending" => rows[r] = {}
    /\ arg \in [Requests -> [op : AllOps \cup {"none"}, user : Users \cup {None},
                             id : Ids \cup {None}, flag : Flags \cup {None}]]
    /\ grade \in [Requests -> BOOLEAN]
    /\ answer \in [Requests -> Statuses]
    /\ body \in [Requests -> (SUBSET Challenges) \cup (SUBSET Answers)]
    /\ challenges \subseteq Challenges /\ answers \subseteq Answers
    /\ dbUp \in BOOLEAN /\ started \in BOOLEAN
    /\ hurt \subseteq Requests /\ tookEffect \subseteq Requests
    /\ flagsSeen \in [Requests -> SUBSET Flags]
    /\ acked \in [Requests -> SUBSET Requests]

Init ==
    /\ pc = [r \in Requests |-> "idle"]
    /\ res = [r \in Requests |-> "pending"]
    /\ rows = [r \in Requests |-> {}]
    /\ arg = [r \in Requests |-> [op |-> "none", user |-> None, id |-> None, flag |-> None]]
    /\ grade = [r \in Requests |-> FALSE]
    /\ answer = [r \in Requests |-> "none"]
    /\ body = [r \in Requests |-> {}]
    /\ challenges = Seeds /\ answers = {}
    /\ dbUp = TRUE
    /\ started = ~Gated
    /\ hurt = {} /\ tookEffect = {}
    /\ flagsSeen = [r \in Requests |-> {}]
    /\ acked = [r \in Requests |-> {}]

-----------------------------------------------------------------------------
(* Moving a request along. *)

\* free_challenge_task, free_answer_task: the handler is done with its result.
Consumed(r) ==
    /\ res' = [res EXCEPT ![r] = "pending"]
    /\ rows' = [rows EXCEPT ![r] = {}]

\* Return true: the response goes out, the request is over.
Respond(r, status, shown) ==
    /\ pc' = [pc EXCEPT ![r] = "done"]
    /\ Consumed(r)
    /\ answer' = [answer EXCEPT ![r] = status]
    /\ body' = [body EXCEPT ![r] = shown]
    /\ UNCHANGED hurt

Answer(r, status) == Respond(r, status, {})

MayFail(r) == dbUp => Cardinality(hurt \cup {r}) <= MaxHurt

\* Something the handler needs fails: 500.
Fault(r) ==
    /\ pc' = [pc EXCEPT ![r] = "done"]
    /\ Consumed(r)
    /\ answer' = [answer EXCEPT ![r] = "500"]
    /\ MayFail(r)
    /\ hurt' = hurt \cup {r}
    /\ UNCHANGED body

\* Queue a statement and return false, or 500 when it cannot be queued.
Query(r, stage) ==
    \/ /\ pc' = [pc EXCEPT ![r] = stage]
       /\ Consumed(r)
       /\ UNCHANGED <<answer, body, hurt>>
    \/ Fault(r)

\* A continuation runs when its result has arrived.
Resumes(r, stage) == pc[r] = stage /\ res[r] # "pending"
Failed(r) == res[r] = "error"

\* The rows of a SELECT that are about the challenge asked for.
Target(r, table) == {c \in table : c.id = arg[r].id}

-----------------------------------------------------------------------------
(* The database. *)

Mine(r) == {c \in Target(r, challenges) : c.owner = arg[r].user}
Rewritten(r) == {[c EXCEPT !.flag = arg[r].flag] : c \in Mine(r)}

\* ON DELETE CASCADE of answers.challenge_id.
Cascade(gone) == {a \in answers : \A c \in gone : a.challenge # c.id}

\* What the statement queued for the handler pc[r] returns or touches, and
\* the tables after it.  An UPDATE counts the rows it changes.
Statement(r) ==
    LET Do(status, result, cs, as) ==
            [status |-> status, rows |-> result, challenges |-> cs, answers |-> as]
        Select(result) == Do("ok", result, challenges, answers)
        new == [id |-> r, owner |-> arg[r].user, flag |-> arg[r].flag]
        given == [id |-> r, challenge |-> arg[r].id, user |-> arg[r].user,
                  flag |-> arg[r].flag, correct |-> grade[r]]
    IN  CASE pc[r] \in {"submit_4", "answers_3", "mine_3"} -> Select(answers)
          [] pc[r] = "create_2" -> Do("ok", {new}, challenges \cup {new}, answers)
          [] pc[r] = "put_3" -> Do("ok", Rewritten(r) \ challenges,
                                   (challenges \ Mine(r)) \cup Rewritten(r), answers)
          [] pc[r] = "delete_3" -> Do("ok", Mine(r), challenges \ Mine(r), Cascade(Mine(r)))
          [] pc[r] = "submit_3" ->
                 IF Target(r, challenges) = {} THEN Do("error", {}, challenges, answers)
                 ELSE Do("ok", {given}, challenges, answers \cup {given})
          [] OTHER -> Select(challenges)

Running(r) == pc[r] \notin {"idle", "done"}
Waiting(r) == Running(r) /\ res[r] = "pending"

\* The statement of r takes effect.
Apply(r) ==
    /\ challenges' = Statement(r).challenges
    /\ answers' = Statement(r).answers
    /\ flagsSeen' = [q \in Requests |->
                        IF Running(q) THEN flagsSeen[q] \cup {c.flag : c \in Target(q, challenges')}
                        ELSE flagsSeen[q]]
    /\ tookEffect' = IF pc[r] = "put_3" /\ Mine(r) # {} THEN tookEffect \cup {r} ELSE tookEffect

ExecStatement(r) ==
    /\ Waiting(r)
    /\ dbUp
    /\ res' = [res EXCEPT ![r] = Statement(r).status]
    /\ rows' = [rows EXCEPT ![r] = Statement(r).rows]
    /\ Apply(r)
    /\ UNCHANGED <<pc, arg, grade, answer, body, dbUp, started, hurt, acked>>

\* As in Accounts: fails without effect, or with the connection, which may be
\* lost before or after the effect.
FailStatement(r) ==
    /\ Waiting(r)
    /\ MayFail(r)
    /\ \/ UNCHANGED <<tables, dbUp, flagsSeen, tookEffect>>
       \/ dbUp /\ dbUp' = FALSE /\ Apply(r)
       \/ dbUp /\ dbUp' = FALSE /\ UNCHANGED <<tables, flagsSeen, tookEffect>>
    /\ res' = [res EXCEPT ![r] = "error"]
    /\ hurt' = hurt \cup {r}
    /\ UNCHANGED <<pc, rows, arg, grade, answer, body, started, acked>>

-----------------------------------------------------------------------------
(* Arrival. *)

\* Ids a client may know, of challenges that may be deleted by now.
Known == {c.id : c \in Seeds} \cup {q \in Requests : arg[q].op = "create" /\ answer[q] = "201"}
Acknowledged == {q \in Requests : arg[q].op = "submit" /\ answer[q] = "200"}

\* An authenticated request of user u; its first handler queues a statement.
Arrive(r, op, u, id, flag, stage) ==
    /\ pc[r] = "idle"
    /\ op \in Ops
    /\ arg' = [arg EXCEPT ![r] = [op |-> op, user |-> u, id |-> id, flag |-> flag]]
    /\ flagsSeen' = [flagsSeen EXCEPT ![r] = {c.flag : c \in {c \in challenges : c.id = id}}]
    /\ acked' = [acked EXCEPT ![r] = Acknowledged]
    /\ Query(r, stage)
    /\ UNCHANGED <<grade, tables, dbUp, started, tookEffect>>

\* What every continuation leaves alone.
Rest == <<arg, tables, dbUp, started, flagsSeen, tookEffect, acked>>

-----------------------------------------------------------------------------
(* Challenges. *)

PostChallenges1(r) == \E u \in Users, f \in Flags : Arrive(r, "create", u, None, f, "create_2")

PostChallenges2(r) ==
    /\ Resumes(r, "create_2")
    /\ IF Failed(r) THEN Answer(r, "500") ELSE Respond(r, "201", rows[r])
    /\ UNCHANGED <<Rest, grade>>

PutChallenges1(r) ==
    \E u \in Users, id \in Known, f \in Flags : Arrive(r, "put", u, id, f, "put_2")

DeleteChallenges1(r) ==
    \E u \in Users, id \in Known : Arrive(r, "delete", u, id, None, "delete_2")

\* challenge_write_access: 500 no result, 404 no row, 403 another's, else 200.
Access(r) ==
    IF Failed(r) THEN "500"
    ELSE IF Target(r, rows[r]) = {} THEN "404"
    ELSE IF \E c \in Target(r, rows[r]) : c.owner = arg[r].user THEN "200"
    ELSE "403"

\* put_challenges_2 and delete_challenges_2: the owner's statement is queued.
CheckAccess(r, stage, next) ==
    /\ Resumes(r, stage)
    /\ \/ Access(r) = "200" /\ Query(r, next)
       \/ Access(r) # "200" /\ Answer(r, Access(r))
    /\ UNCHANGED <<Rest, grade>>

PutChallenges2(r) == CheckAccess(r, "put_2", "put_3")
DeleteChallenges2(r) == CheckAccess(r, "delete_2", "delete_3")

BugNoRecheck(r, stage, next) ==
    /\ Resumes(r, stage)
    /\ Answer(r, IF Failed(r) THEN "500" ELSE "200")
    /\ UNCHANGED <<Rest, grade>>

\* put_challenges_3 and delete_challenges_3: no row affected, look again.
Written(r, stage, next) ==
    /\ Resumes(r, stage)
    /\ \/ Failed(r) /\ Answer(r, "500")
       \/ ~Failed(r) /\ rows[r] = {} /\ Query(r, next)
       \/ ~Failed(r) /\ rows[r] # {} /\ Answer(r, "200")
    /\ UNCHANGED <<Rest, grade>>

PutChallenges3(r) == Written(r, "put_3", "put_4")
DeleteChallenges3(r) == Written(r, "delete_3", "delete_4")

\* The row is still there and ours: it already had the content.
PutChallenges4(r) ==
    /\ Resumes(r, "put_4")
    /\ Answer(r, Access(r))
    /\ UNCHANGED <<Rest, grade>>

\* The row is still there though the DELETE took none: 500.
DeleteChallenges4(r) ==
    /\ Resumes(r, "delete_4")
    /\ Answer(r, IF Access(r) = "200" THEN "500" ELSE Access(r))
    /\ UNCHANGED <<Rest, grade>>

\* GET /challenges, refused before the contest starts; no user is needed.
\* With a start configured, a clock that cannot be read is 500 at any time.
GetChallenges1(r) ==
    \/ started /\ Arrive(r, "list", None, None, None, "list_2")
    \/ /\ pc[r] = "idle" /\ "list" \in Ops
       /\ arg' = [arg EXCEPT ![r].op = "list"]
       /\ \/ ~started /\ Answer(r, "403")
          \/ Gated /\ Fault(r)
       /\ UNCHANGED <<grade, tables, dbUp, started, flagsSeen, tookEffect, acked>>

\* When the rows cannot be bound the list is empty.
GetChallenges2(r) ==
    /\ Resumes(r, "list_2")
    /\ \/ Failed(r) /\ Answer(r, "500")
       \/ ~Failed(r) /\ Respond(r, "200", rows[r])
       \/ ~Failed(r) /\ Respond(r, "200", {})
    /\ UNCHANGED <<Rest, grade>>

GetOwnChallenges1(r) == \E u \in Users : Arrive(r, "own", u, None, None, "own_2")

GetOwnChallenges2(r) ==
    /\ Resumes(r, "own_2")
    /\ IF Failed(r) THEN Answer(r, "500")
       ELSE Respond(r, "200", {c \in rows[r] : c.owner = arg[r].user})
    /\ UNCHANGED <<Rest, grade>>

-----------------------------------------------------------------------------
(* Answers. *)

PostAnswers1(r) ==
    \E u \in Users, id \in Known, f \in Flags \ Undecodable :
        Arrive(r, "submit", u, id, f, "submit_2")

BugAnyAnswer(r) == Target(r, rows[r]) # {}

\* json_string_equal_decoded(flag, answer) of the selected challenge; it
\* cannot tell when the flag, which POST and PUT take as it is, has no text.
CannotGrade(r) == \E c \in Target(r, rows[r]) : c.flag \in Undecodable
Correct(r) == \E c \in Target(r, rows[r]) : c.flag = arg[r].flag

\* Grade against the flag just read; the INSERT carries the grade.
PostAnswers2(r) ==
    /\ Resumes(r, "submit_2")
    /\ \/ Failed(r) /\ Answer(r, "500") /\ UNCHANGED grade
       \/ ~Failed(r) /\ Target(r, rows[r]) = {} /\ Answer(r, "404") /\ UNCHANGED grade
       \/ ~Failed(r) /\ CannotGrade(r) /\ Answer(r, "500") /\ UNCHANGED grade
       \/ /\ ~Failed(r) /\ Target(r, rows[r]) # {} /\ ~CannotGrade(r)
          /\ grade' = [grade EXCEPT ![r] = Correct(r)]
          /\ Query(r, "submit_3")
    /\ UNCHANGED Rest

BugRefusedIsMissing(r) ==
    /\ Resumes(r, "submit_3")
    /\ \/ Failed(r) /\ Answer(r, "404")
       \/ ~Failed(r) /\ Query(r, "submit_4")
    /\ UNCHANGED <<Rest, grade>>

\* A failing INSERT may mean that the challenge is gone: submit_5 looks again.
PostAnswers3(r) ==
    /\ Resumes(r, "submit_3")
    /\ \/ Failed(r) /\ Query(r, "submit_5")
       \/ ~Failed(r) /\ Query(r, "submit_4")
    /\ UNCHANGED <<Rest, grade>>

\* Show the stored answer; with its challenge deleted meanwhile there is none.
PostAnswers4(r) ==
    LET own == {a \in rows[r] : a.id = r}
    IN  /\ Resumes(r, "submit_4")
        /\ \/ Failed(r) /\ Answer(r, "500")
           \/ ~Failed(r) /\ own = {} /\ Answer(r, "404")
           \/ ~Failed(r) /\ own # {} /\ Respond(r, "200", own)
        /\ UNCHANGED <<Rest, grade>>

PostAnswers5(r) ==
    /\ Resumes(r, "submit_5")
    /\ Answer(r, IF ~Failed(r) /\ Target(r, rows[r]) = {} THEN "404" ELSE "500")
    /\ UNCHANGED <<Rest, grade>>

GetAnswers1(r) == \E id \in Known \cup {None} : Arrive(r, "answers", None, id, None, "answers_2")

GetOwnAnswers1(r) ==
    \E u \in Users, id \in Known \cup {None} : Arrive(r, "mine", u, id, None, "mine_2")

\* get_answers_2 and get_own_answers_2: with a filter the challenge must exist.
CheckFilter(r, stage, next) ==
    LET found == arg[r].id = None \/ Target(r, rows[r]) # {}
    IN  /\ Resumes(r, stage)
        /\ \/ Failed(r) /\ Answer(r, "500")
           \/ ~Failed(r) /\ ~found /\ Answer(r, "404")
           \/ ~Failed(r) /\ found /\ Query(r, next)
        /\ UNCHANGED <<Rest, grade>>

GetAnswers2(r) == CheckFilter(r, "answers_2", "answers_3")
GetOwnAnswers2(r) == CheckFilter(r, "mine_2", "mine_3")

BugCorrectOnly(r, a) == a.correct

\* Everybody's correct answers, or all of one's own.
Selects(r, a) ==
    /\ IF arg[r].op = "answers" THEN a.correct ELSE a.user = arg[r].user
    /\ arg[r].id \in {None, a.challenge}

List(r, stage) ==
    /\ Resumes(r, stage)
    /\ IF Failed(r) THEN Answer(r, "500")
       ELSE Respond(r, "200", {a \in rows[r] : Selects(r, a)})
    /\ UNCHANGED <<Rest, grade>>

GetAnswers3(r) == List(r, "answers_3")
GetOwnAnswers3(r) == List(r, "mine_3")

-----------------------------------------------------------------------------
\* The client left: its result is dropped, what the statement did stays.
Abandon(r) ==
    /\ Running(r) /\ res[r] # "pending"
    /\ Answer(r, "dropped")
    /\ UNCHANGED <<Rest, grade>>

ContestStarts ==
    /\ ~started
    /\ started' = TRUE
    /\ UNCHANGED <<request, tables, dbUp, history>>

Handler(r) ==
    \/ PostChallenges1(r) \/ PostChallenges2(r)
    \/ PutChallenges1(r) \/ PutChallenges2(r) \/ PutChallenges3(r) \/ PutChallenges4(r)
    \/ DeleteChallenges1(r) \/ DeleteChallenges2(r) \/ DeleteChallenges3(r) \/ DeleteChallenges4(r)
    \/ GetChallenges1(r) \/ GetChallenges2(r) \/ GetOwnChallenges1(r) \/ GetOwnChallenges2(r)
    \/ PostAnswers1(r) \/ PostAnswers2(r) \/ PostAnswers3(r) \/ PostAnswers4(r) \/ PostAnswers5(r)
    \/ GetAnswers1(r) \/ GetAnswers2(r) \/ GetAnswers3(r)
    \/ GetOwnAnswers1(r) \/ GetOwnAnswers2(r) \/ GetOwnAnswers3(r)

Next ==
    \/ \E r \in Requests : Handler(r) \/ ExecStatement(r) \/ FailStatement(r) \/ Abandon(r)
    \/ ContestStarts

Spec == Init /\ [][Next]_vars

-----------------------------------------------------------------------------
(* Properties. *)

Ended(r, op, status) == arg[r].op = op /\ answer[r] = status
Exists(id) == \E c \in challenges : c.id = id

\* handler_challenge.c:441-469, 690-713, handler_answer.c:157-219, 252, 321.
\* An error is true.  With 404 the challenge is not in the table, and does not
\* come back.  With 500 the database or the clock failed the request, for losing
\* a race with a deletion is no server error and delete_challenges_4 never finds
\* the row; or it is a submission to a challenge whose flag cannot be decoded.
ErrorIsTrue ==
    \A r \in Requests :
        /\ answer[r] = "404" => ~Exists(arg[r].id)
        /\ answer[r] = "500" =>
               \/ r \in hurt
               \/ arg[r].op = "submit" /\ flagsSeen[r] \cap Undecodable # {}

\* handler_challenge.c:576-619, 674-697.  A success is true.  Of several
\* deletions of a challenge one at most is answered 200, and after it the
\* challenge and its answers are gone.  A PUT answered 200 wrote its content,
\* or found it there when its UPDATE ran; never when the row was already gone.
SuccessIsTrue ==
    /\ \A r, q \in Requests :
           Ended(r, "delete", "200") =>
               /\ Ended(q, "delete", "200") /\ arg[q].id = arg[r].id => q = r
               /\ ~Exists(arg[r].id)
               /\ \A a \in answers : a.challenge # arg[r].id
    /\ \A r \in Requests : Ended(r, "put", "200") => r \in tookEffect

\* handler_answer.c:157-196.  A stored grade is right for a flag that the
\* challenge had at some moment between the request's arrival and the INSERT.
GradeWasTrue ==
    \A a \in answers : \E f \in flagsSeen[a.id] : a.correct = (a.flag = f)

\* handler_answer.c:234-279.  An answer shown to its author as stored stays
\* stored unless its challenge is deleted; and a listing that starts later
\* shows it, when it selects it and the challenge lasted.
AcknowledgedIsListed ==
    /\ \A q \in Acknowledged : Exists(arg[q].id) => \E a \in answers : a.id = q
    /\ \A r \in Requests : Ended(r, "mine", "200") =>
           \A q \in acked[r] :
               arg[q].user = arg[r].user /\ arg[r].id \in {None, arg[q].id} /\ Exists(arg[q].id) =>
                   \E a \in body[r] : a.id = q

\* docs/openapi.yaml:84 promises GET /challenges to return all challenges.  A
\* list answered 200 shows every challenge that was there throughout.
ListShowsAll ==
    \A r \in Requests : Ended(r, "list", "200") =>
        \A c \in Seeds : Exists(c.id) => \E shown \in body[r] : shown.id = c.id
=============================================================================
