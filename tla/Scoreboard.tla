----------------------------- MODULE Scoreboard -----------------------------
(***************************************************************************)
(* GET /users: the handlers of app/handler_user.c and the merge of         *)
(* app/score.c.  The accounts and the correct answers are read by two      *)
(* statements, between which the tables may change.  Then both lists are   *)
(* sorted (qsort leaves equal keys in any order) and walked in step, one   *)
(* action per turn of the inner loop.  Ids are numbers, strcmp is their    *)
(* order; challenge ids are AUTO_INCREMENT and so at least 1.              *)
(***************************************************************************)
EXTENDS Naturals, FiniteSets, Sequences, SequencesExt

CONSTANTS
    Users, Challenges, Times,
    EndEnabled, EndAt,  \* contest_end_enabled, contest_end_at
    MaxAnswers          \* bound on the answers table

ASSUME IdsArePositive ==
    /\ Users \subseteq Nat \ {0} /\ Challenges \subseteq Nat \ {0} /\ Times \subseteq Nat
    /\ EndEnabled \in BOOLEAN /\ EndAt \in Nat /\ MaxAnswers \in Nat
ASSUME TablesAreFinite == IsFiniteSet(Users) /\ IsFiniteSet(Challenges) /\ IsFiniteSet(Times)

VARIABLES
    accounts, correct,  \* the tables: user ids, answers with is_correct=1
    stage,              \* the handler that waits, or "merge" in its loop
    users, answers,     \* what was selected, as the arrays of score.c
    i, answerIndex, lastChallenge,
    score,              \* score of the users in the list
    read                \* history: the answers as selected

tables == <<accounts, correct>>
loop == <<users, answers, i, answerIndex, lastChallenge, score>>
boardVars == <<tables, stage, loop, read>>

Answers == [user : Users, challenge : Challenges, at : Times]

\* Every variable in its range; the walk stays inside both arrays.
TypeOK ==
    /\ accounts \subseteq Users /\ correct \subseteq Answers /\ read \subseteq Answers
    /\ stage \in {"users_2", "users_3", "merge", "done"}
    /\ users \in Seq(Users) /\ answers \in Seq(Answers)
    /\ i \in 1..Len(users) + 1 /\ answerIndex \in 1..Len(answers) + 1
    /\ lastChallenge \in Challenges \cup {0}
    /\ DOMAIN score \subseteq Users /\ score \in [DOMAIN score -> Nat]

\* The foreign key: an answer has its author's account.
BoardInit ==
    /\ accounts \in SUBSET Users
    /\ correct \in {s \in UNION {kSubset(n, Answers) : n \in 0..MaxAnswers} :
                       \A a \in s : a.user \in accounts}
    /\ stage = "users_2"
    /\ users = <<>> /\ answers = <<>>
    /\ i = 1 /\ answerIndex = 1 /\ lastChallenge = 0
    /\ score = <<>>
    /\ read = {}

-----------------------------------------------------------------------------
(* What other requests do between the two statements. *)

SignUp(u) == accounts' = accounts \cup {u} /\ UNCHANGED correct
Solve(a) ==
    /\ a.user \in accounts /\ Cardinality(correct) < MaxAnswers
    /\ correct' = correct \cup {a} /\ UNCHANGED accounts
DeleteChallenge(c) == correct' = {a \in correct : a.challenge # c} /\ UNCHANGED accounts

Others ==
    /\ stage = "users_3"
    /\ (\E u \in Users : SignUp(u)) \/ (\E a \in Answers : Solve(a))
           \/ (\E c \in Challenges : DeleteChallenge(c))
    /\ UNCHANGED <<stage, loop, read>>

-----------------------------------------------------------------------------
(* The request. *)

Sorted(set, Le(_, _)) ==
    {s \in SetToSeqs(set) : \A j, k \in DOMAIN s : j < k => Le(s[j], s[k])}

ById(u, v) == u <= v

BugByUserOnly(a, b) == a.user <= b.user

\* compare_answers: by user, then by challenge.
ByUserAndChallenge(a, b) == a.user < b.user \/ (a.user = b.user /\ a.challenge <= b.challenge)

\* qsort of the accounts by id, and of the answers by user and challenge.
SortedUsers == Sorted(accounts, ById)
SortedAnswers == Sorted(correct, ByUserAndChallenge)

\* SELECT id,username FROM users; the array is sorted by id before the walk.
GetUsers2 ==
    /\ stage = "users_2"
    /\ users' \in SortedUsers
    /\ score' = [u \in accounts |-> 0]
    /\ stage' = "users_3"
    /\ UNCHANGED <<tables, answers, i, answerIndex, lastChallenge, read>>

\* SELECT ... FROM answers WHERE is_correct=1, sorted; the walk begins.
GetUsers3 ==
    /\ stage = "users_3"
    /\ answers' \in SortedAnswers
    /\ read' = correct
    /\ stage' = "merge"
    /\ UNCHANGED <<tables, users, i, answerIndex, lastChallenge, score>>

\* db error in either statement: 500.
Fails ==
    /\ stage \in {"users_2", "users_3"}
    /\ stage' = "done" /\ users' = <<>> /\ score' = <<>>
    /\ UNCHANGED <<tables, answers, i, answerIndex, lastChallenge, read>>

Merging == stage = "merge" /\ i <= Len(users)
Current == answers[answerIndex]
InReach == answerIndex <= Len(answers) /\ Current.user <= users[i]

TooLate(a) == EndEnabled /\ a.at >= EndAt

\* The answer is this user's, in time, and the first for its challenge.
Scores(a) == a.user = users[i] /\ ~TooLate(a) /\ a.challenge # lastChallenge

\* One turn of the inner loop: the answer is consumed, and may score.
TakeAnswer ==
    /\ Merging /\ InReach
    /\ answerIndex' = answerIndex + 1
    /\ IF Scores(Current)
       THEN /\ score' = [score EXCEPT ![users[i]] = @ + 100]
            /\ lastChallenge' = Current.challenge
       ELSE UNCHANGED <<score, lastChallenge>>
    /\ UNCHANGED <<tables, stage, users, answers, i, read>>

\* last_challenge = 0 for every user.
FirstChallenge == 0

\* The answers of this user are used up: on to the next user.
NextUser ==
    /\ Merging /\ ~InReach
    /\ i' = i + 1
    /\ lastChallenge' = FirstChallenge
    /\ UNCHANGED <<tables, stage, users, answers, answerIndex, score, read>>

\* compare_scores: higher score first, then by id.
ByScore(u, v) == score[u] > score[v] \/ (score[u] = score[v] /\ u <= v)

Rank ==
    /\ stage = "merge" /\ i > Len(users)
    /\ users' \in Sorted(ToSet(users), ByScore)
    /\ stage' = "done"
    /\ UNCHANGED <<tables, answers, i, answerIndex, lastChallenge, score, read>>

GetUsers == GetUsers2 \/ GetUsers3 \/ Fails \/ TakeAnswer \/ NextUser \/ Rank
Replied == stage = "done" /\ UNCHANGED boardVars
BoardNext == GetUsers \/ Others \/ Replied
BoardSpec == BoardInit /\ [][BoardNext]_boardVars

-----------------------------------------------------------------------------
(* Properties. *)

Ranked == stage = "done" /\ DOMAIN score # {}

\* score.c:29-94.  The walk over two sorted arrays gives every listed user 100
\* for each challenge solved before the end, however often, whatever answers
\* of users that the first statement missed lie in between; and the list is
\* ranked the same way however qsort leaves ties: each user once, no two
\* neighbours out of order by score and id.
ScoreIsReference ==
    Ranked =>
        /\ \A u \in DOMAIN score :
               score[u] = 100 * Cardinality({a.challenge : a \in
                   {b \in read : b.user = u /\ ~(EndEnabled /\ b.at >= EndAt)}})
        /\ ToSet(users) = DOMAIN score /\ Len(users) = Cardinality(DOMAIN score)
        /\ \A j \in 1..Len(users) - 1 :
               \/ score[users[j]] > score[users[j + 1]]
               \/ score[users[j]] = score[users[j + 1]] /\ users[j] < users[j + 1]
=============================================================================
