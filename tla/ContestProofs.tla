---------------------------- MODULE ContestProofs ----------------------------
(***************************************************************************)
(* Proofs about Contest for every number of requests, users, flags and     *)
(* seeded challenges: errors and successes that are true, grades that were *)
(* right, and acknowledged answers that stay and are listed.               *)
(***************************************************************************)
EXTENDS Contest, TLAPS

-----------------------------------------------------------------------------
(* The inductive invariant. *)

\* Stages that wait for a SELECT on the challenge the request is about.
Looking == {"put_2", "put_4", "delete_2", "delete_4", "submit_2", "submit_5", "answers_2",
            "mine_2"}

\* The DELETE of r removed its challenge.
Won(r) == (pc[r] = "delete_3" /\ res[r] = "ok" /\ rows[r] # {}) \/ Ended(r, "delete", "200")

\* The answer row a says what its request asked for.
IsAnswer(a) ==
    /\ a.id \in Requests /\ pc[a.id] # "idle"
    /\ arg[a.id].op = "submit" /\ a.challenge = arg[a.id].id /\ a.user = arg[a.id].user

\* The primary key of challenges, and where its new rows come from.
ChallengesTable ==
    /\ \A c, d \in challenges : c.id = d.id => c = d
    /\ \A c \in challenges :
           c.id \in Requests => pc[c.id] = "done" \/ (pc[c.id] = "create_2" /\ res[c.id] # "pending")

\* The foreign key of answers, and what its rows say.
AnswersTable ==
    \A a \in answers :
        /\ IsAnswer(a) /\ Exists(a.challenge)
        /\ \E f \in flagsSeen[a.id] : a.correct = (a.flag = f)

\* A challenge is deleted once.
OneDeletion == \A r, q \in Requests : Won(r) /\ Won(q) /\ arg[r].id = arg[q].id => r = q

\* The handler of a request belongs to its operation; an answer ends it.
Control(r) ==
    /\ pc[r] = "idle" => arg[r].op = "none"
    /\ pc[r] = "create_2" => arg[r].op = "create"
    /\ pc[r] \in {"put_2", "put_3", "put_4"} => arg[r].op = "put"
    /\ pc[r] \in {"delete_2", "delete_3", "delete_4"} => arg[r].op = "delete"
    /\ pc[r] \in {"submit_2", "submit_3", "submit_4", "submit_5"} => arg[r].op = "submit"
    /\ pc[r] = "list_2" => arg[r].op = "list"
    /\ pc[r] = "own_2" => arg[r].op = "own"
    /\ pc[r] \in {"answers_2", "answers_3"} => arg[r].op = "answers"
    /\ pc[r] \in {"mine_2", "mine_3"} => arg[r].op = "mine"
    /\ pc[r] # "done" => answer[r] = "none"
    /\ res[r] = "error" => r \in hurt \/ pc[r] = "submit_3"

\* What a request asks for is well formed; the id it names is known.
Asked(r) ==
    /\ arg[r].op \in {"put", "delete", "submit"} => arg[r].id \in Known
    /\ arg[r].op \in {"answers", "mine"} => arg[r].id \in Known \cup {None}
    /\ arg[r].op \in {"create", "put", "submit"} => arg[r].flag \in Flags
    /\ arg[r].op \in {"create", "put", "delete", "submit"} => arg[r].user \in Users
    /\ pc[r] = "idle" => arg[r].id = None

\* A challenge that is still there was there when the request looked; and
\* the history of its flags is complete while the request runs.
LookFacts(r) ==
    /\ pc[r] \in Looking /\ res[r] = "ok" /\ arg[r].id # None /\ Exists(arg[r].id) =>
           Target(r, rows[r]) # {}
    /\ Running(r) => \A c \in Target(r, challenges) : c.flag \in flagsSeen[r]
    /\ pc[r] = "submit_2" /\ res[r] = "ok" => \A c \in Target(r, rows[r]) : c.flag \in flagsSeen[r]

\* A change that touched no row found none of its user, and never will.
ChangeFacts(r) ==
    /\ (pc[r] = "put_3" /\ res[r] = "ok") \/ pc[r] = "put_4" => r \in tookEffect \/ Mine(r) = {}
    /\ pc[r] = "put_3" /\ res[r] = "ok" /\ rows[r] # {} => r \in tookEffect
    /\ pc[r] = "put_4" /\ res[r] = "ok" =>
           r \in tookEffect \/ \A c \in Target(r, rows[r]) : c.owner # arg[r].user
    /\ (pc[r] = "delete_3" /\ res[r] = "ok" /\ rows[r] = {}) \/ pc[r] = "delete_4" => Mine(r) = {}
    /\ pc[r] = "delete_4" /\ res[r] = "ok" =>
           \A c \in Target(r, rows[r]) : c.owner # arg[r].user
    /\ Won(r) => ~Exists(arg[r].id)

\* A submission carries a grade that was right; from its INSERT on its row is
\* there as long as the challenge is.
SubmitFacts(r) ==
    /\ pc[r] = "submit_3" => \E f \in flagsSeen[r] : grade[r] = (arg[r].flag = f)
    /\ (pc[r] = "submit_3" /\ res[r] = "ok") \/ pc[r] = "submit_4" \/ Ended(r, "submit", "200") =>
           (Exists(arg[r].id) => \E a \in answers : a.id = r)
    /\ pc[r] = "submit_4" /\ res[r] = "ok" /\ Exists(arg[r].id) => \E a \in rows[r] : a.id = r
    /\ (pc[r] = "submit_3" /\ res[r] = "error") \/ pc[r] = "submit_5" =>
           r \in hurt \/ ~Exists(arg[r].id)
    /\ pc[r] = "submit_5" /\ res[r] = "ok" => r \in hurt \/ Target(r, rows[r]) = {}

\* A listing of one's own answers has every answer acknowledged before it.
ListFacts(r) ==
    /\ acked[r] \subseteq Acknowledged
    /\ pc[r] = "mine_3" /\ res[r] = "ok" =>
           /\ \A a \in rows[r] : IsAnswer(a)
           /\ \A q \in acked[r] : Exists(arg[q].id) => \E a \in rows[r] : a.id = q

\* What an answer promises its client, now and later.
Answered(r) ==
    /\ answer[r] = "404" => arg[r].id \in Known /\ ~Exists(arg[r].id)
    /\ answer[r] = "500" =>
           \/ r \in hurt
           \/ arg[r].op = "submit" /\ flagsSeen[r] \cap Undecodable # {}
    /\ Ended(r, "put", "200") => r \in tookEffect
    /\ Ended(r, "mine", "200") =>
           \A q \in acked[r] :
               arg[q].user = arg[r].user /\ arg[r].id \in {None, arg[q].id} /\ Exists(arg[q].id) =>
                   \E a \in body[r] : a.id = q

Facts(r) ==
    /\ Control(r) /\ Asked(r) /\ LookFacts(r) /\ ChangeFacts(r) /\ SubmitFacts(r)
    /\ ListFacts(r) /\ Answered(r)

IInv ==
    /\ TypeOK /\ ChallengesTable /\ AnswersTable /\ OneDeletion
    /\ \A r \in Requests : Facts(r)

-----------------------------------------------------------------------------
(* Statements. *)

Did(status, result, cs, as) ==
    [status |-> status, rows |-> result, challenges |-> cs, answers |-> as]

NewChallenge(r) == [id |-> r, owner |-> arg[r].user, flag |-> arg[r].flag]
NewAnswer(r) ==
    [id |-> r, challenge |-> arg[r].id, user |-> arg[r].user, flag |-> arg[r].flag,
     correct |-> grade[r]]

\* What each handler's statement returns and leaves in the tables.
LEMMA StatementIs ==
    ASSUME NEW r
    PROVE  /\ pc[r] \in {"submit_4", "answers_3", "mine_3"} =>
                  Statement(r) = Did("ok", answers, challenges, answers)
           /\ pc[r] = "create_2" =>
                  Statement(r) = Did("ok", {NewChallenge(r)}, challenges \cup {NewChallenge(r)}, answers)
           /\ pc[r] = "put_3" =>
                  Statement(r) = Did("ok", Rewritten(r) \ challenges,
                                     (challenges \ Mine(r)) \cup Rewritten(r), answers)
           /\ pc[r] = "delete_3" =>
                  Statement(r) = Did("ok", Mine(r), challenges \ Mine(r), Cascade(Mine(r)))
           /\ pc[r] = "submit_3" /\ Target(r, challenges) = {} =>
                  Statement(r) = Did("error", {}, challenges, answers)
           /\ pc[r] = "submit_3" /\ Target(r, challenges) # {} =>
                  Statement(r) = Did("ok", {NewAnswer(r)}, challenges, answers \cup {NewAnswer(r)})
           /\ pc[r] \in Looking \cup {"list_2", "own_2"} =>
                  Statement(r) = Did("ok", challenges, challenges, answers)
<1> USE DEF Statement, Did, NewChallenge, NewAnswer
<1>1. ASSUME pc[r] \in {"submit_4", "answers_3", "mine_3"}
      PROVE  Statement(r) = Did("ok", answers, challenges, answers)
  BY <1>1, Zenon
<1>2. ASSUME pc[r] = "create_2"
      PROVE  Statement(r) = Did("ok", {NewChallenge(r)}, challenges \cup {NewChallenge(r)}, answers)
  BY <1>2, Zenon
<1>3. ASSUME pc[r] = "put_3"
      PROVE  Statement(r) = Did("ok", Rewritten(r) \ challenges,
                                (challenges \ Mine(r)) \cup Rewritten(r), answers)
  BY <1>3, Zenon
<1>4. ASSUME pc[r] = "delete_3"
      PROVE  Statement(r) = Did("ok", Mine(r), challenges \ Mine(r), Cascade(Mine(r)))
  BY <1>4, Zenon
<1>5. ASSUME pc[r] = "submit_3", Target(r, challenges) = {}
      PROVE  Statement(r) = Did("error", {}, challenges, answers)
  BY <1>5, Zenon
<1>6. ASSUME pc[r] = "submit_3", Target(r, challenges) # {}
      PROVE  Statement(r) = Did("ok", {NewAnswer(r)}, challenges, answers \cup {NewAnswer(r)})
  BY <1>6, Zenon
<1>7. ASSUME pc[r] \in Looking \cup {"list_2", "own_2"}
      PROVE  Statement(r) = Did("ok", challenges, challenges, answers)
  BY <1>7, Zenon DEF Looking
<1> HIDE DEF Statement, Did, NewChallenge, NewAnswer
<1>8. QED BY <1>1, <1>2, <1>3, <1>4, <1>5, <1>6, <1>7

-----------------------------------------------------------------------------
(* Type correctness. *)

\* Ids that clients know are ids of rows; the seeds are rows.
LEMMA SeedTypes == Known \subseteq Ids /\ Seeds \subseteq Challenges /\ None \notin Ids
BY SeedsAreRows, NoneIsNoId DEF Known, Ids, Challenges

\* Every statement leaves rows and tables in their ranges.
LEMMA StatementType ==
    ASSUME IInv, NEW r \in Requests, Waiting(r)
    PROVE  /\ Statement(r).status \in {"ok", "error"}
           /\ Statement(r).rows \subseteq Challenges \/ Statement(r).rows \subseteq Answers
           /\ Statement(r).challenges \subseteq Challenges
           /\ Statement(r).answers \subseteq Answers
<1>0. TypeOK /\ Control(r) /\ Asked(r)
  BY DEF IInv, Facts
<1>1. challenges \subseteq Challenges /\ answers \subseteq Answers /\ pc[r] \in Stages
  BY <1>0 DEF TypeOK
<1>2. CASE pc[r] \in {"submit_4", "answers_3", "mine_3"}
  <2>1. Statement(r) = Did("ok", answers, challenges, answers)
    BY <1>2, StatementIs
  <2>2. QED BY ONLY <1>1, <2>1 DEF Did
<1>3. CASE pc[r] = "create_2"
  <2>1. Statement(r) = Did("ok", {NewChallenge(r)}, challenges \cup {NewChallenge(r)}, answers)
    BY <1>3, StatementIs
  <2>2. NewChallenge(r) \in Challenges
    BY <1>0, <1>3 DEF Control, Asked, NewChallenge, Challenges, Ids
  <2>3. QED BY ONLY <1>1, <2>1, <2>2 DEF Did
<1>4. CASE pc[r] = "put_3"
  <2>1. Statement(r) = Did("ok", Rewritten(r) \ challenges,
                           (challenges \ Mine(r)) \cup Rewritten(r), answers)
    BY <1>4, StatementIs
  <2>2. arg[r].flag \in Flags
    BY <1>0, <1>4 DEF Control, Asked
  <2>3. Mine(r) \subseteq Challenges
    BY <1>1 DEF Mine, Target
  <2>4. Rewritten(r) \subseteq Challenges
    BY <2>2, <2>3 DEF Rewritten, Challenges
  <2>5. QED BY ONLY <1>1, <2>1, <2>4 DEF Did
<1>5. CASE pc[r] = "delete_3"
  <2>1. Statement(r) = Did("ok", Mine(r), challenges \ Mine(r), Cascade(Mine(r)))
    BY <1>5, StatementIs
  <2>2. Mine(r) \subseteq Challenges /\ Cascade(Mine(r)) \subseteq Answers
    BY <1>1 DEF Mine, Target, Cascade
  <2>3. QED BY ONLY <1>1, <2>1, <2>2 DEF Did
<1>6. CASE pc[r] = "submit_3" /\ Target(r, challenges) = {}
  <2>1. Statement(r) = Did("error", {}, challenges, answers)
    BY <1>6, StatementIs
  <2>2. QED BY ONLY <1>1, <2>1 DEF Did
<1>7. CASE pc[r] = "submit_3" /\ Target(r, challenges) # {}
  <2>1. Statement(r) = Did("ok", {NewAnswer(r)}, challenges, answers \cup {NewAnswer(r)})
    BY <1>7, StatementIs
  <2>2. NewAnswer(r) \in Answers
    BY <1>0, <1>7, SeedTypes DEF Control, Asked, NewAnswer, Answers, TypeOK
  <2>3. QED BY ONLY <1>1, <2>1, <2>2 DEF Did
<1>8. CASE pc[r] \in Looking \cup {"list_2", "own_2"}
  <2>1. Statement(r) = Did("ok", challenges, challenges, answers)
    BY <1>8, StatementIs
  <2>2. QED BY ONLY <1>1, <2>1 DEF Did
<1>9. QED BY <1>1, <1>2, <1>3, <1>4, <1>5, <1>6, <1>7, <1>8 DEF Waiting, Running, Stages, Looking

\* Moving a request along: it waits for a next result, or is answered with
\* part of the rows it was given.
Moves(r) ==
    /\ \/ \E stage \in Stages \ {"idle", "done"} :
              /\ pc' = [pc EXCEPT ![r] = stage]
              /\ UNCHANGED <<answer, body, hurt>>
       \/ /\ pc' = [pc EXCEPT ![r] = "done"]
          /\ \E status \in Statuses \ {"none"}, shown \in SUBSET rows[r] :
                /\ answer' = [answer EXCEPT ![r] = status]
                /\ body' = body \/ body' = [body EXCEPT ![r] = shown]
          /\ hurt' \in {hurt, hurt \cup {r}}
    /\ Consumed(r)

\* Moving a request along keeps its control state and its body in range.
LEMMA MoveType ==
    ASSUME TypeOK, NEW r \in Requests, Moves(r)
    PROVE  /\ pc' \in [Requests -> Stages]
           /\ res' \in [Requests -> {"pending", "ok", "error"}]
           /\ rows' \in [Requests -> (SUBSET Challenges) \cup (SUBSET Answers)]
           /\ \A q \in Requests : res'[q] = "pending" => rows'[q] = {}
           /\ answer' \in [Requests -> Statuses]
           /\ body' \in [Requests -> (SUBSET Challenges) \cup (SUBSET Answers)]
           /\ hurt' \subseteq Requests
<1>1. rows' = [rows EXCEPT ![r] = {}] /\ res' = [res EXCEPT ![r] = "pending"]
  BY DEF Moves, Consumed
<1>2. rows' \in [Requests -> (SUBSET Challenges) \cup (SUBSET Answers)]
  <2>1. {} \in (SUBSET Challenges) \cup (SUBSET Answers)
    OBVIOUS
  <2>2. QED BY <1>1, <2>1 DEF TypeOK
<1>3. \A q \in Requests : res'[q] = "pending" => rows'[q] = {}
  BY <1>1 DEF TypeOK
<1>4. body' \in [Requests -> (SUBSET Challenges) \cup (SUBSET Answers)]
  <2>1. ASSUME NEW shown \in SUBSET rows[r]
        PROVE  shown \in (SUBSET Challenges) \cup (SUBSET Answers)
    BY <2>1 DEF TypeOK
  <2>2. CASE body' = body
    BY <2>2 DEF TypeOK
  <2>3. CASE \E shown \in SUBSET rows[r] : body' = [body EXCEPT ![r] = shown]
    <3>1. PICK shown \in SUBSET rows[r] : body' = [body EXCEPT ![r] = shown]
      BY <2>3
    <3>2. shown \in (SUBSET Challenges) \cup (SUBSET Answers)
      BY <2>1
    <3>3. QED BY <3>1, <3>2 DEF TypeOK
  <2>4. QED BY <2>2, <2>3 DEF Moves
<1>5. pc' \in [Requests -> Stages]
  BY DEF Moves, TypeOK, Stages
<1>6. answer' \in [Requests -> Statuses]
  BY DEF Moves, TypeOK
<1>7. hurt' \subseteq Requests
  BY DEF Moves, TypeOK
<1>8. QED BY <1>1, <1>2, <1>3, <1>4, <1>5, <1>6, <1>7 DEF TypeOK

\* Every handler is a move of its request; it writes nothing else of it, but
\* for what an arrival notes down and the grade of submit_2.
LEMMA HandlerMoves ==
    ASSUME NEW r \in Requests, Handler(r) \/ Abandon(r)
    PROVE  Moves(r) /\ UNCHANGED <<challenges, answers, dbUp, started, tookEffect>>
<1> USE DEF Moves, Query, Fault, Answer, Respond, Stages, Statuses, tables, Rest
<1>1. ASSUME NEW op, NEW u, NEW id, NEW f, NEW stage \in Stages \ {"idle", "done"},
             Arrive(r, op, u, id, f, stage)
      PROVE  Moves(r) /\ UNCHANGED <<challenges, answers, dbUp, started, tookEffect>>
  BY <1>1 DEF Arrive
<1>2. CASE PostChallenges1(r) \/ PutChallenges1(r) \/ DeleteChallenges1(r) \/ GetOwnChallenges1(r)
           \/ PostAnswers1(r) \/ GetAnswers1(r) \/ GetOwnAnswers1(r)
  BY <1>1, <1>2 DEF PostChallenges1, PutChallenges1, DeleteChallenges1, GetOwnChallenges1,
                    PostAnswers1, GetAnswers1, GetOwnAnswers1
<1>3. CASE GetChallenges1(r)
  BY <1>1, <1>3 DEF GetChallenges1
<1>4. CASE PostChallenges2(r) \/ GetChallenges2(r) \/ GetOwnChallenges2(r)
  BY <1>4 DEF PostChallenges2, GetChallenges2, GetOwnChallenges2
<1>5. ASSUME NEW stage, NEW next \in Stages \ {"idle", "done"},
             CheckAccess(r, stage, next) \/ Written(r, stage, next) \/ CheckFilter(r, stage, next)
             \/ List(r, stage)
      PROVE  Moves(r) /\ UNCHANGED <<challenges, answers, dbUp, started, tookEffect>>
  BY <1>5 DEF CheckAccess, Access, Written, CheckFilter, List
<1>6. CASE PutChallenges2(r) \/ DeleteChallenges2(r) \/ PutChallenges3(r) \/ DeleteChallenges3(r)
           \/ GetAnswers2(r) \/ GetOwnAnswers2(r) \/ GetAnswers3(r) \/ GetOwnAnswers3(r)
  BY <1>5, <1>6 DEF PutChallenges2, DeleteChallenges2, PutChallenges3, DeleteChallenges3,
                    GetAnswers2, GetOwnAnswers2, GetAnswers3, GetOwnAnswers3
<1>7. CASE PutChallenges4(r) \/ DeleteChallenges4(r)
  BY <1>7 DEF PutChallenges4, DeleteChallenges4, Access
<1>8. CASE PostAnswers2(r) \/ PostAnswers3(r) \/ PostAnswers4(r) \/ PostAnswers5(r)
  BY <1>8 DEF PostAnswers2, PostAnswers3, PostAnswers4, PostAnswers5
<1>9. CASE Abandon(r)
  BY <1>9 DEF Abandon
<1>10. QED BY <1>2, <1>3, <1>4, <1>6, <1>7, <1>8, <1>9 DEF Handler

\* What an arrival notes down.
Arrives(r) ==
    /\ pc[r] = "idle"
    /\ \E op \in AllOps, u \in Users \cup {None}, id \in Known \cup {None}, f \in Flags \cup {None} :
           arg' = [arg EXCEPT ![r] = [op |-> op, user |-> u, id |-> id, flag |-> f]]
    /\ \/ UNCHANGED <<flagsSeen, acked>> /\ pc'[r] = "done"
       \/ /\ flagsSeen' = [flagsSeen EXCEPT ![r] = {c.flag : c \in {c \in challenges : c.id = arg'[r].id}}]
          /\ acked' = [acked EXCEPT ![r] = Acknowledged]
    /\ UNCHANGED grade

Continues(r) ==
    /\ Running(r)
    /\ UNCHANGED <<arg, flagsSeen, acked>>
    /\ \E g \in BOOLEAN : grade' = [grade EXCEPT ![r] = g] \/ UNCHANGED grade

\* A handler begins its request or continues it.
LEMMA HandlerWrites ==
    ASSUME IInv, NEW r \in Requests, Handler(r) \/ Abandon(r)
    PROVE  Arrives(r) \/ Continues(r)
<1>0. TypeOK
  BY DEF IInv
<1>1. ASSUME NEW op \in AllOps, NEW u \in Users \cup {None}, NEW id \in Known \cup {None},
             NEW f \in Flags \cup {None}, NEW stage, Arrive(r, op, u, id, f, stage)
      PROVE  Arrives(r)
  <2>1. arg'[r].id = id
    BY <1>0, <1>1 DEF Arrive, TypeOK
  <2>2. QED BY <1>1, <2>1 DEF Arrive, Arrives
<1>2. CASE PostChallenges1(r) \/ PutChallenges1(r) \/ DeleteChallenges1(r) \/ GetOwnChallenges1(r)
           \/ PostAnswers1(r) \/ GetAnswers1(r) \/ GetOwnAnswers1(r)
  BY <1>1, <1>2 DEF PostChallenges1, PutChallenges1, DeleteChallenges1, GetOwnChallenges1,
                    PostAnswers1, GetAnswers1, GetOwnAnswers1, AllOps
<1>3. CASE GetChallenges1(r)
  <2>1. CASE Arrive(r, "list", None, None, None, "list_2")
    BY <1>1, <2>1 DEF AllOps
  <2>2. CASE ~Arrive(r, "list", None, None, None, "list_2")
    <3>1. /\ pc[r] = "idle" /\ arg' = [arg EXCEPT ![r].op = "list"]
          /\ pc' = [pc EXCEPT ![r] = "done"] /\ UNCHANGED <<flagsSeen, acked, grade>>
      BY <1>3, <2>2 DEF GetChallenges1, Answer, Respond, Fault
    <3>2. arg[r].id = None
      BY <3>1 DEF IInv, Facts, Asked
    <3>3. arg[r] \in [op : AllOps \cup {"none"}, user : Users \cup {None},
                      id : Ids \cup {None}, flag : Flags \cup {None}]
      BY <1>0 DEF TypeOK
    <3> DEFINE new == [op |-> "list", user |-> arg[r].user, id |-> None, flag |-> arg[r].flag]
    <3>4. [arg[r] EXCEPT !.op = "list"] = new
      BY <3>2, <3>3
    <3>5. arg' = [arg EXCEPT ![r] = new]
      BY <3>1, <3>4
    <3>6. "list" \in AllOps /\ arg[r].user \in Users \cup {None} /\ None \in Known \cup {None}
          /\ arg[r].flag \in Flags \cup {None}
      BY <3>3 DEF AllOps
    <3>7. \E op \in AllOps, u \in Users \cup {None}, id \in Known \cup {None}, f \in Flags \cup {None} :
              arg' = [arg EXCEPT ![r] = [op |-> op, user |-> u, id |-> id, flag |-> f]]
      BY <3>5, <3>6, Zenon
    <3>8. pc'[r] = "done"
      BY <1>0, <3>1 DEF TypeOK
    <3>9. QED BY <3>1, <3>7, <3>8, Zenon DEF Arrives
  <2>3. QED BY <2>1, <2>2
<1>4. CASE PostChallenges2(r) \/ GetChallenges2(r) \/ GetOwnChallenges2(r)
  BY <1>4 DEF PostChallenges2, GetChallenges2, GetOwnChallenges2, Continues, Resumes, Running, Rest
<1>5. ASSUME NEW stage \in Stages \ {"idle", "done"}, NEW next,
             CheckAccess(r, stage, next) \/ Written(r, stage, next) \/ CheckFilter(r, stage, next)
             \/ List(r, stage)
      PROVE  Continues(r)
  BY <1>5 DEF CheckAccess, Written, CheckFilter, List, Continues, Resumes, Running, Rest
<1>6. CASE PutChallenges2(r) \/ DeleteChallenges2(r) \/ PutChallenges3(r) \/ DeleteChallenges3(r)
           \/ GetAnswers2(r) \/ GetOwnAnswers2(r) \/ GetAnswers3(r) \/ GetOwnAnswers3(r)
  BY <1>5, <1>6 DEF PutChallenges2, DeleteChallenges2, PutChallenges3, DeleteChallenges3,
                    GetAnswers2, GetOwnAnswers2, GetAnswers3, GetOwnAnswers3, Stages
<1>7. CASE PutChallenges4(r) \/ DeleteChallenges4(r)
  BY <1>7 DEF PutChallenges4, DeleteChallenges4, Continues, Resumes, Running, Rest
<1>8. CASE PostAnswers2(r)
  BY <1>8 DEF PostAnswers2, Correct, Continues, Resumes, Running, Rest
<1>9. CASE PostAnswers3(r) \/ PostAnswers4(r) \/ PostAnswers5(r)
  BY <1>9 DEF PostAnswers3, PostAnswers4, PostAnswers5, Continues, Resumes, Running, Rest
<1>10. CASE Abandon(r)
  BY <1>10 DEF Abandon, Continues, Rest
<1>11. QED BY <1>2, <1>3, <1>4, <1>6, <1>7, <1>8, <1>9, <1>10 DEF Handler

\* Every handler keeps every variable in its range.
LEMMA HandlerType ==
    ASSUME IInv, NEW r \in Requests, Handler(r) \/ Abandon(r)
    PROVE  TypeOK'
<1>0. TypeOK
  BY DEF IInv
<1>1. /\ Moves(r) /\ UNCHANGED <<challenges, answers, dbUp, started, tookEffect>>
      /\ Arrives(r) \/ Continues(r)
  BY HandlerMoves, HandlerWrites
<1>2. arg' \in [Requests -> [op : AllOps \cup {"none"}, user : Users \cup {None},
                             id : Ids \cup {None}, flag : Flags \cup {None}]]
  BY <1>0, <1>1, SeedTypes DEF Arrives, Continues, TypeOK
<1>3. flagsSeen' \in [Requests -> SUBSET Flags]
  <2>1. {c.flag : c \in {c \in challenges : c.id = arg'[r].id}} \in SUBSET Flags
    BY <1>0 DEF TypeOK, Challenges
  <2>2. QED BY SMTT(30), <1>0, <1>1, <2>1 DEF Arrives, Continues, TypeOK
<1>4. acked' \in [Requests -> SUBSET Requests]
  <2>1. Acknowledged \in SUBSET Requests
    BY DEF Acknowledged
  <2>2. QED BY <1>0, <1>1, <2>1 DEF Arrives, Continues, TypeOK
<1>5. grade' \in [Requests -> BOOLEAN]
  BY <1>0, <1>1 DEF Arrives, Continues, TypeOK
<1>6. QED BY <1>0, <1>1, <1>2, <1>3, <1>4, <1>5, MoveType DEF TypeOK

-----------------------------------------------------------------------------
(* What a step of one request can do to the others. *)

\* The step belongs to request r, which is not over: it moves no other
\* request, adds at most the challenge that r creates, and an answer goes only
\* with its challenge.
Local(r) ==
    /\ pc[r] # "done" /\ pc'[r] # "idle"
    /\ pc[r] # "idle" => arg'[r] = arg[r] /\ flagsSeen[r] \subseteq flagsSeen'[r]
    /\ \A q \in Requests \ {r} :
           /\ pc'[q] = pc[q] /\ res'[q] = res[q] /\ rows'[q] = rows[q] /\ arg'[q] = arg[q]
           /\ grade'[q] = grade[q] /\ answer'[q] = answer[q] /\ body'[q] = body[q]
           /\ acked'[q] = acked[q]
           /\ flagsSeen[q] \subseteq flagsSeen'[q]
           /\ Running(q) => \A c \in Target(q, challenges)' : c.flag \in flagsSeen'[q]
    /\ hurt \subseteq hurt' /\ tookEffect \subseteq tookEffect'
    /\ \A c \in challenges' :
           \/ c.id = r /\ pc[r] = "create_2"
           \/ \E d \in challenges : d.id = c.id /\ d.owner = c.owner
    /\ \A a \in answers : a \in answers' \/ ~Exists(a.challenge)'

\* What clients know they go on knowing; a known challenge that is gone, or
\* another's, stays so.
LEMMA KnownStay ==
    ASSUME IInv, NEW r \in Requests, Local(r)
    PROVE  /\ r \notin Known /\ Known \subseteq Known'
           /\ r \notin Acknowledged /\ Acknowledged \subseteq Acknowledged'
           /\ \A id \in Known : Exists(id)' => Exists(id)
           /\ \A q \in Acknowledged : arg'[q] = arg[q] /\ arg[q].id \in Known
<1>1. answer[r] = "none"
  BY DEF IInv, Facts, Control, Local
<1>2. r \notin Known
  BY <1>1, SeedsAreRows DEF Known
<1>3. r \notin Acknowledged
  BY <1>1 DEF Acknowledged
<1>4. Known \subseteq Known'
  BY <1>2 DEF Known, Local
<1>5. Acknowledged \subseteq Acknowledged'
  BY <1>3 DEF Acknowledged, Local
<1>6. ASSUME NEW id \in Known, Exists(id)' PROVE Exists(id)
  BY <1>2, <1>6 DEF Exists, Local
<1>7. ASSUME NEW q \in Acknowledged PROVE arg'[q] = arg[q] /\ arg[q].id \in Known
  <2>1. q \in Requests \ {r} /\ arg[q].op = "submit"
    BY <1>3 DEF Acknowledged
  <2>2. Asked(q)
    BY <2>1 DEF IInv, Facts
  <2>3. QED BY <2>1, <2>2 DEF Local, Asked
<1>8. QED BY <1>2, <1>3, <1>4, <1>5, <1>6, <1>7

\* A stored answer stays until its challenge goes, and says what it said.
LEMMA AnswersStay ==
    ASSUME IInv, NEW r \in Requests, Local(r)
    PROVE  /\ \A a : IsAnswer(a) => IsAnswer(a)'
           /\ \A q \in Requests :
                  /\ arg[q].op = "submit" /\ Exists(arg[q].id)'
                  /\ \E a \in answers : a.id = q
                  => \E a \in answers' : a.id = q
<1>1. ASSUME NEW a, IsAnswer(a) PROVE IsAnswer(a)'
  BY <1>1 DEF IsAnswer, Local
<1>2. ASSUME NEW q \in Requests, Exists(arg[q].id)', NEW a \in answers, a.id = q
      PROVE  a \in answers'
  <2>1. IsAnswer(a)
    BY <1>2 DEF IInv, AnswersTable
  <2>2. QED BY <1>2, <2>1 DEF IsAnswer, Local
<1>3. QED BY <1>1, <1>2

\* What the other requests know stays true.
LEMMA OthersKeep ==
    ASSUME IInv, NEW r \in Requests, Local(r), NEW q \in Requests \ {r}
    PROVE  Facts(q)'
<1>0. /\ Facts(q) /\ q \in Requests
      /\ pc'[q] = pc[q] /\ res'[q] = res[q] /\ rows'[q] = rows[q] /\ arg'[q] = arg[q]
      /\ grade'[q] = grade[q] /\ answer'[q] = answer[q] /\ body'[q] = body[q]
      /\ acked'[q] = acked[q]
      /\ flagsSeen[q] \subseteq flagsSeen'[q]
      /\ hurt \subseteq hurt' /\ tookEffect \subseteq tookEffect'
  BY DEF IInv, Local
<1>1. /\ Known \subseteq Known' /\ Acknowledged \subseteq Acknowledged'
      /\ \A id \in Known : Exists(id)' => Exists(id)
      /\ \A p \in Acknowledged : arg'[p] = arg[p] /\ arg[p].id \in Known
  BY KnownStay
<1>2. Control(q)'
  BY <1>0 DEF Facts, Control
<1>3. Asked(q)'
  BY <1>0, <1>1 DEF Facts, Asked
<1>4. arg[q].op \in {"put", "delete", "submit", "answers", "mine"} /\ arg[q].id # None =>
          (Exists(arg[q].id)' => Exists(arg[q].id))
  BY <1>0, <1>1 DEF Facts, Asked, Exists
<1>5. arg[q].op \in {"put", "delete", "submit"} => arg[q].id # None
  BY <1>0, SeedTypes DEF Facts, Asked
<1>6. LookFacts(q)'
  <2>1. pc[q] \in Looking => arg[q].op \in {"put", "delete", "submit", "answers", "mine"}
    BY <1>0 DEF Facts, Control, Looking
  <2>2. Target(q, rows[q])' = Target(q, rows[q])
    BY <1>0 DEF Target
  <2>3. Running(q)' = Running(q)
    BY <1>0 DEF Running
  <2>4. Running(q) => \A c \in Target(q, challenges)' : c.flag \in flagsSeen'[q]
    BY DEF Local
  <2>5. QED BY <1>0, <1>4, <2>1, <2>2, <2>3, <2>4 DEF Facts, LookFacts
<1>7. ChangeFacts(q)'
  <2>1. ASSUME arg[q].op \in {"put", "delete"}, Mine(q) = {} PROVE Mine(q)' = {}
    <3>1. SUFFICES ASSUME NEW c \in Mine(q)' PROVE FALSE
      OBVIOUS
    <3>2. c \in challenges' /\ c.id = arg[q].id /\ c.owner = arg[q].user
      BY <1>0 DEF Mine, Target
    <3>3. c.id # r
      BY <1>0, <2>1, <3>2, KnownStay DEF Facts, Asked
    <3>4. PICK d \in challenges : d.id = c.id /\ d.owner = c.owner
      BY <3>2, <3>3 DEF Local
    <3>5. d \in Mine(q)
      BY <3>2, <3>4 DEF Mine, Target
    <3>6. QED BY <2>1, <3>5
  <2>2. Target(q, rows[q])' = Target(q, rows[q])
    BY <1>0 DEF Target
  <2>3. Won(q)' = Won(q)
    BY <1>0 DEF Won, Ended
  <2>4. Won(q) => arg[q].op = "delete"
    BY <1>0 DEF Won, Ended, Facts, Control
  <2>5. Won(q)' => ~Exists(arg[q].id)'
    BY <1>0, <1>4, <1>5, <2>3, <2>4 DEF Facts, ChangeFacts
  <2>6. pc[q] \in {"put_3", "put_4", "delete_3", "delete_4"} => arg[q].op \in {"put", "delete"}
    BY <1>0 DEF Facts, Control
  <2>7. QED BY <1>0, <2>1, <2>2, <2>5, <2>6 DEF Facts, ChangeFacts
<1>8. SubmitFacts(q)'
  <2>1. ASSUME arg[q].op = "submit"
        PROVE  /\ Exists(arg[q].id)' => Exists(arg[q].id)
               /\ Exists(arg[q].id)' /\ (\E a \in answers : a.id = q) => \E a \in answers' : a.id = q
    BY <1>0, <1>4, <1>5, <2>1, AnswersStay
  <2>2. pc[q] \in {"submit_3", "submit_4", "submit_5"} \/ Ended(q, "submit", "200") =>
            arg[q].op = "submit"
    BY <1>0 DEF Ended, Facts, Control
  <2>3. Target(q, rows[q])' = Target(q, rows[q]) /\ Ended(q, "submit", "200")' = Ended(q, "submit", "200")
    BY <1>0 DEF Target, Ended
  <2>4. QED BY <1>0, <2>1, <2>2, <2>3 DEF Facts, SubmitFacts
<1>9. ListFacts(q)'
  <2>1. \A a : IsAnswer(a) => IsAnswer(a)'
    BY AnswersStay
  <2>2. \A p \in acked[q] : Exists(arg[p].id)' => Exists(arg[p].id)
    BY <1>0, <1>1 DEF Facts, ListFacts, Exists
  <2>3. QED BY <1>0, <1>1, <2>1, <2>2 DEF Facts, ListFacts
<1>10. Answered(q)'
  <2>1. \A p \in acked[q] : arg'[p] = arg[p] /\ (Exists(arg[p].id)' => Exists(arg[p].id))
    BY <1>0, <1>1 DEF Facts, ListFacts, Exists
  <2>2. QED BY <1>0, <1>1, <2>1 DEF Facts, Answered, Ended
<1>11. QED BY <1>2, <1>3, <1>6, <1>7, <1>8, <1>9, <1>10 DEF Facts

-----------------------------------------------------------------------------
(* The handlers. *)

\* A handler writes its own request only, and no table.
LEMMA HandlerLocal ==
    ASSUME IInv, NEW r \in Requests, Handler(r) \/ Abandon(r)
    PROVE  Local(r)
<1>0. TypeOK
  BY DEF IInv
<1>1. /\ Moves(r) /\ UNCHANGED <<challenges, answers, dbUp, started, tookEffect>>
      /\ Arrives(r) \/ Continues(r)
  BY HandlerMoves, HandlerWrites
<1>2. pc[r] # "done" /\ pc'[r] # "idle"
  BY <1>0, <1>1 DEF Arrives, Continues, Running, Moves, TypeOK
<1>3. pc[r] # "idle" => arg'[r] = arg[r] /\ flagsSeen[r] \subseteq flagsSeen'[r]
  BY <1>1 DEF Arrives, Continues
<1>4. ASSUME NEW q \in Requests \ {r}
      PROVE  /\ pc'[q] = pc[q] /\ res'[q] = res[q] /\ rows'[q] = rows[q] /\ arg'[q] = arg[q]
             /\ grade'[q] = grade[q] /\ answer'[q] = answer[q] /\ body'[q] = body[q]
             /\ acked'[q] = acked[q] /\ flagsSeen'[q] = flagsSeen[q]
  <2>1. pc'[q] = pc[q] /\ res'[q] = res[q] /\ rows'[q] = rows[q]
    BY <1>0, <1>1 DEF Moves, Consumed, TypeOK
  <2>2. answer'[q] = answer[q] /\ body'[q] = body[q]
    BY <1>0, <1>1 DEF Moves, TypeOK
  <2>3. /\ arg'[q] = arg[q] /\ acked'[q] = acked[q] /\ flagsSeen'[q] = flagsSeen[q]
        /\ grade'[q] = grade[q]
    BY <1>0, <1>1 DEF Arrives, Continues, TypeOK
  <2>4. QED BY <2>1, <2>2, <2>3
<1>5. ASSUME NEW q \in Requests \ {r}, Running(q)
      PROVE  \A c \in Target(q, challenges)' : c.flag \in flagsSeen'[q]
  <2>1. LookFacts(q)
    BY DEF IInv, Facts
  <2>2. QED BY <1>1, <1>4, <1>5, <2>1 DEF LookFacts, Target
<1>6. hurt \subseteq hurt' /\ tookEffect \subseteq tookEffect'
  BY <1>1 DEF Moves
<1>7. QED BY <1>1, <1>2, <1>3, <1>4, <1>5, <1>6 DEF Local

\* A request begins: what it noted down fits its handler; it has no success.
LEMMA ArriveFacts ==
    ASSUME IInv, NEW r \in Requests, Handler(r), Arrives(r), Asked(r)',
           \/ Running(r)' /\ answer'[r] = "none"
           \/ pc'[r] = "done" /\ ((answer'[r] = "500" /\ r \in hurt') \/ answer'[r] = "403"),
           pc'[r] \notin {"put_4", "delete_4", "submit_3", "submit_4", "submit_5"},
           Control(r)'
    PROVE  Facts(r)'
<1>0. TypeOK
  BY DEF IInv
<1>1. /\ Moves(r) /\ UNCHANGED <<challenges, answers, dbUp, started, tookEffect>> /\ Local(r)
  BY HandlerMoves, HandlerLocal
<1>2. res'[r] = "pending" /\ rows'[r] = {}
  BY <1>0, <1>1 DEF Moves, Consumed, TypeOK
<1>3. LookFacts(r)'
  <2>1. ASSUME Running(r)', NEW c \in Target(r, challenges)' PROVE c.flag \in flagsSeen'[r]
    <3>1. c \in {d \in challenges : d.id = arg'[r].id}
      BY <1>1 DEF Target
    <3>2. flagsSeen'[r] = {d.flag : d \in {d \in challenges : d.id = arg'[r].id}}
      BY <1>0, <2>1 DEF Arrives, Running, TypeOK
    <3>3. QED BY <3>1, <3>2
  <2>2. QED BY <1>2, <2>1 DEF LookFacts
<1>4. ChangeFacts(r)' /\ SubmitFacts(r)'
  BY <1>2 DEF ChangeFacts, SubmitFacts, Won, Ended
<1>5. ListFacts(r)'
  <2>1. acked'[r] \subseteq Acknowledged
    BY <1>0 DEF Arrives, IInv, Facts, ListFacts, TypeOK
  <2>2. QED BY <1>1, <1>2, <2>1, KnownStay DEF ListFacts
<1>6. Answered(r)'
  BY DEF Answered, Ended
<1>7. QED BY <1>3, <1>4, <1>5, <1>6 DEF Facts

\* A request goes on: what it knew of its challenge is still true.
LEMMA Carried ==
    ASSUME IInv, NEW r \in Requests, Handler(r) \/ Abandon(r), Continues(r)
    PROVE  /\ Asked(r)' /\ LookFacts(r)' /\ ListFacts(r)'
           /\ res'[r] = "pending" /\ rows'[r] = {}
           /\ arg' = arg /\ acked' = acked /\ flagsSeen' = flagsSeen
           /\ hurt \subseteq hurt'
           /\ UNCHANGED <<challenges, answers, tookEffect>>
           /\ Mine(r)' = Mine(r) /\ \A id : Exists(id)' = Exists(id)
<1>0. TypeOK /\ Facts(r)
  BY DEF IInv
<1>1. /\ Moves(r) /\ UNCHANGED <<challenges, answers, dbUp, started, tookEffect>> /\ Local(r)
      /\ UNCHANGED <<arg, flagsSeen, acked>> /\ Running(r)
  BY HandlerMoves, HandlerLocal DEF Continues
<1>2. res'[r] = "pending" /\ rows'[r] = {} /\ hurt \subseteq hurt'
  BY <1>0, <1>1 DEF Moves, Consumed, TypeOK
<1>3. Mine(r)' = Mine(r) /\ \A id : Exists(id)' = Exists(id)
  BY <1>1 DEF Mine, Target, Exists
<1>4. Asked(r)'
  <2>1. pc[r] # "idle" /\ pc'[r] # "idle"
    BY <1>1 DEF Running, Local
  <2>2. QED BY <1>0, <1>1, <2>1, KnownStay DEF Facts, Asked
<1>5. LookFacts(r)'
  <2>1. Target(r, challenges)' = Target(r, challenges)
    BY <1>1 DEF Target
  <2>2. QED BY <1>0, <1>1, <1>2, <2>1 DEF Facts, LookFacts
<1>6. ListFacts(r)'
  BY <1>0, <1>1, <1>2, KnownStay DEF Facts, ListFacts
<1>7. QED BY <1>1, <1>2, <1>3, <1>4, <1>5, <1>6

\* A request ends: it must be able to stand by its answer.
LEMMA EndFacts ==
    ASSUME IInv, NEW r \in Requests, Handler(r) \/ Abandon(r), Continues(r), pc'[r] = "done",
           answer'[r] = "404" => arg[r].id \in Known /\ ~Exists(arg[r].id),
           answer'[r] = "500" => \/ r \in hurt'
                                 \/ arg[r].op = "submit" /\ flagsSeen[r] \cap Undecodable # {},
           answer'[r] = "200" =>
               /\ arg[r].op = "put" => r \in tookEffect
               /\ arg[r].op = "delete" => ~Exists(arg[r].id)
               /\ arg[r].op = "submit" => (Exists(arg[r].id) => \E a \in answers : a.id = r)
               /\ arg[r].op = "mine" =>
                      \A q \in acked[r] :
                          arg[q].user = arg[r].user /\ arg[r].id \in {None, arg[q].id}
                          /\ Exists(arg[q].id) => \E a \in body'[r] : a.id = q
    PROVE  Facts(r)'
<1>1. /\ Asked(r)' /\ LookFacts(r)' /\ ListFacts(r)'
      /\ res'[r] = "pending" /\ rows'[r] = {}
      /\ arg' = arg /\ acked' = acked /\ flagsSeen' = flagsSeen
      /\ UNCHANGED <<challenges, answers, tookEffect>>
  BY Carried
<1>2. Known \subseteq Known'
  BY HandlerLocal, KnownStay
<1>3. Control(r)'
  BY <1>1 DEF Control
<1>4. ChangeFacts(r)' /\ SubmitFacts(r)'
  BY <1>1 DEF ChangeFacts, SubmitFacts, Won, Ended, Exists
<1>5. Answered(r)'
  BY <1>1, <1>2 DEF Answered, Ended, Exists
<1>6. QED BY <1>1, <1>3, <1>4, <1>5 DEF Facts

\* A request queues its next statement, knowing what that stage relies on.
LEMMA QueryFacts ==
    ASSUME IInv, NEW r \in Requests, Handler(r), Continues(r), answer'[r] = "none",
           Running(r)', Control(r)',
           pc'[r] = "put_4" => r \in tookEffect \/ Mine(r) = {},
           pc'[r] = "delete_4" => Mine(r) = {},
           pc'[r] = "submit_3" => \E f \in flagsSeen[r] : grade'[r] = (arg[r].flag = f),
           pc'[r] = "submit_4" => (Exists(arg[r].id) => \E a \in answers : a.id = r),
           pc'[r] = "submit_5" => r \in hurt \/ ~Exists(arg[r].id)
    PROVE  Facts(r)'
<1>1. /\ Asked(r)' /\ LookFacts(r)' /\ ListFacts(r)'
      /\ res'[r] = "pending" /\ rows'[r] = {}
      /\ arg' = arg /\ acked' = acked /\ flagsSeen' = flagsSeen
      /\ hurt \subseteq hurt'
      /\ UNCHANGED <<challenges, answers, tookEffect>>
      /\ Mine(r)' = Mine(r)
  BY Carried
<1>2. ChangeFacts(r)'
  BY <1>1 DEF ChangeFacts, Won, Ended
<1>3. SubmitFacts(r)'
  BY <1>1 DEF SubmitFacts, Ended, Exists
<1>4. Answered(r)'
  BY DEF Answered, Ended
<1>5. QED BY <1>1, <1>2, <1>3, <1>4 DEF Facts

\* The first handler of every operation.
LEMMA FirstHandlers ==
    ASSUME IInv, NEW r \in Requests,
           \/ PostChallenges1(r) \/ PutChallenges1(r) \/ DeleteChallenges1(r) \/ GetChallenges1(r)
           \/ GetOwnChallenges1(r) \/ PostAnswers1(r) \/ GetAnswers1(r) \/ GetOwnAnswers1(r)
    PROVE  Facts(r)'
<1>0. TypeOK /\ Facts(r) /\ Handler(r)
  BY DEF IInv, Handler
<1>1. Local(r) /\ Moves(r) /\ Known \subseteq Known'
  BY <1>0, HandlerLocal, HandlerMoves, KnownStay
<1>2. res'[r] = "pending"
  BY <1>0, <1>1 DEF Moves, Consumed, TypeOK
<1>3. Arrives(r)
  <2>1. pc[r] = "idle"
    BY DEF PostChallenges1, PutChallenges1, DeleteChallenges1, GetChallenges1, GetOwnChallenges1,
           PostAnswers1, GetAnswers1, GetOwnAnswers1, Arrive
  <2>2. QED BY <1>0, <2>1, HandlerWrites DEF Continues, Running
<1>4. ASSUME NEW op, NEW u, NEW id, NEW f, NEW stage, Arrive(r, op, u, id, f, stage),
             \/ op = "create" /\ stage = "create_2" /\ u \in Users /\ f \in Flags
             \/ op = "put" /\ stage = "put_2" /\ u \in Users /\ f \in Flags /\ id \in Known
             \/ op = "delete" /\ stage = "delete_2" /\ u \in Users /\ id \in Known
             \/ op = "submit" /\ stage = "submit_2" /\ u \in Users /\ f \in Flags /\ id \in Known
             \/ op = "list" /\ stage = "list_2"
             \/ op = "own" /\ stage = "own_2"
             \/ op = "answers" /\ stage = "answers_2" /\ id \in Known \cup {None}
             \/ op = "mine" /\ stage = "mine_2" /\ id \in Known \cup {None}
      PROVE  Facts(r)'
  <2>1. arg'[r] = [op |-> op, user |-> u, id |-> id, flag |-> f]
    BY <1>0, <1>4 DEF Arrive, TypeOK
  <2>2. \/ pc'[r] = stage /\ answer'[r] = answer[r]
        \/ pc'[r] = "done" /\ answer'[r] = "500" /\ r \in hurt'
    BY <1>0, <1>4 DEF Arrive, Query, Fault, TypeOK
  <2>3. answer[r] = "none"
    BY <1>0, <1>3 DEF Facts, Control, Arrives
  <2>4. Asked(r)'
    BY <1>1, <1>4, <2>1, <2>2 DEF Asked
  <2>5. Control(r)'
    BY <1>2, <1>4, <2>1, <2>2, <2>3 DEF Control
  <2>6. Running(r)' \/ pc'[r] = "done"
    BY <1>4, <2>2 DEF Running
  <2>7. pc'[r] \notin {"put_4", "delete_4", "submit_3", "submit_4", "submit_5"}
    BY <1>4, <2>2
  <2>8. \/ Running(r)' /\ answer'[r] = "none"
        \/ pc'[r] = "done" /\ answer'[r] = "500" /\ r \in hurt'
    BY <1>4, <2>2, <2>3 DEF Running
  <2>9. QED BY <1>0, <1>3, <2>4, <2>5, <2>7, <2>8, ArriveFacts
<1>5. CASE GetChallenges1(r) /\ ~Arrive(r, "list", None, None, None, "list_2")
  <2>1. /\ arg' = [arg EXCEPT ![r].op = "list"] /\ pc' = [pc EXCEPT ![r] = "done"]
        /\ \/ answer' = [answer EXCEPT ![r] = "403"]
           \/ answer' = [answer EXCEPT ![r] = "500"] /\ r \in hurt'
    BY <1>5 DEF GetChallenges1, Answer, Respond, Fault
  <2>2. /\ arg'[r].op = "list" /\ pc'[r] = "done"
        /\ \/ answer'[r] = "403"
           \/ answer'[r] = "500" /\ r \in hurt'
    BY <1>0, <2>1 DEF TypeOK
  <2>3. Asked(r)' /\ Control(r)'
    BY <1>2, <2>2 DEF Asked, Control
  <2>4. QED BY <1>0, <1>3, <2>2, <2>3, ArriveFacts
<1>6. CASE GetChallenges1(r) /\ Arrive(r, "list", None, None, None, "list_2")
  BY <1>4, <1>6
<1>7. CASE PostChallenges1(r) \/ PutChallenges1(r) \/ DeleteChallenges1(r)
  BY <1>4, <1>7 DEF PostChallenges1, PutChallenges1, DeleteChallenges1
<1>8. CASE GetOwnChallenges1(r) \/ PostAnswers1(r) \/ GetAnswers1(r) \/ GetOwnAnswers1(r)
  BY <1>4, <1>8 DEF GetOwnChallenges1, PostAnswers1, GetAnswers1, GetOwnAnswers1
<1>9. QED BY <1>5, <1>6, <1>7, <1>8

\* How a continuation ends its request or queues the next statement.
Replies(r, status, shown) ==
    pc'[r] = "done" /\ answer'[r] = status /\ body'[r] = shown
Queues(r, stage) ==
    \/ pc'[r] = stage /\ answer'[r] = answer[r]
    \/ pc'[r] = "done" /\ answer'[r] = "500" /\ r \in hurt'

\* Answer, Respond and Query say what they do to their own request.
LEMMA OwnMoves ==
    ASSUME TypeOK, NEW r \in Requests
    PROVE  /\ \A status, shown : Respond(r, status, shown) => Replies(r, status, shown)
           /\ \A status : Answer(r, status) => Replies(r, status, {})
           /\ \A stage : Query(r, stage) => Queues(r, stage)
BY DEF TypeOK, Respond, Answer, Query, Fault, Replies, Queues

\* A handler that found no row of its challenge reports a missing challenge.
LEMMA NotFound ==
    ASSUME IInv, NEW r \in Requests, pc[r] \in Looking, res[r] = "ok", Target(r, rows[r]) = {},
           arg[r].id # None
    PROVE  arg[r].id \in Known /\ ~Exists(arg[r].id)
<1>1. Facts(r)
  BY DEF IInv
<1>2. arg[r].op \in {"put", "delete", "submit", "answers", "mine"}
  BY <1>1 DEF Facts, Control, Looking
<1>3. QED BY <1>1, <1>2 DEF Facts, Asked, LookFacts

\* A failing result is the database's fault, except for the refused INSERT.
LEMMA Resumed ==
    ASSUME IInv, NEW r \in Requests, Handler(r) \/ Abandon(r), Running(r)
    PROVE  /\ TypeOK /\ Facts(r) /\ Continues(r) /\ arg' = arg /\ res'[r] = "pending"
           /\ hurt \subseteq hurt' /\ answer[r] = "none"
           /\ res[r] = "error" /\ pc[r] # "submit_3" => r \in hurt'
           /\ arg[r].op \in {"put", "delete", "submit"} => arg[r].id # None
<1>1. TypeOK /\ Facts(r)
  BY DEF IInv
<1>2. Continues(r)
  BY HandlerWrites DEF Arrives, Running
<1>3. QED BY <1>1, <1>2, Carried, SeedTypes DEF Facts, Control, Asked, Running

\* The continuations of PUT and DELETE.
LEMMA ChangeHandlers ==
    ASSUME IInv, NEW r \in Requests,
           \/ PutChallenges2(r) \/ PutChallenges3(r) \/ PutChallenges4(r)
           \/ DeleteChallenges2(r) \/ DeleteChallenges3(r) \/ DeleteChallenges4(r)
    PROVE  Facts(r)'
<1>0. Handler(r)
  BY DEF Handler
<1>1. Running(r) /\ res[r] # "pending"
  BY DEF PutChallenges2, PutChallenges3, PutChallenges4, DeleteChallenges2, DeleteChallenges3,
         DeleteChallenges4, CheckAccess, Written, Resumes, Running
<1>2. /\ TypeOK /\ Facts(r) /\ Continues(r) /\ arg' = arg /\ res'[r] = "pending"
      /\ hurt \subseteq hurt' /\ answer[r] = "none"
      /\ res[r] = "error" /\ pc[r] # "submit_3" => r \in hurt'
      /\ arg[r].op \in {"put", "delete", "submit"} => arg[r].id # None
  BY <1>0, <1>1, Resumed
<1>3. res[r] \in {"ok", "error"}
  BY <1>1, <1>2 DEF TypeOK
<1>4. ASSUME pc[r] \in Looking, arg[r].op \in {"put", "delete"}
      PROVE  /\ Access(r) = "404" => arg[r].id \in Known /\ ~Exists(arg[r].id)
             /\ Access(r) = "500" => r \in hurt'
             /\ Access(r) = "200" => res[r] = "ok" /\ \E c \in Target(r, rows[r]) : c.owner = arg[r].user
             /\ Access(r) \in {"200", "403", "404", "500"}
  BY <1>2, <1>3, <1>4, NotFound DEF Access, Failed, Looking
<1>5. CASE PutChallenges2(r) \/ DeleteChallenges2(r)
  <2>1. /\ pc[r] \in Looking /\ arg[r].op \in {"put", "delete"}
        /\ \/ Access(r) = "200" /\ \/ Queues(r, "put_3") /\ arg[r].op = "put"
                                   \/ Queues(r, "delete_3") /\ arg[r].op = "delete"
           \/ Access(r) # "200" /\ Replies(r, Access(r), {})
    BY <1>2, <1>5, OwnMoves DEF PutChallenges2, DeleteChallenges2, CheckAccess, Resumes, Looking,
                                Facts, Control
  <2>2. CASE pc'[r] = "done"
    <3>1. /\ answer'[r] \in {"403", "404", "500"}
          /\ answer'[r] = "404" => Access(r) = "404"
          /\ answer'[r] = "500" => Access(r) = "500" \/ r \in hurt'
      BY <1>4, <2>1, <2>2 DEF Queues, Replies
    <3>2. QED BY <1>0, <1>2, <1>4, <2>1, <2>2, <3>1, EndFacts
  <2>3. CASE pc'[r] # "done"
    <3>1. /\ answer'[r] = "none"
          /\ \/ pc'[r] = "put_3" /\ arg[r].op = "put"
             \/ pc'[r] = "delete_3" /\ arg[r].op = "delete"
      BY <1>2, <2>1, <2>3 DEF Queues, Replies
    <3>2. Control(r)' /\ Running(r)'
      BY <1>2, <3>1 DEF Control, Running
    <3>3. QED BY <1>0, <1>2, <3>1, <3>2, QueryFacts
  <2>4. QED BY <2>2, <2>3
<1>6. CASE PutChallenges3(r)
  <2>1. /\ pc[r] = "put_3" /\ arg[r].op = "put"
        /\ \/ res[r] = "error" /\ Replies(r, "500", {})
           \/ res[r] = "ok" /\ rows[r] = {} /\ Queues(r, "put_4")
           \/ res[r] = "ok" /\ rows[r] # {} /\ Replies(r, "200", {})
    BY <1>2, <1>3, <1>6, OwnMoves DEF PutChallenges3, Written, Resumes, Failed, Facts, Control
  <2>2. ChangeFacts(r)
    BY <1>2 DEF Facts
  <2>3. CASE pc'[r] = "done"
    <3>1. \/ answer'[r] = "500" /\ r \in hurt'
          \/ answer'[r] = "200" /\ r \in tookEffect
      BY <1>2, <2>1, <2>2, <2>3 DEF Queues, Replies, ChangeFacts
    <3>2. QED BY <1>0, <1>2, <2>1, <2>3, <3>1, EndFacts
  <2>4. CASE pc'[r] # "done"
    <3>1. pc'[r] = "put_4" /\ answer'[r] = "none" /\ (r \in tookEffect \/ Mine(r) = {})
      BY <1>2, <2>1, <2>2, <2>4 DEF Queues, Replies, ChangeFacts
    <3>2. Control(r)' /\ Running(r)'
      BY <1>2, <2>1, <3>1 DEF Control, Running
    <3>3. QED BY <1>0, <1>2, <3>1, <3>2, QueryFacts
  <2>5. QED BY <2>3, <2>4
<1>7. CASE DeleteChallenges3(r)
  <2>1. /\ pc[r] = "delete_3" /\ arg[r].op = "delete"
        /\ \/ res[r] = "error" /\ Replies(r, "500", {})
           \/ res[r] = "ok" /\ rows[r] = {} /\ Queues(r, "delete_4")
           \/ res[r] = "ok" /\ rows[r] # {} /\ Replies(r, "200", {})
    BY <1>2, <1>3, <1>7, OwnMoves DEF DeleteChallenges3, Written, Resumes, Failed, Facts, Control
  <2>2. ChangeFacts(r)
    BY <1>2 DEF Facts
  <2>3. CASE pc'[r] = "done"
    <3>1. \/ answer'[r] = "500" /\ r \in hurt'
          \/ answer'[r] = "200" /\ ~Exists(arg[r].id)
      BY <1>2, <2>1, <2>2, <2>3 DEF Queues, Replies, ChangeFacts, Won
    <3>2. QED BY <1>0, <1>2, <2>1, <2>3, <3>1, EndFacts
  <2>4. CASE pc'[r] # "done"
    <3>1. pc'[r] = "delete_4" /\ answer'[r] = "none" /\ Mine(r) = {}
      BY <1>2, <2>1, <2>2, <2>4 DEF Queues, Replies, ChangeFacts
    <3>2. Control(r)' /\ Running(r)'
      BY <1>2, <2>1, <3>1 DEF Control, Running
    <3>3. QED BY <1>0, <1>2, <3>1, <3>2, QueryFacts
  <2>5. QED BY <2>3, <2>4
<1>8. CASE PutChallenges4(r)
  <2>1. pc[r] = "put_4" /\ arg[r].op = "put" /\ Replies(r, Access(r), {})
    BY <1>2, <1>8, OwnMoves DEF PutChallenges4, Resumes, Facts, Control
  <2>2. Access(r) = "200" => r \in tookEffect
    BY <1>2, <1>4, <2>1 DEF Looking, Facts, ChangeFacts
  <2>3. QED BY <1>0, <1>2, <1>4, <2>1, <2>2, EndFacts DEF Replies, Looking
<1>9. CASE DeleteChallenges4(r)
  <2>1. /\ pc[r] = "delete_4" /\ arg[r].op = "delete"
        /\ Replies(r, IF Access(r) = "200" THEN "500" ELSE Access(r), {})
    BY <1>2, <1>9, OwnMoves DEF DeleteChallenges4, Resumes, Facts, Control
  <2>2. Access(r) # "200"
    BY <1>2, <1>4, <2>1 DEF Looking, Facts, ChangeFacts
  <2>3. Replies(r, Access(r), {})
    BY <2>1, <2>2
  <2>4. QED BY <1>0, <1>2, <1>4, <2>1, <2>2, <2>3, EndFacts DEF Replies, Looking
<1>10. QED BY <1>5, <1>6, <1>7, <1>8, <1>9

\* The continuations of a submission.
LEMMA SubmitHandlers ==
    ASSUME IInv, NEW r \in Requests,
           PostAnswers2(r) \/ PostAnswers3(r) \/ PostAnswers4(r) \/ PostAnswers5(r)
    PROVE  Facts(r)'
<1>0. Handler(r)
  BY DEF Handler
<1>1. /\ Running(r) /\ res[r] # "pending"
      /\ pc[r] \in {"submit_2", "submit_3", "submit_4", "submit_5"}
  BY DEF PostAnswers2, PostAnswers3, PostAnswers4, PostAnswers5, Resumes, Running
<1>2. /\ TypeOK /\ Facts(r) /\ Continues(r) /\ arg' = arg /\ res'[r] = "pending"
      /\ hurt \subseteq hurt' /\ answer[r] = "none"
      /\ res[r] = "error" /\ pc[r] # "submit_3" => r \in hurt'
      /\ arg[r].op \in {"put", "delete", "submit"} => arg[r].id # None
  BY <1>0, <1>1, Resumed
<1>3. res[r] \in {"ok", "error"} /\ arg[r].op = "submit" /\ LookFacts(r) /\ SubmitFacts(r)
      /\ arg[r].id \in Known
  BY <1>1, <1>2 DEF TypeOK, Facts, Control, Asked
<1>4. CASE PostAnswers2(r)
  <2>1. /\ pc[r] = "submit_2"
        /\ \/ res[r] = "error" /\ Replies(r, "500", {})
           \/ res[r] = "ok" /\ Target(r, rows[r]) = {} /\ Replies(r, "404", {})
           \/ res[r] = "ok" /\ CannotGrade(r) /\ Replies(r, "500", {})
           \/ /\ res[r] = "ok" /\ Target(r, rows[r]) # {}
              /\ grade' = [grade EXCEPT ![r] = Correct(r)] /\ Queues(r, "submit_3")
    BY <1>2, <1>3, <1>4, OwnMoves DEF PostAnswers2, Resumes, Failed
  <2>2. res[r] = "ok" => \A c \in Target(r, rows[r]) : c.flag \in flagsSeen[r]
    BY <1>3, <2>1 DEF LookFacts
  <2>3. CASE pc'[r] = "done"
    <3>1. \/ answer'[r] = "500" /\ r \in hurt'
          \/ answer'[r] = "404" /\ res[r] = "ok" /\ Target(r, rows[r]) = {}
          \/ answer'[r] = "500" /\ res[r] = "ok" /\ CannotGrade(r)
      BY <1>2, <2>1, <2>3 DEF Queues, Replies
    <3>2. res[r] = "ok" /\ CannotGrade(r) => flagsSeen[r] \cap Undecodable # {}
      BY <2>2 DEF CannotGrade
    <3>3. answer'[r] = "404" => arg[r].id \in Known /\ ~Exists(arg[r].id)
      BY <1>2, <1>3, <2>1, <3>1, NotFound DEF Looking
    <3>4. QED BY <1>0, <1>2, <1>3, <2>3, <3>1, <3>2, <3>3, EndFacts
  <2>4. CASE pc'[r] # "done"
    <3>1. /\ pc'[r] = "submit_3" /\ answer'[r] = "none" /\ res[r] = "ok"
          /\ Target(r, rows[r]) # {} /\ grade' = [grade EXCEPT ![r] = Correct(r)]
      BY <1>2, <2>1, <2>4 DEF Queues, Replies
    <3>2. grade'[r] = Correct(r)
      BY <1>2, <3>1 DEF TypeOK
    <3>3. \E f \in flagsSeen[r] : Correct(r) = (arg[r].flag = f)
      <4>1. CASE Correct(r)
        <5>1. PICK c \in Target(r, rows[r]) : c.flag = arg[r].flag
          BY <4>1 DEF Correct
        <5>2. c.flag \in flagsSeen[r]
          BY <2>2, <3>1
        <5>3. Correct(r) = (arg[r].flag = c.flag)
          BY <4>1, <5>1 DEF Correct
        <5>4. QED BY <5>2, <5>3
      <4>2. CASE ~Correct(r)
        <5>1. PICK c \in Target(r, rows[r]) : TRUE
          BY <3>1
        <5>2. c.flag # arg[r].flag
          BY <4>2 DEF Correct
        <5>3. Correct(r) = (arg[r].flag = c.flag)
          BY <4>2, <5>2 DEF Correct
        <5>4. QED BY <2>2, <3>1, <5>3
      <4>3. QED BY <4>1, <4>2
    <3>4. Control(r)' /\ Running(r)'
      BY <1>2, <1>3, <3>1 DEF Control, Running
    <3>5. QED BY <1>0, <1>2, <3>1, <3>2, <3>3, <3>4, QueryFacts
  <2>5. QED BY <2>3, <2>4
<1>5. CASE PostAnswers3(r)
  <2>1. /\ pc[r] = "submit_3"
        /\ \/ res[r] = "error" /\ Queues(r, "submit_5")
           \/ res[r] = "ok" /\ Queues(r, "submit_4")
    BY <1>2, <1>3, <1>5, OwnMoves DEF PostAnswers3, Resumes, Failed
  <2>2. CASE pc'[r] = "done"
    <3>1. answer'[r] = "500" /\ r \in hurt'
      BY <2>1, <2>2 DEF Queues
    <3>2. QED BY <1>0, <1>2, <2>2, <3>1, EndFacts
  <2>3. CASE pc'[r] # "done"
    <3>1. /\ answer'[r] = "none"
          /\ \/ pc'[r] = "submit_5" /\ (r \in hurt \/ ~Exists(arg[r].id))
             \/ pc'[r] = "submit_4" /\ (Exists(arg[r].id) => \E a \in answers : a.id = r)
      BY <1>2, <1>3, <2>1, <2>3 DEF Queues, SubmitFacts
    <3>2. Control(r)' /\ Running(r)'
      BY <1>2, <1>3, <3>1 DEF Control, Running
    <3>3. QED BY <1>0, <1>2, <3>1, <3>2, QueryFacts
  <2>4. QED BY <2>2, <2>3
<1>6. CASE PostAnswers4(r)
  <2> DEFINE own == {a \in rows[r] : a.id = r}
  <2>1. /\ pc[r] = "submit_4"
        /\ \/ res[r] = "error" /\ Replies(r, "500", {})
           \/ res[r] = "ok" /\ own = {} /\ Replies(r, "404", {})
           \/ res[r] = "ok" /\ own # {} /\ Replies(r, "200", own)
    BY <1>2, <1>3, <1>6, OwnMoves DEF PostAnswers4, Resumes, Failed
  <2>2. res[r] = "ok" /\ own = {} => ~Exists(arg[r].id)
    BY <1>3, <2>1 DEF SubmitFacts
  <2>3. Exists(arg[r].id) => \E a \in answers : a.id = r
    BY <1>3, <2>1 DEF SubmitFacts
  <2>4. QED BY <1>0, <1>2, <1>3, <2>1, <2>2, <2>3, EndFacts DEF Replies
<1>7. CASE PostAnswers5(r)
  <2>1. /\ pc[r] = "submit_5"
        /\ Replies(r, IF res[r] = "ok" /\ Target(r, rows[r]) = {} THEN "404" ELSE "500", {})
    <3>1. (~Failed(r)) = (res[r] = "ok")
      BY <1>3 DEF Failed
    <3>2. QED BY <1>2, <1>7, <3>1, OwnMoves DEF PostAnswers5, Resumes
  <2>2. CASE res[r] = "ok" /\ Target(r, rows[r]) = {}
    <3>1. arg[r].id \in Known /\ ~Exists(arg[r].id)
      BY <1>2, <1>3, <2>1, <2>2, NotFound DEF Looking
    <3>2. pc'[r] = "done" /\ answer'[r] = "404"
      BY <2>1, <2>2 DEF Replies
    <3>3. QED BY <1>0, <1>2, <3>1, <3>2, EndFacts
  <2>3. CASE ~(res[r] = "ok" /\ Target(r, rows[r]) = {})
    <3>1. r \in hurt'
      BY <1>2, <1>3, <2>1, <2>3 DEF SubmitFacts
    <3>2. pc'[r] = "done" /\ answer'[r] = "500"
      BY <2>1, <2>3 DEF Replies
    <3>3. QED BY <1>0, <1>2, <3>1, <3>2, EndFacts
  <2>4. QED BY <2>2, <2>3
<1>8. QED BY <1>4, <1>5, <1>6, <1>7

\* The continuations that only show something.
LEMMA ShowHandlers ==
    ASSUME IInv, NEW r \in Requests,
           \/ PostChallenges2(r) \/ GetChallenges2(r) \/ GetOwnChallenges2(r)
           \/ GetAnswers2(r) \/ GetAnswers3(r) \/ GetOwnAnswers2(r) \/ GetOwnAnswers3(r)
    PROVE  Facts(r)'
<1>0. Handler(r)
  BY DEF Handler
<1>1. Running(r) /\ res[r] # "pending" /\ pc[r] # "submit_3"
  BY DEF PostChallenges2, GetChallenges2, GetOwnChallenges2, GetAnswers2, GetAnswers3,
         GetOwnAnswers2, GetOwnAnswers3, CheckFilter, List, Resumes, Running
<1>2. /\ TypeOK /\ Facts(r) /\ Continues(r) /\ arg' = arg /\ res'[r] = "pending"
      /\ hurt \subseteq hurt' /\ answer[r] = "none"
      /\ res[r] = "error" => r \in hurt'
  BY <1>0, <1>1, Resumed
<1>3. res[r] \in {"ok", "error"}
  BY <1>1, <1>2 DEF TypeOK
<1>4. CASE PostChallenges2(r) \/ GetChallenges2(r) \/ GetOwnChallenges2(r)
  <2>1. /\ arg[r].op \in {"create", "list", "own"}
        /\ pc'[r] = "done"
        /\ \/ answer'[r] = "500" /\ r \in hurt'
           \/ answer'[r] \in {"200", "201"}
    BY <1>2, <1>3, <1>4, OwnMoves DEF PostChallenges2, GetChallenges2, GetOwnChallenges2, Resumes,
                                      Failed, Facts, Control, Replies
  <2>2. QED BY <1>0, <1>2, <2>1, EndFacts
<1>5. CASE GetAnswers2(r) \/ GetOwnAnswers2(r)
  <2>1. /\ pc[r] \in Looking
        /\ \/ res[r] = "error" /\ Replies(r, "500", {})
           \/ /\ res[r] = "ok" /\ arg[r].id # None /\ Target(r, rows[r]) = {}
              /\ Replies(r, "404", {})
           \/ Queues(r, "answers_3") /\ arg[r].op = "answers"
           \/ Queues(r, "mine_3") /\ arg[r].op = "mine"
    BY <1>2, <1>3, <1>5, OwnMoves DEF GetAnswers2, GetOwnAnswers2, CheckFilter, Resumes, Failed,
                                      Facts, Control, Looking
  <2>2. CASE pc'[r] = "done"
    <3>1. \/ answer'[r] = "500" /\ r \in hurt'
          \/ answer'[r] = "404" /\ arg[r].id \in Known /\ ~Exists(arg[r].id)
      BY <1>2, <2>1, <2>2, NotFound DEF Queues, Replies
    <3>2. QED BY <1>0, <1>2, <2>2, <3>1, EndFacts
  <2>3. CASE pc'[r] # "done"
    <3>1. /\ answer'[r] = "none"
          /\ \/ pc'[r] = "answers_3" /\ arg[r].op = "answers"
             \/ pc'[r] = "mine_3" /\ arg[r].op = "mine"
      BY <1>2, <2>1, <2>3 DEF Queues, Replies
    <3>2. Control(r)' /\ Running(r)'
      BY <1>2, <3>1 DEF Control, Running
    <3>3. QED BY <1>0, <1>2, <3>1, <3>2, QueryFacts
  <2>4. QED BY <2>2, <2>3
<1>6. CASE GetAnswers3(r)
  <2>1. /\ arg[r].op = "answers" /\ pc'[r] = "done"
        /\ (answer'[r] = "500" /\ r \in hurt') \/ answer'[r] = "200"
    BY <1>2, <1>3, <1>6, OwnMoves DEF GetAnswers3, List, Resumes, Failed, Facts, Control, Replies
  <2>2. QED BY <1>0, <1>2, <2>1, EndFacts
<1>7. CASE GetOwnAnswers3(r)
  <2>1. /\ pc[r] = "mine_3" /\ arg[r].op = "mine" /\ pc'[r] = "done"
        /\ \/ answer'[r] = "500" /\ r \in hurt'
           \/ /\ answer'[r] = "200" /\ res[r] = "ok"
              /\ body'[r] = {a \in rows[r] : Selects(r, a)}
    BY <1>2, <1>3, <1>7, OwnMoves DEF GetOwnAnswers3, List, Resumes, Failed, Facts, Control, Replies
  <2>2. ASSUME answer'[r] = "200", NEW q \in acked[r],
               arg[q].user = arg[r].user, arg[r].id \in {None, arg[q].id}, Exists(arg[q].id)
        PROVE  \E a \in body'[r] : a.id = q
    <3>1. PICK a \in rows[r] : a.id = q
      BY <1>2, <2>1, <2>2 DEF Facts, ListFacts
    <3>2. IsAnswer(a)
      BY <1>2, <2>1, <2>2 DEF Facts, ListFacts
    <3>3. Selects(r, a)
      BY <2>1, <2>2, <3>1, <3>2 DEF IsAnswer, Selects
    <3>4. QED BY <2>1, <2>2, <3>1, <3>3
  <2>3. QED BY <1>0, <1>2, <2>1, <2>2, EndFacts
<1>8. QED BY <1>4, <1>5, <1>6, <1>7

\* Every handler leaves its request with facts it can rely on.
LEMMA HandlerFacts ==
    ASSUME IInv, NEW r \in Requests, Handler(r) \/ Abandon(r)
    PROVE  Facts(r)'
<1>1. CASE Abandon(r)
  <2>1. Running(r)
    BY <1>1 DEF Abandon
  <2>2. TypeOK /\ Continues(r)
    BY <2>1, Resumed
  <2>3. Replies(r, "dropped", {})
    BY <1>1, <2>2, OwnMoves DEF Abandon
  <2>4. QED BY <1>1, <2>2, <2>3, EndFacts DEF Replies
<1>2. CASE Handler(r)
  BY <1>2, FirstHandlers, ChangeHandlers, SubmitHandlers, ShowHandlers DEF Handler
<1>3. QED BY <1>1, <1>2

\* A stage has one handler: the ones that create and delete.
LEMMA StageHandler ==
    ASSUME NEW r \in Requests, Handler(r) \/ Abandon(r)
    PROVE  /\ pc[r] = "create_2" => PostChallenges2(r) \/ Abandon(r)
           /\ pc[r] = "delete_2" => DeleteChallenges2(r) \/ Abandon(r)
           /\ pc[r] = "delete_3" => DeleteChallenges3(r) \/ Abandon(r)
           /\ pc[r] = "delete_4" => DeleteChallenges4(r) \/ Abandon(r)
<1>1. ASSUME \/ PostChallenges1(r) \/ PutChallenges1(r) \/ DeleteChallenges1(r) \/ GetChallenges1(r)
             \/ GetOwnChallenges1(r) \/ PostAnswers1(r) \/ GetAnswers1(r) \/ GetOwnAnswers1(r)
      PROVE  pc[r] = "idle"
  BY <1>1 DEF PostChallenges1, PutChallenges1, DeleteChallenges1, GetChallenges1,
              GetOwnChallenges1, PostAnswers1, GetAnswers1, GetOwnAnswers1, Arrive
<1>2. ASSUME PutChallenges2(r) \/ PutChallenges3(r) \/ PutChallenges4(r)
      PROVE  pc[r] \in {"put_2", "put_3", "put_4"}
  BY <1>2 DEF PutChallenges2, PutChallenges3, PutChallenges4, CheckAccess, Written, Resumes
<1>3. ASSUME \/ GetChallenges2(r) \/ GetOwnChallenges2(r) \/ GetAnswers2(r) \/ GetAnswers3(r)
             \/ GetOwnAnswers2(r) \/ GetOwnAnswers3(r)
      PROVE  pc[r] \in {"list_2", "own_2", "answers_2", "answers_3", "mine_2", "mine_3"}
  BY <1>3 DEF GetChallenges2, GetOwnChallenges2, GetAnswers2, GetAnswers3, GetOwnAnswers2,
              GetOwnAnswers3, CheckFilter, List, Resumes
<1>4. ASSUME PostAnswers2(r) \/ PostAnswers3(r) \/ PostAnswers4(r) \/ PostAnswers5(r)
      PROVE  pc[r] \in {"submit_2", "submit_3", "submit_4", "submit_5"}
  BY <1>4 DEF PostAnswers2, PostAnswers3, PostAnswers4, PostAnswers5, Resumes
<1>5. /\ PostChallenges2(r) => pc[r] = "create_2"
      /\ DeleteChallenges2(r) => pc[r] = "delete_2"
      /\ DeleteChallenges3(r) => pc[r] = "delete_3"
      /\ DeleteChallenges4(r) => pc[r] = "delete_4"
  BY DEF PostChallenges2, DeleteChallenges2, DeleteChallenges3, DeleteChallenges4, CheckAccess,
         Written, Resumes
<1>6. QED BY <1>1, <1>2, <1>3, <1>4, <1>5 DEF Handler

\* Only the handler that saw its DELETE take the row answers 200 to it.
LEMMA WonBefore ==
    ASSUME IInv, NEW r \in Requests, Handler(r) \/ Abandon(r), Won(r)'
    PROVE  Won(r) /\ arg'[r] = arg[r]
<1>0. TypeOK /\ Facts(r)
  BY DEF IInv
<1>1. Moves(r) /\ (Arrives(r) \/ Continues(r))
  BY HandlerMoves, HandlerWrites
<1>2. res'[r] = "pending"
  BY <1>0, <1>1 DEF Moves, Consumed, TypeOK
<1>3. arg'[r].op = "delete" /\ answer'[r] = "200"
  BY <1>2 DEF Won, Ended
<1>4. ~Arrives(r)
  <2>1. SUFFICES ASSUME Arrives(r) PROVE FALSE
    OBVIOUS
  <2>2. pc[r] = "idle" /\ answer[r] = "none"
    BY <1>0, <2>1 DEF Arrives, Facts, Control
  <2>3. ~Abandon(r)
    BY <2>2 DEF Abandon, Running
  <2>4. Handler(r) => \E op, u, id, f, stage : Arrive(r, op, u, id, f, stage) \/ Answer(r, "403") \/ Fault(r)
    BY <2>2 DEF Handler, PostChallenges1, PutChallenges1, DeleteChallenges1, GetChallenges1,
                GetOwnChallenges1, PostAnswers1, GetAnswers1, GetOwnAnswers1,
                PostChallenges2, PutChallenges2, PutChallenges3, PutChallenges4, DeleteChallenges2,
                DeleteChallenges3, DeleteChallenges4, GetChallenges2, GetOwnChallenges2,
                PostAnswers2, PostAnswers3, PostAnswers4, PostAnswers5, GetAnswers2, GetAnswers3,
                GetOwnAnswers2, GetOwnAnswers3, CheckAccess, Written, CheckFilter, List, Resumes
  <2>5. answer'[r] \in {"none", "500", "403"}
    BY <1>0, <2>2, <2>3, <2>4 DEF Arrive, Query, Fault, Answer, Respond, TypeOK
  <2>6. QED BY <1>3, <2>5
<1>5. Continues(r) /\ arg' = arg /\ answer[r] = "none" /\ Running(r)
  BY <1>0, <1>1, <1>4 DEF Continues, Running, Facts, Control
<1>6. ~Abandon(r)
  <2>1. Abandon(r) => answer'[r] = "dropped"
    BY <1>0, OwnMoves DEF Abandon, Replies
  <2>2. QED BY <1>3, <2>1
<1>7. pc[r] \in {"delete_2", "delete_3", "delete_4"}
  BY <1>0, <1>3, <1>5 DEF Facts, Control, Running, TypeOK, Stages
<1>8. pc[r] # "delete_2"
  <2>1. DeleteChallenges2(r) => answer'[r] # "200"
    BY <1>0, <1>5, OwnMoves DEF DeleteChallenges2, CheckAccess, Queues, Replies
  <2>2. QED BY <1>3, <1>6, <2>1, StageHandler
<1>9. pc[r] # "delete_4"
  <2>1. DeleteChallenges4(r) => answer'[r] # "200"
    BY <1>0, OwnMoves DEF DeleteChallenges4, Replies
  <2>2. QED BY <1>3, <1>6, <2>1, StageHandler
<1>10. pc[r] = "delete_3" /\ DeleteChallenges3(r)
  BY <1>6, <1>7, <1>8, <1>9, StageHandler
<1>11. res[r] = "ok" /\ rows[r] # {}
  <2>1. /\ res[r] # "pending"
        /\ \/ res[r] = "error" /\ Replies(r, "500", {})
           \/ rows[r] = {} /\ Queues(r, "delete_4")
           \/ res[r] # "error" /\ rows[r] # {}
    BY <1>0, <1>10, OwnMoves DEF DeleteChallenges3, Written, Resumes, Failed
  <2>2. QED BY <1>0, <1>3, <1>5, <2>1 DEF Queues, Replies, TypeOK
<1>12. QED BY <1>5, <1>10, <1>11 DEF Won

\* A handler changes no table, and what the tables owe the requests stays.
LEMMA HandlerTables ==
    ASSUME IInv, NEW r \in Requests, Handler(r) \/ Abandon(r)
    PROVE  ChallengesTable' /\ AnswersTable' /\ OneDeletion'
<1>0. TypeOK
  BY DEF IInv
<1>1. Moves(r) /\ UNCHANGED <<challenges, answers>> /\ Local(r)
  BY HandlerMoves, HandlerLocal
<1>2. ChallengesTable'
  <2>1. pc[r] = "create_2" => pc'[r] = "done"
    BY <1>0, OwnMoves, StageHandler DEF PostChallenges2, Abandon, Replies
  <2>2. QED BY <1>1, <2>1 DEF Local, IInv, ChallengesTable
<1>3. AnswersTable'
  <2>1. SUFFICES ASSUME NEW a \in answers
                 PROVE  (IsAnswer(a) /\ Exists(a.challenge))' /\ \E f \in flagsSeen'[a.id] : a.correct = (a.flag = f)
    BY <1>1 DEF AnswersTable
  <2>2. /\ IsAnswer(a) /\ Exists(a.challenge)
        /\ \E f \in flagsSeen[a.id] : a.correct = (a.flag = f)
    BY DEF IInv, AnswersTable
  <2>3. flagsSeen[a.id] \subseteq flagsSeen'[a.id]
    BY <1>1, <2>2 DEF IsAnswer, Local
  <2>4. IsAnswer(a)'
    BY <1>1, <2>2, AnswersStay
  <2>5. Exists(a.challenge)'
    BY <1>1, <2>2 DEF Exists
  <2>6. QED BY <2>2, <2>3, <2>4, <2>5
<1>4. OneDeletion'
  <2>1. \A q \in Requests : Won(q)' => Won(q) /\ arg'[q] = arg[q]
    BY <1>1, WonBefore DEF Local, Won, Ended
  <2>2. QED BY <2>1 DEF IInv, OneDeletion
<1>5. QED BY <1>2, <1>3, <1>4

-----------------------------------------------------------------------------
(* The database. *)

\* What the statement of a request does to the tables, however it is
\* reported: keys stay unique, and answers go with their challenge.
LEMMA Applied ==
    ASSUME IInv, NEW r \in Requests, Waiting(r), Apply(r)
    PROVE  /\ \A c \in challenges' :
                  \/ c.id = r /\ pc[r] = "create_2"
                  \/ \E d \in challenges : d.id = c.id /\ d.owner = c.owner
           /\ \A c, d \in challenges' : c.id = d.id => c = d
           /\ \A a \in answers' :
                  \/ a \in answers /\ Exists(a.challenge)'
                  \/ pc[r] = "submit_3" /\ a = NewAnswer(r) /\ Exists(arg[r].id) /\ UNCHANGED challenges
           /\ \A a \in answers : a \in answers' \/ ~Exists(a.challenge)'
<1>0. /\ TypeOK /\ pc[r] \in Stages /\ Running(r) /\ res[r] = "pending"
      /\ \A c, d \in challenges : c.id = d.id => c = d
      /\ \A a \in answers : Exists(a.challenge)
  BY DEF IInv, ChallengesTable, AnswersTable, TypeOK, Waiting
<1>1. CASE UNCHANGED <<challenges, answers>>
  BY <1>0, <1>1 DEF Exists
<1>2. CASE pc[r] \in {"submit_4", "answers_3", "mine_3"} \cup Looking \cup {"list_2", "own_2"}
  <2>1. UNCHANGED <<challenges, answers>>
    BY <1>2, StatementIs DEF Apply, Did
  <2>2. QED BY <1>1, <2>1
<1>3. CASE pc[r] = "create_2"
  <2>1. challenges' = challenges \cup {NewChallenge(r)} /\ answers' = answers
    BY <1>3, StatementIs DEF Apply, Did
  <2>2. \A c \in challenges : c.id # r
    BY <1>0, <1>3 DEF IInv, ChallengesTable
  <2>3. NewChallenge(r).id = r
    BY DEF NewChallenge
  <2>4. QED BY <1>0, <1>3, <2>1, <2>2, <2>3 DEF Exists
<1>4. CASE pc[r] = "put_3"
  <2>1. challenges' = (challenges \ Mine(r)) \cup Rewritten(r) /\ answers' = answers
    BY <1>4, StatementIs DEF Apply, Did
  <2>2. Mine(r) \subseteq challenges
    BY DEF Mine, Target
  <2>3. \A m \in Mine(r) : [m EXCEPT !.flag = arg[r].flag].id = m.id
                           /\ [m EXCEPT !.flag = arg[r].flag].owner = m.owner
    BY <1>0, <2>2 DEF TypeOK, Challenges
  <2>4. ASSUME NEW c \in challenges'
        PROVE  \E d \in challenges : d.id = c.id /\ d.owner = c.owner
                                     /\ (d \in Mine(r) => c = [d EXCEPT !.flag = arg[r].flag])
                                     /\ (d \notin Mine(r) => c = d)
    BY <2>1, <2>2, <2>3 DEF Rewritten
  <2>5. ASSUME NEW d \in challenges PROVE \E c \in challenges' : c.id = d.id
    <3>1. CASE d \in Mine(r)
      BY <2>1, <2>3, <3>1 DEF Rewritten
    <3>2. CASE d \notin Mine(r)
      BY <2>1, <3>2
    <3>3. QED BY <3>1, <3>2
  <2>6. ASSUME NEW c \in challenges', NEW d \in challenges', c.id = d.id PROVE c = d
    BY <1>0, <2>4, <2>6
  <2>7. QED BY <1>0, <2>1, <2>4, <2>5, <2>6 DEF Exists
<1>5. CASE pc[r] = "delete_3"
  <2>1. challenges' = challenges \ Mine(r) /\ answers' = Cascade(Mine(r))
    BY <1>5, StatementIs DEF Apply, Did
  <2>2. ASSUME NEW a \in answers' PROVE a \in answers /\ Exists(a.challenge)'
    BY <1>0, <2>1 DEF Cascade, Exists
  <2>3. ASSUME NEW a \in answers, a \notin answers' PROVE ~Exists(a.challenge)'
    <3>1. PICK m \in Mine(r) : m.id = a.challenge
      BY <2>1, <2>3 DEF Cascade
    <3>2. QED BY <1>0, <2>1, <3>1 DEF Exists, Mine, Target
  <2>4. QED BY <1>0, <2>1, <2>2, <2>3
<1>6. CASE pc[r] = "submit_3"
  <2>1. CASE Target(r, challenges) = {}
    <3>1. UNCHANGED <<challenges, answers>>
      BY <1>6, <2>1, StatementIs DEF Apply, Did
    <3>2. QED BY <1>1, <3>1
  <2>2. CASE Target(r, challenges) # {}
    <3>1. challenges' = challenges /\ answers' = answers \cup {NewAnswer(r)}
      BY <1>6, <2>2, StatementIs DEF Apply, Did
    <3>2. Exists(arg[r].id)
      BY <2>2 DEF Target, Exists
    <3>3. QED BY <1>0, <1>6, <3>1, <3>2 DEF Exists
  <2>3. QED BY <2>1, <2>2
<1>7. QED BY <1>0, <1>2, <1>3, <1>4, <1>5, <1>6 DEF Running, Stages, Looking

\* What a statement does, whether it is reported as done or as failed.
LEMMA StatementEffect ==
    ASSUME IInv, NEW r \in Requests, ExecStatement(r) \/ FailStatement(r)
    PROVE  /\ Waiting(r) /\ res'[r] \in {"ok", "error"}
           /\ \A q \in Requests \ {r} : res'[q] = res[q] /\ rows'[q] = rows[q]
           /\ UNCHANGED <<pc, arg, grade, answer, body, started, acked>>
           /\ Apply(r) \/ UNCHANGED <<challenges, answers, flagsSeen, tookEffect>>
           /\ Local(r)
<1>0. TypeOK
  BY DEF IInv
<1>1. /\ Waiting(r) /\ res'[r] \in {"ok", "error"}
      /\ \A q \in Requests \ {r} : res'[q] = res[q] /\ rows'[q] = rows[q]
      /\ UNCHANGED <<pc, arg, grade, answer, body, started, acked>>
      /\ Apply(r) \/ UNCHANGED <<challenges, answers, flagsSeen, tookEffect>>
      /\ hurt \subseteq hurt'
  <2>1. CASE ExecStatement(r)
    <3>1. Statement(r).status \in {"ok", "error"}
      BY <2>1, StatementType DEF ExecStatement
    <3>2. QED BY <1>0, <2>1, <3>1 DEF ExecStatement, TypeOK
  <2>2. CASE FailStatement(r)
    BY <1>0, <2>2 DEF FailStatement, TypeOK, tables
  <2>3. QED BY <2>1, <2>2
<1>2. Running(r)
  BY <1>1 DEF Waiting
<1>3. ASSUME NEW q \in Requests
      PROVE  /\ flagsSeen[q] \subseteq flagsSeen'[q]
             /\ Running(q) => \A c \in Target(q, challenges)' : c.flag \in flagsSeen'[q]
  <2>1. CASE Apply(r)
    <3>1. Target(q, challenges)' = Target(q, challenges')
      BY <1>1 DEF Target
    <3>2. flagsSeen'[q] = IF Running(q) THEN flagsSeen[q] \cup {c.flag : c \in Target(q, challenges')}
                          ELSE flagsSeen[q]
      BY <2>1 DEF Apply
    <3>3. QED BY <3>1, <3>2
  <2>2. CASE UNCHANGED <<challenges, answers, flagsSeen, tookEffect>>
    <3>1. LookFacts(q)
      BY DEF IInv, Facts
    <3>2. QED BY <1>1, <2>2, <3>1 DEF LookFacts, Target
  <2>3. QED BY <1>1, <2>1, <2>2
<1>4. tookEffect \subseteq tookEffect'
  BY <1>1 DEF Apply
<1>5. /\ \A c \in challenges' :
             \/ c.id = r /\ pc[r] = "create_2"
             \/ \E d \in challenges : d.id = c.id /\ d.owner = c.owner
      /\ \A a \in answers : a \in answers' \/ ~Exists(a.challenge)'
  BY <1>1, Applied
<1>6. Local(r)
  BY <1>1, <1>2, <1>3, <1>4, <1>5 DEF Local, Running
<1>7. QED BY <1>1, <1>6

\* A statement keeps every variable in its range.
LEMMA StatementTypes ==
    ASSUME IInv, NEW r \in Requests, ExecStatement(r) \/ FailStatement(r)
    PROVE  TypeOK'
<1>0. TypeOK
  BY DEF IInv
<1>1. /\ Waiting(r) /\ UNCHANGED <<pc, arg, grade, answer, body, started, acked>>
      /\ Apply(r) \/ UNCHANGED <<challenges, answers, flagsSeen, tookEffect>>
  BY StatementEffect
<1>2. challenges' \subseteq Challenges /\ answers' \subseteq Answers
  BY <1>0, <1>1, StatementType DEF Apply, TypeOK
<1>3. flagsSeen' \in [Requests -> SUBSET Flags]
  <2>1. CASE Apply(r)
    <3>1. \A q \in Requests : {c.flag : c \in Target(q, challenges')} \subseteq Flags
      BY <1>2 DEF Target, Challenges
    <3>2. \A q \in Requests :
              (IF Running(q) THEN flagsSeen[q] \cup {c.flag : c \in Target(q, challenges')}
               ELSE flagsSeen[q]) \in SUBSET Flags
      BY <1>0, <3>1 DEF TypeOK
    <3>3. QED BY <2>1, <3>2 DEF Apply
  <2>2. QED BY <1>0, <1>1, <2>1 DEF TypeOK
<1>4. tookEffect' \subseteq Requests
  BY <1>0, <1>1 DEF Apply, TypeOK
<1>5. /\ res' \in [Requests -> {"pending", "ok", "error"}]
      /\ rows' \in [Requests -> (SUBSET Challenges) \cup (SUBSET Answers)]
      /\ \A q \in Requests : res'[q] = "pending" => rows'[q] = {}
      /\ hurt' \subseteq Requests /\ dbUp' \in BOOLEAN
  <2>1. CASE ExecStatement(r)
    <3>1. /\ Statement(r).status \in {"ok", "error"}
          /\ Statement(r).rows \in (SUBSET Challenges) \cup (SUBSET Answers)
      BY <1>1, StatementType
    <3>2. QED BY <1>0, <2>1, <3>1 DEF ExecStatement, TypeOK
  <2>2. CASE FailStatement(r)
    BY <1>0, <2>2 DEF FailStatement, TypeOK
  <2>3. QED BY <2>1, <2>2
<1>6. QED BY <1>0, <1>1, <1>2, <1>3, <1>4, <1>5 DEF TypeOK

\* The tables after a statement.
LEMMA StatementTables ==
    ASSUME IInv, NEW r \in Requests, ExecStatement(r) \/ FailStatement(r)
    PROVE  ChallengesTable' /\ AnswersTable' /\ OneDeletion'
<1>0. TypeOK /\ Facts(r) /\ ChallengesTable /\ AnswersTable /\ OneDeletion
  BY DEF IInv
<1>1. /\ Waiting(r) /\ res'[r] \in {"ok", "error"}
      /\ \A q \in Requests \ {r} : res'[q] = res[q] /\ rows'[q] = rows[q]
      /\ UNCHANGED <<pc, arg, grade, answer, body, started, acked>>
      /\ Apply(r) \/ UNCHANGED <<challenges, answers, flagsSeen, tookEffect>>
      /\ Local(r)
  BY StatementEffect
<1>2. /\ \A c \in challenges' :
             \/ c.id = r /\ pc[r] = "create_2"
             \/ \E d \in challenges : d.id = c.id /\ d.owner = c.owner
      /\ \A c, d \in challenges' : c.id = d.id => c = d
      /\ \A a \in answers' :
             \/ a \in answers /\ Exists(a.challenge)'
             \/ pc[r] = "submit_3" /\ a = NewAnswer(r) /\ Exists(arg[r].id) /\ UNCHANGED challenges
  <2>1. CASE Apply(r)
    BY <1>1, <2>1, Applied
  <2>2. CASE UNCHANGED <<challenges, answers, flagsSeen, tookEffect>>
    BY <1>0, <2>2 DEF ChallengesTable, AnswersTable, Exists
  <2>3. QED BY <1>1, <2>1, <2>2
<1>3. ChallengesTable'
  <2>1. ASSUME NEW c \in challenges', c.id \in Requests
        PROVE  pc'[c.id] = "done" \/ (pc'[c.id] = "create_2" /\ res'[c.id] # "pending")
    BY <1>0, <1>1, <1>2, <2>1 DEF ChallengesTable
  <2>2. QED BY <1>2, <2>1 DEF ChallengesTable
<1>4. ASSUME NEW a \in answers'
      PROVE  /\ IsAnswer(a)' /\ Exists(a.challenge)'
             /\ \E f \in flagsSeen'[a.id] : a.correct = (a.flag = f)
  <2>1. CASE a \in answers /\ Exists(a.challenge)'
    <3>1. IsAnswer(a) /\ \E f \in flagsSeen[a.id] : a.correct = (a.flag = f)
      BY <1>0, <2>1 DEF AnswersTable
    <3>2. flagsSeen[a.id] \subseteq flagsSeen'[a.id]
      BY <1>1, <3>1 DEF IsAnswer, Local
    <3>3. QED BY <1>1, <2>1, <3>1, <3>2, AnswersStay
  <2>2. CASE pc[r] = "submit_3" /\ a = NewAnswer(r) /\ Exists(arg[r].id) /\ UNCHANGED challenges
    <3>1. /\ a.id = r /\ a.challenge = arg[r].id /\ a.user = arg[r].user /\ a.flag = arg[r].flag
          /\ a.correct = grade[r]
      BY <2>2 DEF NewAnswer
    <3>2. arg[r].op = "submit" /\ \E f \in flagsSeen[r] : grade[r] = (arg[r].flag = f)
      BY <1>0, <2>2 DEF Facts, Control, SubmitFacts
    <3>3. IsAnswer(a)'
      BY <1>1, <2>2, <3>1, <3>2 DEF IsAnswer
    <3>4. Exists(a.challenge)'
      BY <2>2, <3>1 DEF Exists
    <3>5. flagsSeen[r] \subseteq flagsSeen'[r]
      BY <1>1, <2>2 DEF Local
    <3>6. QED BY <3>1, <3>2, <3>3, <3>4, <3>5
  <2>3. QED BY <1>2, <2>1, <2>2
<1>5. AnswersTable'
  BY <1>4 DEF AnswersTable
<1>6. OneDeletion'
  <2>1. \A q \in Requests \ {r} : Won(q)' = Won(q) /\ arg'[q] = arg[q]
    BY <1>1 DEF Won, Ended
  <2>2. Won(r)' => Exists(arg[r].id) /\ arg'[r] = arg[r]
    <3>1. SUFFICES ASSUME Won(r)' PROVE Exists(arg[r].id)
      BY <1>1
    <3>2. pc[r] = "delete_3" /\ res'[r] = "ok" /\ rows'[r] # {}
      BY <1>0, <1>1, <3>1 DEF Won, Ended, Facts, Control, Waiting, Running
    <3>3. ExecStatement(r)
      BY <1>0, <3>2 DEF FailStatement, TypeOK
    <3>4. rows'[r] = Mine(r)
      BY <1>0, <3>2, <3>3, StatementIs DEF ExecStatement, Did, TypeOK
    <3>5. QED BY <3>2, <3>4 DEF Mine, Target, Exists
  <2>3. \A q \in Requests : Won(q) => ~Exists(arg[q].id)
    BY DEF IInv, Facts, ChangeFacts
  <2>4. QED BY <1>0, <2>1, <2>2, <2>3 DEF OneDeletion
<1>7. QED BY <1>3, <1>5, <1>6

\* A statement that is reported as done: what its handler will be told is
\* true of the tables it leaves.
LEMMA ExecFacts ==
    ASSUME IInv, NEW r \in Requests, ExecStatement(r)
    PROVE  Facts(r)'
<1>0. TypeOK /\ Facts(r) /\ ChallengesTable /\ AnswersTable /\ Local(r)
  BY StatementEffect DEF IInv
<1>1. /\ Running(r) /\ res[r] = "pending" /\ Apply(r)
      /\ res'[r] = Statement(r).status /\ rows'[r] = Statement(r).rows
      /\ UNCHANGED <<pc, arg, grade, answer, body, hurt, acked>>
  BY <1>0 DEF ExecStatement, Waiting, TypeOK
<1>2. Known' = Known /\ Acknowledged' = Acknowledged
  BY <1>1 DEF Known, Acknowledged
<1>3. /\ answer[r] = "none" /\ pc[r] # "done" /\ pc[r] # "idle" /\ pc[r] \in Stages
  BY <1>0, <1>1 DEF Facts, Control, Running, TypeOK
<1>4. /\ flagsSeen[r] \subseteq flagsSeen'[r] /\ tookEffect \subseteq tookEffect'
      /\ \A c \in Target(r, challenges)' : c.flag \in flagsSeen'[r]
  BY <1>0, <1>1 DEF Local, Apply, Target
<1>5. Asked(r)' /\ acked'[r] \subseteq Acknowledged'
  BY <1>0, <1>1, <1>2 DEF Facts, Asked, ListFacts
<1>6. Answered(r)' /\ ~Ended(r, "delete", "200")' /\ ~Ended(r, "submit", "200")'
  BY <1>1, <1>3 DEF Answered, Ended
<1>7. CASE pc[r] \in Looking \cup {"list_2", "own_2"}
  <2>1. /\ res'[r] = "ok" /\ rows'[r] = challenges
        /\ challenges' = challenges /\ answers' = answers
    BY <1>1, <1>7, StatementIs DEF Apply, Did
  <2>2. Control(r)' /\ ListFacts(r)'
    BY <1>0, <1>1, <1>5, <1>7, <2>1 DEF Facts, Control, ListFacts, Looking
  <2>3. Target(r, rows[r])' = Target(r, challenges) /\ Target(r, challenges)' = Target(r, challenges)
    BY <1>1, <2>1 DEF Target
  <2>4. Mine(r)' = Mine(r) /\ Exists(arg[r].id)' = Exists(arg[r].id)
    BY <1>1, <2>1 DEF Mine, Target, Exists
  <2>5. Exists(arg[r].id) = (Target(r, challenges) # {})
    BY DEF Exists, Target
  <2>6. LookFacts(r)'
    BY <1>1, <1>4, <2>1, <2>3, <2>4, <2>5 DEF LookFacts
  <2>7. Mine(r) = {} => \A c \in Target(r, challenges) : c.owner # arg[r].user
    BY DEF Mine
  <2>8. ChangeFacts(r)'
    BY <1>0, <1>1, <1>4, <1>6, <1>7, <2>1, <2>3, <2>4, <2>7 DEF Facts, ChangeFacts, Looking, Won
  <2>9. SubmitFacts(r)'
    BY <1>0, <1>1, <1>4, <1>6, <1>7, <2>1, <2>3, <2>4, <2>5 DEF Facts, SubmitFacts, Looking
  <2>10. QED BY <1>5, <1>6, <2>2, <2>6, <2>8, <2>9 DEF Facts
<1>8. CASE pc[r] \in {"submit_4", "answers_3", "mine_3"}
  <2>1. /\ res'[r] = "ok" /\ rows'[r] = answers
        /\ challenges' = challenges /\ answers' = answers
    BY <1>1, <1>8, StatementIs DEF Apply, Did
  <2>2. Control(r)'
    BY <1>0, <1>1, <1>8, <2>1 DEF Facts, Control
  <2>3. LookFacts(r)' /\ ChangeFacts(r)'
    BY <1>1, <1>4, <1>6, <1>8 DEF LookFacts, ChangeFacts, Looking, Won
  <2>4. SubmitFacts(r)'
    BY <1>0, <1>1, <1>4, <1>6, <1>8, <2>1 DEF Facts, SubmitFacts, Exists
  <2>5. ListFacts(r)'
    <3>1. \A a \in answers : IsAnswer(a)'
      BY <1>0, AnswersStay DEF AnswersTable
    <3>2. ASSUME NEW q \in acked[r], Exists(arg[q].id)' PROVE \E a \in answers : a.id = q
      <4>1. q \in Requests /\ Ended(q, "submit", "200")
        BY <1>0 DEF Facts, ListFacts, Acknowledged, Ended
      <4>2. SubmitFacts(q)
        BY <4>1 DEF IInv, Facts
      <4>3. Exists(arg[q].id)
        BY <1>1, <2>1, <3>2 DEF Exists
      <4>4. QED BY <4>1, <4>2, <4>3 DEF SubmitFacts
    <3>3. QED BY <1>1, <1>5, <2>1, <3>1, <3>2 DEF ListFacts
  <2>6. QED BY <1>5, <1>6, <2>2, <2>3, <2>4, <2>5 DEF Facts
<1>9. CASE pc[r] = "create_2"
  <2>1. res'[r] = "ok"
    BY <1>1, <1>9, StatementIs DEF Did
  <2>2. Control(r)'
    BY <1>0, <1>1, <1>9, <2>1 DEF Facts, Control
  <2>3. LookFacts(r)' /\ ChangeFacts(r)' /\ SubmitFacts(r)' /\ ListFacts(r)'
    BY <1>1, <1>4, <1>5, <1>6, <1>9 DEF LookFacts, ChangeFacts, SubmitFacts, ListFacts, Looking, Won
  <2>4. QED BY <1>5, <1>6, <2>2, <2>3 DEF Facts
<1>10. CASE pc[r] = "put_3"
  <2>1. /\ res'[r] = "ok" /\ rows'[r] = Rewritten(r) \ challenges
        /\ challenges' = (challenges \ Mine(r)) \cup Rewritten(r)
    BY <1>1, <1>10, StatementIs DEF Apply, Did
  <2>2. Mine(r) # {} => r \in tookEffect'
    BY <1>1, <1>10 DEF Apply
  <2>3. Mine(r) = {} => Rewritten(r) = {}
    BY DEF Rewritten
  <2>4. Mine(r) = {} => challenges' = challenges /\ Mine(r)' = {}
    BY <1>1, <2>1, <2>3 DEF Mine, Target
  <2>5. Control(r)'
    BY <1>0, <1>1, <1>10, <2>1 DEF Facts, Control
  <2>6. ChangeFacts(r)'
    BY <1>1, <1>6, <1>10, <2>1, <2>2, <2>3, <2>4 DEF ChangeFacts, Won
  <2>7. LookFacts(r)' /\ SubmitFacts(r)' /\ ListFacts(r)'
    BY <1>1, <1>4, <1>5, <1>6, <1>10 DEF LookFacts, SubmitFacts, ListFacts, Looking
  <2>8. QED BY <1>5, <1>6, <2>5, <2>6, <2>7 DEF Facts
<1>11. CASE pc[r] = "delete_3"
  <2>1. res'[r] = "ok" /\ rows'[r] = Mine(r) /\ challenges' = challenges \ Mine(r)
    BY <1>1, <1>11, StatementIs DEF Apply, Did
  <2>2. Control(r)'
    BY <1>0, <1>1, <1>11, <2>1 DEF Facts, Control
  <2>3. Mine(r)' = {}
    BY <1>1, <2>1 DEF Mine, Target
  <2>4. Mine(r) # {} => ~Exists(arg[r].id)'
    BY <1>0, <1>1, <2>1 DEF ChallengesTable, Mine, Target, Exists
  <2>5. ChangeFacts(r)'
    BY <1>1, <1>6, <1>11, <2>1, <2>3, <2>4 DEF ChangeFacts, Won
  <2>6. LookFacts(r)' /\ SubmitFacts(r)' /\ ListFacts(r)'
    BY <1>1, <1>4, <1>5, <1>6, <1>11 DEF LookFacts, SubmitFacts, ListFacts, Looking
  <2>7. QED BY <1>5, <1>6, <2>2, <2>5, <2>6 DEF Facts
<1>12. CASE pc[r] = "submit_3"
  <2>1. \/ /\ Target(r, challenges) = {} /\ res'[r] = "error" /\ challenges' = challenges
        \/ /\ res'[r] = "ok" /\ NewAnswer(r) \in answers'
    <3>1. CASE Target(r, challenges) = {}
      BY <1>1, <1>12, <3>1, StatementIs DEF Apply, Did
    <3>2. CASE Target(r, challenges) # {}
      BY <1>1, <1>12, <3>2, StatementIs DEF Apply, Did
    <3>3. QED BY <3>1, <3>2
  <2>2. Control(r)'
    BY <1>0, <1>1, <1>12 DEF Facts, Control
  <2>3. res'[r] = "error" => ~Exists(arg[r].id)'
    BY <1>1, <2>1 DEF Target, Exists
  <2>4. res'[r] = "ok" => \E a \in answers' : a.id = r
    BY <2>1 DEF NewAnswer
  <2>5. SubmitFacts(r)'
    BY <1>0, <1>1, <1>4, <1>6, <1>12, <2>3, <2>4 DEF Facts, SubmitFacts
  <2>6. LookFacts(r)' /\ ChangeFacts(r)' /\ ListFacts(r)'
    BY <1>1, <1>4, <1>5, <1>6, <1>12 DEF LookFacts, ChangeFacts, ListFacts, Looking, Won
  <2>7. QED BY <1>5, <1>6, <2>2, <2>5, <2>6 DEF Facts
<1>13. QED BY <1>3, <1>7, <1>8, <1>9, <1>10, <1>11, <1>12 DEF Stages, Looking

\* A statement that is reported as failed may have had its effect; the
\* request is marked as hurt, and what it knew before is still true.
LEMMA FailFacts ==
    ASSUME IInv, NEW r \in Requests, FailStatement(r)
    PROVE  Facts(r)'
<1>0. /\ TypeOK /\ Facts(r) /\ Local(r)
      /\ Apply(r) \/ UNCHANGED <<challenges, answers, flagsSeen, tookEffect>>
  BY StatementEffect DEF IInv
<1>1. /\ Running(r) /\ res'[r] = "error" /\ r \in hurt'
      /\ UNCHANGED <<pc, rows, arg, grade, answer, body, acked>>
  BY <1>0 DEF FailStatement, Waiting, TypeOK
<1>2. Known' = Known /\ Acknowledged' = Acknowledged
  BY <1>1 DEF Known, Acknowledged
<1>3. answer[r] = "none" /\ pc[r] # "done" /\ pc[r] # "idle"
  BY <1>0, <1>1 DEF Facts, Control, Running
<1>4. flagsSeen[r] \subseteq flagsSeen'[r] /\ tookEffect \subseteq tookEffect'
  BY <1>0, <1>3 DEF Local
<1>5. \A c \in Target(r, challenges)' : c.flag \in flagsSeen'[r]
  <2>1. CASE Apply(r)
    BY <1>1, <2>1 DEF Apply, Target
  <2>2. CASE UNCHANGED <<challenges, answers, flagsSeen, tookEffect>>
    BY <1>0, <1>1, <2>2 DEF Facts, LookFacts, Target
  <2>3. QED BY <1>0, <2>1, <2>2
<1>6. Mine(r) = {} /\ pc[r] # "create_2" => Mine(r)' = {}
  BY <1>0, <1>1 DEF Local, Mine, Target
<1>7. Control(r)' /\ Asked(r)' /\ Answered(r)'
  BY <1>0, <1>1, <1>2, <1>3 DEF Facts, Control, Asked, Answered, Ended
<1>8. LookFacts(r)' /\ ListFacts(r)'
  BY <1>0, <1>1, <1>2, <1>5 DEF Facts, LookFacts, ListFacts
<1>9. ChangeFacts(r)'
  BY <1>0, <1>1, <1>3, <1>4, <1>6 DEF Facts, ChangeFacts, Won, Ended
<1>10. SubmitFacts(r)'
  <2>1. pc[r] = "submit_4" /\ Exists(arg[r].id)' => \E a \in answers' : a.id = r
    <3>1. SUFFICES ASSUME pc[r] = "submit_4", Exists(arg[r].id)' PROVE \E a \in answers' : a.id = r
      OBVIOUS
    <3>2. arg[r].op = "submit" /\ arg[r].id \in Known
      BY <1>0, <3>1 DEF Facts, Control, Asked
    <3>3. Exists(arg[r].id)
      BY <1>0, <1>1, <3>1, <3>2, KnownStay DEF Exists
    <3>4. \E a \in answers : a.id = r
      BY <1>0, <3>1, <3>3 DEF Facts, SubmitFacts
    <3>5. QED BY <1>0, <3>1, <3>2, <3>4, AnswersStay
  <2>2. QED BY <1>0, <1>1, <1>3, <1>4, <2>1 DEF Facts, SubmitFacts, Ended
<1>11. QED BY <1>7, <1>8, <1>9, <1>10 DEF Facts

-----------------------------------------------------------------------------
(* The inductive invariant is one. *)

\* Before any request, with the seeds in the table.
LEMMA InitIInv == Init => IInv
<1>1. SUFFICES ASSUME Init PROVE IInv
  OBVIOUS
<1>2. TypeOK
  <2>1. {} \in (SUBSET Challenges) \cup (SUBSET Answers)
    OBVIOUS
  <2>2. rows = [r \in Requests |-> {}] /\ body = [r \in Requests |-> {}]
    BY <1>1 DEF Init
  <2>3. /\ rows \in [Requests -> (SUBSET Challenges) \cup (SUBSET Answers)]
        /\ body \in [Requests -> (SUBSET Challenges) \cup (SUBSET Answers)]
    BY <2>1, <2>2
  <2>4. QED BY <1>1, <2>3, SeedTypes, OpsAreKnown DEF Init, TypeOK, Stages, Statuses
<1>3. ChallengesTable /\ AnswersTable
  BY <1>1, SeedsAreRows DEF Init, ChallengesTable, AnswersTable
<1>4. \A r \in Requests : ~Won(r)
  BY <1>1 DEF Init, Won, Ended
<1>5. OneDeletion
  BY <1>4 DEF OneDeletion
<1>6. ASSUME NEW r \in Requests PROVE Facts(r)
  <2>1. /\ pc[r] = "idle" /\ res[r] = "pending" /\ answer[r] = "none" /\ acked[r] = {}
        /\ arg[r].op = "none" /\ arg[r].id = None
    BY <1>1 DEF Init
  <2>2. Control(r) /\ Asked(r) /\ LookFacts(r)
    BY <2>1 DEF Control, Asked, LookFacts, Looking, Running
  <2>3. ChangeFacts(r) /\ SubmitFacts(r) /\ ListFacts(r) /\ Answered(r)
    BY <1>4, <2>1 DEF ChangeFacts, SubmitFacts, ListFacts, Answered, Ended
  <2>4. QED BY <2>2, <2>3 DEF Facts
<1>7. QED BY <1>2, <1>3, <1>5, <1>6 DEF IInv

\* Every step keeps it.
LEMMA StepIInv == IInv /\ [Next]_vars => IInv'
<1>1. SUFFICES ASSUME IInv, [Next]_vars PROVE IInv'
  OBVIOUS
<1>2. ASSUME NEW r \in Requests, Handler(r) \/ Abandon(r) PROVE IInv'
  <2>1. TypeOK' /\ ChallengesTable' /\ AnswersTable' /\ OneDeletion' /\ Local(r) /\ Facts(r)'
    BY <1>1, <1>2, HandlerType, HandlerTables, HandlerLocal, HandlerFacts
  <2>2. \A q \in Requests : Facts(q)'
    BY <1>1, <2>1, OthersKeep
  <2>3. QED BY <2>1, <2>2 DEF IInv
<1>3. ASSUME NEW r \in Requests, ExecStatement(r) \/ FailStatement(r) PROVE IInv'
  <2>1. TypeOK' /\ ChallengesTable' /\ AnswersTable' /\ OneDeletion' /\ Local(r) /\ Facts(r)'
    BY <1>1, <1>3, StatementTypes, StatementTables, StatementEffect, ExecFacts, FailFacts
  <2>2. \A q \in Requests : Facts(q)'
    BY <1>1, <2>1, OthersKeep
  <2>3. QED BY <2>1, <2>2 DEF IInv
<1>4. ASSUME UNCHANGED <<request, tables, dbUp, history>>, started' \in BOOLEAN PROVE IInv'
  <2>1. TypeOK'
    BY <1>1, <1>4 DEF IInv, TypeOK, request, tables, history
  <2>2. ChallengesTable' /\ AnswersTable' /\ OneDeletion'
    BY <1>1, <1>4 DEF IInv, ChallengesTable, AnswersTable, OneDeletion, IsAnswer, Exists, Won, Ended,
                      request, tables, history
  <2>3. ASSUME NEW r \in Requests PROVE Facts(r)'
    <3>1. Facts(r)
      BY <1>1 DEF IInv
    <3>2. Control(r)' /\ Asked(r)' /\ LookFacts(r)'
      BY <1>4, <3>1 DEF Facts, Control, Asked, Known, LookFacts, Running, Exists, Target, request,
                        tables, history
    <3>3. ChangeFacts(r)' /\ SubmitFacts(r)'
      BY <1>4, <3>1 DEF Facts, ChangeFacts, SubmitFacts, Won, Ended, Mine, Exists, Target, request,
                        tables, history
    <3>4. ListFacts(r)' /\ Answered(r)'
      BY <1>4, <3>1 DEF Facts, ListFacts, Answered, Acknowledged, Known, IsAnswer, Ended, Exists,
                        request, tables, history
    <3>5. QED BY <3>2, <3>3, <3>4 DEF Facts
  <2>4. QED BY <2>1, <2>2, <2>3 DEF IInv
<1>5. CASE ContestStarts
  BY <1>4, <1>5 DEF ContestStarts
<1>6. CASE UNCHANGED vars
  BY <1>1, <1>4, <1>6 DEF vars, IInv, TypeOK
<1>7. QED BY <1>1, <1>2, <1>3, <1>5, <1>6 DEF Next

-----------------------------------------------------------------------------
(* The theorems. *)

\* handler_challenge.c, handler_answer.c: whatever requests, statements and
\* faults do, the tables and every request's knowledge of them agree.
THEOREM Invariance == Spec => []IInv
BY InitIInv, StepIInv, PTL DEF Spec

\* Every variable stays in its range; no result outlives its handler.
THEOREM TypeCorrect == Spec => []TypeOK
BY Invariance, PTL DEF IInv

\* handler_challenge.c:441-469, 690-713, handler_answer.c:157-219, 252, 321.
\* An error is true: 404 means the challenge is gone for good, 500 that the
\* database failed the request or that the flag cannot be decoded.
THEOREM ErrorsAreTrue == Spec => []ErrorIsTrue
<1>1. IInv => ErrorIsTrue
  BY DEF IInv, Facts, Answered, ErrorIsTrue
<1>2. QED BY <1>1, Invariance, PTL

\* handler_challenge.c:576-619, 674-697.  A success is true: one deletion
\* wins and leaves neither challenge nor answers; a PUT had its effect.
THEOREM SuccessesAreTrue == Spec => []SuccessIsTrue
<1>1. IInv => SuccessIsTrue
  <2>1. SUFFICES ASSUME IInv PROVE SuccessIsTrue
    OBVIOUS
  <2>2. \A r \in Requests : Ended(r, "delete", "200") => Won(r)
    BY DEF Won
  <2>3. \A r \in Requests : Won(r) => ~Exists(arg[r].id)
    BY <2>1 DEF IInv, Facts, ChangeFacts
  <2>4. \A a \in answers : Exists(a.challenge)
    BY <2>1 DEF IInv, AnswersTable
  <2>5. \A r, q \in Requests : Won(r) /\ Won(q) /\ arg[r].id = arg[q].id => r = q
    BY <2>1 DEF IInv, OneDeletion
  <2>6. \A r \in Requests : Ended(r, "put", "200") => r \in tookEffect
    BY <2>1 DEF IInv, Facts, Answered
  <2>7. ASSUME NEW r \in Requests, NEW q \in Requests, Ended(r, "delete", "200")
        PROVE  /\ Ended(q, "delete", "200") /\ arg[q].id = arg[r].id => q = r
               /\ ~Exists(arg[r].id)
               /\ \A a \in answers : a.challenge # arg[r].id
    BY <2>2, <2>3, <2>4, <2>5, <2>7
  <2>8. QED BY <2>6, <2>7 DEF SuccessIsTrue
<1>2. QED BY <1>1, Invariance, PTL

\* handler_answer.c:157-196.  Whatever PUTs run meanwhile, a stored grade is
\* right for a flag the challenge had while the submission was under way.
THEOREM GradesWereTrue == Spec => []GradeWasTrue
<1>1. IInv => GradeWasTrue
  BY DEF IInv, AnswersTable, GradeWasTrue
<1>2. QED BY <1>1, Invariance, PTL

\* handler_answer.c:234-279.  An acknowledged answer is stored as long as its
\* challenge, and its author's later listings show it.
THEOREM AcknowledgedAnswersAreListed == Spec => []AcknowledgedIsListed
<1>1. IInv => AcknowledgedIsListed
  <2>1. SUFFICES ASSUME IInv PROVE AcknowledgedIsListed
    OBVIOUS
  <2>2. ASSUME NEW q \in Acknowledged, Exists(arg[q].id) PROVE \E a \in answers : a.id = q
    BY <2>1, <2>2 DEF IInv, Facts, SubmitFacts, Acknowledged, Ended
  <2>3. \A r \in Requests : Answered(r)
    BY <2>1 DEF IInv, Facts
  <2>4. QED BY <2>2, <2>3 DEF AcknowledgedIsListed, Answered
<1>2. QED BY <1>1, Invariance, PTL
=============================================================================
