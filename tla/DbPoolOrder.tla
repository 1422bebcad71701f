---------------------------- MODULE DbPoolOrder ----------------------------
(***************************************************************************)
(* DbPool with two history variables: before relates the outstanding tasks *)
(* in the order in which they were accepted, took holds the threads that   *)
(* have ever held a task.                                                  *)
(***************************************************************************)
EXTENDS DbPool

VARIABLES before, took

HistoryInit == Init /\ before = {} /\ took = {}

HistoryNext ==
    /\ Next
    /\ took' = took \cup {w \in Threads : cur'[w] # None}
    /\ before' = (before \cap (outstanding' \X outstanding'))
                 \cup ((outstanding \cap outstanding') \X (outstanding' \ outstanding))

HistorySpec == HistoryInit /\ [][HistoryNext]_<<vars, before, took>> /\ Fairness

\* The tasks of queue q stand in it as they were accepted.
InOrder(q) == \A i, j \in DOMAIN q : i < j <=> <<q[i], q[j]>> \in before

\* Statements are started in the order in which the handlers queued them: the
\* queue is in that order, and what was taken from it came before what is left.
\* When one worker does all the work, as with the single thread the server
\* creates (NUM_DB_WORKER_THREADS in server.c), the loop also sees their
\* results in that order: done queue, task in work and task queue read one
\* after the other are the acceptance order (task_queue_push, task_queue_pop).
StatementsInOrder ==
    /\ InOrder(taskQ)
    /\ (Held \cup Range(doneQ)) \X Range(taskQ) \subseteq before
    /\ \A w \in Threads :
          took \subseteq {w} => InOrder(doneQ) /\ Range(doneQ) \X Held \subseteq before
=============================================================================
