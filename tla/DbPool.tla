------------------------------- MODULE DbPool -------------------------------
(***************************************************************************)
(* The database worker pool of db.c: a task queue and a done queue         *)
(* (task_queue_t: list, mutex, condition variable, stop flag), worker      *)
(* threads that run SQL, an eventfd watched by the event loop in           *)
(* edge-triggered mode, and the event loop's side of it (db_handler in     *)
(* server.c, db_pool_stop and db_pool_free during destroy_server).         *)
(*                                                                         *)
(* A critical section of a queue mutex is one step.  A task is named after *)
(* the request context it carries (task->data); a context owns at most one *)
(* outstanding task, so Tasks bounds the load.  The eventfd counter only   *)
(* matters as zero or nonzero, because eventfd_read resets it to zero.     *)
(***************************************************************************)
EXTENDS Naturals, Sequences, Functions

CONSTANTS Tasks, Threads, None

ASSUME NoneIsNoTask == None \notin Tasks

VARIABLES
    taskQ, doneQ,   \* task_queue and done_queue
    stop,           \* task_queue->stop
    worker,         \* program counter of each worker thread
    cur,            \* the task a worker took off the queue
    linked,         \* did the worker's mysql_real_connect succeed
    result,         \* task->result->success
    counter,        \* eventfd counter is nonzero
    edge,           \* the eventfd is on epoll's ready list
    main,           \* program counter of the event-loop thread
    hand,           \* task the event loop took off the done queue
    outstanding     \* history: tasks accepted and not yet handed back

queues == <<taskQ, doneQ, stop>>
threads == <<worker, cur, linked>>
notification == <<counter, edge>>
loop == <<main, hand>>
vars == <<queues, threads, result, notification, loop, outstanding>>

WorkerPC == {"new", "connect", "pop", "asleep", "exec", "push", "notify", "exited"}
MainPC == {"create", "loop", "event", "drain", "handle", "join", "abort", "free", "freed"}

\* One type invariant: every variable of the pool and the loop in its range.
TypeOK ==
    /\ taskQ \in Seq(Tasks) /\ doneQ \in Seq(Tasks)
    /\ stop \in BOOLEAN
    /\ worker \in [Threads -> WorkerPC]
    /\ cur \in [Threads -> Tasks \cup {None}]
    /\ linked \in [Threads -> BOOLEAN]
    /\ result \in [Tasks -> {"none", "ok", "error"}]
    /\ counter \in BOOLEAN /\ edge \in BOOLEAN
    /\ main \in MainPC
    /\ hand \in Tasks \cup {None}
    /\ outstanding \subseteq Tasks

Init ==
    /\ taskQ = <<>> /\ doneQ = <<>> /\ stop = FALSE
    /\ worker = [w \in Threads |-> "new"]
    /\ cur = [w \in Threads |-> None]
    /\ linked = [w \in Threads |-> FALSE]
    /\ result = [t \in Tasks |-> "none"]
    /\ counter = FALSE /\ edge = FALSE
    /\ main = "create" /\ hand = None
    /\ outstanding = {}

Asleep == {w \in Threads : worker[w] = "asleep"}

-----------------------------------------------------------------------------
(* Primitives of the queues and of the eventfd.  Operators named Bug... are *)
(* the mistakes that the properties are tested against.                     *)

BugLinkInFront(q, t) == <<t>> \o q

\* Link a task at the tail of a queue.
Link(q, t) == Append(q, t)

BugUnlink(q) == q

\* Unlink the head of a queue.
Unlink(q) == Tail(q)

\* pthread_cond_signal: wake one waiter, if there is one.
Signal ==
    \/ Asleep = {} /\ UNCHANGED worker
    \/ \E w \in Asleep : worker' = [worker EXCEPT ![w] = "pop"]

\* pthread_cond_broadcast; threads that are not waiting do not notice it.
Broadcast == worker' = [w \in Threads |-> IF worker[w] = "asleep" THEN "pop" ELSE worker[w]]

BugPushSilently(t) == taskQ' = Link(taskQ, t) /\ UNCHANGED worker

\* task_queue_push on the task queue.
TaskQueuePush(t) == taskQ' = Link(taskQ, t) /\ Signal

BugStopSilently == stop' = TRUE /\ UNCHANGED worker

\* The critical section of db_pool_stop.
StopQueue == stop' = TRUE /\ Broadcast

BugWriteOnlyFirst ==
    /\ counter' = (counter \/ Len(doneQ) = 1)
    /\ edge' = (edge \/ Len(doneQ) = 1)

\* eventfd_write: the counter rises and epoll gets a new edge.
EventfdWrite == counter' = TRUE /\ edge' = TRUE

-----------------------------------------------------------------------------
(* Creating the pool: db_pool_new.  A failed pthread_create frees the pool. *)

CreateThread(w) ==
    /\ main = "create"
    /\ worker[w] = "new"
    /\ worker' = [worker EXCEPT ![w] = "connect"]
    /\ main' = IF \A v \in Threads \ {w} : worker[v] # "new" THEN "loop" ELSE "create"
    /\ UNCHANGED <<queues, cur, linked, result, notification, hand, outstanding>>

CreateFails ==
    /\ main = "create"
    /\ \E w \in Threads : worker[w] = "new"
    /\ StopQueue
    /\ main' = "abort"
    /\ UNCHANGED <<taskQ, doneQ, cur, linked, result, notification, hand, outstanding>>

-----------------------------------------------------------------------------
(* Worker threads: db_worker_thread and task_queue_pop. *)

\* mysql_init and mysql_real_connect, tried once in the life of the thread.
Connect(w) ==
    /\ worker[w] = "connect"
    /\ \E up \in BOOLEAN : linked' = [linked EXCEPT ![w] = up]
    /\ worker' = [worker EXCEPT ![w] = "pop"]
    /\ UNCHANGED <<queues, cur, result, notification, loop, outstanding>>

\* task_queue_pop returns NULL, which ends the thread.
ThreadEnds == stop /\ taskQ = <<>>

\* task_queue_pop under its mutex: take the head, or end, or wait.
Pop(w) ==
    /\ worker[w] = "pop"
    /\ \/ /\ ThreadEnds
          /\ worker' = [worker EXCEPT ![w] = "exited"]
          /\ UNCHANGED <<taskQ, cur>>
       \/ /\ ~ThreadEnds /\ taskQ = <<>>
          /\ worker' = [worker EXCEPT ![w] = "asleep"]
          /\ UNCHANGED <<taskQ, cur>>
       \/ /\ ~ThreadEnds /\ taskQ # <<>>
          /\ cur' = [cur EXCEPT ![w] = Head(taskQ)]
          /\ taskQ' = Unlink(taskQ)
          /\ worker' = [worker EXCEPT ![w] = "exec"]
    /\ UNCHANGED <<doneQ, stop, linked, result, notification, loop, outstanding>>

\* pthread_cond_wait may return without a signal.
SpuriousWakeup(w) ==
    /\ worker[w] = "asleep"
    /\ worker' = [worker EXCEPT ![w] = "pop"]
    /\ UNCHANGED <<queues, cur, linked, result, notification, loop, outstanding>>

\* What a statement can report.  Without a connection every task fails.
Outcomes(w) == IF linked[w] THEN {"ok", "error"} ELSE {"error"}

Exec(w) ==
    /\ worker[w] = "exec"
    /\ \E r \in Outcomes(w) : result' = [result EXCEPT ![cur[w]] = r]
    /\ worker' = [worker EXCEPT ![w] = "push"]
    /\ UNCHANGED <<queues, cur, linked, notification, loop, outstanding>>

\* task_queue_push on the done queue (its condition variable has no waiter).
PushDone(w) ==
    /\ worker[w] = "push"
    /\ doneQ' = Link(doneQ, cur[w])
    /\ cur' = [cur EXCEPT ![w] = None]
    /\ worker' = [worker EXCEPT ![w] = "notify"]
    /\ UNCHANGED <<taskQ, stop, linked, result, notification, loop, outstanding>>

Notify(w) ==
    /\ worker[w] = "notify"
    /\ EventfdWrite
    /\ worker' = [worker EXCEPT ![w] = "pop"]
    /\ UNCHANGED <<queues, cur, linked, result, loop, outstanding>>

WorkerStep(w) == Connect(w) \/ Pop(w) \/ Exec(w) \/ PushDone(w) \/ Notify(w)

-----------------------------------------------------------------------------
(* The event loop. *)

\* db_pool_exec_query and db_exec_query_param refuse once stopped.
Open == ~stop

\* db_pool_exec_query and db_exec_query_param.  A refused call (stopped pool,
\* invalid statement, allocation failure) returns -1 and changes nothing.
\* The caller is a handler: of a new request in the batch, of a password
\* result, or of the task just delivered (the next statement of its chain).
ExecQuery(t) ==
    /\ Open
    /\ t \notin outstanding
    /\ \/ main \in {"loop", "event"} /\ UNCHANGED loop
       \/ main = "handle" /\ hand = t /\ main' = "drain" /\ hand' = None
    /\ TaskQueuePush(t)
    /\ result' = [result EXCEPT ![t] = "none"]
    /\ outstanding' = outstanding \cup {t}
    /\ UNCHANGED <<doneQ, stop, cur, linked, notification>>

\* epoll_wait looks at its ready list: the edge is consumed, and reported if
\* the counter is still nonzero.
EpollWait ==
    /\ main = "loop"
    /\ edge
    /\ edge' = FALSE
    /\ main' = IF counter THEN "event" ELSE "loop"
    /\ UNCHANGED <<queues, threads, result, counter, hand, outstanding>>

\* db_handler begins by resetting the eventfd.
ReadCounter ==
    /\ main = "event"
    /\ counter' = FALSE
    /\ main' = "drain"
    /\ UNCHANGED <<queues, threads, result, edge, hand, outstanding>>

\* db_pool_get_latest_completed_task, the condition of db_handler's loop.
Drain ==
    /\ main = "drain"
    /\ \/ /\ doneQ # <<>>
          /\ hand' = Head(doneQ)
          /\ doneQ' = Unlink(doneQ)
          /\ outstanding' = outstanding \ {Head(doneQ)}
          /\ main' = "handle"
       \/ /\ doneQ = <<>>
          /\ main' = IF stop THEN "free" ELSE "loop"
          /\ UNCHANGED <<hand, doneQ, outstanding>>
    /\ UNCHANGED <<taskQ, stop, threads, result, notification>>

\* The body of db_handler's loop: db_task_free, and the chain ends here or
\* its next step goes elsewhere.
HandleTask ==
    /\ main = "handle"
    /\ result' = [result EXCEPT ![hand] = "none"]
    /\ main' = "drain"
    /\ hand' = None
    /\ UNCHANGED <<queues, threads, notification, outstanding>>

\* db_pool_stop, called by destroy_server once the loop ended; the loop may
\* end with our event fetched but not handled (the signal came first).
DbPoolStop ==
    /\ main \in {"loop", "event"}
    /\ ~stop
    /\ StopQueue
    /\ main' = "join"
    /\ UNCHANGED <<taskQ, doneQ, cur, linked, result, notification, hand, outstanding>>

BugJoinNobody == TRUE

\* pthread_join returned for every thread that was created.
Joined == \A w \in Threads : worker[w] \in {"new", "exited"}

\* After the join destroy_server calls db_handler once more; db_pool_new's
\* error path goes straight to the end.
Join ==
    /\ main \in {"join", "abort"}
    /\ Joined
    /\ main' = IF main = "join" THEN "event" ELSE "free"
    /\ UNCHANGED <<queues, threads, result, notification, hand, outstanding>>

\* db_pool_free: task_queue_free releases whatever is still queued.
DbPoolFree ==
    /\ main = "free"
    /\ taskQ' = <<>> /\ doneQ' = <<>>
    /\ main' = "freed"
    /\ UNCHANGED <<stop, threads, result, notification, hand, outstanding>>

Terminated == main = "freed" /\ UNCHANGED vars

LoopStep ==
    \/ \E w \in Threads : CreateThread(w)
    \/ EpollWait \/ ReadCounter \/ Drain \/ HandleTask \/ Join \/ DbPoolFree

Next ==
    \/ \E w \in Threads : WorkerStep(w) \/ SpuriousWakeup(w)
    \/ LoopStep
    \/ CreateFails
    \/ \E t \in Tasks : ExecQuery(t)
    \/ DbPoolStop
    \/ Terminated

\* Threads that can run are scheduled and statements return; the loop thread
\* keeps running.  No fairness for clients, signals or spurious wakeups.
Fairness ==
    /\ \A w \in Threads : WF_vars(WorkerStep(w))
    /\ WF_vars(LoopStep)

Spec == Init /\ [][Next]_vars /\ Fairness

-----------------------------------------------------------------------------
(* Properties. *)

Held == {cur[w] : w \in Threads} \ {None}

\* An accepted task is in exactly one place, once: queued, with one worker,
\* or done (task_queue_push, task_queue_pop, db_worker_thread).  Together
\* with the hand-over in Drain: delivered exactly once, never twice.
OneOwner ==
    /\ outstanding = Range(taskQ) \cup Held \cup Range(doneQ)
    /\ Range(taskQ) \cap Held = {}
    /\ Range(taskQ) \cap Range(doneQ) = {}
    /\ Held \cap Range(doneQ) = {}
    /\ IsInjective(taskQ) /\ IsInjective(doneQ)
    /\ \A v, w \in Threads : cur[v] = cur[w] /\ cur[v] # None => v = w

\* A finished task is never stranded: its edge is still to be reported, or a
\* worker is about to write the eventfd, or db_handler is going to look at
\* the queue again.  This is what edge-triggered mode asks of the order
\* "push, then write" in the worker and "read, then drain" in db_handler.
NoLostNotification ==
    doneQ # <<>> =>
        \/ counter /\ edge
        \/ \E w \in Threads : worker[w] = "notify"
        \/ main # "loop"

\* With a task queued, some thread is on its way to task_queue_pop; the one
\* signal per push is never lost (task_queue_push, task_queue_pop).
NoLostSignal ==
    taskQ # <<>> => \E w \in Threads : worker[w] \notin {"asleep", "exited"}

\* Freeing the pool abandons no context: the drain of task_queue_pop after
\* stop, the join and the last db_handler call have returned every task.
NothingAbandoned == main \in {"free", "freed"} => outstanding = {}

-----------------------------------------------------------------------------
(* The pool implements JobService. *)

JobStatus(t) ==
    IF t \notin outstanding THEN "idle"
    ELSE IF t \in Range(doneQ) THEN "finished" ELSE "accepted"

Abstract == INSTANCE JobService WITH
    Jobs <- Tasks,
    status <- [t \in Tasks |-> JobStatus(t)],
    phase <- IF main = "freed" THEN "released" ELSE IF stop THEN "stopping" ELSE "open"

\* To its caller the pool is an abstract job service: exactly-once hand-over,
\* nothing accepted after stop, freed only when nothing is owed.
ImplementsJobService == Abstract!Spec
=============================================================================
