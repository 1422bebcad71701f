--------------------------- MODULE PasswordWorker ---------------------------
(***************************************************************************)
(* The password worker of app/password_worker.c: one thread that hashes    *)
(* and verifies passwords off the event loop, a bounded list of pending    *)
(* jobs, a list of done jobs, and an eventfd in edge-triggered mode; with  *)
(* the event loop's side of it (password_worker_handler, and               *)
(* password_worker_stop and password_worker_free in destroy_server).       *)
(* Unlike the database pool, stopping does not drain: pending jobs come    *)
(* back cancelled.  A job is named after the request context it carries.   *)
(***************************************************************************)
EXTENDS Naturals, Sequences, Functions

CONSTANTS Jobs, Capacity, None

ASSUME NoneIsNoJob == None \notin Jobs
ASSUME CapacityIsPositive == Capacity \in Nat \ {0}

VARIABLES
    pending,        \* pending_head .. pending_tail
    waiting,        \* the counter kept beside the pending list
    done,           \* done_head .. done_tail
    stopped,
    worker, cur,    \* program counter of the thread, and its job
    kind,           \* operation of a job, and whether its user is unknown
    input,          \* job->password and job->stored_hash are filled in
    outcome,        \* job->result
    counter, edge,  \* eventfd counter nonzero; eventfd on epoll's ready list
    main, hand,     \* program counter of the event loop, and the job it popped
    outstanding     \* history: jobs accepted and not yet handed back

lists == <<pending, waiting, done, stopped>>
thread == <<worker, cur>>
job == <<kind, input, outcome>>
notification == <<counter, edge>>
loop == <<main, hand>>
vars == <<lists, thread, job, notification, loop, outstanding>>

Kinds == {"hash", "verify", "verify_unknown"}

\* One type invariant: every variable of the worker and the loop in its range.
TypeOK ==
    /\ pending \in Seq(Jobs) /\ done \in Seq(Jobs)
    /\ waiting \in Nat
    /\ stopped \in BOOLEAN
    /\ worker \in {"new", "wait", "asleep", "compute", "append", "notify", "exited"}
    /\ cur \in Jobs \cup {None}
    /\ kind \in [Jobs -> Kinds]
    /\ input \in [Jobs -> BOOLEAN]
    /\ outcome \in [Jobs -> {"none", "ok", "invalid", "error", "cancelled"}]
    /\ counter \in BOOLEAN /\ edge \in BOOLEAN
    /\ main \in {"create", "loop", "event", "drain", "handle", "cancel_notify",
                 "join", "free", "freed"}
    /\ hand \in Jobs \cup {None}
    /\ outstanding \subseteq Jobs

Init ==
    /\ pending = <<>> /\ waiting = 0 /\ done = <<>> /\ stopped = FALSE
    /\ worker = "new" /\ cur = None
    /\ kind = [j \in Jobs |-> "hash"]
    /\ input = [j \in Jobs |-> FALSE]
    /\ outcome = [j \in Jobs |-> "none"]
    /\ counter = FALSE /\ edge = FALSE
    /\ main = "create" /\ hand = None
    /\ outstanding = {}

-----------------------------------------------------------------------------
(* Primitives.  Operators named Bug... are the mistakes that the properties *)
(* are tested against.                                                      *)

\* pthread_cond_signal with a single possible waiter.
Signal == worker' = IF worker = "asleep" THEN "wait" ELSE worker

\* pthread_cond_broadcast with a single possible waiter.
Broadcast == worker' = IF worker = "asleep" THEN "wait" ELSE worker

\* notify_completion: eventfd_write raises the counter and gives an edge.
EventfdWrite == counter' = TRUE /\ edge' = TRUE

\* clear_input of the jobs in js.
ClearInput(js) == input' = [j \in Jobs |-> input[j] /\ j \notin js]

BugDropLate(js) == done' = IF stopped THEN done ELSE done \o js

\* append_done of the jobs js, in order.
AppendToDone(js) == done' = done \o js

-----------------------------------------------------------------------------
(* password_worker_new. *)

New ==
    /\ main = "create"
    /\ worker' = "wait"
    /\ main' = "loop"
    /\ UNCHANGED <<lists, cur, job, notification, hand, outstanding>>

\* eventfd, epoll_ctl or pthread_create failed: password_worker_free.
NewFails ==
    /\ main = "create"
    /\ stopped' = TRUE
    /\ main' = "free"
    /\ UNCHANGED <<pending, waiting, done, thread, job, notification, hand, outstanding>>

-----------------------------------------------------------------------------
(* The thread: run_password_worker. *)

\* waiting-- of the thread.
OneLess == waiting - 1

\* The critical section at the top of the loop: end when stopped, wait when
\* there is nothing to do, else take the head.
TakeJob ==
    /\ worker = "wait"
    /\ \/ /\ stopped
          /\ worker' = "exited"
          /\ UNCHANGED <<pending, waiting, cur>>
       \/ /\ ~stopped /\ pending = <<>>
          /\ worker' = "asleep"
          /\ UNCHANGED <<pending, waiting, cur>>
       \/ /\ ~stopped /\ pending # <<>>
          /\ cur' = Head(pending)
          /\ pending' = Tail(pending)
          /\ waiting' = OneLess
          /\ worker' = "compute"
    /\ UNCHANGED <<done, stopped, job, notification, loop, outstanding>>

SpuriousWakeup ==
    /\ worker = "asleep"
    /\ worker' = "wait"
    /\ UNCHANGED <<lists, cur, job, notification, loop, outstanding>>

\* auth_password_hash and auth_password_verify, by what they can return.
Computed(k) == IF k = "hash" THEN {"ok", "error"} ELSE {"ok", "invalid", "error"}

\* A password that matches the dummy hash of an unknown user is no match.
Verdict(k, s) == IF k = "verify_unknown" /\ s = "ok" THEN "invalid" ELSE s

\* The work outside the mutex, then clear_input.
Compute ==
    /\ worker = "compute"
    /\ \E s \in Computed(kind[cur]) :
           outcome' = [outcome EXCEPT ![cur] = Verdict(kind[cur], s)]
    /\ ClearInput({cur})
    /\ worker' = "append"
    /\ UNCHANGED <<lists, cur, kind, notification, loop, outstanding>>

AppendDone ==
    /\ worker = "append"
    /\ AppendToDone(<<cur>>)
    /\ cur' = None
    /\ worker' = "notify"
    /\ UNCHANGED <<pending, waiting, stopped, job, notification, loop, outstanding>>

NotifyCompletion ==
    /\ worker = "notify"
    /\ EventfdWrite
    /\ worker' = "wait"
    /\ UNCHANGED <<lists, cur, job, loop, outstanding>>

WorkerStep == TakeJob \/ Compute \/ AppendDone \/ NotifyCompletion

-----------------------------------------------------------------------------
(* The event loop. *)

BugOneTooMany == waiting <= Capacity

\* The capacity test of password_worker_submit.
HasRoom == waiting # Capacity

\* A stopped worker refuses.
Open == ~stopped

BugEnqueueSilently(j) ==
    /\ pending' = Append(pending, j)
    /\ waiting' = waiting + 1
    /\ UNCHANGED worker

\* Link a job at the tail of the pending list and wake the thread.
Enqueue(j) ==
    /\ pending' = Append(pending, j)
    /\ waiting' = waiting + 1
    /\ Signal

\* password_worker_submit.  A refused call (invalid input, stopped, queue
\* full, no memory) consumes the caller's password and changes nothing here.
Submit(j, k) ==
    /\ main \in {"loop", "event"}
    /\ j \notin outstanding
    /\ Open /\ HasRoom
    /\ kind' = [kind EXCEPT ![j] = k]
    /\ input' = [input EXCEPT ![j] = TRUE]
    /\ Enqueue(j)
    /\ outstanding' = outstanding \cup {j}
    /\ UNCHANGED <<done, stopped, cur, outcome, notification, loop>>

EpollWait ==
    /\ main = "loop"
    /\ edge
    /\ edge' = FALSE
    /\ main' = IF counter THEN "event" ELSE "loop"
    /\ UNCHANGED <<lists, thread, job, counter, hand, outstanding>>

\* password_worker_handler begins by resetting the eventfd.
ReadCounter ==
    /\ main = "event"
    /\ counter' = FALSE
    /\ main' = "drain"
    /\ UNCHANGED <<lists, thread, job, edge, hand, outstanding>>

\* password_worker_pop, the condition of the handler's loop.
PopDone ==
    /\ main = "drain"
    /\ \/ /\ done # <<>>
          /\ hand' = Head(done)
          /\ done' = Tail(done)
          /\ outstanding' = outstanding \ {Head(done)}
          /\ main' = "handle"
       \/ /\ done = <<>>
          /\ main' = IF stopped THEN "free" ELSE "loop"
          /\ UNCHANGED <<hand, done, outstanding>>
    /\ UNCHANGED <<pending, waiting, stopped, thread, job, notification>>

\* The body of the handler's loop: the continuation reads the result, then
\* password_job_free erases and frees the job.
HandleResult ==
    /\ main = "handle"
    /\ main' = "drain"
    /\ hand' = None
    /\ kind' = [kind EXCEPT ![hand] = "hash"]
    /\ outcome' = [outcome EXCEPT ![hand] = "none"]
    /\ ClearInput({hand})
    /\ UNCHANGED <<lists, thread, notification, outstanding>>

CancelAll == [j \in Jobs |-> IF j \in Range(pending) THEN "cancelled" ELSE outcome[j]]

\* password_worker_stop under the mutex: cancel what is pending, erase its
\* input, wake the thread.
Stop ==
    /\ main \in {"loop", "event"}
    /\ ~stopped
    /\ stopped' = TRUE
    /\ AppendToDone(pending)
    /\ pending' = <<>>
    /\ waiting' = 0
    /\ ClearInput(Range(pending))
    /\ outcome' = CancelAll
    /\ Broadcast
    /\ main' = IF pending # <<>> THEN "cancel_notify" ELSE "join"
    /\ UNCHANGED <<cur, kind, notification, hand, outstanding>>

\* password_worker_stop reports the cancelled jobs after the unlock.
CancelNotify ==
    /\ main = "cancel_notify"
    /\ EventfdWrite
    /\ main' = "join"
    /\ UNCHANGED <<lists, thread, job, hand, outstanding>>

\* pthread_join returned.
Joined == worker = "exited"

\* pthread_join; destroy_server then calls the handler once more.
Join ==
    /\ main = "join"
    /\ Joined
    /\ main' = "event"
    /\ UNCHANGED <<lists, thread, job, notification, hand, outstanding>>

\* password_worker_free: stop again (nothing left to stop), free the rest.
Free ==
    /\ main = "free"
    /\ done' = <<>>
    /\ main' = "freed"
    /\ UNCHANGED <<pending, waiting, stopped, thread, job, notification, hand, outstanding>>

Terminated == main = "freed" /\ UNCHANGED vars

LoopStep ==
    EpollWait \/ ReadCounter \/ PopDone \/ HandleResult \/ CancelNotify \/ Join \/ Free

Next ==
    \/ New \/ NewFails
    \/ WorkerStep \/ SpuriousWakeup
    \/ LoopStep
    \/ \E j \in Jobs, k \in Kinds : Submit(j, k)
    \/ Stop
    \/ Terminated

\* The thread and the loop thread are scheduled while they can run, and a
\* password computation ends.  No fairness for submissions or signals.
Fairness == WF_vars(WorkerStep) /\ WF_vars(LoopStep)

Spec == Init /\ [][Next]_vars /\ Fairness

-----------------------------------------------------------------------------
(* Properties. *)

InWork == {cur} \ {None}

\* The counter is the length of the list, so QUEUE_FULL is answered exactly
\* when Capacity jobs wait, also after cancellation (waiting++, waiting--,
\* waiting = 0 in three functions).
WaitingIsExact == waiting = Len(pending) /\ waiting <= Capacity

\* Passwords and stored hashes exist only while a job waits or is computed.
InputErased == \A j \in Jobs : input[j] => j \in Range(pending) \cup InWork

\* An accepted job is in exactly one place, once, whatever the stop cancels
\* while the thread computes; and a finished, cancelled or delivered job
\* carries no password any more (append_done, clear_input).
OneOwner ==
    /\ outstanding = Range(pending) \cup InWork \cup Range(done)
    /\ Range(pending) \cap InWork = {}
    /\ Range(pending) \cap Range(done) = {}
    /\ InWork \cap Range(done) = {}
    /\ IsInjective(pending) /\ IsInjective(done)
    /\ InputErased

-----------------------------------------------------------------------------
(* The worker implements JobService. *)

JobStatus(j) ==
    IF j \notin outstanding THEN "idle"
    ELSE IF j \in Range(done) THEN "finished" ELSE "accepted"

Abstract == INSTANCE JobService WITH
    status <- [j \in Jobs |-> JobStatus(j)],
    phase <- IF main = "freed" THEN "released" ELSE IF stopped THEN "stopping" ELSE "open"

\* To its caller the worker is an abstract job service whose stop may cancel.
ImplementsJobService == Abstract!Spec
=============================================================================
