------------------------ MODULE PasswordWorkerProofs ------------------------
(***************************************************************************)
(* Proofs about PasswordWorker for every set of jobs and every capacity:   *)
(* type correctness, the exact queue counter, single ownership with erased *)
(* passwords, no lost signal or notification, and every step a step of     *)
(* JobService.                                                             *)
(***************************************************************************)
EXTENDS PasswordWorker, TLAPS

-----------------------------------------------------------------------------
(* The linked lists of password_worker.c as sequences: linking at the tail,   *)
(* unlinking the head, and moving one list behind another. *)

\* Appending adds one element, keeps the queue duplicate-free if it is new.
LEMMA AppendFacts ==
    ASSUME NEW S, NEW q \in Seq(S), NEW x \in S
    PROVE  /\ Append(q, x) \in Seq(S)
           /\ Range(Append(q, x)) = Range(q) \cup {x}
           /\ IsInjective(q) /\ x \notin Range(q) => IsInjective(Append(q, x))
<1>1. /\ Append(q, x) \in Seq(S)
      /\ Len(Append(q, x)) = Len(q) + 1
      /\ \A i \in 1..Len(q) : Append(q, x)[i] = q[i]
      /\ Append(q, x)[Len(q) + 1] = x
      /\ DOMAIN q = 1..Len(q)
      /\ DOMAIN Append(q, x) = 1..(Len(q) + 1)
      /\ Len(q) \in Nat
  OBVIOUS
<1>2. Range(Append(q, x)) = Range(q) \cup {x}
  <2>1. ASSUME NEW y \in Range(Append(q, x)) PROVE y \in Range(q) \cup {x}
    BY <1>1, <2>1 DEF Range
  <2>2. ASSUME NEW y \in Range(q) PROVE y \in Range(Append(q, x))
    <3>1. PICK i \in 1..Len(q) : y = q[i]
      BY <1>1, <2>2 DEF Range
    <3>2. i \in 1..(Len(q) + 1) /\ Append(q, x)[i] = y
      BY <1>1, <3>1
    <3>3. QED BY <1>1, <3>2 DEF Range
  <2>3. x \in Range(Append(q, x))
    <3>1. Len(q) + 1 \in 1..(Len(q) + 1)
      BY <1>1
    <3>2. QED BY <1>1, <3>1 DEF Range
  <2>4. QED BY <2>1, <2>2, <2>3
<1>3. ASSUME IsInjective(q), x \notin Range(q) PROVE IsInjective(Append(q, x))
  <2>1. \A i \in 1..Len(q) : q[i] # x
    BY <1>1, <1>3 DEF Range
  <2>2. QED BY <1>1, <1>3, <2>1 DEF IsInjective
<1>4. QED BY <1>1, <1>2, <1>3

\* Taking the head removes one element, and only that one if there are no
\* duplicates.
LEMMA HeadTailFacts ==
    ASSUME NEW S, NEW q \in Seq(S), q # <<>>
    PROVE  /\ Head(q) \in S /\ Tail(q) \in Seq(S)
           /\ Range(q) = {Head(q)} \cup Range(Tail(q))
           /\ IsInjective(q) => IsInjective(Tail(q)) /\ Head(q) \notin Range(Tail(q))
<1>1. /\ Len(q) \in Nat /\ Len(q) > 0
      /\ DOMAIN q = 1..Len(q)
      /\ Head(q) = q[1] /\ Head(q) \in S
      /\ Tail(q) \in Seq(S)
      /\ Len(Tail(q)) = Len(q) - 1
      /\ DOMAIN Tail(q) = 1..(Len(q) - 1)
      /\ \A i \in 1..(Len(q) - 1) : Tail(q)[i] = q[i + 1]
  OBVIOUS
<1>2. Range(q) = {Head(q)} \cup Range(Tail(q))
  <2>1. ASSUME NEW y \in Range(q) PROVE y \in {Head(q)} \cup Range(Tail(q))
    <3>1. PICK i \in 1..Len(q) : y = q[i]
      BY <1>1, <2>1 DEF Range
    <3>2. CASE i = 1
      BY <1>1, <3>1, <3>2
    <3>3. CASE i # 1
      <4>1. i - 1 \in 1..(Len(q) - 1) /\ Tail(q)[i - 1] = y
        BY <1>1, <3>1, <3>3
      <4>2. QED BY <1>1, <4>1 DEF Range
    <3>4. QED BY <3>2, <3>3
  <2>2. ASSUME NEW y \in Range(Tail(q)) PROVE y \in Range(q)
    <3>1. PICK i \in 1..(Len(q) - 1) : y = Tail(q)[i]
      BY <1>1, <2>2 DEF Range
    <3>2. i + 1 \in 1..Len(q) /\ q[i + 1] = y
      BY <1>1, <3>1
    <3>3. QED BY <1>1, <3>2 DEF Range
  <2>3. Head(q) \in Range(q)
    BY <1>1 DEF Range
  <2>4. QED BY <2>1, <2>2, <2>3
<1>3. ASSUME IsInjective(q) PROVE IsInjective(Tail(q)) /\ Head(q) \notin Range(Tail(q))
  <2>1. IsInjective(Tail(q))
    BY <1>1, <1>3 DEF IsInjective
  <2>2. ASSUME Head(q) \in Range(Tail(q)) PROVE FALSE
    <3>1. PICK i \in 1..(Len(q) - 1) : Head(q) = Tail(q)[i]
      BY <1>1, <2>2 DEF Range
    <3>2. i + 1 \in 1..Len(q) /\ 1 \in 1..Len(q) /\ q[i + 1] = q[1] /\ i + 1 # 1
      BY <1>1, <3>1
    <3>3. QED BY <1>1, <1>3, <3>2 DEF IsInjective
  <2>3. QED BY <2>1, <2>2
<1>4. QED BY <1>1, <1>2, <1>3

\* The empty queue holds nothing.
LEMMA EmptyQueue == Range(<<>>) = {} /\ IsInjective(<<>>)
BY DEF Range, IsInjective

\* Moving a list behind another keeps every element, and keeps them distinct
\* when the lists have none in common.
LEMMA ConcatFacts ==
    ASSUME NEW S, NEW p \in Seq(S), NEW q \in Seq(S)
    PROVE  /\ p \o q \in Seq(S)
           /\ Range(p \o q) = Range(p) \cup Range(q)
           /\ IsInjective(p) /\ IsInjective(q) /\ Range(p) \cap Range(q) = {}
                  => IsInjective(p \o q)
<1>1. /\ p \o q \in Seq(S)
      /\ Len(p) \in Nat /\ Len(q) \in Nat
      /\ DOMAIN p = 1..Len(p) /\ DOMAIN q = 1..Len(q)
      /\ DOMAIN (p \o q) = 1..(Len(p) + Len(q))
      /\ \A i \in 1..(Len(p) + Len(q)) :
             (p \o q)[i] = IF i <= Len(p) THEN p[i] ELSE q[i - Len(p)]
  OBVIOUS
<1>2. ASSUME NEW i \in 1..(Len(p) + Len(q))
      PROVE  \/ i \in 1..Len(p) /\ (p \o q)[i] = p[i]
             \/ i - Len(p) \in 1..Len(q) /\ (p \o q)[i] = q[i - Len(p)]
  BY <1>1
<1>3. Range(p \o q) = Range(p) \cup Range(q)
  <2>1. ASSUME NEW y \in Range(p \o q) PROVE y \in Range(p) \cup Range(q)
    <3>1. PICK i \in 1..(Len(p) + Len(q)) : y = (p \o q)[i]
      BY <1>1, <2>1 DEF Range
    <3>2. QED BY <1>1, <1>2, <3>1 DEF Range
  <2>2. ASSUME NEW y \in Range(p) PROVE y \in Range(p \o q)
    <3>1. PICK i \in 1..Len(p) : y = p[i]
      BY <1>1, <2>2 DEF Range
    <3>2. i \in 1..(Len(p) + Len(q)) /\ (p \o q)[i] = y
      BY <1>1, <3>1
    <3>3. QED BY <1>1, <3>2 DEF Range
  <2>3. ASSUME NEW y \in Range(q) PROVE y \in Range(p \o q)
    <3>1. PICK i \in 1..Len(q) : y = q[i]
      BY <1>1, <2>3 DEF Range
    <3>2. i + Len(p) \in 1..(Len(p) + Len(q)) /\ (p \o q)[i + Len(p)] = y
      BY <1>1, <3>1
    <3>3. QED BY <1>1, <3>2 DEF Range
  <2>4. QED BY <2>1, <2>2, <2>3
<1>4. ASSUME IsInjective(p), IsInjective(q), Range(p) \cap Range(q) = {}
      PROVE  IsInjective(p \o q)
  <2> SUFFICES ASSUME NEW i \in 1..(Len(p) + Len(q)), NEW j \in 1..(Len(p) + Len(q)),
                      (p \o q)[i] = (p \o q)[j]
               PROVE  i = j
    BY <1>1 DEF IsInjective
  <2>1. ASSUME NEW k \in 1..Len(p), NEW l \in 1..Len(q) PROVE p[k] # q[l]
    BY <1>1, <1>4 DEF Range
  <2>2. CASE i \in 1..Len(p) /\ j \in 1..Len(p)
    BY <1>1, <1>4, <2>2 DEF IsInjective
  <2>3. CASE i - Len(p) \in 1..Len(q) /\ j - Len(p) \in 1..Len(q)
    <3>1. q[i - Len(p)] = q[j - Len(p)]
      BY <1>1, <2>3
    <3>2. i - Len(p) = j - Len(p)
      BY <1>1, <1>4, <2>3, <3>1 DEF IsInjective
    <3>3. QED BY <1>1, <3>2
  <2>4. QED BY <1>1, <1>2, <2>1, <2>2, <2>3
<1>5. QED BY <1>1, <1>3, <1>4

-----------------------------------------------------------------------------
(* The inductive invariant. *)

\* The thread holds a job exactly between taking it and append_done.
HoldsWhileWorking == worker \in {"compute", "append"} <=> cur # None

\* clear_input comes before append_done.
ClearedBeforeAppend == worker = "append" => ~input[cur]

\* password_worker_stop leaves nothing pending, and nothing is accepted after
\* it; a thread that left its loop saw the flag.
StoppedIsEmpty ==
    /\ stopped => pending = <<>>
    /\ worker = "exited" => stopped

\* The loop knows whether the worker was stopped.
StopAgreesWithMain ==
    /\ main \in {"create", "loop"} => ~stopped
    /\ main \in {"cancel_notify", "join", "free", "freed"} => stopped

\* No job exists before the thread does, and password_worker_new that failed
\* never made a thread.
NoThreadNoJob ==
    /\ main = "create" => worker = "new"
    /\ worker = "new" =>
           /\ main \in {"create", "free", "freed"}
           /\ pending = <<>> /\ done = <<>>

\* After the join no thread is left to add a result.
JoinedMeansQuiet ==
    stopped /\ main \in {"event", "drain", "handle", "free", "freed"} =>
        worker \in {"new", "exited"}

DrainedBeforeFree == main \in {"free", "freed"} => done = <<>>

Control ==
    /\ HoldsWhileWorking /\ ClearedBeforeAppend /\ StoppedIsEmpty
    /\ StopAgreesWithMain /\ NoThreadNoJob /\ JoinedMeansQuiet /\ DrainedBeforeFree

IInv == TypeOK /\ WaitingIsExact /\ OneOwner /\ Control

\* A pending job has a thread that is awake to take it: the one
\* pthread_cond_signal of password_worker_submit is never missed.
NoLostSignal == pending # <<>> => worker # "asleep"

\* While the loop sleeps in epoll_wait, a done job has its edge, or the
\* thread is about to write it (notify_completion after the unlock).
NoLostNotification ==
    done # <<>> /\ main = "loop" => (counter /\ edge) \/ worker = "notify"

-----------------------------------------------------------------------------
(* Type correctness. *)

\* Every step keeps every variable in its range; AppendDone needs to know
\* that the thread holds a job, and TakeJob that the counter is positive.
LEMMA TypeStep == TypeOK /\ HoldsWhileWorking /\ WaitingIsExact /\ [Next]_vars => TypeOK'
<1> SUFFICES ASSUME TypeOK, HoldsWhileWorking, WaitingIsExact, [Next]_vars PROVE TypeOK'
  OBVIOUS
<1> USE DEF TypeOK, Kinds, lists, thread, job, notification, loop
<1>1. CASE New \/ NewFails
  BY <1>1 DEF New, NewFails
<1>2. CASE TakeJob
  <2>1. CASE pending # <<>>
    <3>1. Head(pending) \in Jobs /\ Tail(pending) \in Seq(Jobs) /\ waiting - 1 \in Nat
      BY <2>1, HeadTailFacts DEF WaitingIsExact
    <3>2. QED BY <1>2, <2>1, <3>1 DEF TakeJob, OneLess
  <2>2. CASE pending = <<>>
    BY <1>2, <2>2 DEF TakeJob
  <2>3. QED BY <2>1, <2>2
<1>3. CASE SpuriousWakeup
  BY <1>3 DEF SpuriousWakeup
<1>4. CASE Compute
  BY <1>4 DEF Compute, Computed, Verdict, ClearInput
<1>5. CASE AppendDone
  <2>1. cur \in Jobs
    BY <1>5 DEF AppendDone, HoldsWhileWorking
  <2>2. <<cur>> \in Seq(Jobs)
    BY <2>1
  <2>3. QED BY <1>5, <2>2, ConcatFacts DEF AppendDone, AppendToDone
<1>6. CASE NotifyCompletion
  BY <1>6 DEF NotifyCompletion, EventfdWrite
<1>7. ASSUME NEW j \in Jobs, NEW k \in Kinds, Submit(j, k) PROVE TypeOK'
  <2>1. Append(pending, j) \in Seq(Jobs)
    BY <1>7, AppendFacts
  <2>2. QED BY <1>7, <2>1 DEF Submit, Enqueue, Signal
<1>8. CASE EpollWait \/ ReadCounter
  BY <1>8 DEF EpollWait, ReadCounter
<1>9. CASE PopDone
  <2>1. CASE done # <<>>
    <3>1. Head(done) \in Jobs /\ Tail(done) \in Seq(Jobs)
      BY <2>1, HeadTailFacts
    <3>2. QED BY <1>9, <2>1, <3>1 DEF PopDone
  <2>2. CASE done = <<>>
    BY <1>9, <2>2 DEF PopDone
  <2>3. QED BY <2>1, <2>2
<1>10. CASE HandleResult
  BY <1>10 DEF HandleResult, ClearInput
<1>11. CASE Stop
  <2>1. done \o pending \in Seq(Jobs)
    BY ConcatFacts
  <2>2. QED BY <1>11, <2>1 DEF Stop, AppendToDone, ClearInput, CancelAll, Broadcast
<1>12. CASE CancelNotify \/ Join \/ Free
  <2>1. <<>> \in Seq(Jobs)
    OBVIOUS
  <2>2. QED BY <1>12, <2>1 DEF CancelNotify, EventfdWrite, Join, Free
<1>13. CASE UNCHANGED vars
  BY <1>13 DEF vars
<1>14. QED
  BY <1>1, <1>2, <1>3, <1>4, <1>5, <1>6, <1>7, <1>8, <1>9, <1>10, <1>11, <1>12, <1>13
  DEF Next, WorkerStep, LoopStep, Terminated

-----------------------------------------------------------------------------
(* The counter beside the list. *)

\* Submit, TakeJob and Stop, the three places that write both, keep the
\* counter equal to the length; the test before the link keeps it bounded.
LEMMA WaitingStep == TypeOK /\ WaitingIsExact /\ [Next]_vars => WaitingIsExact'
<1> SUFFICES ASSUME TypeOK, WaitingIsExact, [Next]_vars PROVE WaitingIsExact'
  OBVIOUS
<1> USE CapacityIsPositive DEF lists, thread, job, notification, loop
<1> DEFINE Same == UNCHANGED <<pending, waiting>>
<1>0. ASSUME Same PROVE WaitingIsExact'
  BY <1>0 DEF WaitingIsExact
<1>1. CASE TakeJob
  <2>1. CASE pending # <<>>
    <3>1. Len(Tail(pending)) = Len(pending) - 1
      BY <2>1 DEF TypeOK
    <3>2. QED BY <1>0, <1>1, <2>1, <3>1 DEF TakeJob, OneLess, WaitingIsExact, TypeOK
  <2>2. CASE pending = <<>>
    BY <1>0, <1>1, <2>2 DEF TakeJob
  <2>3. QED BY <2>1, <2>2
<1>2. ASSUME NEW j \in Jobs, NEW k \in Kinds, Submit(j, k) PROVE WaitingIsExact'
  <2>1. Len(Append(pending, j)) = Len(pending) + 1
    BY DEF TypeOK
  <2>2. QED BY <1>2, <2>1 DEF Submit, Enqueue, HasRoom, WaitingIsExact, TypeOK
<1>3. CASE Stop
  BY <1>3 DEF Stop, WaitingIsExact
<1>4. CASE New \/ NewFails \/ SpuriousWakeup \/ Compute \/ AppendDone \/ NotifyCompletion
  BY <1>0, <1>4 DEF New, NewFails, SpuriousWakeup, Compute, AppendDone, NotifyCompletion
<1>5. CASE LoopStep
  BY <1>0, <1>5 DEF LoopStep, EpollWait, ReadCounter, PopDone, HandleResult, CancelNotify,
                    Join, Free
<1>6. CASE UNCHANGED vars
  BY <1>0, <1>6 DEF vars
<1>7. QED
  BY <1>1, <1>2, <1>3, <1>4, <1>5, <1>6 DEF Next, WorkerStep, Terminated

-----------------------------------------------------------------------------
(* The control part of the invariant. *)

\* Every step keeps the facts that relate the program counters of the thread
\* and of the loop to the stop flag, the lists and the erased input.
LEMMA ControlStep == TypeOK /\ OneOwner /\ Control /\ [Next]_vars => Control'
<1> SUFFICES ASSUME TypeOK, OneOwner, Control, [Next]_vars PROVE Control'
  OBVIOUS
<1> USE NoneIsNoJob
    DEF TypeOK, lists, thread, job, notification, loop, Control, HoldsWhileWorking,
        ClearedBeforeAppend, StoppedIsEmpty, StopAgreesWithMain, NoThreadNoJob,
        JoinedMeansQuiet, DrainedBeforeFree
<1>1. CASE New \/ NewFails
  BY <1>1 DEF New, NewFails
<1>2. CASE TakeJob
  <2>1. CASE pending # <<>>
    <3>1. Head(pending) \in Jobs
      BY <2>1, HeadTailFacts
    <3>2. QED BY <1>2, <2>1, <3>1 DEF TakeJob, OneLess
  <2>2. CASE pending = <<>>
    BY <1>2, <2>2 DEF TakeJob
  <2>3. QED BY <2>1, <2>2
<1>3. CASE SpuriousWakeup
  BY <1>3 DEF SpuriousWakeup
<1>4. CASE Compute
  BY <1>4 DEF Compute, ClearInput
<1>5. CASE AppendDone
  BY <1>5 DEF AppendDone
<1>6. CASE NotifyCompletion
  BY <1>6 DEF NotifyCompletion, EventfdWrite
<1>7. ASSUME NEW j \in Jobs, NEW k \in Kinds, Submit(j, k) PROVE Control'
  <2>1. worker = "append" => ~input'[cur]
    BY <1>7 DEF Submit, OneOwner, InWork
  <2>2. QED BY <1>7, <2>1 DEF Submit, Open, Enqueue, Signal
<1>8. CASE EpollWait \/ ReadCounter
  BY <1>8 DEF EpollWait, ReadCounter
<1>9. CASE PopDone
  BY <1>9 DEF PopDone
<1>10. CASE HandleResult
  BY <1>10 DEF HandleResult, ClearInput
<1>11. CASE Stop
  BY <1>11 DEF Stop, AppendToDone, ClearInput, Broadcast
<1>12. CASE CancelNotify \/ Join \/ Free
  BY <1>12 DEF CancelNotify, EventfdWrite, Join, Joined, Free
<1>13. CASE UNCHANGED vars
  BY <1>13 DEF vars
<1>14. QED
  BY <1>1, <1>2, <1>3, <1>4, <1>5, <1>6, <1>7, <1>8, <1>9, <1>10, <1>11, <1>12, <1>13
  DEF Next, WorkerStep, LoopStep, Terminated

-----------------------------------------------------------------------------
(* Single ownership. *)

\* Every step that moves a job takes it from one place and puts it in one
\* other place; Stop moves the whole pending list; Submit adds a job that was
\* nowhere; and the input of a job is erased before it leaves the thread.
LEMMA OwnerStep == IInv /\ [Next]_vars => OneOwner'
<1> SUFFICES ASSUME TypeOK, OneOwner, Control, [Next]_vars PROVE OneOwner'
  BY DEF IInv
<1> USE NoneIsNoJob DEF lists, thread, job, notification, loop
<1> DEFINE Same == UNCHANGED <<pending, done, cur, input, outstanding>>
<1>0. ASSUME Same PROVE OneOwner'
  BY <1>0 DEF OneOwner, InWork, InputErased
<1>1. CASE New \/ NewFails \/ SpuriousWakeup \/ NotifyCompletion
  BY <1>0, <1>1 DEF New, NewFails, SpuriousWakeup, NotifyCompletion
<1>2. CASE TakeJob
  <2>1. CASE stopped \/ pending = <<>>
    BY <1>0, <1>2, <2>1 DEF TakeJob
  <2>2. CASE ~stopped /\ pending # <<>>
    <3> DEFINE j == Head(pending)
    <3>1. /\ j \in Jobs /\ Range(pending) = {j} \cup Range(Tail(pending))
          /\ IsInjective(Tail(pending)) /\ j \notin Range(Tail(pending))
      BY <2>2, HeadTailFacts DEF TypeOK, OneOwner
    <3>2. /\ cur = None /\ cur' = j /\ pending' = Tail(pending)
          /\ UNCHANGED <<done, input, outstanding>>
      BY <1>2, <2>2 DEF TakeJob, Control, HoldsWhileWorking
    <3>3. InWork = {} /\ InWork' = {j}
      BY <3>1, <3>2 DEF InWork
    <3>4. QED BY <3>1, <3>2, <3>3 DEF OneOwner, InputErased
  <2>3. QED BY <2>1, <2>2
<1>3. CASE Compute
  <2>1. \A j \in Jobs : input'[j] => input[j]
    BY <1>3 DEF Compute, ClearInput
  <2>2. UNCHANGED <<pending, done, cur, outstanding>>
    BY <1>3 DEF Compute
  <2>3. QED BY <2>1, <2>2 DEF OneOwner, InWork, InputErased
<1>4. CASE AppendDone
  <2>1. /\ cur \in Jobs /\ cur' = None /\ done' = done \o <<cur>>
        /\ UNCHANGED <<pending, input, outstanding>>
        /\ ~input[cur]
    BY <1>4 DEF AppendDone, AppendToDone, TypeOK, Control, HoldsWhileWorking,
                ClearedBeforeAppend
  <2>2. InWork = {cur} /\ InWork' = {}
    BY <2>1 DEF InWork
  <2> DEFINE one == <<cur>>
  <2>3. one \in Seq(Jobs) /\ Range(one) = {cur} /\ IsInjective(one)
    BY <2>1 DEF Range, IsInjective
  <2>4. Range(done') = Range(done) \cup {cur} /\ IsInjective(done')
    <3>1. /\ done \in Seq(Jobs) /\ IsInjective(done) /\ done' = done \o one
          /\ Range(done) \cap Range(one) = {}
      BY <2>1, <2>2, <2>3 DEF TypeOK, OneOwner
    <3> HIDE DEF one
    <3>2. QED BY <2>3, <3>1, ConcatFacts
  <2>5. QED BY <2>1, <2>2, <2>4 DEF OneOwner, InputErased
<1>5. ASSUME NEW j \in Jobs, NEW k \in Kinds, Submit(j, k) PROVE OneOwner'
  <2>1. /\ j \notin outstanding /\ outstanding' = outstanding \cup {j}
        /\ pending' = Append(pending, j) /\ UNCHANGED <<done, cur>>
        /\ \A i \in Jobs : input'[i] => input[i] \/ i = j
    BY <1>5 DEF Submit, Enqueue, TypeOK
  <2>2. Range(pending') = Range(pending) \cup {j} /\ IsInjective(pending')
    BY <2>1, AppendFacts DEF TypeOK, OneOwner
  <2>3. QED BY <2>1, <2>2 DEF OneOwner, InWork, InputErased
<1>6. CASE PopDone
  <2>1. CASE done = <<>>
    BY <1>0, <1>6, <2>1 DEF PopDone
  <2>2. CASE done # <<>>
    <3> DEFINE j == Head(done)
    <3>1. /\ Range(done) = {j} \cup Range(Tail(done))
          /\ IsInjective(Tail(done)) /\ j \notin Range(Tail(done))
      BY <2>2, HeadTailFacts DEF TypeOK, OneOwner
    <3>2. /\ done' = Tail(done) /\ outstanding' = outstanding \ {j}
          /\ UNCHANGED <<pending, cur, input>>
      BY <1>6, <2>2 DEF PopDone
    <3>3. QED BY <3>1, <3>2 DEF OneOwner, InWork, InputErased
  <2>3. QED BY <2>1, <2>2
<1>7. CASE HandleResult
  <2>1. \A j \in Jobs : input'[j] => input[j]
    BY <1>7 DEF HandleResult, ClearInput
  <2>2. UNCHANGED <<pending, done, cur, outstanding>>
    BY <1>7 DEF HandleResult
  <2>3. QED BY <2>1, <2>2 DEF OneOwner, InWork, InputErased
<1>8. CASE Stop
  <2>1. /\ done' = done \o pending /\ pending' = <<>> /\ UNCHANGED <<cur, outstanding>>
        /\ \A j \in Jobs : input'[j] => input[j] /\ j \notin Range(pending)
    BY <1>8 DEF Stop, AppendToDone, ClearInput
  <2>2. Range(done') = Range(done) \cup Range(pending) /\ IsInjective(done')
    BY <2>1, ConcatFacts DEF TypeOK, OneOwner
  <2>3. Range(pending') = {} /\ IsInjective(pending')
    BY <2>1, EmptyQueue
  <2>4. QED BY <2>1, <2>2, <2>3 DEF OneOwner, InWork, InputErased
<1>9. CASE EpollWait \/ ReadCounter \/ CancelNotify \/ Join
  BY <1>0, <1>9 DEF EpollWait, ReadCounter, CancelNotify, Join
<1>10. CASE Free
  <2>1. done = <<>>
    BY <1>10 DEF Free, Control, DrainedBeforeFree
  <2>2. QED BY <1>0, <1>10, <2>1 DEF Free
<1>11. CASE UNCHANGED vars
  BY <1>0, <1>11 DEF vars
<1>12. QED
  BY <1>1, <1>2, <1>3, <1>4, <1>5, <1>6, <1>7, <1>8, <1>9, <1>10, <1>11
  DEF Next, WorkerStep, LoopStep, Terminated

\* The initial state satisfies the invariant.
LEMMA InitIInv == Init => IInv
<1> SUFFICES ASSUME Init PROVE IInv
  OBVIOUS
<1>1. TypeOK
  <2>1. <<>> \in Seq(Jobs)
    OBVIOUS
  <2>2. pending \in Seq(Jobs) /\ done \in Seq(Jobs)
    BY <2>1 DEF Init
  <2>3. QED BY <2>2 DEF Init, TypeOK, Kinds
<1>2. Control
  BY DEF Init, Control, HoldsWhileWorking, ClearedBeforeAppend, StoppedIsEmpty,
         StopAgreesWithMain, NoThreadNoJob, JoinedMeansQuiet, DrainedBeforeFree
<1>3. OneOwner
  BY EmptyQueue DEF Init, OneOwner, InWork, InputErased
<1>4. WaitingIsExact
  BY CapacityIsPositive DEF Init, WaitingIsExact
<1>5. QED BY <1>1, <1>2, <1>3, <1>4 DEF IInv

\* The invariant is inductive.
LEMMA StepIInv == IInv /\ [Next]_vars => IInv'
BY TypeStep, WaitingStep, ControlStep, OwnerStep DEF IInv, Control

-----------------------------------------------------------------------------
(* Theorems. *)

\* The inductive invariant holds in every reachable state.
THEOREM Invariance == Spec => []IInv
<1>1. QED BY InitIInv, StepIInv, PTL DEF Spec

\* Type correctness of the worker thread and the event loop's side.
THEOREM TypeCorrect == Spec => []TypeOK
<1>1. IInv => TypeOK
  BY DEF IInv
<1>2. QED BY <1>1, Invariance, PTL

\* For every capacity, the counter that password_worker_submit tests is the
\* number of pending jobs, and never passes the capacity.
THEOREM CounterIsExact == Spec => []WaitingIsExact
<1>1. IInv => WaitingIsExact
  BY DEF IInv
<1>2. QED BY <1>1, Invariance, PTL

\* Exactly-once and erasure: an accepted job is in one place, once, and no
\* password outlives the computation or the cancellation of its job.
THEOREM SingleOwnership == Spec => []OneOwner
<1>1. IInv => OneOwner
  BY DEF IInv
<1>2. QED BY <1>1, Invariance, PTL

\* The thread never sleeps through a submission, whatever wakes it
\* spuriously and however many jobs are submitted while it computes.
THEOREM SignalNotLost == Spec => []NoLostSignal
<1>1. Init => NoLostSignal
  BY DEF Init, NoLostSignal
<1>2. NoLostSignal /\ [Next]_vars => NoLostSignal'
  <2> SUFFICES ASSUME NoLostSignal, [Next]_vars PROVE NoLostSignal'
    OBVIOUS
  <2> USE DEF NoLostSignal, lists, thread, job, notification, loop
  <2>1. CASE New \/ NewFails \/ SpuriousWakeup
    BY <2>1 DEF New, NewFails, SpuriousWakeup
  <2>2. CASE WorkerStep
    BY <2>2 DEF WorkerStep, TakeJob, Compute, AppendDone, NotifyCompletion
  <2>3. CASE LoopStep
    BY <2>3 DEF LoopStep, EpollWait, ReadCounter, PopDone, HandleResult, CancelNotify,
                Join, Free
  <2>4. ASSUME NEW j \in Jobs, NEW k \in Kinds, Submit(j, k) PROVE NoLostSignal'
    BY <2>4 DEF Submit, Enqueue, Signal
  <2>5. CASE Stop
    BY <2>5 DEF Stop
  <2>6. CASE UNCHANGED vars
    BY <2>6 DEF vars
  <2>7. QED BY <2>1, <2>2, <2>3, <2>4, <2>5, <2>6 DEF Next, Terminated
<1>3. QED BY <1>1, <1>2, PTL DEF Spec

\* A done job is never stranded by edge-triggered notification, although
\* notify_completion runs after append_done released the mutex.
THEOREM NotificationNotLost == Spec => []NoLostNotification
<1>1. Init => NoLostNotification
  BY DEF Init, NoLostNotification
<1>2. IInv /\ NoLostNotification /\ [Next]_vars => NoLostNotification'
  <2> SUFFICES ASSUME IInv, NoLostNotification, [Next]_vars PROVE NoLostNotification'
    OBVIOUS
  <2> USE DEF NoLostNotification, lists, thread, job, notification, loop
  <2>1. CASE New \/ NewFails \/ SpuriousWakeup
    BY <2>1 DEF New, NewFails, SpuriousWakeup, IInv, Control, NoThreadNoJob
  <2>2. CASE TakeJob \/ Compute \/ AppendDone
    BY <2>2 DEF TakeJob, Compute, AppendDone
  <2>3. CASE NotifyCompletion
    BY <2>3 DEF NotifyCompletion, EventfdWrite
  <2>4. CASE EpollWait \/ PopDone
    BY <2>4 DEF EpollWait, PopDone
  <2>5. CASE ReadCounter \/ HandleResult \/ CancelNotify \/ Join \/ Free
    BY <2>5 DEF ReadCounter, HandleResult, CancelNotify, Join, Free
  <2>6. ASSUME NEW j \in Jobs, NEW k \in Kinds, Submit(j, k) PROVE NoLostNotification'
    BY <2>6 DEF Submit, Enqueue, Signal
  <2>7. CASE Stop
    BY <2>7 DEF Stop
  <2>8. CASE UNCHANGED vars
    BY <2>8 DEF vars
  <2>9. QED
    BY <2>1, <2>2, <2>3, <2>4, <2>5, <2>6, <2>7, <2>8
    DEF Next, WorkerStep, LoopStep, Terminated
<1>3. QED BY <1>1, <1>2, Invariance, PTL DEF Spec

-----------------------------------------------------------------------------
(* The worker implements JobService, step by step. *)

\* The initial states map to initial states.
LEMMA RefinesInit == Init => Abstract!Init
BY DEF Init, Abstract!Init, JobStatus

\* Every step of the worker or the loop is a step of the job service, or
\* stutters: the link at the tail of pending is Submit, append_done is Finish,
\* password_worker_pop is Deliver, password_worker_stop is Stop with what it
\* cancels, and password_worker_free is Release.
LEMMA RefinesNext == IInv /\ [Next]_vars => [Abstract!Next]_(Abstract!vars)
<1> SUFFICES ASSUME IInv, [Next]_vars PROVE [Abstract!Next]_(Abstract!vars)
  OBVIOUS
<1> USE NoneIsNoJob DEF lists, thread, job, notification, loop
<1> DEFINE Same == UNCHANGED <<done, outstanding, stopped, main = "freed">>
<1>0. ASSUME Same PROVE UNCHANGED Abstract!vars
  BY <1>0 DEF Abstract!vars, JobStatus
<1>1. CASE New \/ SpuriousWakeup \/ NotifyCompletion \/ Compute \/ TakeJob
  BY <1>0, <1>1 DEF New, SpuriousWakeup, NotifyCompletion, Compute, TakeJob
<1>2. CASE EpollWait \/ ReadCounter \/ HandleResult \/ CancelNotify \/ Join
  BY <1>0, <1>2 DEF EpollWait, ReadCounter, HandleResult, CancelNotify, Join
<1>3. CASE NewFails
  <2>1. Abstract!Stop({})
    BY <1>3 DEF NewFails, Abstract!Stop, JobStatus, IInv, Control, StopAgreesWithMain
  <2>2. QED BY <2>1 DEF Abstract!Next
<1>4. CASE AppendDone
  <2>1. /\ cur \in Jobs /\ cur \in outstanding /\ cur \notin Range(done)
        /\ UNCHANGED <<outstanding, stopped, main>>
    BY <1>4 DEF AppendDone, IInv, TypeOK, OneOwner, InWork, Control, HoldsWhileWorking
  <2>2. Range(done') = Range(done) \cup {cur}
    <3> DEFINE one == <<cur>>
    <3>1. one \in Seq(Jobs) /\ Range(one) = {cur} /\ done \in Seq(Jobs) /\ done' = done \o one
      BY <1>4, <2>1 DEF AppendDone, AppendToDone, Range, IInv, TypeOK
    <3> HIDE DEF one
    <3>2. QED BY <3>1, ConcatFacts
  <2>3. Abstract!Finish(cur)
    BY <2>1, <2>2 DEF Abstract!Finish, JobStatus
  <2>4. QED BY <2>1, <2>3 DEF Abstract!Next
<1>5. ASSUME NEW j \in Jobs, NEW k \in Kinds, Submit(j, k) PROVE Abstract!Next
  <2>1. /\ j \notin outstanding /\ outstanding' = outstanding \cup {j}
        /\ j \notin Range(done) /\ ~stopped /\ main # "freed"
        /\ UNCHANGED <<done, stopped, main>>
    BY <1>5 DEF Submit, Open, IInv, OneOwner
  <2>2. Abstract!Submit(j)
    BY <2>1 DEF Abstract!Submit, JobStatus
  <2>3. QED BY <2>2 DEF Abstract!Next
<1>6. CASE PopDone
  <2>1. CASE done = <<>>
    BY <1>0, <1>6, <2>1 DEF PopDone
  <2>2. CASE done # <<>>
    <3> DEFINE j == Head(done)
    <3>1. /\ j \in Jobs /\ Range(done) = {j} \cup Range(Tail(done))
          /\ j \notin Range(Tail(done))
      BY <2>2, HeadTailFacts DEF IInv, TypeOK, OneOwner
    <3>2. /\ j \in outstanding /\ outstanding' = outstanding \ {j}
          /\ done' = Tail(done) /\ main # "freed" /\ main' # "freed" /\ UNCHANGED stopped
      BY <1>6, <2>2, <3>1 DEF PopDone, IInv, OneOwner
    <3> HIDE DEF j
    <3>3. Abstract!Deliver(j)
      BY <3>1, <3>2 DEF Abstract!Deliver, JobStatus
    <3>4. QED BY <3>1, <3>3 DEF Abstract!Next
  <2>3. QED BY <2>1, <2>2
<1>7. CASE Stop
  <2> DEFINE cancelled == Range(pending)
  <2>1. Range(done') = Range(done) \cup cancelled
    BY <1>7, ConcatFacts DEF Stop, AppendToDone, IInv, TypeOK
  <2>2. /\ cancelled \subseteq outstanding /\ cancelled \subseteq Jobs
        /\ cancelled \cap Range(done) = {}
    BY DEF IInv, TypeOK, OneOwner
  <2>3. ~stopped /\ stopped' /\ main # "freed" /\ main' # "freed" /\ UNCHANGED outstanding
    BY <1>7 DEF Stop
  <2> HIDE DEF cancelled
  <2>4. Abstract!Stop(cancelled)
    BY <2>1, <2>2, <2>3 DEF Abstract!Stop, JobStatus
  <2>5. QED BY <2>2, <2>4 DEF Abstract!Next
<1>8. CASE Free
  <2>1. /\ main = "free" /\ main' = "freed" /\ stopped /\ UNCHANGED <<stopped, outstanding>>
        /\ pending = <<>> /\ done = <<>> /\ cur = None
    BY <1>8 DEF Free, IInv, Control, StopAgreesWithMain, StoppedIsEmpty, DrainedBeforeFree,
                JoinedMeansQuiet, HoldsWhileWorking
  <2>2. outstanding = {}
    BY <2>1, EmptyQueue DEF IInv, OneOwner, InWork
  <2>3. Abstract!Release
    BY <2>1, <2>2 DEF Abstract!Release, JobStatus
  <2>4. QED BY <2>3 DEF Abstract!Next
<1>9. CASE UNCHANGED vars
  BY <1>0, <1>9 DEF vars
<1>10. QED
  BY <1>1, <1>2, <1>3, <1>4, <1>5, <1>6, <1>7, <1>8, <1>9
  DEF Next, WorkerStep, LoopStep, Terminated

\* The safety half of the refinement, for every set of jobs and capacity: to
\* its caller the worker behaves as a job service whose stop may cancel.
THEOREM ImplementsSafely == Spec => Abstract!Init /\ [][Abstract!Next]_(Abstract!vars)
<1>1. QED BY RefinesInit, RefinesNext, Invariance, PTL DEF Spec
=============================================================================
