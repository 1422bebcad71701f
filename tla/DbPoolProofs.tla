---------------------------- MODULE DbPoolProofs ----------------------------
(***************************************************************************)
(* Proofs about DbPool for every set of contexts and every number of       *)
(* worker threads: type correctness, single ownership of tasks, no lost    *)
(* notification, no lost signal, nothing abandoned when the pool is freed, *)
(* the steps of a job service, and the order of statements.                *)
(***************************************************************************)
EXTENDS DbPoolOrder, TLAPS

-----------------------------------------------------------------------------
(* The linked lists of db.c as sequences: linking at the tail and unlinking   *)
(* the head. *)

\* Appending adds one element, keeps the queue duplicate-free if it is new.
LEMMA AppendFacts ==
    ASSUME NEW S, NEW q \in Seq(S), NEW x \in S
    PROVE  /\ Append(q, x) \in Seq(S)
           /\ Range(Append(q, x)) = Range(q) \cup {x}
           /\ IsInjective(q) /\ x \notin Range(q) => IsInjective(Append(q, x))
<1>1. /\ Append(q, x) \in Seq(S)
      /\ Len(Append(q, x)) = Len(q) + 1
      /\ \A i \in 1..Len(q) : Append(q, x)[i] = q[i]
      /\ Append(q, x)[Len(q) + 1] = x
      /\ DOMAIN q = 1..Len(q)
      /\ DOMAIN Append(q, x) = 1..(Len(q) + 1)
      /\ Len(q) \in Nat
  OBVIOUS
<1>2. Range(Append(q, x)) = Range(q) \cup {x}
  <2>1. ASSUME NEW y \in Range(Append(q, x)) PROVE y \in Range(q) \cup {x}
    BY <1>1, <2>1 DEF Range
  <2>2. ASSUME NEW y \in Range(q) PROVE y \in Range(Append(q, x))
    <3>1. PICK i \in 1..Len(q) : y = q[i]
      BY <1>1, <2>2 DEF Range
    <3>2. i \in 1..(Len(q) + 1) /\ Append(q, x)[i] = y
      BY <1>1, <3>1
    <3>3. QED BY <1>1, <3>2 DEF Range
  <2>3. x \in Range(Append(q, x))
    <3>1. Len(q) + 1 \in 1..(Len(q) + 1)
      BY <1>1
    <3>2. QED BY <1>1, <3>1 DEF Range
  <2>4. QED BY <2>1, <2>2, <2>3
<1>3. ASSUME IsInjective(q), x \notin Range(q) PROVE IsInjective(Append(q, x))
  <2>1. \A i \in 1..Len(q) : q[i] # x
    BY <1>1, <1>3 DEF Range
  <2>2. QED BY <1>1, <1>3, <2>1 DEF IsInjective
<1>4. QED BY <1>1, <1>2, <1>3

\* Taking the head removes one element, and only that one if there are no
\* duplicates.
LEMMA HeadTailFacts ==
    ASSUME NEW S, NEW q \in Seq(S), q # <<>>
    PROVE  /\ Head(q) \in S /\ Tail(q) \in Seq(S)
           /\ Range(q) = {Head(q)} \cup Range(Tail(q))
           /\ IsInjective(q) => IsInjective(Tail(q)) /\ Head(q) \notin Range(Tail(q))
<1>1. /\ Len(q) \in Nat /\ Len(q) > 0
      /\ DOMAIN q = 1..Len(q)
      /\ Head(q) = q[1] /\ Head(q) \in S
      /\ Tail(q) \in Seq(S)
      /\ Len(Tail(q)) = Len(q) - 1
      /\ DOMAIN Tail(q) = 1..(Len(q) - 1)
      /\ \A i \in 1..(Len(q) - 1) : Tail(q)[i] = q[i + 1]
  OBVIOUS
<1>2. Range(q) = {Head(q)} \cup Range(Tail(q))
  <2>1. ASSUME NEW y \in Range(q) PROVE y \in {Head(q)} \cup Range(Tail(q))
    <3>1. PICK i \in 1..Len(q) : y = q[i]
      BY <1>1, <2>1 DEF Range
    <3>2. CASE i = 1
      BY <1>1, <3>1, <3>2
    <3>3. CASE i # 1
      <4>1. i - 1 \in 1..(Len(q) - 1) /\ Tail(q)[i - 1] = y
        BY <1>1, <3>1, <3>3
      <4>2. QED BY <1>1, <4>1 DEF Range
    <3>4. QED BY <3>2, <3>3
  <2>2. ASSUME NEW y \in Range(Tail(q)) PROVE y \in Range(q)
    <3>1. PICK i \in 1..(Len(q) - 1) : y = Tail(q)[i]
      BY <1>1, <2>2 DEF Range
    <3>2. i + 1 \in 1..Len(q) /\ q[i + 1] = y
      BY <1>1, <3>1
    <3>3. QED BY <1>1, <3>2 DEF Range
  <2>3. Head(q) \in Range(q)
    BY <1>1 DEF Range
  <2>4. QED BY <2>1, <2>2, <2>3
<1>3. ASSUME IsInjective(q) PROVE IsInjective(Tail(q)) /\ Head(q) \notin Range(Tail(q))
  <2>1. IsInjective(Tail(q))
    BY <1>1, <1>3 DEF IsInjective
  <2>2. ASSUME Head(q) \in Range(Tail(q)) PROVE FALSE
    <3>1. PICK i \in 1..(Len(q) - 1) : Head(q) = Tail(q)[i]
      BY <1>1, <2>2 DEF Range
    <3>2. i + 1 \in 1..Len(q) /\ 1 \in 1..Len(q) /\ q[i + 1] = q[1] /\ i + 1 # 1
      BY <1>1, <3>1
    <3>3. QED BY <1>1, <1>3, <3>2 DEF IsInjective
  <2>3. QED BY <2>1, <2>2
<1>4. QED BY <1>1, <1>2, <1>3

\* The empty queue holds nothing.
LEMMA EmptyQueue == Range(<<>>) = {} /\ IsInjective(<<>>)
BY DEF Range, IsInjective

\* A queue in the order of a relation stays so when its new tail comes after
\* all of it, and nothing changed between the others.
LEMMA AppendInOrder ==
    ASSUME NEW S, NEW q \in Seq(S), NEW x \in S, NEW Old, NEW Now,
           \A i, j \in DOMAIN q : i < j <=> <<q[i], q[j]>> \in Old,
           \A s, t \in Range(q) : <<s, t>> \in Now <=> <<s, t>> \in Old,
           \A s \in Range(q) : <<s, x>> \in Now /\ <<x, s>> \notin Now,
           <<x, x>> \notin Now
    PROVE  \A i, j \in DOMAIN Append(q, x) :
               i < j <=> <<Append(q, x)[i], Append(q, x)[j]>> \in Now
<1> DEFINE a == Append(q, x)
<1>1. /\ \A i \in 1..Len(q) : a[i] = q[i]
      /\ a[Len(q) + 1] = x
      /\ DOMAIN q = 1..Len(q) /\ DOMAIN a = 1..(Len(q) + 1) /\ Len(q) \in Nat
  OBVIOUS
<1>2. \A i \in DOMAIN q : q[i] \in Range(q)
  BY DEF Range
<1> HIDE DEF a
<1>3. ASSUME NEW i \in DOMAIN a, NEW j \in DOMAIN a PROVE i < j <=> <<a[i], a[j]>> \in Now
  <2>1. CASE i \in DOMAIN q /\ j \in DOMAIN q
    <3>1. a[i] = q[i] /\ a[j] = q[j] /\ q[i] \in Range(q) /\ q[j] \in Range(q)
      BY <1>1, <1>2, <2>1
    <3>2. <<q[i], q[j]>> \in Now <=> <<q[i], q[j]>> \in Old
      BY <3>1
    <3>3. QED BY <2>1, <3>1, <3>2
  <2>2. CASE i \in DOMAIN q /\ j \notin DOMAIN q
    <3>1. i < j /\ a[i] = q[i] /\ a[j] = x /\ q[i] \in Range(q)
      BY <1>1, <1>2, <2>2
    <3>2. QED BY <3>1
  <2>3. CASE i \notin DOMAIN q /\ j \in DOMAIN q
    <3>1. ~(i < j) /\ a[i] = x /\ a[j] = q[j] /\ q[j] \in Range(q)
      BY <1>1, <1>2, <2>3
    <3>2. QED BY <3>1
  <2>4. CASE i \notin DOMAIN q /\ j \notin DOMAIN q
    <3>1. ~(i < j) /\ a[i] = x /\ a[j] = x
      BY <1>1, <2>4
    <3>2. QED BY <3>1
  <2>5. QED BY <2>1, <2>2, <2>3, <2>4
<1>4. QED BY <1>3 DEF a

\* Without its head the queue is in order, and the head comes before the rest.
LEMMA TailInOrder ==
    ASSUME NEW S, NEW q \in Seq(S), q # <<>>, NEW Old, NEW Now,
           \A i, j \in DOMAIN q : i < j <=> <<q[i], q[j]>> \in Old,
           \A s, t \in Range(Tail(q)) : <<s, t>> \in Now <=> <<s, t>> \in Old
    PROVE  /\ \A i, j \in DOMAIN Tail(q) : i < j <=> <<Tail(q)[i], Tail(q)[j]>> \in Now
           /\ \A t \in Range(Tail(q)) : <<Head(q), t>> \in Old
<1> DEFINE a == Tail(q)
<1>1. /\ Len(q) \in Nat /\ Len(q) > 0
      /\ DOMAIN q = 1..Len(q) /\ Head(q) = q[1] /\ DOMAIN a = 1..(Len(q) - 1)
      /\ \A i \in 1..(Len(q) - 1) : a[i] = q[i + 1]
  OBVIOUS
<1>2. \A i \in DOMAIN a : a[i] \in Range(a)
  BY DEF Range
<1>3. \A t \in Range(a) : \E i \in DOMAIN a : a[i] = t
  BY DEF Range
<1> HIDE DEF a
<1>4. ASSUME NEW i \in DOMAIN a, NEW j \in DOMAIN a PROVE i < j <=> <<a[i], a[j]>> \in Now
  <2>1. PICK k \in DOMAIN q : k = i + 1 /\ a[i] = q[k]
    BY <1>1
  <2>2. PICK l \in DOMAIN q : l = j + 1 /\ a[j] = q[l]
    BY <1>1
  <2>3. i < j <=> k < l
    BY <1>1, <2>1, <2>2
  <2>4. k < l <=> <<a[i], a[j]>> \in Old
    BY <2>1, <2>2
  <2>5. <<a[i], a[j]>> \in Now <=> <<a[i], a[j]>> \in Old
    BY <1>2 DEF a
  <2>6. QED BY <2>3, <2>4, <2>5
<1>5. ASSUME NEW t \in Range(a) PROVE <<Head(q), t>> \in Old
  <2>1. PICK i \in DOMAIN a : a[i] = t
    BY <1>3
  <2>2. /\ i + 1 \in DOMAIN q /\ 1 \in DOMAIN q /\ 1 < i + 1
        /\ t = q[i + 1] /\ Head(q) = q[1]
    BY <1>1, <2>1
  <2>3. QED BY <2>2
<1>6. QED BY <1>4, <1>5 DEF a

-----------------------------------------------------------------------------
(* The inductive invariant. *)

\* A worker holds a task exactly between task_queue_pop and the push.
HoldsWhileWorking == \A w \in Threads : worker[w] \in {"exec", "push"} <=> cur[w] # None

\* A thread that left its loop saw the stop flag and an empty queue, and a
\* stopped queue stays empty.
ExitedMeansDrained == \A w \in Threads : worker[w] = "exited" => stop /\ taskQ = <<>>

\* The loop knows whether the pool was stopped.
StopAgreesWithMain ==
    /\ main \in {"create", "loop"} => ~stop
    /\ main \in {"join", "abort", "free", "freed"} => stop

\* Nothing is queued before the pool is complete.
QuietWhileCreating ==
    main \in {"create", "abort"} =>
        /\ taskQ = <<>> /\ doneQ = <<>> /\ outstanding = {}
        /\ \A w \in Threads : cur[w] = None

\* The event loop runs only once every thread was created.
AllCreated ==
    main \in {"loop", "event", "drain", "handle", "join"} =>
        /\ Threads # {}
        /\ \A w \in Threads : worker[w] # "new"

\* After the join no worker is left to add a result.
JoinedMeansQuiet ==
    stop /\ main \in {"event", "drain", "handle", "free", "freed"} =>
        /\ taskQ = <<>>
        /\ \A w \in Threads : worker[w] \in {"new", "exited"}

DrainedBeforeFree == main \in {"free", "freed"} => doneQ = <<>>

Control ==
    /\ HoldsWhileWorking /\ ExitedMeansDrained /\ StopAgreesWithMain
    /\ QuietWhileCreating /\ AllCreated /\ JoinedMeansQuiet /\ DrainedBeforeFree

IInv == TypeOK /\ OneOwner /\ Control

-----------------------------------------------------------------------------
(* Type correctness. *)

\* Every step keeps every variable in its range; PushDone needs to know that
\* the worker that pushes holds a task.
LEMMA TypeStep == TypeOK /\ HoldsWhileWorking /\ [Next]_vars => TypeOK'
<1> SUFFICES ASSUME TypeOK, HoldsWhileWorking, [Next]_vars PROVE TypeOK'
  OBVIOUS
<1> USE DEF TypeOK, WorkerPC, MainPC, queues, threads, notification, loop
<1>1. ASSUME NEW w \in Threads, CreateThread(w) PROVE TypeOK'
  BY <1>1 DEF CreateThread
<1>2. CASE CreateFails
  BY <1>2 DEF CreateFails, StopQueue, Broadcast
<1>3. ASSUME NEW w \in Threads, Connect(w) PROVE TypeOK'
  BY <1>3 DEF Connect
<1>4. ASSUME NEW w \in Threads, Pop(w) PROVE TypeOK'
  <2>1. CASE taskQ # <<>>
    <3>1. Head(taskQ) \in Tasks /\ Tail(taskQ) \in Seq(Tasks)
      BY <2>1, HeadTailFacts
    <3>2. QED BY <1>4, <2>1, <3>1 DEF Pop, ThreadEnds, Unlink
  <2>2. CASE taskQ = <<>>
    BY <1>4, <2>2 DEF Pop, ThreadEnds, Unlink
  <2>3. QED BY <2>1, <2>2
<1>5. ASSUME NEW w \in Threads, SpuriousWakeup(w) PROVE TypeOK'
  BY <1>5 DEF SpuriousWakeup
<1>6. ASSUME NEW w \in Threads, Exec(w) PROVE TypeOK'
  BY <1>6 DEF Exec, Outcomes
<1>7. ASSUME NEW w \in Threads, PushDone(w) PROVE TypeOK'
  <2>1. cur[w] \in Tasks
    BY <1>7 DEF PushDone, HoldsWhileWorking
  <2>2. QED BY <1>7, <2>1, AppendFacts DEF PushDone, Link
<1>8. ASSUME NEW w \in Threads, Notify(w) PROVE TypeOK'
  BY <1>8 DEF Notify, EventfdWrite
<1>9. ASSUME NEW t \in Tasks, ExecQuery(t) PROVE TypeOK'
  <2>1. Append(taskQ, t) \in Seq(Tasks)
    BY <1>9, AppendFacts
  <2>2. worker' \in [Threads -> WorkerPC]
    BY <1>9 DEF ExecQuery, Open, TaskQueuePush, Signal, Asleep
  <2>3. QED BY <1>9, <2>1, <2>2 DEF ExecQuery, TaskQueuePush, Link
<1>10. CASE EpollWait
  BY <1>10 DEF EpollWait
<1>11. CASE ReadCounter
  BY <1>11 DEF ReadCounter
<1>12. CASE Drain
  <2>1. CASE doneQ # <<>>
    <3>1. Head(doneQ) \in Tasks /\ Tail(doneQ) \in Seq(Tasks)
      BY <2>1, HeadTailFacts
    <3>2. QED BY <1>12, <2>1, <3>1 DEF Drain, Unlink
  <2>2. CASE doneQ = <<>>
    BY <1>12, <2>2 DEF Drain, Unlink
  <2>3. QED BY <2>1, <2>2
<1>13. CASE HandleTask
  BY <1>13 DEF HandleTask
<1>14. CASE Join
  BY <1>14 DEF Join, Joined
<1>15. CASE DbPoolStop
  BY <1>15 DEF DbPoolStop, StopQueue, Broadcast
<1>16. CASE DbPoolFree
  BY <1>16 DEF DbPoolFree
<1>17. CASE UNCHANGED vars
  BY <1>17 DEF vars
<1>18. QED
  BY <1>1, <1>2, <1>3, <1>4, <1>5, <1>6, <1>7, <1>8, <1>9, <1>10, <1>11,
     <1>12, <1>13, <1>14, <1>15, <1>16, <1>17
  DEF Next, WorkerStep, LoopStep, Terminated

-----------------------------------------------------------------------------
(* The control part of the invariant. *)

\* Every step keeps the facts that relate the program counters of the
\* workers and of the loop to the stop flag and the queues.
LEMMA ControlStep == TypeOK /\ Control /\ [Next]_vars => Control'
<1> SUFFICES ASSUME TypeOK, Control, [Next]_vars PROVE Control'
  OBVIOUS
<1> USE NoneIsNoTask
    DEF TypeOK, WorkerPC, MainPC, queues, threads, notification, loop, Control,
        HoldsWhileWorking, ExitedMeansDrained, StopAgreesWithMain,
        QuietWhileCreating, AllCreated, JoinedMeansQuiet, DrainedBeforeFree
<1>1. ASSUME NEW w \in Threads, CreateThread(w) PROVE Control'
  BY <1>1 DEF CreateThread
<1>2. CASE CreateFails
  BY <1>2 DEF CreateFails, StopQueue, Broadcast
<1>3. ASSUME NEW w \in Threads, Connect(w) PROVE Control'
  BY <1>3 DEF Connect
<1>4. ASSUME NEW w \in Threads, Pop(w) PROVE Control'
  <2>1. CASE taskQ # <<>>
    <3>1. Head(taskQ) \in Tasks /\ Tail(taskQ) \in Seq(Tasks)
      BY <2>1, HeadTailFacts
    <3>2. QED BY <1>4, <2>1, <3>1 DEF Pop, ThreadEnds, Unlink
  <2>2. CASE taskQ = <<>>
    BY <1>4, <2>2 DEF Pop, ThreadEnds, Unlink
  <2>3. QED BY <2>1, <2>2
<1>5. ASSUME NEW w \in Threads, SpuriousWakeup(w) PROVE Control'
  BY <1>5 DEF SpuriousWakeup
<1>6. ASSUME NEW w \in Threads, Exec(w) PROVE Control'
  BY <1>6 DEF Exec, Outcomes
<1>7. ASSUME NEW w \in Threads, PushDone(w) PROVE Control'
  BY <1>7 DEF PushDone, Link
<1>8. ASSUME NEW w \in Threads, Notify(w) PROVE Control'
  BY <1>8 DEF Notify, EventfdWrite
<1>9. ASSUME NEW t \in Tasks, ExecQuery(t) PROVE Control'
  <2>1. /\ \A w \in Threads : \/ worker'[w] = worker[w]
                              \/ worker[w] = "asleep" /\ worker'[w] = "pop"
        /\ ~stop /\ stop' = stop /\ cur' = cur
        /\ main' \in {"loop", "event", "drain"}
        /\ main \in {"loop", "event", "handle"}
        /\ main' = "loop" => main = "loop"
    BY <1>9 DEF ExecQuery, Open, TaskQueuePush, Signal, Asleep
  <2>2. QED BY <2>1
<1>10. CASE EpollWait
  BY <1>10 DEF EpollWait
<1>11. CASE ReadCounter
  BY <1>11 DEF ReadCounter
<1>12. CASE Drain
  BY <1>12 DEF Drain, Unlink
<1>13. CASE HandleTask
  BY <1>13 DEF HandleTask
<1>14. CASE Join
  BY <1>14 DEF Join, Joined
<1>15. CASE DbPoolStop
  BY <1>15 DEF DbPoolStop, StopQueue, Broadcast
<1>16. CASE DbPoolFree
  BY <1>16 DEF DbPoolFree
<1>17. CASE UNCHANGED vars
  BY <1>17 DEF vars
<1>18. QED
  BY <1>1, <1>2, <1>3, <1>4, <1>5, <1>6, <1>7, <1>8, <1>9, <1>10, <1>11,
     <1>12, <1>13, <1>14, <1>15, <1>16, <1>17
  DEF Next, WorkerStep, LoopStep, Terminated

-----------------------------------------------------------------------------
(* Single ownership. *)

\* Every step that moves a task takes it from one place and puts it in one
\* other place; ExecQuery adds a task that was nowhere.
LEMMA OwnerStep == IInv /\ [Next]_vars => OneOwner'
<1> SUFFICES ASSUME TypeOK, OneOwner, Control, [Next]_vars PROVE OneOwner'
  BY DEF IInv
<1> USE NoneIsNoTask DEF queues, threads, notification, loop
<1> DEFINE Same == UNCHANGED <<taskQ, doneQ, cur, outstanding>>
<1>0. ASSUME Same PROVE OneOwner'
  BY <1>0 DEF OneOwner, Held
<1>1. ASSUME NEW w \in Threads, CreateThread(w) PROVE Same
  BY <1>1 DEF CreateThread
<1>2. CASE CreateFails
  BY <1>0, <1>2 DEF CreateFails
<1>3. ASSUME NEW w \in Threads, Connect(w) \/ SpuriousWakeup(w) \/ Exec(w) \/ Notify(w)
      PROVE  Same
  BY <1>3 DEF Connect, SpuriousWakeup, Exec, Notify
<1>4. ASSUME NEW w \in Threads, Pop(w) PROVE OneOwner'
  <2>1. CASE taskQ = <<>>
    BY <1>0, <1>4, <2>1 DEF Pop, ThreadEnds, Unlink
  <2>2. CASE taskQ # <<>>
    <3> DEFINE t == Head(taskQ)
    <3>1. /\ t \in Tasks /\ Range(taskQ) = {t} \cup Range(Tail(taskQ))
          /\ IsInjective(Tail(taskQ)) /\ t \notin Range(Tail(taskQ))
      BY <2>2, HeadTailFacts DEF TypeOK, OneOwner
    <3>2. /\ cur[w] = None /\ cur' = [cur EXCEPT ![w] = t]
          /\ taskQ' = Tail(taskQ) /\ doneQ' = doneQ /\ outstanding' = outstanding
      BY <1>4, <2>2 DEF Pop, ThreadEnds, Unlink, Control, HoldsWhileWorking
    <3>3. Held' = Held \cup {t}
      BY <3>1, <3>2 DEF Held, TypeOK
    <3>4. \A u, v \in Threads : cur'[u] = cur'[v] /\ cur'[u] # None => u = v
      BY <3>1, <3>2 DEF TypeOK, OneOwner, Held
    <3>5. QED BY <3>1, <3>2, <3>3, <3>4 DEF OneOwner
  <2>3. QED BY <2>1, <2>2
<1>5. ASSUME NEW w \in Threads, PushDone(w) PROVE OneOwner'
  <2> DEFINE t == cur[w]
  <2>1. /\ t \in Tasks /\ cur' = [cur EXCEPT ![w] = None]
        /\ taskQ' = taskQ /\ doneQ' = Append(doneQ, t) /\ outstanding' = outstanding
    BY <1>5 DEF PushDone, Link, TypeOK, Control, HoldsWhileWorking
  <2>2. t \in Held /\ t \notin Range(doneQ)
    BY <2>1 DEF Held, OneOwner
  <2>3. Range(doneQ') = Range(doneQ) \cup {t} /\ IsInjective(doneQ')
    BY <2>1, <2>2, AppendFacts DEF TypeOK, OneOwner
  <2>4. Held' = Held \ {t}
    BY <2>1, <2>2 DEF Held, TypeOK, OneOwner
  <2>5. \A u, v \in Threads : cur'[u] = cur'[v] /\ cur'[u] # None => u = v
    BY <2>1 DEF TypeOK, OneOwner
  <2>6. QED BY <2>1, <2>2, <2>3, <2>4, <2>5 DEF OneOwner
<1>6. ASSUME NEW t \in Tasks, ExecQuery(t) PROVE OneOwner'
  <2>1. /\ t \notin outstanding /\ outstanding' = outstanding \cup {t}
        /\ taskQ' = Append(taskQ, t) /\ doneQ' = doneQ /\ cur' = cur
    BY <1>6 DEF ExecQuery, TaskQueuePush, Link
  <2>2. Range(taskQ') = Range(taskQ) \cup {t} /\ IsInjective(taskQ')
    BY <2>1, AppendFacts DEF TypeOK, OneOwner
  <2>3. QED BY <2>1, <2>2 DEF OneOwner, Held
<1>7. CASE Drain
  <2>1. CASE doneQ = <<>>
    BY <1>0, <1>7, <2>1 DEF Drain, Unlink
  <2>2. CASE doneQ # <<>>
    <3> DEFINE t == Head(doneQ)
    <3>1. /\ Range(doneQ) = {t} \cup Range(Tail(doneQ))
          /\ IsInjective(Tail(doneQ)) /\ t \notin Range(Tail(doneQ))
      BY <2>2, HeadTailFacts DEF TypeOK, OneOwner
    <3>2. /\ doneQ' = Tail(doneQ) /\ outstanding' = outstanding \ {t}
          /\ taskQ' = taskQ /\ cur' = cur
      BY <1>7, <2>2 DEF Drain, Unlink
    <3>3. QED BY <3>1, <3>2 DEF OneOwner, Held
  <2>3. QED BY <2>1, <2>2
<1>8. CASE EpollWait \/ ReadCounter \/ HandleTask \/ Join \/ DbPoolStop
  BY <1>0, <1>8 DEF EpollWait, ReadCounter, HandleTask, Join, DbPoolStop
<1>9. CASE DbPoolFree
  <2>1. taskQ = <<>> /\ doneQ = <<>>
    BY <1>9 DEF DbPoolFree, Control, StopAgreesWithMain, JoinedMeansQuiet, DrainedBeforeFree
  <2>2. QED BY <1>0, <1>9, <2>1 DEF DbPoolFree
<1>10. CASE UNCHANGED vars
  BY <1>0, <1>10 DEF vars
<1>11. QED
  BY <1>0, <1>1, <1>2, <1>3, <1>4, <1>5, <1>6, <1>7, <1>8, <1>9, <1>10
  DEF Next, WorkerStep, LoopStep, Terminated

\* The initial state satisfies the invariant.
LEMMA InitIInv == Init => IInv
<1> SUFFICES ASSUME Init PROVE IInv
  OBVIOUS
<1>1. TypeOK
  <2>1. <<>> \in Seq(Tasks)
    OBVIOUS
  <2>2. taskQ \in Seq(Tasks) /\ doneQ \in Seq(Tasks)
    BY <2>1 DEF Init
  <2>3. QED BY <2>2 DEF Init, TypeOK, WorkerPC, MainPC
<1>2. Control
  BY DEF Init, Control, HoldsWhileWorking, ExitedMeansDrained, StopAgreesWithMain,
         QuietWhileCreating, AllCreated, JoinedMeansQuiet, DrainedBeforeFree
<1>3. OneOwner
  BY EmptyQueue DEF Init, OneOwner, Held
<1>4. QED BY <1>1, <1>2, <1>3 DEF IInv

\* The invariant is inductive.
LEMMA StepIInv == IInv /\ [Next]_vars => IInv'
BY TypeStep, ControlStep, OwnerStep DEF IInv, Control

-----------------------------------------------------------------------------
(* Theorems. *)

\* The inductive invariant holds in every reachable state.
THEOREM Invariance == Spec => []IInv
<1>1. QED BY InitIInv, StepIInv, PTL DEF Spec

\* Type correctness of the pool, its workers and the event loop's side.
THEOREM TypeCorrect == Spec => []TypeOK
<1>1. IInv => TypeOK
  BY DEF IInv
<1>2. QED BY <1>1, Invariance, PTL

\* Exactly-once: however many workers run, db.c never loses, duplicates or
\* shares an accepted task between task_queue_push and its delivery.
THEOREM SingleOwnership == Spec => []OneOwner
<1>1. IInv => OneOwner
  BY DEF IInv
<1>2. QED BY <1>1, Invariance, PTL

\* destroy_server frees the pool only when every accepted task came back.
THEOREM FreeAbandonsNothing == Spec => []NothingAbandoned
<1>1. ASSUME IInv PROVE NothingAbandoned
  <2> SUFFICES ASSUME main \in {"free", "freed"} PROVE outstanding = {}
    BY DEF NothingAbandoned
  <2>1. taskQ = <<>> /\ doneQ = <<>> /\ \A w \in Threads : cur[w] = None
    BY <1>1 DEF IInv, Control, StopAgreesWithMain, JoinedMeansQuiet, DrainedBeforeFree,
                HoldsWhileWorking
  <2>2. QED BY <1>1, <2>1, EmptyQueue DEF IInv, OneOwner, Held
<1>2. QED BY <1>1, Invariance, PTL

\* A finished task is never stranded in the done queue by edge-triggered
\* notification.
THEOREM NotificationNotLost == Spec => []NoLostNotification
<1>1. Init => NoLostNotification
  BY DEF Init, NoLostNotification
<1>2. IInv /\ NoLostNotification /\ [Next]_vars => NoLostNotification'
  <2> SUFFICES ASSUME IInv, NoLostNotification, [Next]_vars,
                      doneQ' # <<>>, main' = "loop", ~(counter' /\ edge')
               PROVE  \E w \in Threads : worker'[w] = "notify"
    BY DEF NoLostNotification
  <2> USE DEF queues, threads, notification, loop
  <2> DEFINE SomeNotifies == \E w \in Threads : worker[w] = "notify"
  <2>0. ASSUME doneQ # <<>>, main = "loop", ~(counter /\ edge) PROVE SomeNotifies
    BY <2>0 DEF NoLostNotification
  <2>1. TypeOK
    BY DEF IInv
  <2>2. ASSUME NEW w \in Threads, CreateThread(w) PROVE FALSE
    BY <2>2 DEF CreateThread, IInv, Control, QuietWhileCreating
  <2>3. ASSUME NEW w \in Threads, Connect(w) \/ Pop(w) \/ SpuriousWakeup(w) \/ Exec(w)
        PROVE  \E v \in Threads : worker'[v] = "notify"
    <3>1. PICK v \in Threads : worker[v] = "notify"
      BY <2>0, <2>3 DEF Connect, Pop, SpuriousWakeup, Exec
    <3>2. v # w /\ worker'[v] = worker[v]
      BY <2>1, <2>3, <3>1 DEF Connect, Pop, SpuriousWakeup, Exec, TypeOK
    <3>3. QED BY <3>1, <3>2
  <2>4. ASSUME NEW w \in Threads, PushDone(w) PROVE worker'[w] = "notify"
    BY <2>1, <2>4 DEF PushDone, TypeOK
  <2>5. ASSUME NEW w \in Threads, Notify(w) PROVE FALSE
    BY <2>5 DEF Notify, EventfdWrite
  <2>6. ASSUME NEW t \in Tasks, ExecQuery(t)
        PROVE  \E v \in Threads : worker'[v] = "notify"
    <3>1. PICK v \in Threads : worker[v] = "notify"
      BY <2>0, <2>6 DEF ExecQuery
    <3>2. worker'[v] = worker[v]
      BY <2>1, <2>6, <3>1 DEF ExecQuery, Open, TaskQueuePush, Signal, Asleep, TypeOK
    <3>3. QED BY <3>1, <3>2
  <2>7. CASE EpollWait
    BY <2>0, <2>7 DEF EpollWait
  <2>8. CASE Drain
    BY <2>8 DEF Drain, Unlink
  <2>9. CASE CreateFails \/ ReadCounter \/ HandleTask \/ Join \/ DbPoolStop \/ DbPoolFree
    BY <2>9 DEF CreateFails, ReadCounter, HandleTask, Join, DbPoolStop, DbPoolFree
  <2>10. CASE UNCHANGED vars
    BY <2>0, <2>10 DEF vars
  <2>11. QED
    BY <2>2, <2>3, <2>4, <2>5, <2>6, <2>7, <2>8, <2>9, <2>10
    DEF Next, WorkerStep, LoopStep, Terminated
<1>3. QED BY <1>1, <1>2, Invariance, PTL DEF Spec

\* With tasks queued some worker is awake: one pthread_cond_signal per push
\* is enough for every number of workers, whatever wakes up spuriously.
THEOREM SignalNotLost == Spec => []NoLostSignal
<1>1. Init => NoLostSignal
  BY DEF Init, NoLostSignal
<1>2. IInv /\ NoLostSignal /\ [Next]_vars => NoLostSignal'
  <2> SUFFICES ASSUME IInv, NoLostSignal, [Next]_vars, taskQ' # <<>>
               PROVE  \E w \in Threads : worker'[w] \notin {"asleep", "exited"}
    BY DEF NoLostSignal
  <2> USE DEF queues, threads, notification, loop
  <2>1. TypeOK
    BY DEF IInv
  <2>2. ASSUME NEW w \in Threads,
               CreateThread(w) \/ Connect(w) \/ SpuriousWakeup(w) \/ Exec(w)
               \/ PushDone(w) \/ Notify(w)
        PROVE  worker'[w] \notin {"asleep", "exited"}
    BY <2>1, <2>2 DEF TypeOK, CreateThread, Connect, SpuriousWakeup, Exec, PushDone, Notify
  <2>3. ASSUME NEW w \in Threads, Pop(w) PROVE worker'[w] \notin {"asleep", "exited"}
    BY <2>1, <2>3 DEF TypeOK, Pop, ThreadEnds
  <2>4. ASSUME NEW t \in Tasks, ExecQuery(t)
        PROVE  \E w \in Threads : worker'[w] \notin {"asleep", "exited"}
    <3>1. ~stop /\ Threads # {}
      BY <2>4 DEF ExecQuery, Open, IInv, Control, AllCreated
    <3>2. \A w \in Threads : worker[w] # "exited"
      BY <3>1 DEF IInv, Control, ExitedMeansDrained
    <3>3. CASE Asleep = {}
      BY <2>4, <3>1, <3>2, <3>3 DEF ExecQuery, Open, TaskQueuePush, Signal, Asleep
    <3>4. CASE Asleep # {}
      BY <2>1, <2>4, <3>4 DEF ExecQuery, Open, TaskQueuePush, Signal, Asleep, TypeOK
    <3>5. QED BY <3>3, <3>4
  <2>5. ASSUME taskQ # <<>>, \A w \in Threads : worker'[w] = worker[w]
                                              \/ worker'[w] = "pop"
        PROVE  \E w \in Threads : worker'[w] \notin {"asleep", "exited"}
    BY <2>5 DEF NoLostSignal
  <2>6. CASE CreateFails \/ DbPoolStop
    BY <2>1, <2>5, <2>6 DEF CreateFails, DbPoolStop, StopQueue, Broadcast, TypeOK
  <2>7. CASE EpollWait \/ ReadCounter \/ Drain \/ HandleTask \/ Join
    BY <2>5, <2>7 DEF EpollWait, ReadCounter, Drain, HandleTask, Join, Joined
  <2>8. CASE DbPoolFree
    BY <2>8 DEF DbPoolFree
  <2>9. CASE UNCHANGED vars
    BY <2>5, <2>9 DEF vars
  <2>10. QED
    BY <2>2, <2>3, <2>4, <2>6, <2>7, <2>8, <2>9
    DEF Next, WorkerStep, LoopStep, Terminated
<1>3. QED BY <1>1, <1>2, Invariance, PTL DEF Spec

-----------------------------------------------------------------------------
(* The pool implements JobService, step by step. *)

\* The initial states map to initial states.
LEMMA RefinesInit == Init => Abstract!Init
BY DEF Init, Abstract!Init, JobStatus

\* Every step of a worker or of the loop is a step of the job service, or
\* stutters: db_exec_query is Submit, the push on the done queue is Finish,
\* db_pool_get_latest_completed_task is Deliver, db_pool_stop is Stop that
\* cancels nothing, and db_pool_free is Release.
LEMMA RefinesNext == IInv /\ [Next]_vars => [Abstract!Next]_(Abstract!vars)
<1> SUFFICES ASSUME IInv, [Next]_vars PROVE [Abstract!Next]_(Abstract!vars)
  OBVIOUS
<1> USE NoneIsNoTask DEF queues, threads, notification, loop
<1> DEFINE Same == UNCHANGED <<doneQ, outstanding, stop, main = "freed">>
<1>0. ASSUME Same PROVE UNCHANGED Abstract!vars
  BY <1>0 DEF Abstract!vars, JobStatus
<1>1. ASSUME NEW w \in Threads,
             CreateThread(w) \/ Connect(w) \/ Pop(w) \/ SpuriousWakeup(w) \/ Exec(w) \/ Notify(w)
      PROVE  UNCHANGED Abstract!vars
  BY <1>0, <1>1 DEF CreateThread, Connect, Pop, SpuriousWakeup, Exec, Notify
<1>2. CASE EpollWait \/ ReadCounter \/ HandleTask \/ Join
  BY <1>0, <1>2 DEF EpollWait, ReadCounter, HandleTask, Join
<1>3. CASE CreateFails \/ DbPoolStop
  <2>1. ~stop /\ stop' /\ main # "freed" /\ main' # "freed" /\ UNCHANGED <<doneQ, outstanding>>
    BY <1>3 DEF CreateFails, DbPoolStop, StopQueue, IInv, Control, StopAgreesWithMain
  <2>2. Abstract!Stop({})
    BY <2>1 DEF Abstract!Stop, JobStatus
  <2>3. QED BY <2>2 DEF Abstract!Next
<1>4. ASSUME NEW w \in Threads, PushDone(w) PROVE Abstract!Next
  <2> DEFINE t == cur[w]
  <2>1. /\ t \in Tasks /\ t \in outstanding /\ t \notin Range(doneQ)
        /\ doneQ' = Append(doneQ, t) /\ UNCHANGED <<outstanding, stop, main>>
    BY <1>4 DEF PushDone, Link, IInv, TypeOK, OneOwner, Held, Control, HoldsWhileWorking
  <2>2. Range(doneQ') = Range(doneQ) \cup {t}
    BY <2>1, AppendFacts DEF IInv, TypeOK
  <2> HIDE DEF t
  <2>3. Abstract!Finish(t)
    BY <2>1, <2>2 DEF Abstract!Finish, JobStatus
  <2>4. QED BY <2>1, <2>3 DEF Abstract!Next
<1>5. ASSUME NEW t \in Tasks, ExecQuery(t) PROVE Abstract!Next
  <2>1. /\ t \notin outstanding /\ outstanding' = outstanding \cup {t}
        /\ t \notin Range(doneQ) /\ ~stop /\ main # "freed" /\ main' # "freed"
        /\ UNCHANGED <<doneQ, stop>>
    BY <1>5 DEF ExecQuery, Open, IInv, OneOwner
  <2>2. Abstract!Submit(t)
    BY <2>1 DEF Abstract!Submit, JobStatus
  <2>3. QED BY <2>2 DEF Abstract!Next
<1>6. CASE Drain
  <2>1. CASE doneQ = <<>>
    BY <1>0, <1>6, <2>1 DEF Drain
  <2>2. CASE doneQ # <<>>
    <3> DEFINE t == Head(doneQ)
    <3>1. /\ t \in Tasks /\ Range(doneQ) = {t} \cup Range(Tail(doneQ))
          /\ t \notin Range(Tail(doneQ))
      BY <2>2, HeadTailFacts DEF IInv, TypeOK, OneOwner
    <3>2. /\ t \in outstanding /\ outstanding' = outstanding \ {t}
          /\ doneQ' = Tail(doneQ) /\ main # "freed" /\ main' # "freed" /\ UNCHANGED stop
      BY <1>6, <2>2, <3>1 DEF Drain, Unlink, IInv, OneOwner
    <3> HIDE DEF t
    <3>3. Abstract!Deliver(t)
      BY <3>1, <3>2 DEF Abstract!Deliver, JobStatus
    <3>4. QED BY <3>1, <3>3 DEF Abstract!Next
  <2>3. QED BY <2>1, <2>2
<1>7. CASE DbPoolFree
  <2>1. /\ main = "free" /\ main' = "freed" /\ stop /\ UNCHANGED <<stop, outstanding>>
        /\ taskQ = <<>> /\ doneQ = <<>> /\ \A w \in Threads : cur[w] = None
    BY <1>7 DEF DbPoolFree, IInv, Control, StopAgreesWithMain, DrainedBeforeFree,
                JoinedMeansQuiet, HoldsWhileWorking
  <2>2. outstanding = {}
    BY <2>1, EmptyQueue DEF IInv, OneOwner, Held
  <2>3. Abstract!Release
    BY <2>1, <2>2 DEF Abstract!Release, JobStatus
  <2>4. QED BY <2>3 DEF Abstract!Next
<1>8. CASE UNCHANGED vars
  BY <1>0, <1>8 DEF vars
<1>9. QED
  BY <1>1, <1>2, <1>3, <1>4, <1>5, <1>6, <1>7, <1>8
  DEF Next, WorkerStep, LoopStep, Terminated

\* The safety half of the refinement, for every set of contexts and every
\* number of threads: to its caller the pool behaves as a job service.
THEOREM ImplementsSafely == Spec => Abstract!Init /\ [][Abstract!Next]_(Abstract!vars)
<1>1. QED BY RefinesInit, RefinesNext, Invariance, PTL DEF Spec

-----------------------------------------------------------------------------
(* The order of statements. *)

historyVars == <<vars, before, took>>

\* The history relates outstanding tasks, never both ways; a thread that holds
\* a task has taken one.
HistoryFacts ==
    /\ before \subseteq outstanding \X outstanding
    /\ \A s, t \in outstanding : <<s, t>> \in before => <<t, s>> \notin before
    /\ \A w \in Threads : cur[w] # None => w \in took

OrderInv == HistoryFacts /\ StatementsInOrder

\* What a step does to the set of outstanding tasks decides what it does to
\* the order: a task that is accepted comes after all the others, a task that
\* is delivered leaves the order of the others alone.
LEMMA HistoryStep ==
    ASSUME IInv, HistoryFacts, HistoryNext
    PROVE  /\ HistoryFacts'
           /\ took \subseteq took'
           /\ \A s, t \in outstanding \cap outstanding' :
                  <<s, t>> \in before' <=> <<s, t>> \in before
           /\ \A s \in outstanding \cap outstanding', t \in outstanding' \ outstanding :
                  <<s, t>> \in before' /\ <<t, s>> \notin before'
           /\ \A t \in outstanding' \ outstanding : <<t, t>> \notin before'
<1>1. /\ took' = took \cup {w \in Threads : cur'[w] # None}
      /\ before' = (before \cap (outstanding' \X outstanding'))
                   \cup ((outstanding \cap outstanding') \X (outstanding' \ outstanding))
  BY DEF HistoryNext
<1>2. \A s, t : <<s, t>> \in before' <=>
          \/ <<s, t>> \in before /\ s \in outstanding' /\ t \in outstanding'
          \/ s \in outstanding /\ s \in outstanding' /\ t \in outstanding' /\ t \notin outstanding
  BY <1>1
<1>3. \A s, t : <<s, t>> \in before => s \in outstanding /\ t \in outstanding
  BY DEF HistoryFacts
<1>4. before' \subseteq outstanding' \X outstanding'
  BY <1>1
<1>5. \A s, t \in outstanding' : <<s, t>> \in before' => <<t, s>> \notin before'
  BY <1>2, <1>3 DEF HistoryFacts
<1>6. \A w \in Threads : cur'[w] # None => w \in took'
  BY <1>1
<1>7. QED BY <1>1, <1>2, <1>3, <1>4, <1>5, <1>6 DEF HistoryFacts

\* The queues stay in order.
LEMMA OrderStep ==
    ASSUME IInv, OrderInv, HistoryNext
    PROVE  StatementsInOrder'
<1> USE NoneIsNoTask DEF queues, threads, notification, loop
<1>0. /\ TypeOK /\ OneOwner /\ HoldsWhileWorking /\ Next
      /\ HistoryFacts /\ InOrder(taskQ)
      /\ outstanding = Range(taskQ) \cup Held \cup Range(doneQ)
  BY DEF IInv, Control, OneOwner, OrderInv, StatementsInOrder, HistoryNext
<1>1. /\ HistoryFacts' /\ took \subseteq took'
      /\ \A s, t \in outstanding \cap outstanding' :
             <<s, t>> \in before' <=> <<s, t>> \in before
      /\ \A s \in outstanding \cap outstanding', t \in outstanding' \ outstanding :
             <<s, t>> \in before' /\ <<t, s>> \notin before'
      /\ \A t \in outstanding' \ outstanding : <<t, t>> \notin before'
  BY <1>0, HistoryStep
<1>2. \A s \in Held \cup Range(doneQ), t \in Range(taskQ) : <<s, t>> \in before
  BY DEF OrderInv, StatementsInOrder
<1>3. ASSUME NEW v \in Threads, took \subseteq {v}
      PROVE  InOrder(doneQ) /\ \A s \in Range(doneQ), t \in Held : <<s, t>> \in before
  BY <1>3 DEF OrderInv, StatementsInOrder
<1>4. ASSUME InOrder(taskQ)',
             \A s \in (Held \cup Range(doneQ))', t \in Range(taskQ)' : <<s, t>> \in before',
             \A v \in Threads : took' \subseteq {v} =>
                 InOrder(doneQ)' /\ \A s \in Range(doneQ)', t \in Held' : <<s, t>> \in before'
      PROVE  StatementsInOrder'
  BY <1>4 DEF StatementsInOrder
<1>5. ASSUME UNCHANGED <<taskQ, doneQ, cur, outstanding>> PROVE StatementsInOrder'
  <2>1. \A s, t \in outstanding : <<s, t>> \in before' <=> <<s, t>> \in before
    BY <1>1, <1>5
  <2>2. /\ \A i \in DOMAIN taskQ : taskQ[i] \in outstanding
        /\ \A i \in DOMAIN doneQ : doneQ[i] \in outstanding
    BY <1>0 DEF Range
  <2>3. InOrder(taskQ)'
    BY <1>0, <1>5, <2>1, <2>2 DEF InOrder
  <2>4. \A s \in (Held \cup Range(doneQ))', t \in Range(taskQ)' : <<s, t>> \in before'
    BY <1>0, <1>2, <1>5, <2>1 DEF Held
  <2>5. ASSUME NEW v \in Threads, took' \subseteq {v}
        PROVE  InOrder(doneQ)' /\ \A s \in Range(doneQ)', t \in Held' : <<s, t>> \in before'
    <3>1. InOrder(doneQ) /\ \A s \in Range(doneQ), t \in Held : <<s, t>> \in before
      BY <1>1, <1>3, <2>5
    <3>2. InOrder(doneQ)'
      BY <1>5, <2>1, <2>2, <3>1 DEF InOrder
    <3>3. \A s \in Range(doneQ)', t \in Held' : <<s, t>> \in before'
      BY <1>0, <1>5, <2>1, <3>1 DEF Held
    <3>4. QED BY <3>2, <3>3
  <2>6. QED BY <1>4, <2>3, <2>4, <2>5
<1>6. ASSUME NEW w \in Threads, Pop(w) PROVE StatementsInOrder'
  <2>1. CASE taskQ = <<>>
    BY <1>5, <1>6, <2>1 DEF Pop, ThreadEnds, Unlink
  <2>2. CASE taskQ # <<>>
    <3> DEFINE h == Head(taskQ)
    <3>1. /\ h \in Tasks /\ Range(taskQ) = {h} \cup Range(Tail(taskQ))
      BY <1>0, <2>2, HeadTailFacts DEF TypeOK
    <3>2. /\ cur[w] = None /\ cur' = [cur EXCEPT ![w] = h]
          /\ taskQ' = Tail(taskQ) /\ doneQ' = doneQ /\ outstanding' = outstanding
      BY <1>0, <1>6, <2>2 DEF Pop, ThreadEnds, Unlink, HoldsWhileWorking
    <3>3. \A s, t \in outstanding : <<s, t>> \in before' <=> <<s, t>> \in before
      BY <1>1, <3>2
    <3>4. Held' = Held \cup {h}
      BY <1>0, <3>1, <3>2 DEF Held, TypeOK
    <3>5. /\ InOrder(taskQ)'
          /\ \A t \in Range(Tail(taskQ)) : <<h, t>> \in before
      <4>1. /\ \A i, j \in DOMAIN taskQ : i < j <=> <<taskQ[i], taskQ[j]>> \in before
            /\ taskQ \in Seq(Tasks)
            /\ \A s, t \in Range(Tail(taskQ)) : <<s, t>> \in before' <=> <<s, t>> \in before
        BY <1>0, <3>1, <3>3 DEF InOrder, TypeOK
      <4>2. /\ \A i, j \in DOMAIN Tail(taskQ) :
                   i < j <=> <<Tail(taskQ)[i], Tail(taskQ)[j]>> \in before'
            /\ \A t \in Range(Tail(taskQ)) : <<Head(taskQ), t>> \in before
        BY <2>2, <4>1, TailInOrder
      <4>3. QED BY <3>2, <4>2 DEF InOrder
    <3>6. \A s \in (Held \cup Range(doneQ))', t \in Range(taskQ)' : <<s, t>> \in before'
      BY <1>0, <1>2, <3>1, <3>2, <3>3, <3>4, <3>5
    <3>7. ASSUME NEW v \in Threads, took' \subseteq {v}
          PROVE  InOrder(doneQ)' /\ \A s \in Range(doneQ)', t \in Held' : <<s, t>> \in before'
      <4>1. InOrder(doneQ) /\ \A s \in Range(doneQ), t \in Held : <<s, t>> \in before
        BY <1>1, <1>3, <3>7
      <4>2. \A i \in DOMAIN doneQ : doneQ[i] \in outstanding
        BY <1>0 DEF Range
      <4>3. InOrder(doneQ)'
        BY <3>2, <3>3, <4>1, <4>2 DEF InOrder
      <4>4. \A s \in Range(doneQ)', t \in Held' : <<s, t>> \in before'
        BY <1>0, <1>2, <3>1, <3>2, <3>3, <3>4, <4>1
      <4>5. QED BY <4>3, <4>4
    <3>8. QED BY <1>4, <3>5, <3>6, <3>7
  <2>3. QED BY <2>1, <2>2
<1>7. ASSUME NEW w \in Threads, PushDone(w) PROVE StatementsInOrder'
  <2> DEFINE x == cur[w]
  <2>1. /\ x \in Tasks /\ cur' = [cur EXCEPT ![w] = None]
        /\ taskQ' = taskQ /\ doneQ' = Append(doneQ, x) /\ outstanding' = outstanding
    BY <1>0, <1>7 DEF PushDone, Link, TypeOK, HoldsWhileWorking
  <2>2. \A s, t \in outstanding : <<s, t>> \in before' <=> <<s, t>> \in before
    BY <1>1, <2>1
  <2>3. x \in Held /\ x \notin Range(doneQ)
    BY <1>0, <2>1 DEF Held, OneOwner
  <2>4. Range(doneQ') = Range(doneQ) \cup {x}
    BY <1>0, <2>1, AppendFacts DEF TypeOK
  <2>5. Held' \subseteq Held
    BY <1>0, <2>1 DEF Held, TypeOK
  <2>6. \A i \in DOMAIN taskQ : taskQ[i] \in outstanding
    BY <1>0 DEF Range
  <2>7. InOrder(taskQ)'
    BY <1>0, <2>1, <2>2, <2>6 DEF InOrder
  <2>8. \A s \in (Held \cup Range(doneQ))', t \in Range(taskQ)' : <<s, t>> \in before'
    BY <1>0, <1>2, <2>1, <2>2, <2>3, <2>4, <2>5
  <2>9. ASSUME NEW v \in Threads, took' \subseteq {v}
        PROVE  InOrder(doneQ)' /\ \A s \in Range(doneQ)', t \in Held' : <<s, t>> \in before'
    <3>1. InOrder(doneQ) /\ \A s \in Range(doneQ), t \in Held : <<s, t>> \in before
      BY <1>1, <1>3, <2>9
    <3>2. w = v /\ \A u \in Threads : cur[u] # None => u = v
      BY <1>0, <1>1, <2>1, <2>9 DEF HistoryFacts
    <3>3. Held' = {}
      BY <1>0, <2>1, <3>2 DEF Held, TypeOK
    <3>4. /\ \A i, j \in DOMAIN doneQ : i < j <=> <<doneQ[i], doneQ[j]>> \in before
          /\ doneQ \in Seq(Tasks)
          /\ \A s, t \in Range(doneQ) : <<s, t>> \in before' <=> <<s, t>> \in before
      BY <1>0, <2>2, <3>1 DEF InOrder, TypeOK
    <3>5. \A s \in Range(doneQ) : <<s, x>> \in before' /\ <<x, s>> \notin before'
      BY <1>0, <2>2, <2>3, <3>1 DEF HistoryFacts
    <3>6. <<x, x>> \notin before'
      BY <1>0, <2>2, <2>3 DEF HistoryFacts
    <3>7. \A i, j \in DOMAIN Append(doneQ, x) :
              i < j <=> <<Append(doneQ, x)[i], Append(doneQ, x)[j]>> \in before'
      BY <2>1, <3>4, <3>5, <3>6, AppendInOrder
    <3>8. InOrder(doneQ)'
      BY <2>1, <3>7 DEF InOrder
    <3>9. QED BY <3>3, <3>8
  <2>10. QED BY <1>4, <2>7, <2>8, <2>9
<1>8. ASSUME NEW x \in Tasks, ExecQuery(x) PROVE StatementsInOrder'
  <2>1. /\ x \notin outstanding /\ outstanding' = outstanding \cup {x}
        /\ taskQ' = Append(taskQ, x) /\ doneQ' = doneQ /\ cur' = cur
    BY <1>8 DEF ExecQuery, TaskQueuePush, Link
  <2>2. /\ \A s, t \in outstanding : <<s, t>> \in before' <=> <<s, t>> \in before
        /\ \A s \in outstanding : <<s, x>> \in before' /\ <<x, s>> \notin before'
        /\ <<x, x>> \notin before'
    BY <1>1, <2>1
  <2>3. Range(taskQ') = Range(taskQ) \cup {x}
    BY <1>0, <2>1, AppendFacts DEF TypeOK
  <2>4. InOrder(taskQ)'
    <3>1. /\ \A i, j \in DOMAIN taskQ : i < j <=> <<taskQ[i], taskQ[j]>> \in before
          /\ taskQ \in Seq(Tasks)
          /\ \A s, t \in Range(taskQ) : <<s, t>> \in before' <=> <<s, t>> \in before
          /\ \A s \in Range(taskQ) : <<s, x>> \in before' /\ <<x, s>> \notin before'
      BY <1>0, <2>2 DEF InOrder, TypeOK
    <3>2. \A i, j \in DOMAIN Append(taskQ, x) :
              i < j <=> <<Append(taskQ, x)[i], Append(taskQ, x)[j]>> \in before'
      BY <2>2, <3>1, AppendInOrder
    <3>3. QED BY <2>1, <3>2 DEF InOrder
  <2>5. \A s \in (Held \cup Range(doneQ))', t \in Range(taskQ)' : <<s, t>> \in before'
    <3>1. Held' = Held /\ doneQ' = doneQ
      BY <2>1 DEF Held
    <3>2. \A s \in Held \cup Range(doneQ) : s \in outstanding
      BY <1>0
    <3>3. \A s \in Held \cup Range(doneQ), t \in Range(taskQ) : <<s, t>> \in before'
      BY <1>0, <1>2, <2>2
    <3>4. \A s \in Held \cup Range(doneQ) : <<s, x>> \in before'
      BY <2>2, <3>2
    <3>5. QED BY <2>3, <3>1, <3>3, <3>4
  <2>6. ASSUME NEW v \in Threads, took' \subseteq {v}
        PROVE  InOrder(doneQ)' /\ \A s \in Range(doneQ)', t \in Held' : <<s, t>> \in before'
    <3>1. InOrder(doneQ) /\ \A s \in Range(doneQ), t \in Held : <<s, t>> \in before
      BY <1>1, <1>3, <2>6
    <3>2. \A i \in DOMAIN doneQ : doneQ[i] \in outstanding
      BY <1>0 DEF Range
    <3>3. InOrder(doneQ)'
      BY <2>1, <2>2, <3>1, <3>2 DEF InOrder
    <3>4. \A s \in Range(doneQ)', t \in Held' : <<s, t>> \in before'
      BY <1>0, <2>1, <2>2, <3>1 DEF Held
    <3>5. QED BY <3>3, <3>4
  <2>7. QED BY <1>4, <2>4, <2>5, <2>6
<1>9. CASE Drain
  <2>1. CASE doneQ = <<>>
    BY <1>5, <1>9, <2>1 DEF Drain, Unlink
  <2>2. CASE doneQ # <<>>
    <3> DEFINE h == Head(doneQ)
    <3>1. /\ Range(doneQ) = {h} \cup Range(Tail(doneQ)) /\ h \notin Range(Tail(doneQ))
      BY <1>0, <2>2, HeadTailFacts DEF TypeOK, OneOwner
    <3>2. /\ doneQ' = Tail(doneQ) /\ outstanding' = outstanding \ {h}
          /\ taskQ' = taskQ /\ cur' = cur
      BY <1>9, <2>2 DEF Drain, Unlink
    <3>3. Held' = Held
      BY <3>2 DEF Held
    <3>4. Range(taskQ) \cup Held \cup Range(Tail(doneQ)) \subseteq outstanding'
      BY <1>0, <3>1, <3>2 DEF OneOwner
    <3>5. \A s, t \in outstanding' : <<s, t>> \in before' <=> <<s, t>> \in before
      BY <1>1, <3>2
    <3>6. InOrder(taskQ)'
      <4>1. \A i \in DOMAIN taskQ : taskQ[i] \in outstanding'
        BY <3>4 DEF Range
      <4>2. QED BY <1>0, <3>2, <3>5, <4>1 DEF InOrder
    <3>7. \A s \in (Held \cup Range(doneQ))', t \in Range(taskQ)' : <<s, t>> \in before'
      BY <1>2, <3>1, <3>2, <3>3, <3>4, <3>5
    <3>8. ASSUME NEW v \in Threads, took' \subseteq {v}
          PROVE  InOrder(doneQ)' /\ \A s \in Range(doneQ)', t \in Held' : <<s, t>> \in before'
      <4>1. InOrder(doneQ) /\ \A s \in Range(doneQ), t \in Held : <<s, t>> \in before
        BY <1>1, <1>3, <3>8
      <4>2. /\ \A i, j \in DOMAIN doneQ : i < j <=> <<doneQ[i], doneQ[j]>> \in before
            /\ doneQ \in Seq(Tasks)
            /\ \A s, t \in Range(Tail(doneQ)) : <<s, t>> \in before' <=> <<s, t>> \in before
        BY <1>0, <3>4, <3>5, <4>1 DEF InOrder, TypeOK
      <4>3. \A i, j \in DOMAIN Tail(doneQ) :
                i < j <=> <<Tail(doneQ)[i], Tail(doneQ)[j]>> \in before'
        BY <2>2, <4>2, TailInOrder
      <4>4. InOrder(doneQ)'
        BY <3>2, <4>3 DEF InOrder
      <4>5. \A s \in Range(doneQ)', t \in Held' : <<s, t>> \in before'
        BY <3>1, <3>2, <3>3, <3>4, <3>5, <4>1
      <4>6. QED BY <4>4, <4>5
    <3>9. QED BY <1>4, <3>6, <3>7, <3>8
  <2>3. QED BY <2>1, <2>2
<1>10. ASSUME NEW w \in Threads,
              CreateThread(w) \/ Connect(w) \/ SpuriousWakeup(w) \/ Exec(w) \/ Notify(w)
       PROVE  StatementsInOrder'
  BY <1>5, <1>10 DEF CreateThread, Connect, SpuriousWakeup, Exec, Notify
<1>11. CASE CreateFails \/ EpollWait \/ ReadCounter \/ HandleTask \/ Join \/ DbPoolStop
  BY <1>5, <1>11 DEF CreateFails, EpollWait, ReadCounter, HandleTask, Join, DbPoolStop
<1>12. CASE DbPoolFree
  <2>1. taskQ = <<>> /\ doneQ = <<>>
    BY <1>12 DEF DbPoolFree, IInv, Control, StopAgreesWithMain, JoinedMeansQuiet, DrainedBeforeFree
  <2>2. QED BY <1>5, <1>12, <2>1 DEF DbPoolFree
<1>13. CASE Terminated
  BY <1>5, <1>13 DEF Terminated, vars
<1>14. QED
  BY <1>0, <1>6, <1>7, <1>8, <1>9, <1>10, <1>11, <1>12, <1>13 DEF Next, WorkerStep, LoopStep

\* Statements start in the order in which the handlers queued them, whatever
\* the number of workers, and with one worker their results also come back in
\* that order.
THEOREM OrderKept == HistorySpec => []StatementsInOrder
<1>1. HistoryInit => IInv /\ OrderInv
  <2> SUFFICES ASSUME HistoryInit PROVE IInv /\ OrderInv
    OBVIOUS
  <2>1. Init /\ before = {} /\ took = {} /\ taskQ = <<>> /\ doneQ = <<>> /\ outstanding = {}
        /\ \A w \in Threads : cur[w] = None
    BY DEF HistoryInit, Init
  <2>2. HistoryFacts
    BY <2>1 DEF HistoryFacts
  <2>3. Held = {} /\ Range(taskQ) = {} /\ Range(doneQ) = {}
    BY <2>1, EmptyQueue DEF Held
  <2>4. DOMAIN taskQ = {} /\ DOMAIN doneQ = {}
    BY <2>1
  <2>5. StatementsInOrder
    BY <2>3, <2>4 DEF StatementsInOrder, InOrder
  <2>6. QED BY <2>1, <2>2, <2>5, InitIInv DEF OrderInv
<1>2. IInv /\ OrderInv /\ [HistoryNext]_historyVars => IInv' /\ OrderInv'
  <2> SUFFICES ASSUME IInv, OrderInv, [HistoryNext]_historyVars PROVE IInv' /\ OrderInv'
    OBVIOUS
  <2>1. CASE HistoryNext
    <3>1. IInv'
      BY <2>1, StepIInv DEF HistoryNext
    <3>2. QED BY <2>1, <3>1, HistoryStep, OrderStep DEF OrderInv
  <2>2. CASE UNCHANGED historyVars
    <3>1. IInv'
      BY <2>2, StepIInv DEF historyVars
    <3>2. UNCHANGED <<taskQ, doneQ, cur, outstanding, before, took>>
      BY <2>2 DEF historyVars, vars, queues, threads
    <3>3. QED BY <3>1, <3>2 DEF OrderInv, HistoryFacts, StatementsInOrder, InOrder, Held
  <2>3. QED BY <2>1, <2>2
<1>3. OrderInv => StatementsInOrder
  BY DEF OrderInv
<1>4. QED BY <1>1, <1>2, <1>3, PTL DEF HistorySpec, historyVars
=============================================================================
