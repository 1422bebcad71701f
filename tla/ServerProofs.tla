---------------------------- MODULE ServerProofs ----------------------------
(***************************************************************************)
(* Proofs about Server for every number of clients, every size of an epoll *)
(* batch and handler chains of every length: no use after free, one        *)
(* disposal per request, one job per context and one response.             *)
(***************************************************************************)
EXTENDS Server, FiniteSetTheorems, TLAPS

-----------------------------------------------------------------------------
(* The inductive invariant. *)

\* The objects of one client and the pointers between them.
Rec == [conn : Object \cup {"backlog", "retired"}, req : Object, ctx : Object,
        connReq : BOOLEAN, reqConn : BOOLEAN, reqCtx : BOOLEAN,
        buffer : BOOLEAN, interest : {"in", "out"}, responses : 0..2,
        disposals : 0..2, hops : 0..MaxHops, stalls : 0..MaxStalls,
        fault : BOOLEAN]

\* Pointers are mutual and lead to live objects; a live request has an owner,
\* its open connection or its context; it is counted when it is disposed of.
Owned(r) ==
    /\ r.fault = FALSE
    /\ r.conn = "live" => r.connReq = r.reqConn /\ r.connReq = (r.req = "live") /\ r.req # "freed"
    /\ r.conn # "live" => r.connReq = FALSE /\ r.reqConn = FALSE /\ r.buffer = FALSE
    /\ r.conn \in {"none", "backlog"} => r.req = "none"
    /\ r.req = "live" => r.conn = "live" \/ r.ctx = "live"
    /\ r.reqCtx = (r.ctx = "live")
    /\ r.ctx = "live" => r.req = "live"
    /\ r.req = "none" => r.ctx = "none" /\ r.responses = 0 /\ r.buffer = FALSE /\ r.interest = "in"
    /\ r.disposals = IF r.req = "freed" THEN 1 ELSE 0
    /\ r.responses <= 1
    /\ r.conn = "live" /\ r.buffer = FALSE => r.responses = 0 /\ r.interest = "in"

\* Who works for a client: a service, the handler of a result, the parser.
OneJob(c) ==
    /\ (mem[c].ctx = "live") = (db[c] # "idle" \/ pw[c] # "idle" \/ Handling(c))
    /\ db[c] = "idle" \/ pw[c] = "idle"
    /\ Handling(c) => db[c] = "idle" /\ pw[c] = "idle"

ClientInv(c) ==
    /\ Owned(mem[c])
    /\ OneJob(c)
    /\ mem[c].buffer = TRUE => mem[c].ctx # "live"
    /\ BeingRead(c) =>
           /\ mem[c].conn = "live" /\ mem[c].req = "live" /\ mem[c].ctx = "none"
           /\ mem[c].buffer = FALSE

\* Events of a batch are for connections that were not freed yet.
BatchInv ==
    \A c \in Clients, m \in {"in", "out", "hup"} :
        [from |-> "client", client |-> c, mask |-> m] \in batch =>
            /\ mem[c].conn \in {"live", "retired"}
            /\ m = "out" /\ mem[c].conn = "live" => mem[c].buffer = TRUE

\* Where the loop thread is while the services are open, stopped and freed.
\* Once they are stopped there are neither events nor connections.
PhaseInv ==
    /\ \/ dbPhase = "open" /\ pwPhase = "open"
          /\ main.at \in {"wait", "batch", "parse", "db", "pw", "db_handle", "pw_handle", "destroy",
                          "pw_stop"}
       \/ dbPhase = "open" /\ pwPhase = "stopping"
          /\ main.at \in {"pw_join", "pw", "pw_handle", "pw_free"}
       \/ dbPhase = "open" /\ pwPhase = "released" /\ main.at = "db_stop"
       \/ dbPhase = "stopping" /\ pwPhase = "released"
          /\ main.at \in {"db_join", "db", "db_handle", "db_free"}
       \/ dbPhase = "released" /\ pwPhase = "released" /\ main.at \in {"reap", "end"}
    /\ main.at \in {"wait", "destroy", "pw_stop"} \/ pwPhase # "open" => batch = {}
    /\ main.at = "pw_stop" \/ pwPhase # "open" => \A c \in Clients : mem[c].conn # "live"
    /\ pwPhase = "stopping" /\ main.at # "pw_join" => \A c \in Clients : pw[c] # "accepted"
    /\ pwPhase = "released" => \A c \in Clients : pw[c] = "idle"
    /\ dbPhase = "stopping" /\ main.at # "db_join" => \A c \in Clients : db[c] # "accepted"
    /\ dbPhase = "released" => \A c \in Clients : db[c] = "idle"
    /\ main.at = "end" => \A c \in Clients : mem[c].conn # "retired"

IInv == TypeOK /\ BatchInv /\ PhaseInv /\ \A c \in Clients : ClientInv(c)

-----------------------------------------------------------------------------
(* The life cycle functions of one client's objects. *)

\* What the life cycle functions write is in range.
LEMMA Updated ==
    ASSUME NEW r \in Rec
    PROVE  /\ [r EXCEPT !.req = "freed", !.disposals = 1] \in Rec
           /\ [r EXCEPT !.buffer = TRUE, !.responses = 1] \in Rec
           /\ \A n \in 0..MaxStalls : [r EXCEPT !.interest = "out", !.stalls = n] \in Rec
           /\ \A n \in 0..MaxHops : [r EXCEPT !.ctx = "live", !.reqCtx = TRUE, !.hops = n] \in Rec
           /\ \A n \in 0..MaxHops : [r EXCEPT !.hops = n] \in Rec
<1> DEFINE small == 0..2  hops == 0..MaxHops  stalls == 0..MaxStalls
<1>1. 1 \in small
  OBVIOUS
<1>2. r \in [conn : Object \cup {"backlog", "retired"}, req : Object, ctx : Object,
             connReq : BOOLEAN, reqConn : BOOLEAN, reqCtx : BOOLEAN,
             buffer : BOOLEAN, interest : {"in", "out"}, responses : small,
             disposals : small, hops : hops, stalls : stalls, fault : BOOLEAN]
  BY DEF Rec
<1>3. "freed" \in Object /\ "live" \in Object
  BY DEF Object
<1> HIDE DEF small, hops, stalls
<1>4. [r EXCEPT !.req = "freed", !.disposals = 1] \in Rec
  BY <1>1, <1>2, <1>3 DEF Rec, small, hops, stalls
<1>5. [r EXCEPT !.buffer = TRUE, !.responses = 1] \in Rec
  BY <1>1, <1>2 DEF Rec, small, hops, stalls
<1>6. ASSUME NEW n \in 0..MaxStalls PROVE [r EXCEPT !.interest = "out", !.stalls = n] \in Rec
  BY <1>2 DEF Rec, small, hops, stalls
<1>7. ASSUME NEW n \in 0..MaxHops
      PROVE  /\ [r EXCEPT !.ctx = "live", !.reqCtx = TRUE, !.hops = n] \in Rec
             /\ [r EXCEPT !.hops = n] \in Rec
  BY <1>2, <1>3 DEF Rec, small, hops, stalls
<1>8. QED BY <1>4, <1>5, <1>6, <1>7

\* A use of an allocated object changes nothing.
LEMMA Used ==
    ASSUME NEW r \in Rec, NEW allocated, allocated = TRUE
    PROVE  Use(r, allocated) = r
BY DEF Use, Rec

\* http_request_dispose frees a request that has no owner left.
LEMMA RequestDisposed ==
    ASSUME NEW r \in Rec, r.req = "live", r.disposals = 0
    PROVE  /\ RequestDispose(r) = [r EXCEPT !.req = "freed", !.disposals = 1]
           /\ RequestDispose(r) \in Rec
<1>1. Use(r, r.req = "live") = r
  BY Used
<1>2. RequestDispose(r) =
          [r EXCEPT !.req = "freed", !.disposals = IF r.disposals = 2 THEN 2 ELSE r.disposals + 1]
  BY <1>1 DEF RequestDispose
<1>3. (IF r.disposals = 2 THEN 2 ELSE r.disposals + 1) = 1
  OBVIOUS
<1>4. RequestDispose(r) = [r EXCEPT !.req = "freed", !.disposals = 1]
  BY <1>2, <1>3
<1>5. QED BY <1>4, Updated

\* http_request_context_dispose frees the context, and the request with it
\* when its connection is gone.
LEMMA ContextDisposed ==
    ASSUME NEW r \in Rec, Owned(r), r.ctx = "live"
    PROVE  /\ ContextDispose(r) \in Rec /\ Owned(ContextDispose(r))
           /\ ContextDispose(r).ctx = "freed"
           /\ ContextDispose(r).conn = r.conn /\ ContextDispose(r).buffer = r.buffer
           /\ r.conn = "live" => ContextDispose(r).req = "live"
<1> DEFINE cut == [r EXCEPT !.reqCtx = FALSE, !.ctx = "freed"]
<1>1. r.req = "live" /\ r.fault = FALSE /\ r.disposals = 0
  BY DEF Owned, Rec
<1>2. [Use(r, r.ctx = "live" /\ r.req = "live") EXCEPT !.reqCtx = FALSE, !.ctx = "freed"] = cut
  BY <1>1 DEF Use, Rec
<1>3. cut \in Rec /\ cut.req = "live" /\ cut.disposals = 0 /\ cut.reqConn = r.reqConn
  BY <1>1 DEF Rec, Object
<1>4. ContextDispose(r) = IF r.reqConn THEN cut ELSE [cut EXCEPT !.req = "freed", !.disposals = 1]
  BY <1>2, <1>3, RequestDisposed DEF ContextDispose
<1>5. CASE r.reqConn = TRUE
  <2>1. r.conn = "live"
    BY <1>5 DEF Owned
  <2>2. Owned(cut)
    BY <1>1, <1>5, <2>1 DEF Owned, Rec
  <2>3. QED BY <1>3, <1>4, <1>5, <2>1, <2>2 DEF Rec
<1>6. CASE r.reqConn = FALSE
  <2> DEFINE gone == [cut EXCEPT !.req = "freed", !.disposals = 1]
  <2>1. r.conn # "live"
    BY <1>1, <1>6 DEF Owned
  <2>2. gone \in Rec
    BY <1>3, Updated
  <2>3. Owned(gone)
    BY <1>1, <1>6, <2>1 DEF Owned, Rec
  <2>4. QED BY <1>3, <1>4, <1>6, <2>1, <2>2, <2>3 DEF Rec
<1>7. QED BY <1>5, <1>6 DEF Rec

\* remove_connection retires the connection; the request goes with it unless
\* its context is still with a service.
LEMMA ConnectionRemoved ==
    ASSUME NEW r \in Rec, Owned(r), r.conn = "live"
    PROVE  /\ RemoveConnection(r) \in Rec /\ Owned(RemoveConnection(r))
           /\ RemoveConnection(r).conn = "retired" /\ RemoveConnection(r).buffer = FALSE
           /\ RemoveConnection(r).ctx = r.ctx
<1> DEFINE closed == [r EXCEPT !.conn = "retired", !.connReq = FALSE, !.buffer = FALSE]
           cut == [closed EXCEPT !.reqConn = FALSE]
           gone == [cut EXCEPT !.req = "freed", !.disposals = 1]
<1>1. closed \in Rec /\ cut \in Rec
  BY DEF Rec, Object
<1>2. CASE r.connReq = FALSE
  <2>1. r.reqConn = FALSE /\ r.req = "none"
    BY <1>2 DEF Owned, Rec, Object
  <2>2. RemoveConnection(r) = closed
    BY <1>2 DEF RemoveConnection
  <2>3. Owned(closed)
    BY <2>1 DEF Owned, Rec
  <2>4. QED BY <1>1, <2>2, <2>3 DEF Rec
<1>3. CASE r.connReq = TRUE
  <2>1. r.req = "live" /\ r.fault = FALSE /\ r.disposals = 0
    BY <1>3 DEF Owned, Rec
  <2>2. [Use(closed, r.req = "live") EXCEPT !.reqConn = FALSE] = cut
    BY <2>1 DEF Use, Rec
  <2>3. cut.req = "live" /\ cut.disposals = 0 /\ cut.reqCtx = r.reqCtx
    BY <2>1 DEF Rec
  <2>4. RemoveConnection(r) = IF r.reqCtx THEN cut ELSE gone
    BY <1>1, <1>3, <2>2, <2>3, RequestDisposed DEF RemoveConnection
  <2>5. CASE r.reqCtx = TRUE
    <3>1. r.ctx = "live"
      BY <2>5 DEF Owned
    <3>2. Owned(cut)
      BY <2>1, <2>5, <3>1 DEF Owned, Rec
    <3>3. QED BY <1>1, <2>4, <2>5, <3>2 DEF Rec
  <2>6. CASE r.reqCtx = FALSE
    <3>1. r.ctx # "live"
      BY <2>6 DEF Owned
    <3>2. gone \in Rec
      BY <1>1, Updated
    <3>3. Owned(gone)
      BY <2>1, <2>6, <3>1 DEF Owned, Rec
    <3>4. QED BY <2>4, <2>6, <3>2, <3>3 DEF Rec
  <2>7. QED BY <2>5, <2>6 DEF Rec
<1>4. QED BY <1>2, <1>3 DEF Rec

\* connection_send_buffer leaves a half-written response with its connection,
\* or no connection.
LEMMA BufferSent ==
    ASSUME NEW r \in Rec, Owned(r), r.conn = "live", r.buffer = TRUE, NEW how \in WriteResults(r)
    PROVE  /\ SendBuffer(r, how) \in Rec /\ Owned(SendBuffer(r, how))
           /\ SendBuffer(r, how).ctx = r.ctx
           /\ \/ SendBuffer(r, how).conn = "live" /\ SendBuffer(r, how).buffer = TRUE
              \/ SendBuffer(r, how).conn = "retired" /\ SendBuffer(r, how).buffer = FALSE
<1>1. r.req = "live" /\ r.fault = FALSE
  BY DEF Owned, Rec, Object
<1>2. Use(r, r.conn = "live" /\ r.buffer /\ r.req = "live") = r
  BY <1>1 DEF Use, Rec
<1>3. CASE how = "full"
  <2> DEFINE n == r.stalls + 1
             stalled == [r EXCEPT !.interest = "out", !.stalls = n]
  <2>1. n \in 0..MaxStalls
    BY <1>3, BoundsAreNatural DEF WriteResults, Rec
  <2>2. stalled \in Rec
    <3> HIDE DEF n
    <3>1. QED BY <2>1, Updated
  <2>3. Owned(stalled)
    BY <1>1 DEF Owned, Rec
  <2>4. SendBuffer(r, how) = stalled
    BY <1>2, <1>3 DEF SendBuffer
  <2>5. QED BY <2>2, <2>3, <2>4 DEF Rec
<1>4. CASE how # "full"
  <2>1. SendBuffer(r, how) = RemoveConnection(r)
    BY <1>2, <1>4 DEF SendBuffer
  <2>2. QED BY <2>1, ConnectionRemoved
<1>5. QED BY <1>3, <1>4

\* start_send_http_response: the one response of a request that has none.
LEMMA SendStarted ==
    ASSUME NEW r \in Rec, Owned(r), r.conn = "live", r.req = "live", r.buffer = FALSE,
           NEW how \in SendResults(r)
    PROVE  /\ StartSend(r, how) \in Rec /\ Owned(StartSend(r, how))
           /\ StartSend(r, how).ctx = r.ctx
           /\ \/ StartSend(r, how).conn = "live" /\ StartSend(r, how).buffer = TRUE
              \/ StartSend(r, how).conn = "retired" /\ StartSend(r, how).buffer = FALSE
<1>1. r.responses = 0 /\ r.fault = FALSE
  BY DEF Owned
<1>2. CASE how = "no_memory"
  BY <1>2, ConnectionRemoved DEF StartSend
<1>3. CASE how # "no_memory"
  <2> DEFINE s == [r EXCEPT !.buffer = TRUE, !.responses = 1]
  <2>1. s \in Rec /\ s.conn = "live" /\ s.buffer = TRUE /\ s.ctx = r.ctx /\ s.stalls = r.stalls
    BY ZenonT(40), Updated DEF Rec
  <2>2. Owned(s)
    BY <1>1 DEF Owned, Rec
  <2>3. how \in WriteResults(s)
    BY <1>3, <2>1 DEF SendResults, WriteResults
  <2>4. StartSend(r, how) = SendBuffer(s, how)
    BY <1>1, <1>3 DEF StartSend, Rec
  <2>5. QED BY ZenonT(40), <2>1, <2>2, <2>3, <2>4, BufferSent
<1>4. QED BY <1>2, <1>3

-----------------------------------------------------------------------------
(* What a step for one client does to the others. *)

\* Nobody's result or request is in hand elsewhere in the loop.
LEMMA Nowhere ==
    ASSUME NEW c
    PROVE  /\ main.at \notin {"db_handle", "pw_handle"} => ~Handling(c)
           /\ main.at # "parse" => ~BeingRead(c)
           /\ main'.at \notin {"db_handle", "pw_handle"} => ~Handling(c)'
           /\ main'.at # "parse" => ~BeingRead(c)'
BY DEF Handling, BeingRead

\* The others keep their objects and their jobs.
LEMMA Untouched ==
    ASSUME NEW d \in Clients, ClientInv(d), mem'[d] = mem[d], db'[d] = db[d], pw'[d] = pw[d],
           Handling(d)' = Handling(d), BeingRead(d)' => BeingRead(d)
    PROVE  ClientInv(d)'
BY DEF ClientInv, Owned, OneJob

\* A step that gives client c the objects r, frees no connection and opens
\* none, and moves no other client.
LEMMA Frame ==
    ASSUME IInv, NEW c \in Clients, NEW r \in Rec, Owned(r), mem' = [mem EXCEPT ![c] = r],
           batch' \subseteq batch,
           r.buffer = TRUE => r.ctx # "live",
           mem[c].conn \in {"live", "retired"} => r.conn \in {"live", "retired"},
           r.conn = "live" => mem[c].conn = "live" /\ (mem[c].buffer = TRUE => r.buffer = TRUE),
           OneJob(c)',
           BeingRead(c)' => r.conn = "live" /\ r.req = "live" /\ r.ctx = "none" /\ r.buffer = FALSE,
           \A d \in Clients \ {c} : /\ db'[d] = db[d] /\ pw'[d] = pw[d]
                                    /\ Handling(d)' = Handling(d) /\ (BeingRead(d)' => BeingRead(d))
    PROVE  /\ BatchInv' /\ \A d \in Clients : ClientInv(d)'
           /\ mem' \in [Clients -> Rec]
           /\ \A d \in Clients : mem'[d].conn = "live" => mem[d].conn = "live"
<1>0. mem \in [Clients -> Rec]
  BY DEF IInv, TypeOK, Rec
<1>1. mem'[c] = r /\ (\A d \in Clients \ {c} : mem'[d] = mem[d]) /\ mem' \in [Clients -> Rec]
  BY <1>0
<1>2. ClientInv(c)'
  BY <1>1 DEF ClientInv, Owned
<1>3. ASSUME NEW d \in Clients \ {c} PROVE ClientInv(d)'
  <2>1. ClientInv(d)
    BY DEF IInv
  <2>2. QED BY <1>1, <2>1, Untouched
<1>4. BatchInv'
  BY <1>1 DEF IInv, BatchInv
<1>5. QED BY <1>1, <1>2, <1>3, <1>4

\* What one invariant says of one client.
LEMMA ClientFacts ==
    ASSUME IInv, NEW c \in Clients
    PROVE  /\ mem[c] \in Rec /\ Owned(mem[c]) /\ ClientInv(c) /\ OneJob(c)
           /\ mem[c].buffer = TRUE => mem[c].ctx # "live"
           /\ Handling(c) => mem[c].ctx = "live" /\ mem[c].req = "live" /\ db[c] = "idle" /\ pw[c] = "idle"
BY DEF IInv, TypeOK, Rec, ClientInv, OneJob, Owned

-----------------------------------------------------------------------------
(* Events of a client. *)

\* A closed connection is still there to be looked at; a hang-up, a write and
\* a byte behind a request retire it at most.
LEMMA EventSteps ==
    ASSUME IInv, NEW c \in Clients,
           \/ \E m \in {"in", "out", "hup"} : SkipClosed(c, m)
           \/ HangUp(c) \/ ContinueSend(c) \/ PeekPending(c)
    PROVE  /\ BatchInv' /\ \A d \in Clients : ClientInv(d)'
           /\ mem' \in [Clients -> Rec]
           /\ \A d \in Clients : mem'[d].conn = "live" => mem[d].conn = "live"
<1>0. /\ main.at = "batch" /\ main' = main /\ batch' \subseteq batch
      /\ UNCHANGED <<db, dbPhase, pw, pwPhase>>
  BY DEF SkipClosed, HangUp, ContinueSend, PeekPending, Take, At, services
<1>1. \A d : Handling(d)' = Handling(d) /\ ~BeingRead(d)'
  BY <1>0, Nowhere DEF Handling
<1>2. /\ mem[c] \in Rec /\ Owned(mem[c]) /\ OneJob(c)
      /\ mem[c].buffer = TRUE => mem[c].ctx # "live"
  BY ClientFacts
<1>3. ASSUME NEW r \in Rec, Owned(r), mem' = [mem EXCEPT ![c] = r], r.ctx = mem[c].ctx,
             r.conn \in {"live", "retired"}, r.buffer = TRUE => r.ctx # "live",
             r.conn = "live" => mem[c].conn = "live" /\ (mem[c].buffer = TRUE => r.buffer = TRUE)
      PROVE  /\ BatchInv' /\ \A d \in Clients : ClientInv(d)'
             /\ mem' \in [Clients -> Rec]
             /\ \A d \in Clients : mem'[d].conn = "live" => mem[d].conn = "live"
  <2>1. OneJob(c)'
    <3>1. mem'[c].ctx = mem[c].ctx
      BY <1>3 DEF IInv, TypeOK
    <3>2. QED BY <1>0, <1>1, <1>2, <3>1 DEF OneJob
  <2>2. ~BeingRead(c)'
    BY <1>1
  <2>3. \A d \in Clients \ {c} : /\ db'[d] = db[d] /\ pw'[d] = pw[d]
                                 /\ Handling(d)' = Handling(d) /\ (BeingRead(d)' => BeingRead(d))
    BY <1>0, <1>1
  <2>4. QED BY <1>0, <1>3, <2>1, <2>2, <2>3, Frame
<1>4. CASE \E m \in {"in", "out", "hup"} : SkipClosed(c, m)
  <2>1. PICK m \in {"in", "out", "hup"} : SkipClosed(c, m)
    BY <1>4
  <2>2. mem[c].conn = "retired"
    BY <2>1 DEF SkipClosed, Take, IInv, BatchInv
  <2>3. mem' = [mem EXCEPT ![c] = mem[c]]
    BY <1>2, <2>1, <2>2, Used DEF SkipClosed, Set
  <2>4. QED BY <1>2, <1>3, <2>2, <2>3
<1>5. CASE HangUp(c)
  BY <1>2, <1>3, <1>5, ConnectionRemoved DEF HangUp, Set
<1>6. CASE ContinueSend(c)
  <2>1. mem[c].buffer = TRUE /\ mem[c].conn = "live"
    BY <1>6 DEF ContinueSend, Take, IInv, BatchInv
  <2>2. PICK how \in WriteResults(mem[c]) : mem' = [mem EXCEPT ![c] = SendBuffer(mem[c], how)]
    BY <1>6 DEF ContinueSend, Set
  <2> DEFINE s == SendBuffer(mem[c], how)
  <2>3. /\ s \in Rec /\ Owned(s) /\ s.ctx = mem[c].ctx
        /\ \/ s.conn = "live" /\ s.buffer = TRUE
           \/ s.conn = "retired" /\ s.buffer = FALSE
    BY <1>2, <2>1, BufferSent
  <2>4. mem' = [mem EXCEPT ![c] = s]
    BY <2>2
  <2> HIDE DEF s
  <2>5. QED BY <1>2, <1>3, <2>1, <2>3, <2>4
<1>7. CASE PeekPending(c)
  <2>1. CASE net[c] = "empty"
    BY <1>2, <1>3, <1>7, <2>1 DEF PeekPending, Set
  <2>2. CASE net[c] # "empty"
    BY <1>2, <1>3, <1>7, <2>2, ConnectionRemoved DEF PeekPending, Set
  <2>3. QED BY <2>1, <2>2
<1>8. QED BY <1>4, <1>5, <1>6, <1>7

-----------------------------------------------------------------------------
(* Requests. *)

\* A request begins on an open connection that has none.
LEMMA RequestBegun ==
    ASSUME NEW r \in Rec, Owned(r), r.conn = "live", r.connReq = FALSE
    PROVE  LET begun == [r EXCEPT !.req = "live", !.connReq = TRUE, !.reqConn = TRUE]
           IN  /\ begun \in Rec /\ Owned(begun) /\ begun.conn = "live" /\ begun.req = "live"
               /\ begun.ctx = "none" /\ r.ctx = "none" /\ begun.buffer = FALSE /\ r.buffer = FALSE
<1>1. r.req = "none"
  BY DEF Owned, Rec, Object
<1>2. r.ctx = "none" /\ r.buffer = FALSE
  BY <1>1 DEF Owned
<1>3. [r EXCEPT !.req = "live", !.connReq = TRUE, !.reqConn = TRUE] \in Rec
  BY DEF Rec, Object
<1>4. Owned([r EXCEPT !.req = "live", !.connReq = TRUE, !.reqConn = TRUE])
  BY <1>1, <1>2 DEF Owned, Rec
<1>5. QED BY <1>2, <1>3, <1>4 DEF Rec

\* A context is made for the request that was read.
LEMMA ContextMade ==
    ASSUME NEW r \in Rec, Owned(r), r.conn = "live", r.req = "live", r.ctx = "none"
    PROVE  /\ [r EXCEPT !.ctx = "live", !.reqCtx = TRUE] \in Rec
           /\ Owned([r EXCEPT !.ctx = "live", !.reqCtx = TRUE])
           /\ [r EXCEPT !.ctx = "live", !.reqCtx = TRUE, !.hops = 1] \in Rec
           /\ Owned([r EXCEPT !.ctx = "live", !.reqCtx = TRUE, !.hops = 1])
<1>1. 1 \in 0..MaxHops
  BY BoundsAreNatural
<1>2. [r EXCEPT !.ctx = "live", !.reqCtx = TRUE, !.hops = 1] \in Rec
  BY <1>1, Updated
<1>3. [r EXCEPT !.ctx = "live", !.reqCtx = TRUE] \in Rec
  BY DEF Rec, Object
<1>4. Owned([r EXCEPT !.ctx = "live", !.reqCtx = TRUE])
  BY DEF Owned, Rec
<1>5. Owned([r EXCEPT !.ctx = "live", !.reqCtx = TRUE, !.hops = 1])
  BY DEF Owned, Rec
<1>6. QED BY <1>2, <1>3, <1>4, <1>5

\* From the first byte to the answer or the first statement.
LEMMA RequestSteps ==
    ASSUME IInv, NEW c \in Clients,
           NewRequest(c) \/ ParseFails(c) \/ AnswerAtOnce(c) \/ StartChain(c)
    PROVE  /\ BatchInv' /\ \A d \in Clients : ClientInv(d)'
           /\ mem' \in [Clients -> Rec]
           /\ \A d \in Clients : mem'[d].conn = "live" => mem[d].conn = "live"
<1>0. /\ main.at \in {"batch", "parse"} /\ batch' \subseteq batch
      /\ pw' = pw /\ \A d \in Clients \ {c} : db'[d] = db[d]
  <2>1. TypeOK
    BY DEF IInv
  <2>2. QED BY <2>1 DEF NewRequest, ParseFails, AnswerAtOnce, StartChain, Take, At, BeingRead, services,
                        Db!Submit, TypeOK, Db!TypeOK
<1>1. /\ \A d \in Clients : ~Handling(d) /\ ~Handling(d)' /\ Handling(d)' = Handling(d)
      /\ \A d \in Clients \ {c} : BeingRead(d)' => BeingRead(d)
  <2>1. \/ main' = main \/ main' = [at |-> "batch"] \/ main' = [at |-> "parse", client |-> c]
    BY DEF NewRequest, ParseFails, AnswerAtOnce, StartChain, Goto
  <2>2. QED BY <1>0, <2>1 DEF Handling, BeingRead
<1>2. /\ mem[c] \in Rec /\ Owned(mem[c]) /\ OneJob(c)
      /\ mem[c].buffer = TRUE => mem[c].ctx # "live"
  BY ClientFacts
<1>3. BeingRead(c) => /\ mem[c].conn = "live" /\ mem[c].req = "live" /\ mem[c].ctx = "none"
                      /\ mem[c].buffer = FALSE
  BY DEF IInv, ClientInv
<1>4. ASSUME mem[c].conn = "live", NEW r \in Rec, Owned(r), mem' = [mem EXCEPT ![c] = r],
             r.conn \in {"live", "retired"}, mem[c].buffer = FALSE,
             r.buffer = TRUE => r.ctx # "live",
             BeingRead(c)' => r.conn = "live" /\ r.req = "live" /\ r.ctx = "none" /\ r.buffer = FALSE,
             mem[c].ctx # "live",
             IF r.ctx = "live" THEN db'[c] = "accepted" ELSE db' = db
      PROVE  /\ BatchInv' /\ \A d \in Clients : ClientInv(d)'
             /\ mem' \in [Clients -> Rec]
             /\ \A d \in Clients : mem'[d].conn = "live" => mem[d].conn = "live"
  <2>1. OneJob(c)'
    <3>1. mem'[c].ctx = r.ctx
      BY <1>4 DEF IInv, TypeOK
    <3>2. db[c] = "idle" /\ pw[c] = "idle" /\ ~Handling(c)'
      BY <1>1, <1>2, <1>4 DEF OneJob
    <3>3. QED BY <1>0, <1>4, <3>1, <3>2 DEF OneJob
  <2>2. \A d \in Clients \ {c} : /\ db'[d] = db[d] /\ pw'[d] = pw[d]
                                 /\ Handling(d)' = Handling(d) /\ (BeingRead(d)' => BeingRead(d))
    BY <1>0, <1>1
  <2>3. QED BY <1>0, <1>4, <2>1, <2>2, Frame
<1>5. ASSUME NEW r \in Rec, Owned(r), r.conn = "live", r.req = "live", r.buffer = FALSE,
             r.ctx # "live", mem[c].conn = "live", mem[c].buffer = FALSE, mem[c].ctx # "live",
             ~BeingRead(c)', db' = db,
             NEW how \in SendResults(r), mem' = [mem EXCEPT ![c] = StartSend(r, how)]
      PROVE  /\ BatchInv' /\ \A d \in Clients : ClientInv(d)'
             /\ mem' \in [Clients -> Rec]
             /\ \A d \in Clients : mem'[d].conn = "live" => mem[d].conn = "live"
  <2> DEFINE s == StartSend(r, how)
  <2>1. /\ s \in Rec /\ Owned(s) /\ s.ctx = r.ctx
        /\ \/ s.conn = "live" /\ s.buffer = TRUE
           \/ s.conn = "retired" /\ s.buffer = FALSE
    BY <1>5, SendStarted
  <2>2. mem' = [mem EXCEPT ![c] = s]
    BY <1>5
  <2> HIDE DEF s
  <2>3. QED BY <1>4, <1>5, <2>1, <2>2
<1>6. CASE NewRequest(c)
  <2> DEFINE begun == [mem[c] EXCEPT !.req = "live", !.connReq = TRUE, !.reqConn = TRUE]
  <2>1. mem[c].conn = "live" /\ mem[c].connReq = FALSE /\ db' = db /\ main.at = "batch"
    BY <1>2, <1>6 DEF NewRequest, InProgress, services, Take, At, Rec
  <2>2. /\ begun \in Rec /\ Owned(begun) /\ begun.conn = "live" /\ begun.req = "live"
        /\ begun.ctx = "none" /\ mem[c].ctx = "none" /\ begun.buffer = FALSE /\ mem[c].buffer = FALSE
    BY <1>2, <2>1, RequestBegun
  <2>3. \/ mem' = [mem EXCEPT ![c] = begun] /\ main' = [at |-> "parse", client |-> c]
        \/ mem' = [mem EXCEPT ![c] = RemoveConnection(mem[c])] /\ main' = main
        \/ (\E how \in SendResults(begun) : mem' = [mem EXCEPT ![c] = StartSend(begun, how)]) /\ main' = main
    BY <1>6 DEF NewRequest, Set
  <2> HIDE DEF begun
  <2>4. CASE mem' = [mem EXCEPT ![c] = begun] /\ main' = [at |-> "parse", client |-> c]
    BY <1>4, <2>1, <2>2, <2>4
  <2>5. main' = main => ~BeingRead(c)'
    BY <2>1 DEF BeingRead
  <2>6. CASE mem' = [mem EXCEPT ![c] = RemoveConnection(mem[c])] /\ main' = main
    <3> DEFINE gone == RemoveConnection(mem[c])
    <3>1. gone \in Rec /\ Owned(gone) /\ gone.conn = "retired" /\ gone.buffer = FALSE /\ gone.ctx = "none"
      BY <1>2, <2>1, <2>2, ConnectionRemoved
    <3> HIDE DEF gone
    <3>2. mem' = [mem EXCEPT ![c] = gone]
      BY <2>6 DEF gone
    <3>3. QED BY <1>4, <2>1, <2>2, <2>5, <2>6, <3>1, <3>2
  <2>7. CASE (\E how \in SendResults(begun) : mem' = [mem EXCEPT ![c] = StartSend(begun, how)]) /\ main' = main
    BY <1>5, <2>1, <2>2, <2>5, <2>7
  <2>8. QED BY <2>3, <2>4, <2>6, <2>7
<1>7. CASE ParseFails(c)
  <2>1. /\ BeingRead(c) /\ db' = db /\ main' = [at |-> "batch"]
        /\ \E how \in SendResults(mem[c]) : mem' = [mem EXCEPT ![c] = StartSend(mem[c], how)]
    BY <1>7 DEF ParseFails, services, Set, Goto
  <2>2. ~BeingRead(c)'
    BY <2>1 DEF BeingRead
  <2>3. QED BY <1>2, <1>3, <1>5, <2>1, <2>2
<1>8. CASE AnswerAtOnce(c)
  <2> DEFINE r2 == ContextDispose([mem[c] EXCEPT !.ctx = "live", !.reqCtx = TRUE])
  <2>1. BeingRead(c) /\ db' = db /\ main' = [at |-> "batch"]
    BY <1>8 DEF AnswerAtOnce, services, Goto
  <2>2. ~BeingRead(c)'
    BY <2>1 DEF BeingRead
  <2>3. PICK r \in {mem[c], r2} :
            \E how \in SendResults(r) : mem' = [mem EXCEPT ![c] = StartSend(r, how)]
    BY <1>8 DEF AnswerAtOnce, Set
  <2>4. r2 \in Rec /\ Owned(r2) /\ r2.conn = "live" /\ r2.req = "live" /\ r2.buffer = FALSE
        /\ r2.ctx = "freed"
    <3> DEFINE made == [mem[c] EXCEPT !.ctx = "live", !.reqCtx = TRUE]
    <3>1. made \in Rec /\ Owned(made)
      BY <1>2, <1>3, <2>1, ContextMade
    <3>2. made.ctx = "live" /\ made.conn = "live" /\ made.buffer = FALSE
      BY <1>2, <1>3, <2>1 DEF Rec
    <3> HIDE DEF made
    <3>3. QED BY <3>1, <3>2, ContextDisposed DEF made
  <2> HIDE DEF r2
  <2>5. r \in Rec /\ Owned(r) /\ r.conn = "live" /\ r.req = "live" /\ r.buffer = FALSE
        /\ r.ctx # "live"
    BY <1>2, <1>3, <2>1, <2>3, <2>4
  <2>6. QED BY <1>3, <1>5, <2>1, <2>2, <2>3, <2>5
<1>9. CASE StartChain(c)
  <2> DEFINE made == [mem[c] EXCEPT !.ctx = "live", !.reqCtx = TRUE, !.hops = 1]
  <2>1. BeingRead(c) /\ Db!Submit(c) /\ main' = [at |-> "batch"] /\ mem' = [mem EXCEPT ![c] = made]
    BY <1>9 DEF StartChain, Set, Goto
  <2>2. ~BeingRead(c)'
    BY <2>1 DEF BeingRead
  <2>3. made \in Rec /\ Owned(made)
    BY <1>2, <1>3, <2>1, ContextMade
  <2>4. made.ctx = "live" /\ made.conn = "live" /\ made.buffer = FALSE
    BY <1>2, <1>3, <2>1 DEF Rec
  <2>5. db'[c] = "accepted"
    BY <2>1 DEF Db!Submit, IInv, TypeOK, Db!TypeOK
  <2> HIDE DEF made
  <2>6. mem[c].conn = "live" /\ mem[c].buffer = FALSE /\ mem[c].ctx = "none"
    BY <1>3, <2>1
  <2>7. QED BY <1>4, <2>1, <2>2, <2>3, <2>4, <2>5, <2>6
<1>10. QED BY <1>6, <1>7, <1>8, <1>9

-----------------------------------------------------------------------------
(* Results. *)

\* A result changes hands: the service owes it, then the loop holds it.
LEMMA ResultSteps ==
    ASSUME IInv, NEW c \in Clients, PopDb(c) \/ PopPw(c)
    PROVE  BatchInv' /\ (\A d \in Clients : ClientInv(d)') /\ mem' = mem
<1>0. /\ main.at \in {"db", "pw"} /\ batch' = batch /\ mem' = mem
      /\ main' \in {[at |-> "db_handle", client |-> c], [at |-> "pw_handle", client |-> c]}
  BY DEF PopDb, PopPw, At
<1>1. /\ \A d \in Clients : ~Handling(d) /\ ~BeingRead(d)'
      /\ \A d \in Clients \ {c} : Handling(d)' = Handling(d)
      /\ Handling(c)'
  BY <1>0 DEF Handling, BeingRead
<1>2. /\ \A d \in Clients \ {c} : db'[d] = db[d] /\ pw'[d] = pw[d]
      /\ db'[c] = "idle" /\ pw'[c] = "idle" /\ mem[c].ctx = "live"
  <2>1. TypeOK /\ OneJob(c)
    BY ClientFacts DEF IInv
  <2>2. QED BY <2>1 DEF PopDb, PopPw, Db!Deliver, Pw!Deliver, OneJob, TypeOK, Db!TypeOK, Pw!TypeOK
<1>3. ClientInv(c)'
  <2>1. ClientInv(c)
    BY DEF IInv
  <2>2. OneJob(c)'
    BY <1>0, <1>1, <1>2 DEF OneJob
  <2>3. QED BY <1>0, <1>1, <2>1, <2>2 DEF ClientInv, Owned
<1>4. ASSUME NEW d \in Clients \ {c} PROVE ClientInv(d)'
  <2>1. ClientInv(d)
    BY DEF IInv
  <2>2. QED BY <1>0, <1>1, <1>2, <2>1, Untouched
<1>5. BatchInv'
  BY <1>0 DEF IInv, BatchInv
<1>6. QED BY <1>0, <1>3, <1>4, <1>5

\* The handler of a result disposes of the context or finds it a next job.
LEMMA HandleSteps ==
    ASSUME IInv, NEW c \in Clients,
           DropResult(c) \/ CompleteChain(c) \/ ContinueWithDb(c) \/ ContinueWithPw(c)
    PROVE  /\ BatchInv' /\ \A d \in Clients : ClientInv(d)'
           /\ mem' \in [Clients -> Rec]
           /\ \A d \in Clients : mem'[d].conn = "live" => mem[d].conn = "live"
           /\ \/ UNCHANGED <<db, pw>>
              \/ mem[c].conn = "live"
<1>0. /\ Handling(c) /\ main' \in {[at |-> "db"], [at |-> "pw"]} /\ batch' = batch
      /\ main \in {[at |-> "db_handle", client |-> c], [at |-> "pw_handle", client |-> c]}
  BY DEF DropResult, CompleteChain, ContinueWithDb, ContinueWithPw, BackToDrain, Goto, Handling
<1>1. /\ \A d \in Clients \ {c} : Handling(d)' = Handling(d)
      /\ \A d \in Clients : ~BeingRead(d)' /\ ~Handling(d)'
  BY <1>0 DEF Handling, BeingRead
<1>2. /\ mem[c] \in Rec /\ Owned(mem[c]) /\ OneJob(c)
      /\ mem[c].ctx = "live" /\ mem[c].req = "live" /\ db[c] = "idle" /\ pw[c] = "idle"
      /\ mem[c].buffer = FALSE
  BY <1>0, ClientFacts DEF Rec
<1>3. Held(c) = mem[c]
  BY <1>2, Used DEF Held
<1>4. ASSUME NEW r \in Rec, Owned(r), mem' = [mem EXCEPT ![c] = r],
             mem[c].conn \in {"live", "retired"} => r.conn \in {"live", "retired"},
             r.conn = "live" => mem[c].conn = "live", r.buffer = TRUE => r.ctx # "live",
             \A d \in Clients \ {c} : db'[d] = db[d] /\ pw'[d] = pw[d],
             IF r.ctx = "live" THEN \/ db'[c] # "idle" /\ pw' = pw
                                    \/ pw'[c] # "idle" /\ db' = db
             ELSE db' = db /\ pw' = pw
      PROVE  /\ BatchInv' /\ \A d \in Clients : ClientInv(d)'
             /\ mem' \in [Clients -> Rec]
             /\ \A d \in Clients : mem'[d].conn = "live" => mem[d].conn = "live"
  <2>1. OneJob(c)'
    <3>1. mem'[c].ctx = r.ctx
      BY <1>4 DEF IInv, TypeOK
    <3>2. ~Handling(c)'
      BY <1>1
    <3>3. QED BY <1>2, <1>4, <3>1, <3>2 DEF OneJob
  <2>2. \A d \in Clients \ {c} : /\ db'[d] = db[d] /\ pw'[d] = pw[d]
                                 /\ Handling(d)' = Handling(d) /\ (BeingRead(d)' => BeingRead(d))
    BY <1>1, <1>4
  <2>3. ~BeingRead(c)'
    BY <1>1
  <2>4. QED BY <1>0, <1>2, <1>4, <2>1, <2>2, <2>3, Frame
<1>5. mem[c].reqConn = (mem[c].conn = "live")
  BY <1>2 DEF Owned, Rec
<1>6. CASE DropResult(c)
  <2> DEFINE r == ContextDispose(mem[c])
  <2>1. /\ r \in Rec /\ Owned(r) /\ r.ctx = "freed" /\ r.conn = mem[c].conn /\ r.buffer = mem[c].buffer
    BY <1>2, ContextDisposed
  <2>2. mem' = [mem EXCEPT ![c] = r] /\ UNCHANGED <<db, pw>>
    BY <1>3, <1>6 DEF DropResult, Set, services
  <2> HIDE DEF r
  <2>3. QED BY <1>4, <2>1, <2>2
<1>7. CASE CompleteChain(c)
  <2>1. mem[c].conn = "live" /\ UNCHANGED <<db, pw>>
    BY <1>5, <1>7 DEF CompleteChain, PeerGone, services
  <2>2. PICK how \in SendResults(mem[c]) :
            mem' = [mem EXCEPT ![c] = ContextDispose(StartSend(mem[c], how))]
    BY <1>3, <1>7 DEF CompleteChain, Set
  <2> DEFINE s == StartSend(mem[c], how)  r == ContextDispose(s)
  <2>3. s \in Rec /\ Owned(s) /\ s.ctx = "live" /\ s.conn \in {"live", "retired"}
    BY <1>2, <2>1, SendStarted
  <2>4. r \in Rec /\ Owned(r) /\ r.ctx = "freed" /\ r.conn = s.conn
    <3> HIDE DEF s
    <3>1. QED BY <2>3, ContextDisposed
  <2>5. mem' = [mem EXCEPT ![c] = r]
    BY <2>2
  <2> HIDE DEF s, r
  <2>6. QED BY <1>2, <1>4, <2>1, <2>3, <2>4, <2>5
<1>8. ASSUME mem[c].hops < MaxHops
      PROVE  LET r == [mem[c] EXCEPT !.hops = @ + 1]
             IN  r \in Rec /\ Owned(r) /\ r.ctx = "live" /\ r.conn = mem[c].conn /\ r.buffer = FALSE
  <2> DEFINE n == mem[c].hops + 1
  <2>1. n \in 0..MaxHops
    BY <1>2, <1>8, BoundsAreNatural DEF Rec
  <2> HIDE DEF n
  <2>2. [mem[c] EXCEPT !.hops = n] \in Rec
    BY <1>2, <2>1, Updated
  <2>3. Owned([mem[c] EXCEPT !.hops = n])
    BY <1>2 DEF Owned, Rec
  <2>4. QED BY <1>2, <2>2, <2>3 DEF Rec, n
<1>9. CASE ContinueWithDb(c)
  <2> DEFINE r == [mem[c] EXCEPT !.hops = @ + 1]
  <2>1. mem[c].conn = "live" /\ mem[c].hops < MaxHops /\ mem' = [mem EXCEPT ![c] = r]
        /\ Db!Submit(c) /\ pw' = pw
    BY <1>3, <1>5, <1>9 DEF ContinueWithDb, PeerGone, Set
  <2>2. r \in Rec /\ Owned(r) /\ r.ctx = "live" /\ r.conn = mem[c].conn /\ r.buffer = FALSE
    BY <1>8, <2>1
  <2>3. db'[c] = "accepted" /\ \A d \in Clients \ {c} : db'[d] = db[d]
    BY <2>1 DEF Db!Submit, IInv, TypeOK, Db!TypeOK
  <2> HIDE DEF r
  <2>4. QED BY <1>4, <2>1, <2>2, <2>3
<1>10. CASE ContinueWithPw(c)
  <2> DEFINE r == [mem[c] EXCEPT !.hops = @ + 1]
  <2>1. mem[c].conn = "live" /\ mem[c].hops < MaxHops
    BY <1>5, <1>10 DEF ContinueWithPw, PeerGone
  <2>2. pwPhase = "open"
    BY <2>1 DEF IInv, PhaseInv
  <2>3. mem' = [mem EXCEPT ![c] = r] /\ Pw!Submit(c) /\ db' = db
    BY <1>3, <1>10, <2>2 DEF ContinueWithPw, Set
  <2>4. r \in Rec /\ Owned(r) /\ r.ctx = "live" /\ r.conn = mem[c].conn /\ r.buffer = FALSE
    BY <1>8, <2>1
  <2>5. pw'[c] = "accepted" /\ \A d \in Clients \ {c} : pw'[d] = pw[d]
    BY <2>3 DEF Pw!Submit, IInv, TypeOK, Pw!TypeOK
  <2> HIDE DEF r
  <2>6. QED BY <1>4, <2>1, <2>3, <2>4, <2>5
<1>11. QED BY <1>6, <1>7, <1>9, <1>10

-----------------------------------------------------------------------------
(* The loop, the shutdown and the world around. *)

\* Steps that touch no object and leave every job with who has it.
LEMMA QuietSteps ==
    ASSUME IInv, mem' = mem, batch' \subseteq batch,
           \A d \in Clients : /\ (db'[d] = "idle") = (db[d] = "idle")
                              /\ (pw'[d] = "idle") = (pw[d] = "idle")
                              /\ Handling(d)' = Handling(d) /\ (BeingRead(d)' => BeingRead(d))
    PROVE  BatchInv' /\ (\A d \in Clients : ClientInv(d)') /\ mem' \in [Clients -> Rec]
<1>1. BatchInv'
  BY DEF IInv, BatchInv
<1>2. ASSUME NEW d \in Clients PROVE ClientInv(d)'
  <2>1. ClientInv(d)
    BY DEF IInv
  <2>2. QED BY <2>1 DEF ClientInv, OneJob, Owned
<1>3. QED BY <1>1, <1>2 DEF IInv, TypeOK, Rec

\* The loop between its events, the services as they stop, and their threads.
LEMMA MainSteps ==
    ASSUME IInv,
           \/ ServiceEvent \/ EpollFails \/ DbDrained \/ PwDrained
           \/ StopPw \/ JoinPw \/ FreePw \/ StopDb \/ JoinDb \/ FreeDb
           \/ \E c \in Clients : ServiceFinishes(c)
    PROVE  BatchInv' /\ (\A d \in Clients : ClientInv(d)') /\ mem' = mem /\ mem' \in [Clients -> Rec]
<1>0. TypeOK
  BY DEF IInv
<1>1. mem' = mem /\ batch' \subseteq batch
  BY DEF ServiceEvent, EpollFails, DbDrained, PwDrained, StopPw, JoinPw, FreePw, StopDb, JoinDb, FreeDb,
         ServiceFinishes, Take
<1>2. ASSUME NEW d \in Clients
      PROVE  (db'[d] = "idle") = (db[d] = "idle") /\ (pw'[d] = "idle") = (pw[d] = "idle")
  <2>1. CASE ServiceEvent \/ EpollFails \/ DbDrained \/ PwDrained \/ JoinPw \/ FreePw \/ JoinDb \/ FreeDb
    BY <2>1 DEF ServiceEvent, EpollFails, DbDrained, PwDrained, JoinPw, FreePw, JoinDb, FreeDb, services,
                Db!Release, Pw!Release
  <2>2. CASE StopPw \/ StopDb
    BY <2>2 DEF StopPw, StopDb, Db!Stop, Pw!Stop
  <2>3. CASE \E c \in Clients : ServiceFinishes(c)
    BY <1>0, <2>3 DEF ServiceFinishes, Db!Finish, Pw!Finish, TypeOK, Db!TypeOK, Pw!TypeOK
  <2>4. QED BY <2>1, <2>2, <2>3
<1>3. ASSUME NEW d \in Clients
      PROVE  Handling(d)' = Handling(d) /\ (BeingRead(d)' => BeingRead(d))
  <2>1. CASE ServiceEvent \/ EpollFails \/ DbDrained \/ PwDrained
    <3>1. /\ main.at \in {"batch", "wait", "db", "pw"}
          /\ main' \in {[at |-> "db"], [at |-> "pw"], [at |-> "destroy"], [at |-> "batch"],
                        [at |-> "db_free"], [at |-> "pw_free"]}
      BY <2>1 DEF ServiceEvent, EpollFails, DbDrained, PwDrained, Take, At, Goto
    <3>2. QED BY <3>1 DEF Handling, BeingRead
  <2>2. CASE StopPw \/ JoinPw \/ FreePw \/ StopDb \/ JoinDb \/ FreeDb
    <3>1. /\ main.at \in {"pw_stop", "pw_join", "pw_free", "db_stop", "db_join", "db_free"}
          /\ main' \in {[at |-> "pw_join"], [at |-> "pw"], [at |-> "db_stop"], [at |-> "db_join"],
                        [at |-> "db"], [at |-> "reap"]}
      BY <2>2 DEF StopPw, JoinPw, FreePw, StopDb, JoinDb, FreeDb, At, Goto
    <3>2. QED BY <3>1 DEF Handling, BeingRead
  <2>3. CASE \E c \in Clients : ServiceFinishes(c)
    BY <2>3 DEF ServiceFinishes, Handling, BeingRead
  <2>4. QED BY <2>1, <2>2, <2>3
<1>4. QED BY <1>1, <1>2, <1>3, QuietSteps

\* epoll_wait reports connections that are open, and room for output only to
\* those with a response to write.
LEMMA WaitStep ==
    ASSUME IInv, EpollWait
    PROVE  BatchInv' /\ (\A d \in Clients : ClientInv(d)') /\ mem' = mem /\ mem' \in [Clients -> Rec]
<1>1. mem' = mem /\ main.at = "wait" /\ main' = [at |-> "batch"] /\ UNCHANGED <<db, pw>>
  BY DEF EpollWait, At, Goto, services
<1>2. ASSUME NEW c \in Clients, NEW m \in {"in", "out", "hup"},
             [from |-> "client", client |-> c, mask |-> m] \in batch'
      PROVE  mem[c].conn = "live" /\ m \in MaskOf(c)
  <2> DEFINE e == [from |-> "client", client |-> c, mask |-> m]
  <2>1. \/ e.from = "client" /\ mem[e.client].conn = "live" /\ e.mask \in MaskOf(e.client)
        \/ e.from \in {"listen", "signal", "db", "pw"}
    BY <1>2 DEF EpollWait
  <2>2. QED BY <2>1
<1>3. ASSUME NEW c \in Clients, mem[c].conn = "live", "out" \in MaskOf(c) PROVE mem[c].buffer = TRUE
  <2>1. mem[c].interest = "out"
    BY <1>3 DEF MaskOf
  <2>2. mem[c] \in Rec /\ Owned(mem[c])
    BY ClientFacts
  <2>3. QED BY <1>3, <2>1, <2>2 DEF Owned, Rec
<1>4. BatchInv'
  BY <1>1, <1>2, <1>3 DEF BatchInv
<1>5. \A d \in Clients : Handling(d)' = Handling(d) /\ ~BeingRead(d)'
  BY <1>1 DEF Handling, BeingRead
<1>6. ASSUME NEW d \in Clients PROVE ClientInv(d)'
  <2>1. ClientInv(d)
    BY DEF IInv
  <2>2. QED BY <1>1, <1>5, <2>1, Untouched
<1>7. QED BY <1>1, <1>4, <1>6 DEF IInv, TypeOK, Rec

\* A connection that is not open, and has or had no request in progress, may
\* change its state; so may an open one of the backlog.
LEMMA ConnChanged ==
    ASSUME NEW r \in Rec, Owned(r)
    PROVE  /\ r.conn = "retired" =>
                  [r EXCEPT !.conn = "freed"] \in Rec /\ Owned([r EXCEPT !.conn = "freed"])
           /\ r.conn = "backlog" =>
                  /\ [r EXCEPT !.conn = "freed"] \in Rec /\ Owned([r EXCEPT !.conn = "freed"])
                  /\ [r EXCEPT !.conn = "live"] \in Rec /\ Owned([r EXCEPT !.conn = "live"])
           /\ r.conn = "none" =>
                  [r EXCEPT !.conn = "backlog"] \in Rec /\ Owned([r EXCEPT !.conn = "backlog"])
<1>1. \A s \in {"freed", "live", "backlog"} : [r EXCEPT !.conn = s] \in Rec
  BY DEF Rec, Object
<1>2. CASE r.conn = "retired"
  <2>1. Owned([r EXCEPT !.conn = "freed"])
    BY <1>2 DEF Owned, Rec
  <2>2. QED BY <1>1, <1>2, <2>1
<1>3. CASE r.conn \in {"backlog", "none"}
  <2>1. r.req = "none"
    BY <1>3 DEF Owned
  <2>2. \A s \in {"freed", "live", "backlog"} : Owned([r EXCEPT !.conn = s])
    BY <1>3, <2>1 DEF Owned, Rec
  <2>3. QED BY <1>1, <1>3, <2>2
<1>4. QED BY <1>1, <1>2, <1>3

\* Connections come up, are dropped, or are freed when no event of the batch
\* can name them any more.
LEMMA ConnSteps ==
    ASSUME IInv,
           \A d \in Clients :
               \/ mem'[d] = mem[d]
               \/ mem[d].conn = "none" /\ mem'[d] = [mem[d] EXCEPT !.conn = "backlog"]
               \/ mem[d].conn = "backlog" /\ mem'[d] = [mem[d] EXCEPT !.conn = "live"]
               \/ mem[d].conn = "backlog" /\ mem'[d] = [mem[d] EXCEPT !.conn = "freed"]
               \/ mem[d].conn = "retired" /\ mem'[d] = [mem[d] EXCEPT !.conn = "freed"] /\ batch' = {},
           mem' = [d \in Clients |-> mem'[d]],
           batch' \subseteq batch, UNCHANGED <<db, pw>>,
           \A d \in Clients : Handling(d)' = Handling(d) /\ (BeingRead(d)' => BeingRead(d))
    PROVE  BatchInv' /\ (\A d \in Clients : ClientInv(d)') /\ mem' \in [Clients -> Rec]
<1>1. ASSUME NEW d \in Clients
      PROVE  /\ mem'[d] \in Rec /\ Owned(mem[d])'
             /\ mem'[d].ctx = mem[d].ctx /\ mem'[d].buffer = mem[d].buffer
             /\ mem[d].conn = "live" => mem'[d] = mem[d]
             /\ mem[d].conn \in {"live", "retired"} => mem'[d].conn = mem[d].conn \/ batch' = {}
  <2>1. mem[d] \in Rec /\ Owned(mem[d])
    BY ClientFacts
  <2>2. mem'[d] \in Rec
    BY <2>1, ConnChanged
  <2>3. mem'[d].ctx = mem[d].ctx /\ mem'[d].buffer = mem[d].buffer
    BY <2>1 DEF Rec
  <2>4. Owned(mem'[d])
    BY <2>1, ConnChanged
  <2>5. Owned(mem[d])'
    BY <2>4 DEF Owned
  <2>6. QED BY <2>2, <2>3, <2>5
<1>2. mem' \in [Clients -> Rec]
  BY <1>1
<1>3. BatchInv'
  BY <1>1 DEF IInv, BatchInv
<1>4. ASSUME NEW d \in Clients PROVE ClientInv(d)'
  <2>1. ClientInv(d)
    BY DEF IInv
  <2>2. OneJob(d)'
    BY <1>1, <2>1 DEF ClientInv, OneJob
  <2>3. BeingRead(d)' => /\ mem'[d].conn = "live" /\ mem'[d].req = "live" /\ mem'[d].ctx = "none"
                         /\ mem'[d].buffer = FALSE
    BY <1>1, <2>1 DEF ClientInv
  <2>4. QED BY <1>1, <2>1, <2>2, <2>3 DEF ClientInv
<1>5. QED BY <1>2, <1>3, <1>4

\* Peers that connect, the listener, and reap_connections.
LEMMA ConnActions ==
    ASSUME IInv, (\E c \in Clients : Connect(c)) \/ Listen \/ Signal \/ EndBatch \/ LastReap
    PROVE  BatchInv' /\ (\A d \in Clients : ClientInv(d)') /\ mem' \in [Clients -> Rec]
<1>0. mem \in [Clients -> Rec]
  BY DEF IInv, TypeOK, Rec
<1>1. UNCHANGED <<db, pw>>
  BY DEF Connect, Listen, Signal, EndBatch, LastReap, services
<1>2. ASSUME NEW d \in Clients
      PROVE  Handling(d)' = Handling(d) /\ (BeingRead(d)' => BeingRead(d))
  <2>1. \/ main' = main
        \/ /\ main.at \in {"batch", "reap"}
           /\ main' \in {[at |-> "destroy"], [at |-> "wait"], [at |-> "end"]}
    BY DEF Connect, Listen, Signal, EndBatch, LastReap, At, Goto
  <2>2. QED BY <2>1 DEF Handling, BeingRead
<1>3. CASE \E c \in Clients : Connect(c)
  <2>1. PICK c \in Clients : Connect(c)
    BY <1>3
  <2>2. mem[c].conn = "none" /\ mem' = [mem EXCEPT ![c] = [mem[c] EXCEPT !.conn = "backlog"]]
        /\ batch' = batch
    BY <2>1 DEF Connect, Set
  <2>3. \A d \in Clients :
            \/ mem'[d] = mem[d]
            \/ mem[d].conn = "none" /\ mem'[d] = [mem[d] EXCEPT !.conn = "backlog"]
    BY <1>0, <2>2
  <2>4. mem' = [d \in Clients |-> mem'[d]]
    BY <1>0, <2>2
  <2>5. QED BY <1>1, <1>2, <2>2, <2>3, <2>4, ConnSteps
<1>4. CASE Listen
  <2>1. PICK accepted \in SUBSET {c \in Clients : mem[c].conn = "backlog"},
             dropped \in SUBSET {c \in Clients : mem[c].conn = "backlog"} :
            mem' = [c \in Clients |->
                       IF c \in accepted THEN [mem[c] EXCEPT !.conn = "live"]
                       ELSE IF c \in dropped THEN [mem[c] EXCEPT !.conn = "freed"] ELSE mem[c]]
    BY <1>4 DEF Listen
  <2>2. \A d \in Clients :
            \/ mem'[d] = mem[d]
            \/ mem[d].conn = "backlog" /\ mem'[d] = [mem[d] EXCEPT !.conn = "live"]
            \/ mem[d].conn = "backlog" /\ mem'[d] = [mem[d] EXCEPT !.conn = "freed"]
    BY <2>1
  <2>3. mem' = [d \in Clients |-> mem'[d]] /\ batch' \subseteq batch
    BY <1>4, <2>1 DEF Listen, Take
  <2>4. QED BY <1>1, <1>2, <2>2, <2>3, ConnSteps
<1>5. CASE Signal \/ EndBatch \/ LastReap
  <2>1. mem' = Reaped
    BY <1>5 DEF Signal, EndBatch, LastReap
  <2>2. batch' = {}
    BY <1>5 DEF Signal, EndBatch, LastReap, At, IInv, PhaseInv
  <2>3. \A d \in Clients :
            \/ mem'[d] = mem[d]
            \/ mem[d].conn = "retired" /\ mem'[d] = [mem[d] EXCEPT !.conn = "freed"]
    BY <2>1 DEF Reaped
  <2>4. mem' = [d \in Clients |-> mem'[d]]
    BY <2>1 DEF Reaped
  <2>5. QED BY <1>1, <1>2, <2>2, <2>3, <2>4, ConnSteps
<1>6. QED BY <1>3, <1>4, <1>5

\* destroy_server closes every connection.
LEMMA RemoveStep ==
    ASSUME IInv, RemoveClients
    PROVE  /\ BatchInv' /\ \A d \in Clients : ClientInv(d)'
           /\ mem' \in [Clients -> Rec]
           /\ \A d \in Clients : mem'[d].conn # "live"
<1>1. /\ main.at = "destroy" /\ main' = [at |-> "pw_stop"] /\ mem' = AllRemoved
      /\ UNCHANGED <<batch, db, pw>>
  BY DEF RemoveClients, At, Goto, services
<1>2. ASSUME NEW d \in Clients
      PROVE  /\ mem'[d] \in Rec /\ Owned(mem[d])' /\ mem'[d].ctx = mem[d].ctx
             /\ mem'[d].conn # "live"
  <2>1. mem[d] \in Rec /\ Owned(mem[d])
    BY ClientFacts
  <2>2. CASE mem[d].conn = "live"
    <3>1. mem'[d] = RemoveConnection(mem[d])
      BY <1>1, <2>2 DEF AllRemoved
    <3>2. mem'[d] \in Rec /\ Owned(mem'[d]) /\ mem'[d].conn = "retired" /\ mem'[d].ctx = mem[d].ctx
      BY <2>1, <2>2, <3>1, ConnectionRemoved
    <3>3. QED BY <3>2 DEF Owned
  <2>3. CASE mem[d].conn # "live"
    <3>1. mem'[d] = mem[d]
      BY <1>1, <2>3 DEF AllRemoved
    <3>2. QED BY <2>1, <2>3, <3>1 DEF Owned
  <2>4. QED BY <2>2, <2>3
<1>3. batch = {}
  BY <1>1 DEF IInv, PhaseInv
<1>4. BatchInv'
  BY <1>1, <1>3 DEF BatchInv
<1>5. ASSUME NEW d \in Clients PROVE ClientInv(d)'
  <2>1. Handling(d)' = Handling(d) /\ ~BeingRead(d)'
    BY <1>1 DEF Handling, BeingRead
  <2>2. OneJob(d)
    BY ClientFacts
  <2>3. OneJob(d)'
    BY <1>1, <1>2, <2>1, <2>2 DEF OneJob
  <2>4. mem'[d].buffer = FALSE
    BY <1>2 DEF Owned
  <2>5. QED BY <1>2, <2>1, <2>3, <2>4 DEF ClientInv
<1>6. mem' \in [Clients -> Rec]
  BY <1>1, <1>2 DEF AllRemoved
<1>7. QED BY <1>2, <1>4, <1>5, <1>6

\* Objects and events after any step.
LEMMA ObjectsStep ==
    ASSUME IInv, [Next]_vars
    PROVE  BatchInv' /\ (\A d \in Clients : ClientInv(d)') /\ mem' \in [Clients -> Rec]
<1> DEFINE Goal == BatchInv' /\ (\A d \in Clients : ClientInv(d)') /\ mem' \in [Clients -> Rec]
<1>1. ASSUME NEW c \in Clients, ClientStep(c) PROVE Goal
  <2>1. CASE PopDb(c) \/ PopPw(c)
    BY <2>1, ResultSteps DEF IInv, TypeOK, Rec
  <2>2. QED BY <1>1, <2>1, EventSteps, RequestSteps, HandleSteps DEF ClientStep
<1>2. CASE \/ EpollWait \/ Listen \/ Signal \/ ServiceEvent \/ EndBatch \/ DbDrained \/ PwDrained
           \/ RemoveClients \/ StopPw \/ JoinPw \/ FreePw \/ StopDb \/ JoinDb \/ FreeDb \/ LastReap
           \/ EpollFails
  BY <1>2, MainSteps, WaitStep, ConnActions, RemoveStep
<1>3. CASE \E c \in Clients : Connect(c) \/ ServiceFinishes(c)
  BY <1>3, MainSteps, ConnActions
<1>4. ASSUME UNCHANGED <<mem, batch, main, services>> PROVE Goal
  <2>1. UNCHANGED <<mem, batch, main, db, pw>>
    BY <1>4 DEF services
  <2>2. \A d \in Clients : Handling(d)' = Handling(d) /\ (BeingRead(d)' => BeingRead(d))
    BY <2>1 DEF Handling, BeingRead
  <2>3. QED BY <2>1, <2>2, QuietSteps
<1>5. CASE SignalArrives \/ UNCHANGED vars \/ Terminated
  BY <1>4, <1>5 DEF SignalArrives, Terminated, vars
<1>6. CASE \E c \in Clients : PeerReads(c) \/ \E what \in PeerMoves : PeerSends(c, what)
  BY <1>4, <1>6 DEF PeerReads, PeerSends
<1>7. QED BY <1>1, <1>2, <1>3, <1>5, <1>6 DEF Next, LoopStep

-----------------------------------------------------------------------------
(* The shutdown. *)

\* While both services are open and the loop is at work, nothing else is
\* claimed; before epoll_wait and after the loop the batch is empty.
LEMMA OpenStep ==
    ASSUME dbPhase' = "open", pwPhase' = "open",
           \/ main'.at \in {"batch", "parse", "db", "pw", "db_handle", "pw_handle"}
           \/ main'.at \in {"wait", "destroy"} /\ batch' = {}
    PROVE  PhaseInv'
BY DEF PhaseInv

\* The loop proper runs with both services open.
LEMMA LoopPhase ==
    ASSUME IInv,
           \/ EpollWait \/ Listen \/ Signal \/ ServiceEvent \/ EndBatch \/ EpollFails
           \/ \E c \in Clients :
                 \/ \E m \in {"in", "out", "hup"} : SkipClosed(c, m)
                 \/ HangUp(c) \/ ContinueSend(c) \/ PeekPending(c)
                 \/ NewRequest(c) \/ ParseFails(c) \/ AnswerAtOnce(c) \/ StartChain(c)
    PROVE  PhaseInv'
<1>1. main.at \in {"wait", "batch", "parse"}
  <2>1. CASE EpollWait \/ Listen \/ Signal \/ ServiceEvent \/ EndBatch \/ EpollFails
    BY <2>1 DEF EpollWait, Listen, Signal, ServiceEvent, EndBatch, EpollFails, Take, At
  <2>2. ASSUME NEW c \in Clients,
               \/ \E m \in {"in", "out", "hup"} : SkipClosed(c, m)
               \/ HangUp(c) \/ ContinueSend(c) \/ PeekPending(c) \/ NewRequest(c)
        PROVE  main.at = "batch"
    BY <2>2 DEF SkipClosed, HangUp, ContinueSend, PeekPending, NewRequest, Take, At
  <2>3. ASSUME NEW c \in Clients, ParseFails(c) \/ AnswerAtOnce(c) \/ StartChain(c)
        PROVE  main.at = "parse"
    <3>1. BeingRead(c)
      BY <2>3 DEF ParseFails, AnswerAtOnce, StartChain
    <3>2. QED BY <3>1 DEF BeingRead
  <2>4. QED BY <2>1, <2>2, <2>3
<1>2. dbPhase = "open" /\ pwPhase = "open" /\ (main.at = "wait" => batch = {})
  BY <1>1 DEF IInv, PhaseInv
<1>3. dbPhase' = dbPhase /\ pwPhase' = pwPhase
  BY DEF EpollWait, Listen, Signal, ServiceEvent, EndBatch, EpollFails, SkipClosed, HangUp,
         ContinueSend, PeekPending, NewRequest, ParseFails, AnswerAtOnce, StartChain, services,
         Db!Submit
<1>4. CASE EpollFails \/ EndBatch \/ Signal
  <2>1. main'.at \in {"wait", "destroy"}
    BY <1>4 DEF EpollFails, EndBatch, Signal, Goto
  <2>2. batch' = {}
    BY <1>2, <1>4 DEF EpollFails, EndBatch, Signal, At
  <2>3. QED BY <1>2, <1>3, <2>1, <2>2, OpenStep
<1>5. CASE EpollWait \/ Listen \/ ServiceEvent
  <2>1. main'.at \in {"batch", "db", "pw"}
    BY <1>5 DEF EpollWait, Listen, ServiceEvent, Goto, Take, At
  <2>2. QED BY <1>2, <1>3, <2>1, OpenStep
<1>6. ASSUME NEW c \in Clients,
             \/ \E m \in {"in", "out", "hup"} : SkipClosed(c, m)
             \/ HangUp(c) \/ ContinueSend(c) \/ PeekPending(c)
             \/ NewRequest(c) \/ ParseFails(c) \/ AnswerAtOnce(c) \/ StartChain(c)
      PROVE  PhaseInv'
  <2>1. main'.at \in {"batch", "parse"}
    <3>1. CASE ParseFails(c) \/ AnswerAtOnce(c) \/ StartChain(c)
      <4>1. Goto("batch")
        BY <3>1 DEF ParseFails, AnswerAtOnce, StartChain
      <4>2. QED BY <4>1 DEF Goto
    <3>2. CASE NewRequest(c)
      <4>1. main.at = "batch"
        BY <3>2 DEF NewRequest, Take, At
      <4>2. main' = main \/ main' = [at |-> "parse", client |-> c]
        BY <3>2 DEF NewRequest
      <4>3. QED BY <4>1, <4>2
    <3>3. CASE \/ \E m \in {"in", "out", "hup"} : SkipClosed(c, m)
               \/ HangUp(c) \/ ContinueSend(c) \/ PeekPending(c)
      BY <3>3 DEF SkipClosed, HangUp, ContinueSend, PeekPending, Take, At
    <3>4. QED BY <1>6, <3>1, <3>2, <3>3
  <2>2. QED BY <1>2, <1>3, <2>1, OpenStep
<1>7. QED BY <1>4, <1>5, <1>6

\* A peer that connects joins the backlog; a service finishes what it accepted.
LEMMA WorldPhase ==
    ASSUME IInv, NEW c \in Clients, Connect(c) \/ ServiceFinishes(c)
    PROVE  PhaseInv'
<1>1. UNCHANGED <<main, batch, dbPhase, pwPhase>>
  BY DEF Connect, ServiceFinishes, services, Db!Finish, Pw!Finish
<1>2. CASE Connect(c)
  <2>1. mem \in [Clients -> Rec] /\ UNCHANGED <<db, pw>>
    BY <1>2 DEF Connect, services, IInv, TypeOK, Rec
  <2>2. \A d \in Clients : /\ mem[d].conn # "live" => mem'[d].conn # "live"
                           /\ mem[d].conn # "retired" => mem'[d].conn # "retired"
    BY <1>2, <2>1 DEF Connect, Set, Rec
  <2>3. QED BY <1>1, <2>1, <2>2 DEF IInv, PhaseInv
<1>3. CASE ServiceFinishes(c)
  <2>1. mem' = mem /\ TypeOK
    BY <1>3 DEF ServiceFinishes, IInv
  <2>2. \A d \in Clients : /\ db[d] # "accepted" => db'[d] = db[d]
                           /\ pw[d] # "accepted" => pw'[d] = pw[d]
    BY <1>3, <2>1 DEF ServiceFinishes, Db!Finish, Pw!Finish, TypeOK, Db!TypeOK, Pw!TypeOK
  <2>3. \A d \in Clients : /\ db[d] # "accepted" => db'[d] # "accepted"
                           /\ pw[d] # "accepted" => pw'[d] # "accepted"
                           /\ db[d] = "idle" => db'[d] = "idle"
                           /\ pw[d] = "idle" => pw'[d] = "idle"
    BY <2>2
  <2>4. QED BY <1>1, <2>1, <2>3 DEF IInv, PhaseInv
<1>4. QED BY <1>2, <1>3

\* Results are drained while the services are open and, after they were
\* stopped, with every connection gone: then no handler starts another job.
LEMMA DrainPhase ==
    ASSUME IInv,
           \/ DbDrained \/ PwDrained
           \/ \E c \in Clients :
                 \/ PopDb(c) \/ PopPw(c) \/ DropResult(c) \/ CompleteChain(c)
                 \/ ContinueWithDb(c) \/ ContinueWithPw(c)
    PROVE  PhaseInv'
<1>1. UNCHANGED <<batch, dbPhase, pwPhase>>
  BY DEF DbDrained, PwDrained, PopDb, PopPw, DropResult, CompleteChain, ContinueWithDb,
         ContinueWithPw, services, Db!Deliver, Pw!Deliver, Db!Submit, Pw!Submit
<1>2. \/ main.at \in {"db", "db_handle"} /\ main'.at \in {"db", "db_handle"}
      \/ main.at \in {"pw", "pw_handle"} /\ main'.at \in {"pw", "pw_handle"}
      \/ main.at = "db" /\ main'.at = (IF dbPhase = "open" THEN "batch" ELSE "db_free")
      \/ main.at = "pw" /\ main'.at = (IF pwPhase = "open" THEN "batch" ELSE "pw_free")
  <2>1. CASE DbDrained \/ PwDrained
    BY <2>1 DEF DbDrained, PwDrained, At, Goto
  <2>2. CASE \E c \in Clients : PopDb(c) \/ PopPw(c)
    BY <2>2 DEF PopDb, PopPw, At
  <2>3. ASSUME NEW c \in Clients,
               DropResult(c) \/ CompleteChain(c) \/ ContinueWithDb(c) \/ ContinueWithPw(c)
        PROVE  \/ main.at = "db_handle" /\ main'.at = "db"
               \/ main.at = "pw_handle" /\ main'.at = "pw"
    <3>1. Handling(c) /\ BackToDrain
      BY <2>3 DEF DropResult, CompleteChain, ContinueWithDb, ContinueWithPw, Handling
    <3>2. QED BY <3>1 DEF Handling, BackToDrain, Goto, At
  <2>4. QED BY <2>1, <2>2, <2>3
<1>3. CASE pwPhase = "open"
  <2>1. dbPhase = "open"
    BY <1>3 DEF IInv, PhaseInv
  <2>2. main'.at \in {"batch", "db", "pw", "db_handle", "pw_handle"}
    BY <1>2, <1>3, <2>1
  <2>3. QED BY <1>1, <1>3, <2>1, <2>2, OpenStep
<1>4. CASE pwPhase # "open"
  <2>1. \A d \in Clients : mem[d].conn # "live"
    BY <1>4 DEF IInv, PhaseInv
  <2>2. \A d \in Clients : mem'[d].conn # "live"
    BY <2>1, HandleSteps DEF DbDrained, PwDrained, PopDb, PopPw
  <2>3. \A d \in Clients : /\ db[d] # "accepted" => db'[d] # "accepted"
                           /\ pw[d] # "accepted" => pw'[d] # "accepted"
                           /\ db[d] = "idle" => db'[d] = "idle"
                           /\ pw[d] = "idle" => pw'[d] = "idle"
    <3>1. CASE UNCHANGED <<db, pw>>
      BY <3>1
    <3>2. CASE \E c \in Clients : PopDb(c) \/ PopPw(c)
      <4>1. TypeOK
        BY DEF IInv
      <4>2. QED BY <3>2, <4>1 DEF PopDb, PopPw, Db!Deliver, Pw!Deliver, TypeOK, Db!TypeOK, Pw!TypeOK
    <3>3. QED BY <2>1, <3>1, <3>2, HandleSteps DEF DbDrained, PwDrained, services
  <2>4. main'.at # "end" /\ batch = {}
    BY <1>2, <1>4 DEF IInv, PhaseInv
  <2>5. /\ \/ dbPhase' = "open" /\ pwPhase' = "stopping" /\ main'.at \in {"pw", "pw_handle", "pw_free"}
           \/ dbPhase' = "stopping" /\ pwPhase' = "released"
              /\ main'.at \in {"db", "db_handle", "db_free"}
        /\ pwPhase = "stopping" => \A d \in Clients : pw[d] # "accepted"
        /\ pwPhase = "released" => \A d \in Clients : pw[d] = "idle"
        /\ dbPhase = "stopping" => \A d \in Clients : db[d] # "accepted"
    BY <1>1, <1>2, <1>4 DEF IInv, PhaseInv
  <2>6. QED BY <1>1, <2>2, <2>3, <2>4, <2>5 DEF PhaseInv
<1>5. QED BY <1>3, <1>4

\* destroy_server: connections, password worker, database pool, last reap.
LEMMA DestroyPhase ==
    ASSUME IInv,
           RemoveClients \/ StopPw \/ JoinPw \/ FreePw \/ StopDb \/ JoinDb \/ FreeDb \/ LastReap
    PROVE  PhaseInv'
<1>0. TypeOK /\ PhaseInv
  BY DEF IInv
<1>1. CASE RemoveClients
  <2>1. \A d \in Clients : mem'[d].conn # "live"
    BY <1>1, RemoveStep
  <2>2. main.at = "destroy" /\ main'.at = "pw_stop" /\ UNCHANGED <<batch, dbPhase, pwPhase>>
    BY <1>1 DEF RemoveClients, At, Goto, services
  <2>3. QED BY <1>0, <2>1, <2>2 DEF PhaseInv
<1>2. CASE StopPw
  BY <1>0, <1>2 DEF StopPw, At, Goto, Pw!Stop, PhaseInv
<1>3. CASE JoinPw
  BY <1>0, <1>3 DEF JoinPw, At, Goto, services, PhaseInv
<1>4. CASE FreePw
  BY <1>0, <1>4 DEF FreePw, At, Goto, Pw!Release, PhaseInv
<1>5. CASE StopDb
  BY <1>0, <1>5 DEF StopDb, At, Goto, Db!Stop, PhaseInv
<1>6. CASE JoinDb
  BY <1>0, <1>6 DEF JoinDb, At, Goto, services, PhaseInv
<1>7. CASE FreeDb
  BY <1>0, <1>7 DEF FreeDb, At, Goto, Db!Release, PhaseInv
<1>8. CASE LastReap
  <2>1. mem \in [Clients -> Rec]
    BY <1>0 DEF TypeOK, Rec
  <2>2. \A d \in Clients : /\ mem'[d].conn # "retired"
                           /\ mem[d].conn # "live" => mem'[d].conn # "live"
    BY <1>8, <2>1 DEF LastReap, Reaped, Rec
  <2>3. QED BY <1>0, <1>8, <2>2 DEF LastReap, At, Goto, services, PhaseInv
<1>9. QED BY <1>1, <1>2, <1>3, <1>4, <1>5, <1>6, <1>7, <1>8

\* The phases after any step.
LEMMA PhaseStep ==
    ASSUME IInv, [Next]_vars
    PROVE  PhaseInv'
<1>1. ASSUME UNCHANGED <<mem, batch, main, services>> PROVE PhaseInv'
  BY <1>1 DEF services, IInv, PhaseInv
<1>2. CASE SignalArrives \/ UNCHANGED vars \/ Terminated
  BY <1>1, <1>2 DEF SignalArrives, Terminated, vars
<1>3. CASE \E c \in Clients : PeerReads(c) \/ \E what \in PeerMoves : PeerSends(c, what)
  BY <1>1, <1>3 DEF PeerReads, PeerSends
<1>4. CASE \E c \in Clients : Connect(c) \/ ServiceFinishes(c)
  BY <1>4, WorldPhase
<1>5. CASE LoopStep \/ EpollFails
  BY <1>5, LoopPhase, DrainPhase, DestroyPhase DEF LoopStep, ClientStep
<1>6. QED BY <1>2, <1>3, <1>4, <1>5 DEF Next

-----------------------------------------------------------------------------
(* Types. *)

\* The kernel's side of the sockets.
KernelOK ==
    /\ net \in [Clients -> {"empty", "partial", "request", "junk", "reset"}]
    /\ edge \in [Clients -> BOOLEAN]
    /\ room \in [Clients -> BOOLEAN]
    /\ signalled \in BOOLEAN

\* Peers and responses leave the kernel's state in range.
LEMMA KernelStep ==
    ASSUME KernelOK, [Next]_vars
    PROVE  KernelOK'
<1>1. CASE UNCHANGED kernel
  BY <1>1 DEF KernelOK, kernel
<1>2. ASSUME NEW c \in Clients, NEW how, RoomAfter(c, how) PROVE room' \in [Clients -> BOOLEAN]
  BY <1>2 DEF RoomAfter, KernelOK
<1>3. ASSUME NEW c \in Clients, Leftover(c)
      PROVE  /\ net' \in [Clients -> {"empty", "partial", "request", "junk", "reset"}]
             /\ edge' \in [Clients -> BOOLEAN]
  BY <1>3 DEF Leftover, KernelOK
<1>4. ASSUME NEW c \in Clients, ClientStep(c) PROVE KernelOK' \/ UNCHANGED kernel
  <2>1. CASE ContinueSend(c) \/ ParseFails(c) \/ CompleteChain(c)
    <3>1. UNCHANGED <<net, edge, signalled>> /\ \E how : RoomAfter(c, how)
      BY <2>1 DEF ContinueSend, ParseFails, CompleteChain
    <3>2. QED BY <1>2, <3>1 DEF KernelOK
  <2>2. CASE NewRequest(c)
    <3>1. UNCHANGED <<net, edge, signalled>> /\ (room' = room \/ \E how : RoomAfter(c, how))
      BY <2>2 DEF NewRequest
    <3>2. QED BY <1>2, <3>1 DEF KernelOK
  <2>3. CASE AnswerAtOnce(c)
    <3>1. Leftover(c) /\ UNCHANGED signalled /\ \E how : RoomAfter(c, how)
      BY <2>3 DEF AnswerAtOnce
    <3>2. QED BY <1>2, <1>3, <3>1 DEF KernelOK
  <2>4. CASE StartChain(c)
    <3>1. Leftover(c) /\ UNCHANGED <<room, signalled>>
      BY <2>4 DEF StartChain
    <3>2. QED BY <1>3, <3>1 DEF KernelOK
  <2>5. CASE \/ \E m \in {"in", "out", "hup"} : SkipClosed(c, m)
             \/ HangUp(c) \/ PeekPending(c) \/ PopDb(c) \/ PopPw(c) \/ DropResult(c)
             \/ ContinueWithDb(c) \/ ContinueWithPw(c)
    BY <2>5 DEF SkipClosed, HangUp, PeekPending, PopDb, PopPw, DropResult, ContinueWithDb,
                ContinueWithPw
  <2>6. QED BY <1>4, <2>1, <2>2, <2>3, <2>4, <2>5 DEF ClientStep
<1>5. CASE EpollWait
  BY <1>5 DEF EpollWait, KernelOK
<1>6. CASE Listen
  <2>1. PICK accepted \in SUBSET {c \in Clients : mem[c].conn = "backlog"} :
            edge' = [c \in Clients |-> IF c \in accepted THEN net[c] # "empty" ELSE edge[c]]
    BY <1>6 DEF Listen
  <2>2. edge' \in [Clients -> BOOLEAN]
    BY <2>1 DEF KernelOK
  <2>3. UNCHANGED <<net, room, signalled>>
    BY <1>6 DEF Listen
  <2>4. QED BY <2>2, <2>3 DEF KernelOK
<1>7. CASE LoopStep \/ EpollFails
  <2>1. CASE \/ Signal \/ ServiceEvent \/ EndBatch \/ DbDrained \/ PwDrained
             \/ RemoveClients \/ StopPw \/ JoinPw \/ FreePw \/ StopDb \/ JoinDb \/ FreeDb \/ LastReap
             \/ EpollFails
    BY <1>1, <2>1 DEF Signal, ServiceEvent, EndBatch, DbDrained, PwDrained, RemoveClients, StopPw,
                      JoinPw, FreePw, StopDb, JoinDb, FreeDb, LastReap, EpollFails
  <2>2. QED BY <1>1, <1>4, <1>5, <1>6, <1>7, <2>1 DEF LoopStep
<1>8. CASE SignalArrives
  BY <1>8 DEF SignalArrives, KernelOK
<1>9. ASSUME NEW c \in Clients, NEW what \in PeerMoves, PeerSends(c, what) PROVE KernelOK'
  <2>1. what \in {"empty", "partial", "request", "junk", "reset"}
    BY <1>9, PeersCanSendRequests
  <2>2. QED BY <1>9, <2>1 DEF PeerSends, KernelOK
<1>10. ASSUME NEW c \in Clients, PeerReads(c) PROVE KernelOK'
  BY <1>10 DEF PeerReads, KernelOK
<1>11. CASE \E c \in Clients : Connect(c) \/ ServiceFinishes(c)
  BY <1>1, <1>11 DEF Connect, ServiceFinishes
<1>12. CASE UNCHANGED vars \/ Terminated
  BY <1>1, <1>12 DEF Terminated, vars
<1>13. QED BY <1>7, <1>8, <1>9, <1>10, <1>11, <1>12 DEF Next

\* Positions of the loop thread.
LEMMA Positions ==
    /\ \A pc \in {"wait", "batch", "db", "pw", "destroy", "pw_stop", "pw_join", "pw_free",
                  "db_stop", "db_join", "db_free", "reap", "end"} : [at |-> pc] \in MainPC
    /\ \A c \in Clients : /\ [at |-> "parse", client |-> c] \in MainPC
                          /\ [at |-> "db_handle", client |-> c] \in MainPC
                          /\ [at |-> "pw_handle", client |-> c] \in MainPC
BY DEF MainPC

\* The loop thread's position and its batch stay in range.
LEMMA LoopTypes ==
    ASSUME main \in MainPC, batch \subseteq Events, [Next]_vars
    PROVE  main' \in MainPC /\ batch' \subseteq Events
<1>1. CASE UNCHANGED <<main, batch>>
  BY <1>1
<1>2. ASSUME NEW c \in Clients, ClientStep(c) PROVE main' \in MainPC /\ batch' \subseteq Events
  <2>1. CASE \/ \E m \in {"in", "out", "hup"} : SkipClosed(c, m)
             \/ HangUp(c) \/ ContinueSend(c) \/ PeekPending(c)
    BY <2>1 DEF SkipClosed, HangUp, ContinueSend, PeekPending, Take
  <2>2. CASE NewRequest(c)
    <3>1. /\ main' = main \/ main' = [at |-> "parse", client |-> c]
          /\ batch' \subseteq batch
      BY <2>2 DEF NewRequest, Take
    <3>2. QED BY <3>1, Positions
  <2>3. CASE ParseFails(c) \/ AnswerAtOnce(c) \/ StartChain(c)
    <3>1. Goto("batch") /\ batch' = batch
      BY <2>3 DEF ParseFails, AnswerAtOnce, StartChain
    <3>2. QED BY <3>1, Positions DEF Goto
  <2>4. CASE PopDb(c) \/ PopPw(c)
    BY <2>4, Positions DEF PopDb, PopPw
  <2>5. CASE DropResult(c) \/ CompleteChain(c) \/ ContinueWithDb(c) \/ ContinueWithPw(c)
    <3>1. BackToDrain /\ batch' = batch
      BY <2>5 DEF DropResult, CompleteChain, ContinueWithDb, ContinueWithPw
    <3>2. main' = [at |-> "db"] \/ main' = [at |-> "pw"]
      BY <3>1 DEF BackToDrain, Goto
    <3>3. QED BY <3>1, <3>2, Positions
  <2>6. QED BY <1>2, <2>1, <2>2, <2>3, <2>4, <2>5 DEF ClientStep
<1>3. CASE EpollWait
  <2>1. main' = [at |-> "batch"]
    BY <1>3 DEF EpollWait, Goto
  <2>2. batch' \subseteq Events
    BY <1>3 DEF EpollWait
  <2>3. QED BY <2>1, <2>2, Positions
<1>4. CASE Listen \/ ServiceEvent \/ Signal
  <2>1. /\ main' \in {main, [at |-> "db"], [at |-> "pw"], [at |-> "destroy"]}
        /\ batch' \subseteq batch
    BY <1>4 DEF Listen, ServiceEvent, Signal, Take, Goto
  <2>2. QED BY <2>1, Positions
<1>5. CASE \/ EndBatch \/ DbDrained \/ PwDrained
           \/ RemoveClients \/ StopPw \/ JoinPw \/ FreePw \/ StopDb \/ JoinDb \/ FreeDb \/ LastReap
           \/ EpollFails
  <2>1. batch' = batch
    BY <1>5 DEF EndBatch, DbDrained, PwDrained, RemoveClients, StopPw, JoinPw, FreePw, StopDb,
                JoinDb, FreeDb, LastReap, EpollFails
  <2>2. \E pc \in {"wait", "batch", "db", "pw", "destroy", "pw_stop", "pw_join", "pw_free",
                   "db_stop", "db_join", "db_free", "reap", "end"} : main' = [at |-> pc]
    BY <1>5 DEF EndBatch, DbDrained, PwDrained, RemoveClients, StopPw, JoinPw, FreePw, StopDb,
                JoinDb, FreeDb, LastReap, EpollFails, Goto
  <2>3. QED BY <2>1, <2>2, Positions
<1>6. CASE \/ SignalArrives \/ Terminated \/ UNCHANGED vars
           \/ \E c \in Clients : \/ Connect(c) \/ PeerReads(c) \/ ServiceFinishes(c)
                                 \/ \E what \in PeerMoves : PeerSends(c, what)
  BY <1>1, <1>6 DEF SignalArrives, Terminated, vars, Connect, PeerReads, ServiceFinishes, PeerSends
<1>7. QED BY <1>2, <1>3, <1>4, <1>5, <1>6 DEF Next, LoopStep

\* Every step of the server is a step of each service, or leaves it alone.
LEMMA ServiceSteps ==
    ASSUME [Next]_vars
    PROVE  /\ [Db!Next]_(Db!vars)
           /\ [Pw!Next]_(Pw!vars)
<1>1. CASE UNCHANGED services
  BY <1>1 DEF services, Db!vars, Pw!vars
<1>2. ASSUME NEW c \in Clients, ClientStep(c)
      PROVE  /\ Db!Submit(c) \/ Db!Deliver(c) \/ UNCHANGED <<db, dbPhase>>
             /\ Pw!Submit(c) \/ Pw!Deliver(c) \/ UNCHANGED <<pw, pwPhase>>
  <2>1. CASE \/ \E m \in {"in", "out", "hup"} : SkipClosed(c, m)
             \/ HangUp(c) \/ ContinueSend(c) \/ PeekPending(c)
             \/ NewRequest(c) \/ ParseFails(c) \/ AnswerAtOnce(c) \/ DropResult(c) \/ CompleteChain(c)
    <3>1. UNCHANGED services
      BY <2>1 DEF SkipClosed, HangUp, ContinueSend, PeekPending, NewRequest, ParseFails,
                  AnswerAtOnce, DropResult, CompleteChain
    <3>2. QED BY <3>1 DEF services
  <2>2. CASE StartChain(c) \/ PopDb(c) \/ PopPw(c) \/ ContinueWithDb(c) \/ ContinueWithPw(c)
    BY <2>2 DEF StartChain, PopDb, PopPw, ContinueWithDb, ContinueWithPw
  <2>3. QED BY <1>2, <2>1, <2>2 DEF ClientStep
<1>3. CASE \E c \in Clients : ClientStep(c)
  BY <1>2, <1>3 DEF Db!Next, Db!vars, Pw!Next, Pw!vars
<1>4. CASE StopPw \/ FreePw \/ StopDb \/ FreeDb
  <2>1. \/ \E cancelled \in SUBSET Clients : Pw!Stop(cancelled) /\ UNCHANGED <<db, dbPhase>>
        \/ Pw!Release /\ UNCHANGED <<db, dbPhase>>
        \/ \E cancelled \in SUBSET Clients : Db!Stop(cancelled) /\ UNCHANGED <<pw, pwPhase>>
        \/ Db!Release /\ UNCHANGED <<pw, pwPhase>>
    <3>1. {} \in SUBSET Clients
      OBVIOUS
    <3>2. QED BY <1>4, <3>1 DEF StopPw, FreePw, StopDb, FreeDb
  <2>2. QED BY <2>1 DEF Db!Next, Db!vars, Pw!Next, Pw!vars
<1>5. CASE \E c \in Clients : ServiceFinishes(c)
  BY <1>5 DEF ServiceFinishes, Db!Next, Db!vars, Pw!Next, Pw!vars
<1>6. CASE \/ EpollWait \/ Listen \/ Signal \/ ServiceEvent \/ EndBatch \/ DbDrained \/ PwDrained
           \/ RemoveClients \/ JoinPw \/ JoinDb \/ LastReap \/ EpollFails \/ SignalArrives
           \/ Terminated \/ UNCHANGED vars
           \/ \E c \in Clients : \/ Connect(c) \/ PeerReads(c)
                                 \/ \E what \in PeerMoves : PeerSends(c, what)
  <2>1. UNCHANGED services
    BY <1>6 DEF EpollWait, Listen, Signal, ServiceEvent, EndBatch, DbDrained, PwDrained,
                RemoveClients, JoinPw, JoinDb, LastReap, EpollFails, SignalArrives, Terminated, vars,
                Connect, PeerReads, PeerSends
  <2>2. QED BY <1>1, <2>1
<1>7. QED BY <1>3, <1>4, <1>5, <1>6 DEF Next, LoopStep

\* The services' states stay in range.
LEMMA ServiceTypes ==
    ASSUME Db!TypeOK, Pw!TypeOK, [Next]_vars
    PROVE  Db!TypeOK' /\ Pw!TypeOK'
<1>1. [Db!Next]_(Db!vars) /\ [Pw!Next]_(Pw!vars)
  BY ServiceSteps
<1>2. Db!TypeOK'
  BY <1>1 DEF Db!TypeOK, Db!Next, Db!vars, Db!Submit, Db!Finish, Db!Deliver, Db!Stop, Db!Release
<1>3. Pw!TypeOK'
  BY <1>1 DEF Pw!TypeOK, Pw!Next, Pw!vars, Pw!Submit, Pw!Finish, Pw!Deliver, Pw!Stop, Pw!Release
<1>4. QED BY <1>2, <1>3

\* The server starts in the invariant.
LEMMA InitIInv ==
    ASSUME Init
    PROVE  IInv
<1>1. Fresh \in Rec
  <2>1. 0 \in 0..2 /\ 0 \in 0..MaxHops /\ 0 \in 0..MaxStalls
    BY BoundsAreNatural
  <2>2. QED BY <2>1 DEF Fresh, Rec, Object
<1>2. mem \in [Clients -> Rec] /\ \A c \in Clients : mem[c] = Fresh
  BY <1>1 DEF Init
<1>3. TypeOK
  <2>1. main \in MainPC
    BY Positions DEF Init
  <2>2. Db!TypeOK /\ Pw!TypeOK
    BY DEF Init, Db!Init, Pw!Init, Db!TypeOK, Pw!TypeOK
  <2>3. KernelOK /\ batch \subseteq Events
    BY DEF Init, KernelOK
  <2>4. QED BY <1>2, <2>1, <2>2, <2>3 DEF TypeOK, KernelOK, Rec
<1>4. BatchInv
  BY DEF Init, BatchInv
<1>5. PhaseInv
  BY DEF Init, PhaseInv, Db!Init, Pw!Init
<1>6. ASSUME NEW c \in Clients PROVE ClientInv(c)
  <2>1. ~Handling(c) /\ ~BeingRead(c) /\ db[c] = "idle" /\ pw[c] = "idle"
    BY DEF Init, Handling, BeingRead, Db!Init, Pw!Init
  <2>2. Owned(Fresh) /\ Fresh.ctx # "live" /\ Fresh.buffer = FALSE
    <3>1. /\ Fresh.conn = "none" /\ Fresh.req = "none" /\ Fresh.ctx = "none"
          /\ Fresh.connReq = FALSE /\ Fresh.reqConn = FALSE /\ Fresh.reqCtx = FALSE
          /\ Fresh.buffer = FALSE /\ Fresh.interest = "in" /\ Fresh.fault = FALSE
          /\ Fresh.responses = 0 /\ Fresh.disposals = 0
      BY DEF Fresh
    <3>2. QED BY <1>1, <3>1 DEF Owned, Rec
  <2>3. QED BY <1>2, <2>1, <2>2 DEF ClientInv, OneJob
<1>7. QED BY <1>3, <1>4, <1>5, <1>6 DEF IInv

\* No step leaves the invariant.
LEMMA StepIInv ==
    ASSUME IInv, [Next]_vars
    PROVE  IInv'
<1>1. BatchInv' /\ (\A d \in Clients : ClientInv(d)') /\ mem' \in [Clients -> Rec]
  BY ObjectsStep
<1>2. PhaseInv'
  BY PhaseStep
<1>3. TypeOK
  BY DEF IInv
<1>4. KernelOK'
  BY <1>3, KernelStep DEF TypeOK, KernelOK
<1>5. main' \in MainPC /\ batch' \subseteq Events
  BY <1>3, LoopTypes DEF TypeOK
<1>6. Db!TypeOK' /\ Pw!TypeOK'
  BY <1>3, ServiceTypes DEF TypeOK
<1>7. TypeOK'
  BY <1>1, <1>4, <1>5, <1>6 DEF TypeOK, KernelOK, Rec
<1>8. QED BY <1>1, <1>2, <1>7 DEF IInv

-----------------------------------------------------------------------------
(* The theorems. *)

\* In every reachable state the objects of every client are owned as the
\* code means them to be.
THEOREM Invariance == Spec => []IInv
<1>1. Init => IInv
  BY InitIInv
<1>2. IInv /\ [Next]_vars => IInv'
  BY StepIInv
<1>3. QED BY <1>1, <1>2, PTL DEF Spec

\* Every variable of the event loop stays in its range.
THEOREM TypeCorrect == Spec => []TypeOK
<1>1. IInv => TypeOK
  BY DEF IInv
<1>2. QED BY <1>1, Invariance, PTL

\* No handler of the loop touches a connection, a request, a context or a
\* service that was freed, in whatever order events, results, hang-ups and
\* the shutdown come.
THEOREM NothingFreedIsUsed == Spec => []NoUseAfterFree
<1>1. IInv => NoUseAfterFree
  BY DEF IInv, ClientInv, Owned, NoUseAfterFree
<1>2. QED BY <1>1, Invariance, PTL

\* Every request is disposed of at most once and, when destroy_server returns,
\* exactly once, with its context, its connection and its header buffer.
THEOREM EveryObjectIsFreed == Spec => []DisposedExactlyOnce
<1>1. ASSUME IInv, NEW c \in Clients
      PROVE  /\ mem[c].disposals <= 1
             /\ At("end") => /\ (mem[c].req # "none") = (mem[c].disposals = 1)
                             /\ mem[c].ctx # "live" /\ ~mem[c].buffer
                             /\ mem[c].conn \in {"none", "backlog", "freed"}
  <2>1. mem[c] \in Rec /\ Owned(mem[c]) /\ OneJob(c)
    BY <1>1 DEF IInv, TypeOK, Rec, ClientInv
  <2>2. mem[c].disposals = IF mem[c].req = "freed" THEN 1 ELSE 0
    BY <2>1 DEF Owned
  <2>3. ASSUME At("end")
        PROVE  /\ mem[c].ctx # "live" /\ mem[c].conn \notin {"live", "retired"}
    <3>1. /\ dbPhase = "released" /\ pwPhase = "released"
          /\ mem[c].conn # "live" /\ mem[c].conn # "retired" /\ db[c] = "idle" /\ pw[c] = "idle"
      BY <1>1, <2>3 DEF IInv, PhaseInv, At
    <3>2. ~Handling(c)
      BY <2>3 DEF At, Handling
    <3>3. QED BY <2>1, <3>1, <3>2 DEF OneJob
  <2>4. ASSUME At("end")
        PROVE  /\ (mem[c].req # "none") = (mem[c].disposals = 1)
               /\ mem[c].buffer = FALSE
               /\ mem[c].conn \in {"none", "backlog", "freed"}
    <3>1. mem[c].req # "live" /\ mem[c].buffer = FALSE
      BY <2>1, <2>3, <2>4 DEF Owned
    <3>2. mem[c].req \in {"none", "freed"} /\ mem[c].conn \in {"none", "backlog", "freed"}
      BY <2>1, <2>3, <2>4, <3>1 DEF Rec, Object
    <3>3. QED BY <2>2, <3>1, <3>2
  <2>5. mem[c].disposals <= 1
    BY <2>2
  <2>6. QED BY <2>3, <2>4, <2>5 DEF At
<1>2. IInv => DisposedExactlyOnce
  BY <1>1 DEF DisposedExactlyOnce
<1>3. QED BY <1>2, Invariance, PTL

\* A context is owed by exactly one service, or in the hands of the loop, for
\* as long as it lives, and by nobody before and after.
THEOREM OneJobPerContext == Spec => []ContextHasOneJob
<1>1. ASSUME IInv, NEW c \in Clients
      PROVE  Cardinality({s \in {"db", "pw", "hand"} :
                             \/ s = "db" /\ db[c] # "idle"
                             \/ s = "pw" /\ pw[c] # "idle"
                             \/ s = "hand" /\ Handling(c)})
                 = IF mem[c].ctx = "live" THEN 1 ELSE 0
  <2> DEFINE jobs == {s \in {"db", "pw", "hand"} :
                         \/ s = "db" /\ db[c] # "idle"
                         \/ s = "pw" /\ pw[c] # "idle"
                         \/ s = "hand" /\ Handling(c)}
  <2>1. OneJob(c)
    BY <1>1 DEF IInv, ClientInv
  <2>2. CASE mem[c].ctx = "live"
    <3>1. \E s : jobs = {s}
      <4>1. CASE db[c] # "idle"
        <5>1. jobs = {"db"}
          BY <2>1, <4>1 DEF OneJob
        <5>2. QED BY <5>1
      <4>2. CASE pw[c] # "idle"
        <5>1. jobs = {"pw"}
          BY <2>1, <4>2 DEF OneJob
        <5>2. QED BY <5>1
      <4>3. CASE Handling(c)
        <5>1. jobs = {"hand"}
          BY <2>1, <4>3 DEF OneJob
        <5>2. QED BY <5>1
      <4>4. QED BY <2>1, <2>2, <4>1, <4>2, <4>3 DEF OneJob
    <3>2. Cardinality(jobs) = 1
      BY <3>1, FS_Singleton
    <3>3. QED BY <2>2, <3>2
  <2>3. CASE mem[c].ctx # "live"
    <3>1. jobs = {}
      BY <2>1, <2>3 DEF OneJob
    <3>2. Cardinality(jobs) = 0
      BY <3>1, FS_EmptySet
    <3>3. QED BY <2>3, <3>2
  <2>4. QED BY <2>2, <2>3
<1>2. IInv => ContextHasOneJob
  BY <1>1 DEF ContextHasOneJob
<1>3. QED BY <1>2, Invariance, PTL

\* A connection gets at most one response, and none while a handler chain
\* still works on its request.
THEOREM OneResponsePerRequest == Spec => []OneResponse
<1>1. ASSUME IInv, NEW c \in Clients
      PROVE  mem[c].responses <= 1 /\ (mem[c].buffer /\ ~Handling(c) => ~mem[c].reqCtx)
  <2>1. mem[c] \in Rec /\ ClientInv(c)
    BY <1>1 DEF IInv, TypeOK, Rec
  <2>2. mem[c].responses <= 1
    BY <2>1 DEF ClientInv, Owned
  <2>3. mem[c].buffer = TRUE => mem[c].reqCtx = FALSE
    BY <2>1 DEF ClientInv, Owned
  <2>4. mem[c].buffer \in BOOLEAN
    BY <2>1 DEF Rec
  <2>5. QED BY <2>2, <2>3, <2>4
<1>2. IInv => OneResponse
  BY <1>1 DEF OneResponse
<1>3. QED BY <1>2, Invariance, PTL
=============================================================================
