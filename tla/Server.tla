------------------------------- MODULE Server -------------------------------
(***************************************************************************)
(* The single-threaded event loop of server.c, server_connection.c,        *)
(* http_server.c and app/password_worker_http.c, seen as what it is hard   *)
(* to get right in C: who owns a connection, its request and its request   *)
(* context while epoll events, database results, password results, peers   *)
(* that hang up and the shutdown signal arrive in any order.               *)
(*                                                                         *)
(* The two background services are JobService, which DbPool and            *)
(* PasswordWorker are shown to implement.  A client name stands for one    *)
(* connection_t, its http_request_t and its http_request_context_t, which  *)
(* are allocated at most once each.  Handlers run on the loop thread, so a *)
(* whole handler call is one step.  A use of freed memory, or of a freed   *)
(* service, sets the flag `fault` of the client it happens for.            *)
(***************************************************************************)
EXTENDS Naturals, FiniteSets

CONSTANTS
    Clients,
    MaxEvents,  \* MAX_EVENTS of one epoll_wait
    MaxHops,    \* bound: jobs one request may start (length of handler chains)
    MaxStalls,  \* bound: times one response finds the socket full
    PeerMoves   \* what peers may do to the byte stream in this instance

ASSUME BoundsAreNatural ==
    MaxEvents \in Nat \ {0} /\ MaxHops \in Nat \ {0} /\ MaxStalls \in Nat
ASSUME PeersCanSendRequests ==
    "request" \in PeerMoves /\ PeerMoves \subseteq {"partial", "request", "junk", "reset"}

VARIABLES
    mem,        \* per client: the objects and the pointers between them
    net,        \* per client: what the next recv would see
    edge,       \* per client: unreported EPOLLIN edge
    room,       \* per client: the socket can take more output
    batch,      \* events of the current epoll_wait not yet looked at
    main,       \* where the loop thread is
    signalled,  \* SIGINT or SIGTERM is pending on the signalfd
    db, dbPhase, pw, pwPhase    \* the two services

kernel == <<net, edge, room, signalled>>
services == <<db, dbPhase, pw, pwPhase>>
vars == <<mem, kernel, batch, main, services>>

Db == INSTANCE JobService WITH Jobs <- Clients, status <- db, phase <- dbPhase
Pw == INSTANCE JobService WITH Jobs <- Clients, status <- pw, phase <- pwPhase

Fresh == [conn |-> "none", req |-> "none", ctx |-> "none",
          connReq |-> FALSE, reqConn |-> FALSE, reqCtx |-> FALSE,
          buffer |-> FALSE, interest |-> "in", responses |-> 0,
          disposals |-> 0, hops |-> 0, stalls |-> 0, fault |-> FALSE]

Object == {"none", "live", "freed"}

MainPC == [at : {"wait", "batch", "db", "pw", "destroy", "pw_stop", "pw_join", "pw_free",
                 "db_stop", "db_join", "db_free", "reap", "end"}]
          \cup [at : {"parse", "db_handle", "pw_handle"}, client : Clients]

Events == [from : {"listen", "signal", "db", "pw"}]
          \cup [from : {"client"}, client : Clients, mask : {"in", "out", "hup"}]

\* One type invariant: every variable in its range.
TypeOK ==
    /\ mem \in [Clients -> [conn : Object \cup {"backlog", "retired"}, req : Object, ctx : Object,
                            connReq : BOOLEAN, reqConn : BOOLEAN, reqCtx : BOOLEAN,
                            buffer : BOOLEAN, interest : {"in", "out"}, responses : 0..2,
                            disposals : 0..2, hops : 0..MaxHops, stalls : 0..MaxStalls,
                            fault : BOOLEAN]]
    /\ net \in [Clients -> {"empty", "partial", "request", "junk", "reset"}]
    /\ edge \in [Clients -> BOOLEAN]
    /\ room \in [Clients -> BOOLEAN]
    /\ batch \subseteq Events
    /\ main \in MainPC
    /\ signalled \in BOOLEAN
    /\ Db!TypeOK /\ Pw!TypeOK

\* create_server and main.c have set up the listening socket, the signalfd,
\* the pool and the worker.
Init ==
    /\ mem = [c \in Clients |-> Fresh]
    /\ net = [c \in Clients |-> "empty"]
    /\ edge = [c \in Clients |-> FALSE]
    /\ room = [c \in Clients |-> TRUE]
    /\ batch = {}
    /\ main = [at |-> "wait"]
    /\ signalled = FALSE
    /\ Db!Init /\ Pw!Init

At(pc) == main.at = pc
Goto(pc) == main' = [at |-> pc]

-----------------------------------------------------------------------------
(* Object life cycles, as functions of one client's record.  Operators      *)
(* named Bug... are the mistakes that the properties are tested against.    *)

\* Using an object that is not allocated is a fault.
Use(r, allocated) == [r EXCEPT !.fault = @ \/ ~allocated]

\* http_request_dispose.
RequestDispose(r) ==
    [Use(r, r.req = "live") EXCEPT !.req = "freed", !.disposals = IF @ = 2 THEN 2 ELSE @ + 1]

BugKeepContext(r) == r

BugKeepRequest(r) ==
    [Use(r, r.ctx = "live" /\ r.req = "live") EXCEPT !.reqCtx = FALSE, !.ctx = "freed"]

\* http_request_context_dispose.
ContextDispose(r) ==
    LET cut == [Use(r, r.ctx = "live" /\ r.req = "live") EXCEPT !.reqCtx = FALSE, !.ctx = "freed"]
    IN  IF cut.reqConn THEN cut ELSE RequestDispose(cut)

BugDisposeBusyRequest(r) ==
    LET closed == [r EXCEPT !.conn = "retired", !.connReq = FALSE, !.buffer = FALSE]
    IN  IF r.conn # "live" THEN Use(r, r.conn = "retired")
        ELSE IF ~r.connReq THEN closed
        ELSE RequestDispose([Use(closed, r.req = "live") EXCEPT !.reqConn = FALSE])

BugFreeAtOnce(r) ==
    LET closed == [r EXCEPT !.conn = "freed", !.connReq = FALSE, !.buffer = FALSE]
        cut == [Use(closed, r.req = "live") EXCEPT !.reqConn = FALSE]
    IN  IF r.conn # "live" THEN Use(r, r.conn = "retired")
        ELSE IF ~r.connReq THEN closed
        ELSE IF cut.reqCtx THEN cut ELSE RequestDispose(cut)

\* remove_connection: nothing for a connection that is already closed; a
\* request whose context is still with a service outlives its connection.
RemoveConnection(r) ==
    LET closed == [r EXCEPT !.conn = "retired", !.connReq = FALSE, !.buffer = FALSE]
        cut == [Use(closed, r.req = "live") EXCEPT !.reqConn = FALSE]
    IN  IF r.conn # "live" THEN Use(r, r.conn = "retired")
        ELSE IF ~r.connReq THEN closed
        ELSE IF cut.reqCtx THEN cut ELSE RequestDispose(cut)

\* How a write ends: everything written, socket full, socket error (or
\* epoll_ctl refusing to wait for room).
WriteResults(r) == {"all", "error"} \cup {w \in {"full"} : r.stalls < MaxStalls}

\* connection_send_buffer; the response body belongs to the request.
SendBuffer(r, how) ==
    LET used == Use(r, r.conn = "live" /\ r.buffer /\ r.req = "live")
    IN  IF how = "full" THEN [used EXCEPT !.interest = "out", !.stalls = @ + 1]
        ELSE RemoveConnection(used)

\* start_send_http_response; without memory for the header it only closes.
StartSend(r, how) ==
    IF how = "no_memory" THEN RemoveConnection(r)
    ELSE SendBuffer([r EXCEPT !.buffer = TRUE, !.responses = IF @ = 2 THEN 2 ELSE @ + 1], how)

SendResults(r) == WriteResults(r) \cup {"no_memory"}

Set(c, r) == mem' = [mem EXCEPT ![c] = r]

\* The socket buffer is full exactly after a write that did not fit.
RoomAfter(c, how) == room' = [room EXCEPT ![c] = how # "full"]

-----------------------------------------------------------------------------
(* Peers and the operating system. *)

Connect(c) ==
    /\ mem[c].conn = "none"
    /\ ~At("end")
    /\ Set(c, [mem[c] EXCEPT !.conn = "backlog"])
    /\ UNCHANGED <<kernel, batch, main, services>>

\* What a peer may do to the byte stream.  "junk" is what cannot become a
\* request: malformed bytes, the end of the stream and, behind a request that
\* was read, any further byte.
StreamStep ==
    [empty |-> {"partial", "request", "junk", "reset"},
     partial |-> {"request", "junk", "reset"},
     request |-> {"reset"}, junk |-> {"reset"}, reset |-> {}]

BeingRead(c) == main = [at |-> "parse", client |-> c]

\* The peer sends, shuts down its side or resets.
PeerSends(c, what) ==
    /\ mem[c].conn \in {"backlog", "live"}
    /\ what \in StreamStep[net[c]]
    /\ mem[c].connReq /\ ~BeingRead(c) => what \in {"junk", "reset"}
    /\ net' = [net EXCEPT ![c] = what]
    /\ edge' = [edge EXCEPT ![c] = TRUE]
    /\ UNCHANGED <<mem, room, signalled, batch, main, services>>

PeerReads(c) ==
    /\ mem[c].conn = "live"
    /\ ~room[c]
    /\ room' = [room EXCEPT ![c] = TRUE]
    /\ UNCHANGED <<mem, net, edge, signalled, batch, main, services>>

SignalArrives ==
    /\ ~signalled
    /\ signalled' = TRUE
    /\ UNCHANGED <<mem, net, edge, room, batch, main, services>>

ServiceFinishes(c) ==
    /\ \/ Db!Finish(c) /\ UNCHANGED <<pw, pwPhase>>
       \/ Pw!Finish(c) /\ UNCHANGED <<db, dbPhase>>
    /\ UNCHANGED <<mem, kernel, batch, main>>

-----------------------------------------------------------------------------
(* The loop: epoll_wait and the dispatch of one event. *)

MaskOf(c) ==
    IF net[c] = "reset" THEN {"hup"}
    ELSE IF mem[c].interest = "out" THEN {m \in {"out"} : room[c]}
    ELSE {m \in {"in"} : edge[c]}

Finished(status) == \E c \in Clients : status[c] = "finished"

EpollWait ==
    LET ready ==
            {e \in Events :
                \/ e.from = "client" /\ mem[e.client].conn = "live" /\ e.mask \in MaskOf(e.client)
                \/ e.from = "listen" /\ \E c \in Clients : mem[c].conn = "backlog"
                \/ e.from = "signal" /\ signalled
                \/ e.from = "db" /\ Finished(db)
                \/ e.from = "pw" /\ Finished(pw)}
    IN  /\ At("wait")
        /\ ready # {}
        /\ batch' \in {b \in SUBSET ready :
                          \/ Cardinality(b) = MaxEvents
                          \/ b = ready /\ Cardinality(b) < MaxEvents}
        /\ edge' = [c \in Clients |->
                       edge[c] /\ [from |-> "client", client |-> c, mask |-> "in"] \notin batch']
        /\ Goto("batch")
        /\ UNCHANGED <<mem, net, room, signalled, services>>

Take(e) == At("batch") /\ e \in batch /\ batch' = batch \ {e}

\* An event for a connection that an earlier event of the batch closed.
SkipClosed(c, m) ==
    /\ Take([from |-> "client", client |-> c, mask |-> m])
    /\ mem[c].conn # "live"
    /\ Set(c, Use(mem[c], mem[c].conn = "retired"))
    /\ UNCHANGED <<kernel, main, services>>

HangUp(c) ==
    /\ Take([from |-> "client", client |-> c, mask |-> "hup"])
    /\ mem[c].conn = "live"
    /\ Set(c, RemoveConnection(mem[c]))
    /\ UNCHANGED <<kernel, main, services>>

ContinueSend(c) ==
    /\ Take([from |-> "client", client |-> c, mask |-> "out"])
    /\ mem[c].conn = "live"
    /\ \E how \in WriteResults(mem[c]) : Set(c, SendBuffer(mem[c], how)) /\ RoomAfter(c, how)
    /\ UNCHANGED <<net, edge, signalled, main, services>>

BugNeverInProgress(c) == FALSE

\* client_handler's test of conn->state.client.request.
InProgress(c) == mem[c].connReq

\* client_handler with a request in progress: any byte, end of stream or
\* error is taken as the end of the connection.
PeekPending(c) ==
    /\ Take([from |-> "client", client |-> c, mask |-> "in"])
    /\ mem[c].conn = "live" /\ InProgress(c)
    /\ Set(c, IF net[c] = "empty" THEN mem[c] ELSE RemoveConnection(mem[c]))
    /\ UNCHANGED <<kernel, main, services>>

\* client_handler for a new request, up to the call of parse_http_request.
NewRequest(c) ==
    LET begun == [mem[c] EXCEPT !.req = "live", !.connReq = TRUE, !.reqConn = TRUE]
    IN  /\ Take([from |-> "client", client |-> c, mask |-> "in"])
        /\ mem[c].conn = "live" /\ ~InProgress(c)
        /\ \/ Set(c, begun) /\ main' = [at |-> "parse", client |-> c] /\ UNCHANGED room
           \/ Set(c, RemoveConnection(mem[c])) /\ UNCHANGED <<main, room>>
           \/ /\ \E how \in SendResults(begun) : Set(c, StartSend(begun, how)) /\ RoomAfter(c, how)
              /\ UNCHANGED main
        /\ UNCHANGED <<net, edge, signalled, services>>

\* parse_http_request gives up: malformed request, end of stream, error.  It
\* spins for as long as neither this nor a whole request has arrived.
ParseFails(c) ==
    /\ BeingRead(c)
    /\ net[c] \in {"junk", "reset"}
    /\ \E how \in SendResults(mem[c]) : Set(c, StartSend(mem[c], how)) /\ RoomAfter(c, how)
    /\ Goto("batch")
    /\ UNCHANGED <<net, edge, signalled, batch, services>>

\* Bytes that came with the request, and whether their edge is unreported.
Leftover(c) ==
    /\ \E rest \in {"empty"} \cup (PeerMoves \cap {"junk"}) : net' = [net EXCEPT ![c] = rest]
    /\ \/ UNCHANGED edge
       \/ net'[c] # "empty" /\ edge' = [edge EXCEPT ![c] = TRUE]

\* http_server_handle_request answers at once: no such route, no memory for a
\* context, or a first handler that completes.
AnswerAtOnce(c) ==
    /\ BeingRead(c)
    /\ net[c] = "request"
    /\ \E r \in {mem[c], ContextDispose([mem[c] EXCEPT !.ctx = "live", !.reqCtx = TRUE])} :
       \E how \in SendResults(r) : Set(c, StartSend(r, how)) /\ RoomAfter(c, how)
    /\ Leftover(c)
    /\ Goto("batch")
    /\ UNCHANGED <<signalled, batch, services>>

\* http_server_handle_request: the first handler queues a statement.
StartChain(c) ==
    /\ BeingRead(c)
    /\ net[c] = "request"
    /\ Db!Submit(c)
    /\ Set(c, [mem[c] EXCEPT !.ctx = "live", !.reqCtx = TRUE, !.hops = 1])
    /\ Leftover(c)
    /\ Goto("batch")
    /\ UNCHANGED <<room, signalled, batch, pw, pwPhase>>

\* listen_handler: every waiting connection is accepted, or dropped for lack
\* of a resource; a failing accept ends the loop with the rest waiting.
Listen ==
    /\ Take([from |-> "listen"])
    /\ \E accepted, dropped \in SUBSET {c \in Clients : mem[c].conn = "backlog"} :
        /\ accepted \cap dropped = {}
        /\ mem' = [c \in Clients |->
                      IF c \in accepted THEN [mem[c] EXCEPT !.conn = "live"]
                      ELSE IF c \in dropped THEN [mem[c] EXCEPT !.conn = "freed"] ELSE mem[c]]
        /\ edge' = [c \in Clients |-> IF c \in accepted THEN net[c] # "empty" ELSE edge[c]]
    /\ UNCHANGED <<net, room, signalled, main, services>>

\* reap_connections.
Reaped == [c \in Clients |-> IF mem[c].conn = "retired" THEN [mem[c] EXCEPT !.conn = "freed"]
                             ELSE mem[c]]

BugSignalIgnored ==
    /\ At("batch") /\ [from |-> "signal"] \in batch
    /\ batch' = batch \ {[from |-> "signal"]}
    /\ UNCHANGED <<mem, main, kernel, services>>

\* The signalfd: leave the batch, reap, leave the loop.
Signal ==
    /\ At("batch") /\ [from |-> "signal"] \in batch
    /\ batch' = {}
    /\ mem' = Reaped
    /\ Goto("destroy")
    /\ UNCHANGED <<kernel, services>>

ServiceEvent ==
    /\ \/ Take([from |-> "db"]) /\ Goto("db")
       \/ Take([from |-> "pw"]) /\ Goto("pw")
    /\ UNCHANGED <<mem, kernel, services>>

\* reap_connections at the end of the batch.
EndBatch ==
    /\ At("batch") /\ batch = {}
    /\ mem' = Reaped
    /\ Goto("wait")
    /\ UNCHANGED <<kernel, batch, services>>

\* epoll_wait fails for good: serve returns.
EpollFails ==
    /\ At("wait")
    /\ Goto("destroy")
    /\ UNCHANGED <<mem, kernel, batch, services>>

-----------------------------------------------------------------------------
(* Results of the services: db_handler and password_worker_handler.  The    *)
(* same code runs from the loop and, with every connection gone, from       *)
(* destroy_server.                                                          *)

PopDb(c) ==
    /\ At("db")
    /\ Db!Deliver(c)
    /\ main' = [at |-> "db_handle", client |-> c]
    /\ UNCHANGED <<mem, kernel, batch, pw, pwPhase>>

DbDrained ==
    /\ At("db") /\ ~Finished(db)
    /\ Goto(IF dbPhase = "open" THEN "batch" ELSE "db_free")
    /\ UNCHANGED <<mem, kernel, batch, services>>

PopPw(c) ==
    /\ At("pw")
    /\ Pw!Deliver(c)
    /\ main' = [at |-> "pw_handle", client |-> c]
    /\ UNCHANGED <<mem, kernel, batch, db, dbPhase>>

PwDrained ==
    /\ At("pw") /\ ~Finished(pw)
    /\ Goto(IF pwPhase = "open" THEN "batch" ELSE "pw_free")
    /\ UNCHANGED <<mem, kernel, batch, services>>

\* The handlers' test of ctx->request->conn.
PeerGone(r) == ~r.reqConn

Handling(c) == main \in {[at |-> "db_handle", client |-> c], [at |-> "pw_handle", client |-> c]}
BackToDrain == Goto(IF At("db_handle") THEN "db" ELSE "pw")

\* What the handlers read first: the context and its request.
Held(c) == Use(mem[c], mem[c].ctx = "live" /\ mem[c].req = "live")

\* The peer is gone: drop the result, dispose of the context.
DropResult(c) ==
    /\ Handling(c)
    /\ PeerGone(mem[c])
    /\ Set(c, ContextDispose(Held(c)))
    /\ BackToDrain
    /\ UNCHANGED <<kernel, batch, services>>

\* The continuation completes the request (a cancelled password job does, too).
CompleteChain(c) ==
    /\ Handling(c)
    /\ ~PeerGone(mem[c])
    /\ \E how \in SendResults(mem[c]) :
           /\ Set(c, ContextDispose(StartSend(Held(c), how)))
           /\ RoomAfter(c, how)
    /\ BackToDrain
    /\ UNCHANGED <<net, edge, signalled, batch, services>>

\* The continuation queues the next statement of its chain.
ContinueWithDb(c) ==
    /\ Handling(c)
    /\ ~PeerGone(mem[c])
    /\ mem[c].hops < MaxHops
    /\ Db!Submit(c)
    /\ Set(c, [Held(c) EXCEPT !.hops = @ + 1])
    /\ BackToDrain
    /\ UNCHANGED <<kernel, batch, pw, pwPhase>>

\* signup_2 and login_2 go on to the password worker.  Calling a worker that
\* was freed is a fault; one that refuses leads to CompleteChain.
ContinueWithPw(c) ==
    /\ main = [at |-> "db_handle", client |-> c]
    /\ ~PeerGone(mem[c])
    /\ mem[c].hops < MaxHops
    /\ \/ Pw!Submit(c) /\ Set(c, [Held(c) EXCEPT !.hops = @ + 1])
       \/ /\ pwPhase = "released"
          /\ Set(c, Use(mem[c], FALSE))
          /\ UNCHANGED <<pw, pwPhase>>
    /\ BackToDrain
    /\ UNCHANGED <<kernel, batch, db, dbPhase>>

-----------------------------------------------------------------------------
(* destroy_server. *)

\* The while loop that removes every connection of the client list.
AllRemoved ==
    [c \in Clients |-> IF mem[c].conn = "live" THEN RemoveConnection(mem[c]) ELSE mem[c]]

RemoveClients ==
    /\ At("destroy")
    /\ mem' = AllRemoved
    /\ Goto("pw_stop")
    /\ UNCHANGED <<kernel, batch, services>>

\* password_worker_stop cancels what is pending and joins.
StopPw ==
    /\ At("pw_stop")
    /\ \E cancelled \in SUBSET Clients : Pw!Stop(cancelled)
    /\ Goto("pw_join")
    /\ UNCHANGED <<mem, kernel, batch, db, dbPhase>>

JoinPw ==
    /\ At("pw_join")
    /\ \A c \in Clients : pw[c] # "accepted"
    /\ Goto("pw")
    /\ UNCHANGED <<mem, kernel, batch, services>>

FreePw ==
    /\ At("pw_free")
    /\ Pw!Release
    /\ Goto("db_stop")
    /\ UNCHANGED <<mem, kernel, batch, db, dbPhase>>

\* db_pool_stop lets the workers finish what is queued and joins.
StopDb ==
    /\ At("db_stop")
    /\ Db!Stop({})
    /\ Goto("db_join")
    /\ UNCHANGED <<mem, kernel, batch, pw, pwPhase>>

JoinDb ==
    /\ At("db_join")
    /\ \A c \in Clients : db[c] # "accepted"
    /\ Goto("db")
    /\ UNCHANGED <<mem, kernel, batch, services>>

FreeDb ==
    /\ At("db_free")
    /\ Db!Release
    /\ Goto("reap")
    /\ UNCHANGED <<mem, kernel, batch, pw, pwPhase>>

LastReap ==
    /\ At("reap")
    /\ mem' = Reaped
    /\ Goto("end")
    /\ UNCHANGED <<kernel, batch, services>>

Terminated == At("end") /\ UNCHANGED vars

-----------------------------------------------------------------------------

ClientStep(c) ==
    \/ \E m \in {"in", "out", "hup"} : SkipClosed(c, m)
    \/ HangUp(c) \/ ContinueSend(c) \/ PeekPending(c) \/ NewRequest(c)
    \/ ParseFails(c) \/ AnswerAtOnce(c) \/ StartChain(c)
    \/ PopDb(c) \/ PopPw(c)
    \/ DropResult(c) \/ CompleteChain(c) \/ ContinueWithDb(c) \/ ContinueWithPw(c)

LoopStep ==
    \/ EpollWait \/ Listen \/ Signal \/ ServiceEvent \/ EndBatch \/ DbDrained \/ PwDrained
    \/ \E c \in Clients : ClientStep(c)
    \/ RemoveClients \/ StopPw \/ JoinPw \/ FreePw \/ StopDb \/ JoinDb \/ FreeDb \/ LastReap

Next ==
    \/ LoopStep \/ EpollFails \/ SignalArrives
    \/ \E c \in Clients :
        \/ Connect(c) \/ PeerReads(c) \/ ServiceFinishes(c)
        \/ \E what \in PeerMoves : PeerSends(c, what)
    \/ Terminated

\* The peer whose request is being read sends the rest of it, or gives up.
PeerCompletes(c) ==
    /\ BeingRead(c)
    /\ \E what \in PeerMoves \ {"partial"} : PeerSends(c, what)

\* The loop thread and the services run.  Peers are assumed to finish the
\* request that is being read and to read the response: the code has no
\* timeout that would make up for one that does not.
Fairness ==
    /\ WF_vars(LoopStep)
    /\ \A c \in Clients :
        WF_vars(ServiceFinishes(c)) /\ WF_vars(PeerCompletes(c)) /\ WF_vars(PeerReads(c))

Spec == Init /\ [][Next]_vars /\ Fairness

-----------------------------------------------------------------------------
(* Properties. *)

\* No handler touches a connection, request, context or service that was
\* freed: events of a batch for connections closed earlier in that batch,
\* results for peers that are gone, bodies of half-written responses, and
\* the two services during destroy_server.
NoUseAfterFree == \A c \in Clients : ~mem[c].fault

\* Every allocated request is disposed of at most once, and by the time
\* destroy_server returns exactly once, with its context, connection and
\* header buffer (the counts test/server_lifetime.c looks at).
DisposedExactlyOnce ==
    \A c \in Clients :
        /\ mem[c].disposals <= 1
        /\ At("end") => /\ (mem[c].req # "none") = (mem[c].disposals = 1)
                        /\ mem[c].ctx # "live" /\ ~mem[c].buffer
                        /\ mem[c].conn \in {"none", "backlog", "freed"}

\* A context lives exactly as long as one service owes its result (or that
\* result is in the hands of the loop), never two at once: so a live request
\* always has somebody who will dispose of it.
ContextHasOneJob ==
    \A c \in Clients :
        Cardinality({s \in {"db", "pw", "hand"} :
                        \/ s = "db" /\ db[c] # "idle"
                        \/ s = "pw" /\ pw[c] # "idle"
                        \/ s = "hand" /\ Handling(c)})
            = IF mem[c].ctx = "live" THEN 1 ELSE 0

\* One request per connection, at most one response, and none to a request
\* that is still being worked on.
OneResponse ==
    \A c \in Clients : mem[c].responses <= 1 /\ (mem[c].buffer /\ ~Handling(c) => ~mem[c].reqCtx)

\* Every request that was read is eventually disposed of.
EveryRequestEnds == \A c \in Clients : mem[c].req = "live" ~> mem[c].req = "freed"

\* A shutdown signal leads to an orderly end, whatever is in progress.
ShutdownCompletes == signalled ~> At("end")
=============================================================================
