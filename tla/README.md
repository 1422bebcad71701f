# A TLA+ model of ctf-server

ctf-server is a C server for a capture-the-flag contest: one epoll loop, a pool
of database threads, a thread that hashes passwords, and handlers that serve
accounts, challenges, answers and a scoreboard over HTTP from a MariaDB
database. A browser client talks to it. This directory holds TLA+ models of
those parts, the TLC runs that check them on small instances, and TLAPS proofs
about the pool, the password worker, the event loop, the accounts, the contest,
the scoreboard, the parser, request targets, contest times and the browser client
that hold for every number of threads, clients, requests and calls, for tables of
every size and for input of every length.

```
tlc -workers 2 -config DbPoolOrder.cfg DbPoolOrder   # one run; see "Runs"
tlapm ServerProofs.tla                           # one component's proofs
```

`PROJECT.json` lists, for tools, the runs, the source lines behind every
definition (`map`), the hazards, and for each property a mutant: an operator
named `Bug...`, kept next to the definition it stands in for, that breaks the
property the way a plausible mistake in that code would.

## 1. Inventory

### Parts of the system

| part | source (under `src/src/`) | state it keeps | operations |
|---|---|---|---|
| Event loop and connections | `server.c`, `server_connection.c`, `http_server.c` | list of clients, list of closed connections, per connection a request, a request context and a response buffer | `serve`, `listen_handler`, `client_handler`, `db_handler`, `connection_send_buffer`, `remove_connection`, `reap_connections`, `destroy_server` |
| Database pool | `db.c` | task queue, done queue, stop flag, eventfd, one MariaDB connection per thread | `db_pool_new`, `db_exec_query_param`, `db_worker_thread`, `db_pool_get_latest_completed_task`, `db_pool_stop`, `db_pool_free` |
| Password worker | `app/password_worker.c`, `app/password_worker_http.c` | bounded pending list with a counter, done list, stop flag, eventfd, passwords in memory | `password_worker_submit`, `run_password_worker`, `password_worker_pop`, `password_worker_stop`, `password_worker_free` |
| Accounts and sessions | `app/handler_auth.c`, `app/auth.c` | tables `users`, `auth_sessions`; per request a chain of continuations | signup, login, authentication, logout |
| Challenges and answers | `app/handler_challenge.c`, `app/handler_answer.c` | tables `challenges`, `answers`; per request a chain of continuations | create, update, delete, list; submit, list |
| Scoreboard | `app/handler_user.c`, `app/score.c` | two result sets, a merge loop | `GET /users` |
| Contest period | `app/contest.c` | start and end of the contest | gate of `GET /challenges`, end of scoring |
| HTTP request parser | `http_request.c` | receive buffer, state of the parse, slices of the buffer | `parse_http_request`, `parse_chunk`, `parse_method`, `parse_header`, `http_request_get_header` |
| Request paths | `http_request_path.c`, `parse_challenge_id`, `answer_filter` | the target in the receive buffer, rewritten in place, with query parameters pointing into it | `normalize_uri`, `url_decode`, `normalize_path`, `parse_query_params` |
| JSON | `app/json_string.c`, `app/json_parser.c`, `app/json_auth.c`, `app/json_request.c`, `app/json_answer.c`, `app/json.c` | none | reading of strings, documents and the three request bodies; printing of responses |
| HTTP responses | `http_response.c`, `http_print.c` | none | formatting |
| Browser client | `client/src/` (beside `src/src/`) | the token in memory and its version; per page what it shows, `busy`, `pending` and counters that tell late answers from current ones | `SessionService`, `HttpClient.request`, `PageState.read` and `write`, the pages, `MyApp.logout` |

### How they interact

The loop thread runs every handler. A handler that needs the database queues a
statement, stores the next handler in its request context and returns; a pool
thread executes the statement, puts the task on the done queue and writes an
eventfd; the loop reads the eventfd, drains the done queue and calls the stored
handler, which may queue the next statement or finish with a response. Password
jobs work the same way. So a request is a chain of atomic handler calls, and
between two of them anything else can happen: other requests' statements, the
peer hanging up, a failure, the shutdown signal.

The client calls the server over HTTP only. Its pages share the session; a page
subscribes to its changes while it is bound, and each answer is applied only if
the counters it was asked under are unchanged.

Shared between threads: the two queues of the pool, the two lists of the
password worker, and the eventfds. Shared between requests: the tables.

### What is hard

* **Object lifetime.** A connection, its request and its context refer to each
  other; a peer may leave while a job is out, with more events for the closed
  connection in the same epoll batch. Disposal can come from either side first.
* **Notification.** The eventfds are edge-triggered; a wrong order of
  push/write or read/drain strands a finished task for good. Condition variables
  forget signals that find nobody waiting.
* **Shutdown.** Two services are stopped in turn while contexts may be with
  either. The pool drains, the password worker cancels.
* **Check, then act.** Signup, update, delete and submit look first and write
  in a later statement. Others write in between.
* **Failure with an effect.** A connection lost during a statement reports an
  error whether or not the statement took effect, and is never reopened.
* **Pieces.** A request arrives cut anywhere and is parsed as it comes, as
  slices of one buffer with a limit; the target is decoded in place afterwards.
* **Late answers.** In the browser, answers of an earlier session, page or route
  arrive after the user has moved on.
* **Time.** Tokens are honoured for 30 seconds past their expiry, sessions are
  purged at exactly that boundary.

### What makes each part correct

| part | correct when |
|---|---|
| Database pool | an accepted task is in one place, comes back once, is never stranded; stop ends and abandons nothing |
| Password worker | the same, plus: the capacity counter is exact, and no password outlives its job |
| Event loop | no use after free, every request disposed of exactly once, one response, every request ends, shutdown ends |
| Accounts | 201 means the account is yours, 409 and 401 are true, a logout revokes, a valid token works |
| Challenges, answers | losing a race is no server error, 404 is true, one deletion wins, a stored grade was true, what was acknowledged is listed |
| Scoreboard | the merge computes 100 per distinct challenge solved in time, the ranking is unique |
| HTTP request parser | the pieces do not matter, the body is what Content-Length says, headers are the lines, a request within the limits always has room |
| Request paths, JSON, contest times | the result is that of a definition without buffers and loops; the writing cursor never passes the reading one |
| Browser client | what a page shows is the user's own, a session ends only by its own calls, nothing stays blocked, newer data is not overwritten by older |

## 2. Modules

```
JobService            what the loop expects of a background service (abstract)
 |- DbPool            implements it      |- DbPoolOrder (with history); DbPoolProofs
 |- PasswordWorker    implements it      |- MCPasswordWorker; PasswordWorkerProofs
 `- Server            uses it twice      |- MCServer; ServerProofs
HttpParser            one request        |
HttpChunks            the same, twice    |- MCHttpChunks; HttpParserProofs
RequestPath           one target         |
JsonText, JsonBody    pure functions     |- MCTexts; ReferenceProofs
ContestTime           pure function      |
TextReferences        what those compute |
Accounts              handler chains     |- MCAccounts; AccountsProofs
Contest               handler chains     |- MCContest; ContestProofs
Scoreboard            one request        |- MCScoreboard; ReferenceProofs
Client                the browser        |- MCClient; ClientProofs
```

**JobService** is the interface: `Submit`, `Finish`, `Deliver`, `Stop` (which may
cancel), `Release`. Its specification promises that each accepted job is
finished once and delivered once, nothing is accepted after the stop, release
comes when nothing is owed; and, as liveness, that each accepted job returns and
a stop leads to the release. `DbPool` and `PasswordWorker` are checked to
implement it (`ImplementsJobService`), and `Server` is built on two instances
of its actions, so the loop is checked against the promise and not against the
detail of each queue.

**DbPool** (`db.c`; `db_handler` and `destroy_server` in `server.c`). `taskQ`,
`doneQ` and `stop` are the queues; `worker[w]`, `cur[w]`, `linked[w]` a thread,
its task and its connection; `counter` and `edge` the eventfd and its place on
epoll's ready list; `main` and `hand` the loop. A critical section of a mutex is
one step, everything between two critical sections is a step of its own:
`Pop`, `Exec`, `PushDone`, `Notify` for a thread; `ExecQuery`, `EpollWait`,
`ReadCounter`, `Drain`, `HandleTask`, `DbPoolStop`, `Join`, `DbPoolFree` for the
loop. Spurious wakeups, failed connections and a failing `pthread_create` are
included. A task is named after its request context, which owns at most one.
`DbPoolOrder` adds two history variables: `before`, the order in which the
outstanding tasks were accepted, and `took`, the threads that ever held one.

**PasswordWorker** (`password_worker.c`, `password_worker_http.c`). Same shape
with one thread, the bound `Capacity` (16 in the code), the counter `waiting`
beside the list, `input[j]` (the job holds a password) and cancellation in
`Stop`.

**Server** (`server.c`, `server_connection.c`, `http_server.c`). `mem[c]` is one
client's objects (`conn`, `req`, `ctx`) and the pointers between them
(`connReq`, `reqConn`, `reqCtx`); `net`, `edge` and `room` are the socket;
`batch` the events of the current `epoll_wait`. A handler call is one step,
because handlers run on one thread. `RemoveConnection`, `ContextDispose` and
`SendBuffer` are the functions of those names on one client's record. Touching
an object that is not allocated, or a freed service, sets `fault`. What peers
send is abstracted to whether a whole request, a part of one, or something else
has arrived. `parse_http_request` spins on EAGAIN, so the loop is in `parse`
until the peer finishes or gives up.

**Accounts** (`handler_auth.c`, time rules of `auth.c`, keys of
`migration/0_schema.sql`). One action per continuation (`Signup1` ...
`Logout2`); `ExecStatement` and `FailStatement` are the database,
`FinishPassword` the worker, `Abandon` a peer that left. Rows and tokens are
named after the request that creates them.

**Contest** (`handler_challenge.c`, `handler_answer.c`). One action per
continuation (`PutChallenges1` ... `GetOwnAnswers3`), the cascade of the foreign
key, the gate before the start of the contest and the clock it reads, which may
fail. An UPDATE reports the rows it
changed, as MariaDB does by default, which is why a PUT of the present content
takes the extra look of `PutChallenges4`. `Undecodable` are flags with half a
surrogate pair, which POST and PUT store and grading cannot decode.

**Scoreboard** (`handler_user.c`, `score.c`). The two SELECTs with other
requests in between, both sorts with any order of equal keys, and one action per
turn of the merge loop. Its specification is `BoardSpec`.

**HttpParser** (`http_request.c`). `stream` is what the client sends, `got` and
`i` how much of it is received and parsed, `state` the parser's state, `req` the
slices of the buffer. `Recv(n)` receives any number of bytes that fit, and each
state of `parse_chunk` is an action on one byte. Bytes are the classes the code
tells apart; the limits are constants. **HttpChunks** runs the parser twice on
the same stream: first it is handed as much as the buffer takes in one piece, then
the stream comes in any pieces and `recv` may fail; `once` keeps what the first run
returned.

**RequestPath** (`http_request_path.c` and the readers of the query in the
handlers). `buf` is the target in the receive buffer, `r` and `w` the cursors of
the loop that is running: `FindQuery`, `ReadParam`, `UrlDecode`, `Decoded`,
`Form`, `NormalizeSegment`, `CopyByte` (one step per byte that the segment copy
moves), `Normalized`. `ReadChallengeId` and `AnswerFilter`
read a parameter out of the buffer after that, with `INT_MAX` as a constant.

**JsonText** (`json_string.c`, `parse_json_str`) works on bytes: escapes,
surrogate pairs, UTF-8, the comparison of two spellings and the decoder.
**JsonBody** (`json_parser.c` and the three request readers) works on tokens:
nesting, depth, duplicate and unknown members. **ContestTime** (`contest.c`)
works on the fields of a timestamp. **TextReferences** says what all of these
should compute, in another way: as a set of results, empty for a refusal.

**Client** (`client/src`). JavaScript runs one task at a time, so an action is a
click, a step of the router, or an answer with everything its awaiting code does
before it awaits again. `session` is the user of the token, `pages` the page that
is bound and the one that is loading, `calls` the requests under way. The code's
counters (`version`, `generation`, `lifetime`, `historyGeneration`) are only
incremented and compared with earlier copies, so a call carries the names of the
copies that are still equal (`stamps`) and an increment takes the name away from
every call that holds it. This is exact and leaves a finite state space without
a bound on the length of a session. `Answered`, `Fulfilled`, `Rejected` and
`Refused` are the ends of `HttpClient.request`; `After...` is the code behind the
`await`.

## 3. Runs

All passing runs finish in under three minutes on two cores. Deadlock is checked
for the components with threads; `Accounts` and `Contest` stop when each of
their requests has been answered, so their runs do not check it.

| run | instance | checks | shows |
|---|---|---|---|
| `db_pool` | 3 tasks, 2 threads | `OneOwner`, `NoLostNotification`, `NoLostSignal`, `NothingAbandoned`, `StatementsInOrder`, `ImplementsJobService` | ownership, order of statements, wakeups, shutdown, and the promise to the loop |
| `password_worker` | 3 jobs, capacity 2 | `WaitingIsExact`, `OneOwner`, `ImplementsJobService` | the counter, ownership and erasure of passwords, with a full queue and a cancelling stop |
| `server` | 2 clients, batches of 2, chains of 3 | `NoUseAfterFree`, `DisposedExactlyOnce`, `ContextHasOneJob`, `OneResponse` | lifetimes under hang-ups, partial writes, late results, shutdown |
| `server_live` | 2 clients, whole batches, chains of 2 | `EveryRequestEnds`, `ShutdownCompletes` | requests and shutdown end |
| `accounts` | up to 3 requests for a new name; 4 for an old account, clock 0..2 | `CreatedOwnsTheName`, `ConflictIsTrue`, `TokenHasSession`, `LogoutRevokes`, `ValidTokenHonoured` | races for a name with failures; revocation, and purge against grace period |
| `contest` | 3 requests, 2 users, 1 challenge and those created | `ErrorIsTrue`, `SuccessIsTrue`, `GradeWasTrue`, `AcknowledgedIsListed` | update, delete and submit racing; own and public listings against creations, deletions and the start |
| `contest_shows_all` | list and delete | `ListShowsAll`, **violated** | finding 1 |
| `scoreboard` | 3 users, 2 challenges, 3 answers | `ScoreIsReference` | the merge and the ranking against the count of distinct challenges |
| `http_parser` | some 6,700 streams of up to 21 bytes, cut in every way | `ChunksDoNotMatter`, `RoomToReceive`, `BodyIsFramed`, `HeadersAreTheLines` | the incremental parser is a function of the stream |
| `texts` | targets, queries, strings, bodies and dates, see below | `WritesBehindReads`, `PathIsReference`, `IdIsExact`, `StringIsReference`, `BodyIsReference`, `TimeIsReference` | in-place rewriting and decoding against the references |
| `client` | 2 users, 1 challenge and a route without one, all pages, 2 calls at once | `PrivateIsOwn`, `LoggedOutLeaves`, `NothingStuck`, `ResultIsInHistory`, `EndedByItsOwnCall` | late answers against logins, logouts and navigation |
| `client_history` | login page and own answers | `HistoryIsOwn`, **violated** | finding 2 |

The invariants named `TypeOK` document the variables and are not part of a run;
section 4 proves them for `DbPool`, `PasswordWorker`, `Server`, `Accounts`,
`Contest`, `Scoreboard`, `HttpParser` and `Client`.

### Bounds

The theorems of section 4 hold without these bounds, for the properties they
name. The bounds matter for the others, and for liveness.

* *Pool:* three tasks and two threads give every pair race: two threads on the
  last task, two pushes before one drain, a push against a stop, a task
  overtaken by a later one.
* *Password worker:* one more job than the capacity, so the queue fills up with
  a job in work, and a stop finds jobs pending, in work and done at once.
* *Server:* `MaxEvents` 2 (10 in the code) makes batches that leave events
  behind; two clients let one connection's event close another's batch mate and
  let results of both be drained in one handler call. `MaxHops` 3 is enough for
  database, password, database; the code's longest chain has four jobs of the
  same two kinds. `MaxStalls` 1 gives a response one interrupted write.
* *Accounts:* three requests for two rivals and a witness that logs in; four for
  a login, a second login that purges, a logout and an access. `Ttl` and `Skew`
  are 1, so the clock crosses both boundaries. `MCAccounts` keeps the two
  workloads apart to stay within reach: signups for the new name are not mixed
  with logouts of the old account, which uses other rows.
* *Contest:* three requests for two writers and a submission; `MaxHurt` bounds
  requests that meet a fault other than the lost connection, which hits all.
  The workloads of `MCContest` are changes that race in a contest that has
  begun (the owner's and at most one by a stranger, which is refused at its
  first look, with the submissions of another user), and one user's changes and
  submissions with his own and the public listings that should show them, also
  before the start.
* *Scoreboard:* every table of up to three answers over times before, between
  and at the end, so repeated solutions, late answers and users missing from the
  first SELECT all occur.
* *HTTP parser:* a head of 16 bytes and a buffer of 19, two headers, `SIZE_MAX`
  25, methods of one and two letters. Header names are one letter each. Every
  stream is a well-formed beginning with every tail of up to four bytes over the
  separators and some letters, or one of a list of longer ones that meet each
  limit exactly, below and above.
* *Texts:* `INT_MAX` 255 (so that three digits straddle it), two query
  parameters, nesting depth two. Targets are all sequences of up to five bytes
  after a slash, up to four segments out of seven kinds, up to four escaped
  pieces, absolute forms, and queries of up to five bytes; bodies are token
  sequences around the accepted forms; dates cross leap years, centuries and
  midnight in both directions.
* *Client:* two calls under way at once, so a call of a past page, route or
  session meets one of the present; two users, so that data can be the wrong
  user's. Behaviours are of any length.

Symmetry sets are used only in runs without liveness properties, and only over
names that no definition tells apart.

### Fairness

Weak fairness for each worker thread and for the loop thread: the operating
system schedules threads that can run, MariaDB answers a statement or breaks the
connection, a hash ends. None for clients, signals, spurious wakeups or failing
calls. `server_live` also assumes that the peer whose request is being read
finishes it or gives up, and that a peer reads its response. The code does not
enforce the first: `parse_http_request` has no timeout and spins on EAGAIN, and
one silent peer holds the loop; without this assumption neither
`EveryRequestEnds` nor `ShutdownCompletes` is true, so neither covers the hazard
listed at that line. This is a limit of the code, stated here as an assumption.

### Findings

1. `contest_shows_all`: when the rows of its SELECT cannot be bound,
   `handle_get_challenges_2` (`handler_challenge.c:63`) answers 200 with an empty
   list, where `docs/openapi.yaml:84` promises all challenges and the sibling
   handler for one's own challenges answers 500. A client cannot tell the
   failure from an empty contest.
2. `client_history`: `HistoryPage.refresh` (`history-page.ts:38`) awaits a
   protected and a public request together. If the protected answer has come and
   the session then ends while the page is still loading, the page, which
   subscribes to the session only when it is bound, does not hear of it, and the
   own answers are shown after the logout. `client/README.md:87` and the test at
   `client/test/pages/pages.spec.ts:11` say that private data goes with the
   session. The page that is bound already is safe, and so is `DetailPage`,
   which compares the version again.

Seen on the way, and not contradicting any document:

* A flag with half a surrogate pair passes `read_challenge_field` and is stored,
  but `json_string_decode` refuses it, so every submission to that challenge is
  answered 500 (`ErrorIsTrue` names this case).
* Member names are compared decoded in `json_auth.c` and by their spelling in
  `json_request.c` and `json_answer.c`.
* The first byte of a header name is not checked for white space, although the
  later ones are (`http_request.c:337-376`).

### Assumptions

* The server and MariaDB read the same clock, and it does not go back.
* `AUTO_INCREMENT` ids and random ids are not used twice.
* A statement is atomic (autocommit, InnoDB). `Accounts` and `Contest` let
  statements of different requests run in any order, which includes the queue
  order that `StatementsInOrder` shows.
* `NUM_DB_WORKER_THREADS` is 1, so one lost connection fails all later
  statements (`dbUp`).
* Hashes verify only the password they were made from.
* The router awaits `loading()` before it unbinds the old page and binds the new
  one, does both in the task in which `loading()` settles, and may give a route
  that differs in a parameter to the same instance. It starts one navigation at
  a time.

## 4. Proofs

Each theorem holds for every value of the constants that satisfies the named
assumptions. Every proof has the same outline: an inductive invariant `IInv`
(which TLC checked on the instances of section 3 first), a lemma that `Init`
implies it, lemmas that each action keeps each of its parts, and the theorems as
consequences.

| module | theorem | statement |
|---|---|---|
| `DbPoolProofs` | `TypeCorrect` | `Spec => []TypeOK` |
| | `SingleOwnership` | `Spec => []OneOwner` |
| | `FreeAbandonsNothing` | `Spec => []NothingAbandoned` |
| | `NotificationNotLost` | `Spec => []NoLostNotification` |
| | `SignalNotLost` | `Spec => []NoLostSignal` |
| | `OrderKept` | `HistorySpec => []StatementsInOrder` |
| | `ImplementsSafely` | `Spec => Abstract!Init /\ [][Abstract!Next]_(Abstract!vars)` |
| `PasswordWorkerProofs` | `TypeCorrect` | `Spec => []TypeOK` |
| | `CounterIsExact` | `Spec => []WaitingIsExact` |
| | `SingleOwnership` | `Spec => []OneOwner` |
| | `SignalNotLost`, `NotificationNotLost` | as for the pool |
| | `ImplementsSafely` | as for the pool, with a stop that may cancel |
| `ServerProofs` | `TypeCorrect` | `Spec => []TypeOK` |
| | `NothingFreedIsUsed` | `Spec => []NoUseAfterFree` |
| | `EveryObjectIsFreed` | `Spec => []DisposedExactlyOnce` |
| | `OneJobPerContext` | `Spec => []ContextHasOneJob` |
| | `OneResponsePerRequest` | `Spec => []OneResponse` |
| `AccountsProofs` | `TypeCorrect` | `Spec => []TypeOK` |
| | `OneWinner` | `Spec => []CreatedOwnsTheName` |
| | `TrueRefusals` | `Spec => []ConflictIsTrue` |
| | `TokensAreBacked` | `Spec => []TokenHasSession` |
| | `LogoutIsFinal` | `Spec => []LogoutRevokes` |
| | `GoodTokensAreHonoured` | `Spec => []ValidTokenHonoured` |
| `ContestProofs` | `TypeCorrect` | `Spec => []TypeOK` |
| | `ErrorsAreTrue` | `Spec => []ErrorIsTrue` |
| | `SuccessesAreTrue` | `Spec => []SuccessIsTrue` |
| | `GradesWereTrue` | `Spec => []GradeWasTrue` |
| | `AcknowledgedAnswersAreListed` | `Spec => []AcknowledgedIsListed` |
| `HttpParserProofs` | `TypeCorrect` | `Spec => []TypeOK` |
| | `RecvHasRoom` | `Spec => []RoomToReceive` |
| | `BodiesAreFramed` | `Spec => []BodyIsFramed` |
| | `HeadersAreLines` | `Spec => []HeadersAreTheLines` |
| | `ChunksAreIrrelevant` | `ChunksSpec => []ChunksDoNotMatter` |
| `ClientProofs` | `TypeCorrect` | `Spec => []TypeOK` |
| | `PrivateDataIsOwn` | `Spec => []PrivateIsOwn` |
| | `NobodyStays` | `Spec => []LoggedOutLeaves` |
| | `NothingGetsStuck` | `Spec => []NothingStuck` |
| | `ResultIsListed` | `Spec => []ResultIsInHistory` |
| | `OnlyItsOwnCallEndsASession` | `Spec => EndedByItsOwnCall`, an action property |
| `ReferenceProofs` | `RewritesAreSafe` | `Spec => []WritesBehindReads` (`RequestPath`) |
| | `IdsAreExact` | `TextsSpec => []IdIsExact` |
| | `PathsAreReference` | `TextsSpec => []PathIsReference` |
| | `TimesAreReference` | `TextsSpec => []TimeIsReference` |
| | `TypeCorrect` | `BoardSpec => []TypeOK` (`Scoreboard`) |
| | `ScoresAreReference` | `BoardSpec => []ScoreIsReference` |

### Assumptions on the constants

* `NoneIsNoTask`, `NoneIsNoJob`, `NoneIsNoId`: the value that stands for "no
  task" (a null pointer, an absent id) is none of the tasks, jobs or ids.
* `CapacityIsPositive`, `BoundsAreNatural`, `TimesAreNatural`: sizes and times
  are numbers, the capacity, a batch and a token's lifetime are not zero.
* `PeersCanSendRequests`, `OpsAreKnown`: the sets of moves and operations are
  among those the models define.
* `SeedsAreNames`, `SeedsAreRows`, `IdsAreUnique`: the rows that exist at the
  start are rows, have distinct ids, and no request creates one of these ids
  (`AUTO_INCREMENT`, random ids). `SomeFlagsAreTexts`: undecodable flags are flags.
* `LimitsAssumption` (`0 < MethodPeek < MaxHeaderBytes < MaxRequestBytes`, as in
  `http_request.h`), `MethodsAssumption` (method names are shorter than the
  bytes peeked at and hold no blank), `StreamsAssumption`,
  `NormalizeUriAssumption` (one of its three results).
* `UrisAssumption` and `SchemesAssumption` (targets and schemes are sequences of
  bytes, and a target is not empty, which the parser ensures; a scheme has more than
  one byte and no capitals, and none begins with another, as with `http://` and
  `https://`), `BoundsAssumption`
  (`MAX_QUERY_PARAMS` is a number and `INT_MAX` at least 9), `DatesAssumption`
  (dates have the fields of a timestamp, each any number its digits can give).
* `IdsArePositive` (ids in the tables are, and times are numbers),
  `TablesAreFinite` (finitely many users, challenges and times; nothing bounds
  how many).
* `KindsAreKnown` (the pages of an instance are among those of the client),
  `BadIdsAreInRoutes` (ids that are no number are among those that routes have)
  and `NoneIsNothingElse` (`None` is no user, challenge, slot or piece of data).

TLC evaluates all of them on each run of their module.

### The arguments

**DbPool.** `IInv == TypeOK /\ OneOwner /\ Control`. None of its parts is
inductive alone: ownership needs to know that a thread holds a task exactly
between pop and push (`HoldsWhileWorking`), and that nothing abandoned needs the
chain *a thread exits only when stopped and drained* (`ExitedMeansDrained`), *the
loop knows that it stopped* (`StopAgreesWithMain`), *after the join nobody adds a
result* (`JoinedMeansQuiet`), *free comes after the last drain*
(`DrainedBeforeFree`). `QuietWhileCreating` and `AllCreated` cover the error path
of `db_pool_new`. `NotificationNotLost` and `SignalNotLost` are inductive given
`IInv`, and each is the argument a reader of `db.c` would make: the push comes
before the write, the read before the drain, so whoever leaves a task behind also
leaves an edge; and a thread goes to sleep only when it has seen the queue empty
under the mutex. `OrderKept` adds `HistoryFacts`: `before` relates outstanding
tasks only and never both ways, and a thread that holds a task is in `took`. What a
step does to `outstanding` then decides what it does to `before` (`HistoryStep`),
and two lemmas about queues (`AppendInOrder`, `TailInOrder`) do the rest.

**PasswordWorker.** The same shape with `WaitingIsExact` as a part: `OneOwner`
says where each job is and that only a job that is pending or in work holds a
password. `ClearedBeforeAppend` says that the password is gone before the job
reaches the done list, `StoppedIsEmpty` that a cancelling stop leaves nothing
pending and that the thread leaves its loop only after it, `NoThreadNoJob`
covers the error path of `password_worker_new`.

**The two refinements.** Under the mapping of `Service`, a step of the detailed
module is shown to be `Submit`, `Finish`, `Deliver`, `Stop`, `Release` of
`JobService` or a stutter, action by action (`RefinesInit`, `RefinesNext`). The
queues are sequences below and sets above; `OneOwner` is what makes a pop remove
exactly one member. The fairness of `JobService!Spec` is checked by TLC only.

**Server.** `IInv` is `TypeOK`, `BatchInv` (events of a batch are for connections
that are open or closed but not yet freed), `PhaseInv` (where the loop thread is
while the services are open, stopped and freed, and that neither events nor
connections are left by then) and `ClientInv`, which for each client says who
owns what: `Owned` (connection, request and context and the pointers between them
agree), `OneJob` (a live context is with one service or with the loop, never with
two) and that the client in `parse_http_request` has all it needs and no
response. Lifetime and jobs need each other: a late
result is safe because its context is still allocated, and that is so because the
context is disposed of only by its own result. `ServiceSteps` shows that every
step takes one step of each service or leaves it alone, so the proof uses of a
service only what `JobService` promises and the two refinements establish.

**Accounts.** `IInv` is `TypeOK`, `UsersTable` and `SessionsTable` (keys, and who
made each row) and, for each request, `Facts(r)`: what the request may rely on in
the handler it waits in (`SignupFacts`, `LoginFacts`, `TokenFacts`) and what its
answer implies (`Answered`). The table invariants carry a row from the statement
that wrote it past all the statements of others to the answer that reports it;
`Facts` is stated so that other requests' steps cannot disturb it, and each
action needs an argument for its own request and one for the others. The clock
enters twice: a purge deletes what no valid token can name, because the boundary
of the purge is that of the grace period.

**Contest.** The same plan with `ChallengesTable`, `AnswersTable`, `OneDeletion`
(two requests that were told they deleted the same challenge are one) and, for
each request, `Asked`, `LookFacts`, `ChangeFacts`, `SubmitFacts`, `ListFacts` and
`Answered`. `AnswersTable` ties each stored grade to a flag the challenge had
while the submission was under way; the cascade of a deletion keeps the foreign
key, which is what a 404 of a lost race rests on.

**HttpParser.** `IInv == Types /\ Positions /\ Learnt`. `Positions` orders the
cursors against what was received and the limits, which gives room for the next
`recv`. `Learnt` says what each state of the parser knows: about the stream, not
about the pieces, so receiving cannot disturb it, and the properties of a
completed request follow however the stream was cut. For headers it says that the
stored ones are the lines before the cursor, cut at the first colon and trimmed;
the two trimming loops need to know that everything skipped was white space. That the
digit loop of `Content-Length` computes the value of its digits, and stops exactly
when it would pass `SIZE_MAX`, is shown with the least counterexample.

**Chunks.** That the cuts do not matter is about two runs, and is proved by
comparing both with a third that has no cuts to speak of. `OnByte(s, c, k)` is what
byte `k` of stream `s` makes of a configuration `c` of the parser, defined on the
stream alone; `Run(s)` is the sequence of configurations it leads through, and
`Verdict(s)` what comes out at the end of all that can be received. `Follows` says
that a parser that has not returned is at a point of this sequence: at byte `i` in
the head, at the byte where the body begins while it skips the body, and before
the first point while the method is not complete. Each action of the parser goes
to the next point (`HeadFollows`, `MethodFollows`, `BodyFollows`; the
`...Consumes` lemmas show it state by state), a chunk's end and a `recv` stay
(`RecvFollows`), and a return, with success or with a refusal, is the verdict:
once the sequence has left the head it does not change any more (`RunStops`). The
three places that look at more than one byte need care: the method, which waits
until `MethodPeek` bytes have arrived and starts again from its first byte, so it
needs that the method found is unique (`MethodUnique`); the value of
`Content-Length` and the version, whose slices are all received when they are
read (`SliceIsText`, `ParseHeaderIsTaken`); and the body, of which a chunk brings a
part.

**Client.** `IInv` says of each call what its stamps are worth. `SessionFacts`: a
protected call whose `version` is current was made by the present user.
`PageFacts`: one whose `lifetime` is current belongs to the page in its slot and
has its id; only reads have a `generation`, and those of the pages that ask one
protected request wait for nothing else, so that their data cannot be older than
the version check. That last part is what `HistoryPage` lacks (finding 2), and
why `PrivateIsOwn` excludes it. `NextFacts` is about the page that loads, which no
listener resets: it has one call at most, and private data only when that call is
over, and then `Loaded` keeps everything but `Bind` from happening; without that
guard the theorem fails. `BusyFacts`, `PendingFacts` and `LogoutFacts` say that a
flag and exactly one call go together, `HistoryFacts` with `PageFacts` that a list
which may still replace the one beside a result was asked for after it. The steps
share four lemmas: `Others` (a call that only loses stamps keeps its facts, if the
counters that moved are among the lost ones), `EndStep` (a call ends, its page is
what `PageLeft` says), `SessionStep` (the session starts or ends) and
`HistoryCalls`.

**Request targets.** `PathIInv` orders the two cursors and the end of the path in
each loop (`Cursors`), and says that the path ends where the first question mark
was (`QueryIsCut`), that the bytes behind it are those received
(`QueryUntouched`) and that every parameter is a slice of them (`ParamsInQuery`).
`url_decode` reads one or three bytes for each it writes. `normalize_path` is the
harder one: a `..` moves the writing cursor back, and a copied segment with its
slash must still end at or before what is read next; the copy is one step per byte
so that the invariant can say how far it has come (`from`).

**Paths.** `PathFound` follows the reference through the loops that rewrite the
buffer. `Decoding`: the decoded target is what is written, followed by what the
recursion of `PercentDecoded` makes of the bytes not read yet; a byte or an escape
moves from the second to the first (`DecodeNext`), and where the code refuses one,
the reference has no result (`RefusedFinds`). For the form of a target, the code
compares after lowering capitals, the reference looks for either letter
(`MineIs`), and only one scheme can fit (`MineIsOne`). `Normalizing` is the one that
matters: there are a path `p`, whose bytes behind the reading cursor are still in the
buffer, a number `j` of its names that are read (`Remains`), the names `st` they
resolve to (`Reaches`), and a text `t` that spells `st` (`Spells`) and consists of
what is written and what is to be copied yet (`Built`). A segment of the buffer is the
next name of `p` (`SegmentIsName`). A `..` goes back to the last slash written, which
is where the last name of `st` begins because no name holds a slash (`SpellsFront`,
`ParentFacts`), and a `..` with nothing written is one that the reference refuses,
because only the empty list is spelt by the empty text (`SpellsEmpty`). The reference is a
set of at most one result, so that a refusal stays one whatever follows
(`ReachesNoMore`).

**Ids.** `IdIsExact` is about the query, which is read after the path before it
was rewritten. `QueryRead` says that the parameters read so far, as texts, followed
by what the reference makes of the rest of the query, are what the reference makes
of the whole; `ReadParam` moves one pair from the right to the left
(`QueryReference` is a recursive function, unfolded once per turn). With
`QueryUntouched` the texts are still there when the handler looks. The digit loop
of `parse_challenge_id` is a fold that stops at the first byte that is no digit and
at the first value past `INT_MAX`; an induction over its turns shows that it keeps
the value of the digits read and that the refusals are those of the reference,
whatever `INT_MAX` is.

**Contest times.** The code counts leap days with the divisions of a formula, the
reference counts the days that are on the calendar. `LeapsBefore(y)` is shown to
have as many members as the formula says, by induction over the year, then the
days of the months before, and the seconds of the day with their offset. Four-digit
years bound nothing here: the theorem is for every year from 1970 on.

**Scoreboard.** `IInv` has a part for each stage. `Fresh`: before the walk nothing
is consumed and every score is 0. `ListsUsersOnce`, `UsersSorted` and
`AnswersSorted`: the arrays hold the rows of the two SELECTs, each user once, in the
order of the sorts. `ScoresSoFar` is about the merge: a score is 100 for each
challenge that counts among the answers consumed (`Counted`). A challenge is counted
once because a user's challenges come in ascending order and `last_challenge` is the
greatest that counted (`LastIsLast`). No answer is missed when the walk goes on to
the next user, because what is consumed is not beyond the current user and what is
left is beyond all users before (`Apart`), also for users that only one of the two
SELECTs saw. At the end `Counted` is `Solved`, the set the reference counts, and
`Ranking` says that the final sort keeps the scores and is strict.

The library's induction theorems have an operator as a parameter, so
`ReferenceProofs` gets induction and the unfolding of its recursive functions from
the least counterexample in a set of numbers (`UpTo` and its neighbours).

### Only model-checked

* Liveness: `ImplementsJobService` beyond the two safety halves,
  `EveryRequestEnds`, `ShutdownCompletes`.
* `StringIsReference`: JSON strings are checked over a table of chosen bytes that
  stand for the classes of UTF-8 and the escapes.
* `BodyIsReference`: the reader of a body is a recursive descent, the reference a
  grammar, and the proof an induction over documents.
* `HistoryIsOwn` is false (finding 2), and so is `ListShowsAll` (finding 1).

## 5. Not modelled

* Cryptography, JWT encoding and verification, MariaDB itself: external, by what
  they return. Tokens that do not verify are refused before any state changes.
* Printing of responses (`json.c`, `http_response.c`, `http_print.c`), logging,
  configuration; `json_to_challenge` and `json_to_challenges`, which only tests
  call.
* The repositories: they copy result rows into structures. What a failure of
  theirs leads to is in the handler models.
* Failing allocations outside the statements, and the body limit of the auth
  endpoints.
* In the client: rendering, the shapes of responses (`api.ts`; a wrong shape is a
  failed call), and the wait for the start of the contest in `ChallengesPage` and
  `DetailPage.canLoad`.
* The caller's copy of a password: `password_worker_submit` erases it before each
  of its returns, in one call in which nothing else happens. `InputErased` is about
  the copy in the job, from acceptance to the result or the cancellation.
* The end-to-end tests.

## 6. Plan

1. *Done:* JobService, DbPool, PasswordWorker, Server, Accounts, Contest,
   Scoreboard with their runs; the parser, paths, JSON and contest times against
   references; the browser client.
2. *Done:* the proofs of section 4, with those against references.
3. Left: `StringIsReference` for every string, for which the table of characters
   would have to be a definition of UTF-8; and printing of responses, if a property
   of them turns up that is worth a model.
