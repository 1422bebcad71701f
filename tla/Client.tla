------------------------------- MODULE Client -------------------------------
(***************************************************************************)
(* The browser client: the session kept in memory, the pages and the       *)
(* requests they have under way (client/src).                              *)
(*                                                                         *)
(* JavaScript runs one task at a time, so an action is a whole task: a     *)
(* click, a step of the router, or an answer together with everything      *)
(* that the code awaiting it does before it awaits again.  Between tasks   *)
(* any number of calls wait for the server, which answers in any order or  *)
(* fails, and the user goes on clicking.                                   *)
(*                                                                         *)
(* The code tells late answers from current ones by counters: the version  *)
(* of the session, and the generation, lifetime and historyGeneration of   *)
(* a page.  A counter is only incremented and only compared with an        *)
(* earlier copy of itself, so a call carries the names of the copies it    *)
(* holds that are still equal to their counter, and an increment takes the *)
(* name away from the calls that hold it.  No bound on counters is needed. *)
(***************************************************************************)
EXTENDS Naturals, FiniteSets

CONSTANTS
    Users, Ids,    \* who logs in, and what routes have for the id of a challenge
    BadIds,        \* such that are no number: parseId gives undefined
    Kinds,         \* the pages of this instance besides HomePage
    CallIds,       \* bounds the calls that can be under way at once
    None

\* "list" stands for the challenge list and the ranking, "mine" for the own
\* challenges, "answers" for the own answers.
PageKinds == {"auth", "list", "detail", "mine", "editor", "answers"}
PrivateKinds == {"mine", "editor", "answers"}

\* What a page keeps of its user: private data, and the outcome of a submission.
Data == [user : Users \cup {None}, id : Ids \cup {None}, knows : BOOLEAN]
Outcomes == [user : Users \cup {None}, id : Ids \cup {None}]

ASSUME KindsAreKnown == Kinds \subseteq PageKinds
ASSUME BadIdsAreInRoutes == BadIds \subseteq Ids
ASSUME NoneIsNothingElse ==
    /\ None \notin Users \cup Ids
    /\ None \notin {"shown", "next"}
    /\ None \notin Data /\ None \notin Outcomes

VARIABLES
    session,   \* the user whose token SessionService holds, None without one
    hash,      \* kind of page that the code has asked the router for
    loading,   \* the page whose loading() the router awaits, or None
    pages,     \* the page that is bound and the one to come
    calls,     \* the asynchronous calls under way
    appBusy    \* MyApp.busy

vars == <<session, hash, loading, pages, calls, appBusy>>

\* own is what the page shows of the user's private data (own, items, form),
\* result the outcome of the last submission (message), solved that one was
\* correct (submittedCorrectly).  Each says whose it is and for which
\* challenge, and own whether it was asked for after the submission with that
\* outcome had been answered.
Blank(kind, id) ==
    [kind |-> kind, id |-> id, pending |-> FALSE, busy |-> FALSE, error |-> FALSE,
     challenge |-> FALSE, ready |-> FALSE, own |-> None, result |-> None,
     solved |-> None, historyError |-> FALSE]

Home == Blank("home", None)

\* page is "shown" or "next", "app" for MyApp and "gone" for an instance that
\* is no longer bound; more says whether such a one had a challenge.
Idle == [op |-> "none", page |-> "app", loads |-> FALSE, more |-> FALSE,
         id |-> None, user |-> None, wait |-> {}, failed |-> {}, knows |-> FALSE, stamps |-> {}]

Init ==
    /\ session = None
    /\ hash = None
    /\ loading = None
    /\ pages = [shown |-> Home, next |-> Home]
    /\ calls = [c \in CallIds |-> Idle]
    /\ appBusy = FALSE

Live == {c \in CallIds : calls[c].op # "none"}
Allowed == session # None
Page == pages["shown"]
-----------------------------------------------------------------------------
(***************************************************************************)
(* PageState: counters, reset and the session's listeners.                 *)
(***************************************************************************)
\* cs after an increment of some counters of page s.
Bump(cs, s, counters) ==
    [c \in CallIds |-> IF cs[c].page = s THEN [cs[c] EXCEPT !.stamps = @ \ counters] ELSE cs[c]]

PageCounters == {"generation", "lifetime", "history"}

BugResetKeepsBusy(p) == [p EXCEPT !.pending = FALSE, !.error = FALSE, !.result = None]

\* The fields reset() sets; it also increments generation and lifetime.
Reset(p) == [p EXCEPT !.pending = FALSE, !.busy = FALSE, !.error = FALSE, !.result = None]

BugClearKeepsSolved(p) == [p EXCEPT !.own = None, !.result = None, !.ready = FALSE]

\* clearPrivate() of the kinds that have one; DetailPage's also increments
\* historyGeneration.
ClearPrivate(p) ==
    [p EXCEPT !.own = None, !.result = None, !.solved = None, !.ready = FALSE]

\* What the listeners of SessionService leave of the page that is bound.
Notified(p, user) ==
    IF p.kind = "home" THEN p
    ELSE [ClearPrivate(Reset(p)) EXCEPT !.error = user = None]

BugNoRedirect(user) == hash

\* The listener of MyApp; a session is never cleared without a notice.
Redirected(user) == IF user = None THEN "auth" ELSE hash

\* start and clear: the version moves on and the listeners run.  cs and ps
\* are the calls and pages as the code that calls them has left them.
SessionBecomes(user, cs, ps) ==
    /\ session' = user
    /\ pages' = [ps EXCEPT !["shown"] = Notified(@, user)]
    /\ calls' = [c \in CallIds |->
                    [cs[c] EXCEPT !.stamps =
                        @ \ ({"version"} \cup IF cs[c].page = "shown" THEN PageCounters ELSE {})]]

Current(k) == {"lifetime", "version"} \subseteq k.stamps

\* The call that a request with the present token makes.
Request(op, s, parts, stamps) ==
    [Idle EXCEPT !.op = op, !.page = s, !.wait = parts, !.stamps = stamps \cup {"version"},
                 !.id = IF s \in DOMAIN pages THEN pages[s].id ELSE None,
                 !.user = IF "private" \in parts THEN session ELSE None,
                 !.knows = s = "shown" /\ Page.result # None]

FreeCall(c) == c \notin Live
-----------------------------------------------------------------------------
(***************************************************************************)
(* read and the refresh() of the pages.                                    *)
(***************************************************************************)
\* The page has an id after parseId.
Numeric(id) == id \in Ids \ BadIds

\* The synchronous part of refresh(), and what it then waits for: nothing
\* where it returns without asking the server.
DetailRefreshed(p) ==
    [p EXCEPT !.challenge = FALSE, !.own = None, !.historyError = FALSE, !.error = ~Numeric(p.id)]
DetailAsks(p) == IF Numeric(p.id) THEN {"public"} ELSE {}

\* Without an id in its route the editor is for a new challenge.
EditorRefreshed(p) ==
    [p EXCEPT !.ready = Allowed /\ p.id = None, !.error = @ \/ (Allowed /\ p.id \in BadIds)]
EditorAsks(p) == IF Allowed /\ Numeric(p.id) THEN {"private"} ELSE {}

MineAsks == IF Allowed THEN {"private"} ELSE {}
AnswersAsk == IF Allowed THEN {"private", "public"} ELSE {}

Asks(p) ==
    CASE p.kind = "list" -> {"public"}
      [] p.kind = "detail" -> DetailAsks(p)
      [] p.kind = "editor" -> EditorAsks(p)
      [] p.kind = "mine" -> MineAsks
      [] p.kind = "answers" -> AnswersAsk
      [] OTHER -> {}

Refreshed(p) ==
    LET q == CASE p.kind = "detail" -> DetailRefreshed(p)
               [] p.kind = "editor" -> EditorRefreshed(p)
               [] OTHER -> p
    IN  IF Asks(p) = {} THEN q ELSE [q EXCEPT !.pending = TRUE, !.error = FALSE]

\* refresh() of page p in slot s, with cs the calls at that point.
Refresh(s, p, cs, loads) ==
    /\ pages' = [pages EXCEPT ![s] = Refreshed(p)]
    /\ IF Asks(p) = {} THEN calls' = cs
       ELSE \E c \in CallIds :
               /\ FreeCall(c)
               /\ calls' = [Bump(cs, s, {"generation"}) EXCEPT
                               ![c] = [Request("read", s, Asks(p), {"generation"}) EXCEPT
                                          !.id = p.id, !.loads = loads]]

\* Buttons and the filter of the bound page.
RefreshButton ==
    /\ \/ Page.kind \in {"list", "mine"} /\ ~Page.pending
       \/ Page.kind = "answers"
       \/ Page.kind = "detail" /\ Page.error /\ ~Page.pending /\ ~Page.busy
       \/ Page.kind = "editor" /\ Page.error /\ ~Page.ready
    /\ Refresh("shown", Page, calls, FALSE)
    /\ UNCHANGED <<session, hash, loading, appBusy>>
-----------------------------------------------------------------------------
(***************************************************************************)
(* The router, as the code uses it: it awaits loading() and only then      *)
(* unbinds the old page and binds the new one.                             *)
(***************************************************************************)
\* canLoad sends a visitor without a session from a private page to the login.
CanLoad(kind) == IF kind \in PrivateKinds /\ ~Allowed THEN "auth" ELSE kind

Navigate(kind, id) ==
    /\ loading = None
    /\ loading' = "next"
    /\ hash' = None
    /\ LET k == CanLoad(kind)
       IN  Refresh("next", Blank(k, IF k \in {"detail", "editor"} THEN id ELSE None), calls, TRUE)
    /\ UNCHANGED <<session, appBusy>>

\* A route that differs only in its parameter, or login from signup, may be
\* given to the same instance: loading() then starts with reset() and
\* clearPrivate().
LoadAgain(id) ==
    /\ loading = None
    /\ Page.kind \in {"detail", "editor"} \/ (Page.kind = "auth" /\ id = None)
    /\ CanLoad(Page.kind) = Page.kind
    /\ hash' = None
    /\ loading' = "shown"
    /\ Refresh("shown", [ClearPrivate(Reset(Page)) EXCEPT !.id = id],
               Bump(calls, "shown", PageCounters), TRUE)
    /\ UNCHANGED <<session, appBusy>>

\* The promise of loading() is settled.  What the router does then are
\* continuations of the same task, so no other action comes in between.
Loaded == loading # None /\ \A c \in Live : ~calls[c].loads

\* unbinding() ends with reset() and clearPrivate().
Orphan(k) == [k EXCEPT !.page = "gone", !.more = Page.challenge,
                       !.stamps = @ \ PageCounters]

\* unbinding() of the old page, binding() of the new one.
Bind ==
    /\ Loaded
    /\ loading' = None
    /\ IF loading = "shown" THEN UNCHANGED <<pages, calls>>
       ELSE /\ pages' = [shown |-> pages["next"], next |-> Home]
            /\ calls' = [c \in CallIds |->
                            IF calls[c].page = "shown" THEN Orphan(calls[c]) ELSE calls[c]]
    /\ UNCHANGED <<session, hash, appBusy>>
-----------------------------------------------------------------------------
(***************************************************************************)
(* write and the buttons that use it, and the logout of MyApp.             *)
(***************************************************************************)
Write(op, parts) ==
    /\ ~Page.busy
    /\ pages' = [pages EXCEPT !["shown"].busy = TRUE, !["shown"].error = FALSE,
                              !["shown"].result = None]
    /\ \E c \in CallIds :
          /\ FreeCall(c)
          /\ calls' = [calls EXCEPT ![c] = Request(op, "shown", parts, {"lifetime"})]
    /\ UNCHANGED <<session, hash, loading, appBusy>>

\* The input is found wanting before anything is sent.
InputError ==
    /\ \/ Page.kind = "auth"
       \/ Page.kind = "detail" /\ Allowed /\ Page.challenge
       \/ Page.kind = "editor" /\ Allowed /\ Page.ready
    /\ pages' = [pages EXCEPT !["shown"].error = TRUE]
    /\ UNCHANGED <<session, hash, loading, calls, appBusy>>

Login == Page.kind = "auth" /\ Write("login", {"public"})
Signup == Page.kind = "auth" /\ Write("signup", {"public"})

Submit ==
    /\ Page.kind = "detail"
    /\ Allowed
    /\ Page.challenge
    /\ Write("submit", {"private"})

Save ==
    /\ Page.kind = "editor"
    /\ Allowed
    /\ Page.ready
    /\ Write("save", {"private"})

Remove ==
    /\ Page.kind = "editor"
    /\ Allowed
    /\ Page.ready
    /\ Numeric(Page.id)
    /\ Write("remove", {"private"})

Logout ==
    /\ Allowed
    /\ ~appBusy
    /\ appBusy' = TRUE
    /\ \E c \in CallIds :
          /\ FreeCall(c)
          /\ calls' = [calls EXCEPT ![c] = Request("logout", "app", {"private"}, {})]
    /\ UNCHANGED <<session, hash, loading, pages>>
-----------------------------------------------------------------------------
(***************************************************************************)
(* refreshHistory.                                                         *)
(***************************************************************************)
HistoryParts == {"public"} \cup IF Allowed THEN {"private"} ELSE {}

BugHistoryUncounted(op, c, s, loads, cs) ==
    [cs EXCEPT ![c] = [Request(op, s, HistoryParts, {"lifetime", "history"}) EXCEPT !.loads = loads]]

\* Call c, which is at page s, goes on with a fresh refreshHistory.
History(op, c, s, loads, cs) ==
    [Bump(cs, s, {"history"}) EXCEPT
        ![c] = [Request(op, s, HistoryParts, {"lifetime", "history"}) EXCEPT !.loads = loads]]

HistoryButton ==
    /\ Page.kind = "detail"
    /\ Page.challenge
    /\ ~Page.busy
    /\ \E c \in CallIds :
          /\ FreeCall(c)
          /\ calls' = History("history", c, "shown", FALSE, calls)
    /\ UNCHANGED <<session, hash, loading, pages, appBusy>>

\* What its results leave of the page.
HistoryShown(p, k) ==
    IF ~({"lifetime", "version", "history"} \subseteq k.stamps /\ k.id = p.id) THEN p
    ELSE [p EXCEPT !.historyError = k.failed # {},
                   !.own = IF "private" \in k.failed THEN @
                           ELSE IF k.user = None THEN None
                           ELSE [user |-> k.user, id |-> k.id, knows |-> k.knows]]
-----------------------------------------------------------------------------
(***************************************************************************)
(* Continuations: what a call does once everything it awaits has settled.  *)
(* k is the call as it is then.                                            *)
(***************************************************************************)
Finish(c) == [calls EXCEPT ![c] = Idle]

PageOf(k) == IF k.page \in DOMAIN pages THEN pages[k.page]
             ELSE [Home EXCEPT !.kind = "detail", !.challenge = k.more]

\* Nobody sees what becomes of a page that is gone.
Put(k, p) == pages' = IF k.page \in DOMAIN pages THEN [pages EXCEPT ![k.page] = p] ELSE pages

\* The rest of write when its action has thrown, or has ended.
WriteFailed(p) == [p EXCEPT !.error = TRUE, !.busy = FALSE]
WriteEnded(p) == [p EXCEPT !.busy = FALSE]

NotFound(p) == [p EXCEPT !.error = TRUE]
Private(p, k) == [user |-> k.user, id |-> p.id, knows |-> FALSE]

\* The pages that the callbacks given to read may leave.
DetailRead(p) == {NotFound(p), [p EXCEPT !.challenge = TRUE]}
EditorRead(p, k) == {NotFound(p), [p EXCEPT !.ready = TRUE, !.own = Private(p, k)]}
MineRead(p, k) == {[p EXCEPT !.own = Private(p, k)]}
AnswersRead(p, k) == {[p EXCEPT !.own = Private(p, k)]}

\* read: the result is applied, or the error shown, by the newest read only.
ReadShown(p, k) ==
    LET q == [p EXCEPT !.pending = FALSE]
    IN  CASE "generation" \notin k.stamps -> {p}
          [] "generation" \in k.stamps /\ k.failed # {} -> {NotFound(q)}
          [] OTHER -> CASE p.kind = "detail" -> DetailRead(q)
                        [] p.kind = "editor" -> EditorRead(q, k)
                        [] p.kind = "mine" -> MineRead(q, k)
                        [] p.kind = "answers" -> AnswersRead(q, k)
                        [] OTHER -> {q}

AfterRead(c, k) ==
    /\ \E p \in ReadShown(PageOf(k), k) :
          /\ Put(k, p)
          /\ calls' = IF p.kind = "detail" /\ p.challenge
                      THEN History("history", c, k.page, k.loads, calls)
                      ELSE Finish(c)
    /\ UNCHANGED <<session, hash, appBusy>>

AfterHistory(c, k) ==
    /\ LET p == HistoryShown(PageOf(k), k)
       IN  Put(k, IF k.op = "submitted" /\ Current(k) THEN WriteEnded(p) ELSE p)
    /\ calls' = Finish(c)
    /\ UNCHANGED <<session, hash, appBusy>>

\* Lists asked for before the submission was answered need not have it.
Outdated(s) ==
    [d \in CallIds |-> IF calls[d].page = s THEN [calls[d] EXCEPT !.knows = FALSE] ELSE calls[d]]

\* The rest of the actions given to write, after a success that is current.
AfterSubmit(c, k) ==
    LET p == PageOf(k)
        mine == [user |-> k.user, id |-> k.id]
    IN  /\ \E solved \in {p.solved, mine} :
              Put(k, [p EXCEPT !.result = mine, !.solved = solved,
                               !.own = IF @ = None THEN None ELSE [@ EXCEPT !.knows = FALSE]])
        /\ calls' = [History("submitted", c, k.page, FALSE, Outdated(k.page)) EXCEPT
                        ![c].knows = TRUE]
        /\ UNCHANGED <<session, hash>>

AfterSave(c, k) ==
    /\ Put(k, [WriteEnded(PageOf(k)) EXCEPT !.own = None])
    /\ hash' = "mine"
    /\ calls' = Finish(c)
    /\ UNCHANGED session

AfterRemove(c, k) ==
    /\ Put(k, WriteEnded(PageOf(k)))
    /\ hash' = "mine"
    /\ calls' = Finish(c)
    /\ UNCHANGED session

AfterSignup(c, k) ==
    /\ Put(k, WriteEnded(PageOf(k)))
    /\ hash' = "auth"
    /\ calls' = Finish(c)
    /\ UNCHANGED session

\* The listeners have reset the page when write comes to its end.
AfterLogin(c, k) ==
    /\ \E user \in Users : SessionBecomes(user, Finish(c), pages)
    /\ hash' = "list"

AfterWrite(c, k) ==
    /\ IF ~Current(k) \/ k.failed # {}
       THEN /\ Put(k, IF Current(k) THEN WriteFailed(PageOf(k)) ELSE PageOf(k))
            /\ calls' = Finish(c)
            /\ UNCHANGED <<session, hash>>
       ELSE \/ k.op = "submit" /\ AfterSubmit(c, k)
            \/ k.op = "save" /\ AfterSave(c, k)
            \/ k.op = "remove" /\ AfterRemove(c, k)
            \/ k.op = "signup" /\ AfterSignup(c, k)
            \/ k.op = "login" /\ AfterLogin(c, k)
    /\ UNCHANGED appBusy

AfterLogout(c, k) ==
    /\ IF "version" \in k.stamps THEN SessionBecomes(None, Finish(c), pages)
       ELSE calls' = Finish(c) /\ UNCHANGED <<session, pages>>
    /\ appBusy' = FALSE
    /\ hash' = IF session' = None THEN "auth" ELSE hash

\* A read that fails in one part does not wait for the other.
Settled(k) == k.wait = {} \/ (k.op = "read" /\ k.failed # {})

\* One part of call c has settled and k is what it has become.
Resume(c, k) ==
    /\ IF ~Settled(k)
       THEN calls' = [calls EXCEPT ![c] = k] /\ UNCHANGED <<session, pages, hash, appBusy>>
       ELSE CASE k.op = "read" -> AfterRead(c, k)
              [] k.op \in {"history", "submitted"} -> AfterHistory(c, k)
              [] k.op = "logout" -> AfterLogout(c, k)
              [] OTHER -> AfterWrite(c, k)
    /\ UNCHANGED loading
-----------------------------------------------------------------------------
(***************************************************************************)
(* HttpClient.request.                                                     *)
(***************************************************************************)
Empty(k) == k.op \in {"logout", "remove"}
Arrived(k) == [k EXCEPT !.wait = @ \ {"private", "body"}]

BugAnyRequest(k) == TRUE

\* The check made after each await of a protected request.
SameVersion(k) == "version" \in k.stamps

\* The headers of a success have come, the body is awaited.
Answered(c) ==
    LET k == calls[c]
    IN  /\ "private" \in k.wait
        /\ SameVersion(k)
        /\ ~Empty(k)
        /\ Resume(c, [k EXCEPT !.wait = (@ \ {"private"}) \cup {"body"}])

Fulfilled(c) ==
    LET k == calls[c]
    IN  /\ "body" \in k.wait \/ ("private" \in k.wait /\ Empty(k))
        /\ SameVersion(k)
        /\ Resume(c, Arrived(k))

\* No answer, another status than 401, an answer that cannot be read, or one
\* that comes after the session has changed.
Rejected(c) ==
    LET k == calls[c]
    IN  /\ k.wait \cap {"private", "body"} # {}
        /\ Resume(c, [Arrived(k) EXCEPT !.failed = @ \cup {"private"}])

\* A 401 ends the session before the call goes on, which then is no longer
\* current, but for a read of a page that is not bound yet.
Refused(c) ==
    LET k == calls[c]
        on == k.op \in {"history", "submitted"} /\ "public" \in k.wait
        rest == [Arrived(k) EXCEPT !.failed = @ \cup {"private"}]
        p == pages[k.page]
    IN  /\ "private" \in k.wait
        /\ SameVersion(k)
        /\ SessionBecomes(None, [calls EXCEPT ![c] = IF on THEN rest ELSE Idle],
              IF k.op = "read" /\ "generation" \in k.stamps
              THEN [pages EXCEPT ![k.page] = [p EXCEPT !.error = TRUE, !.pending = FALSE]]
              ELSE pages)
        /\ appBusy' = (appBusy /\ k.op # "logout")
        /\ hash' = IF k.op = "logout" THEN "auth" ELSE Redirected(None)
        /\ UNCHANGED loading

\* Requests without a token; nothing is checked after their awaits.  The list
\* of own answers does without the names of challenges.
PublicAnswered(c, ok) ==
    LET k == calls[c]
    IN  /\ "public" \in k.wait
        /\ Resume(c, [k EXCEPT !.wait = @ \ {"public"},
                               !.failed = @ \cup IF ok \/ (k.op = "read" /\ k.user # None)
                                               THEN {} ELSE {"public"}])

Click ==
    \/ RefreshButton \/ HistoryButton \/ InputError
    \/ Login \/ Signup \/ Submit \/ Save \/ Remove \/ Logout

Router ==
    \/ \E kind \in Kinds, id \in Ids \cup {None} : Navigate(kind, id)
    \/ \E id \in Ids \cup {None} : LoadAgain(id)
    \/ Bind

Network ==
    \E c \in Live :
        \/ Answered(c) \/ Fulfilled(c) \/ Rejected(c) \/ Refused(c)
        \/ \E ok \in BOOLEAN : PublicAnswered(c, ok)

Next ==
    \/ ~Loaded /\ Click
    \/ ~Loaded /\ Network
    \/ Router

Spec == Init /\ [][Next]_vars
-----------------------------------------------------------------------------
(***************************************************************************)
(* Properties.                                                             *)
(***************************************************************************)
PageRecord ==
    [kind : PageKinds \cup {"home"}, id : Ids \cup {None}, pending : BOOLEAN, busy : BOOLEAN,
     error : BOOLEAN, challenge : BOOLEAN, ready : BOOLEAN, own : Data \cup {None},
     result : Outcomes \cup {None}, solved : Outcomes \cup {None}, historyError : BOOLEAN]

WriteOps == {"login", "signup", "submit", "save", "remove", "submitted"}

CallRecord ==
    [op : WriteOps \cup {"none", "read", "history", "logout"},
     page : {"shown", "next", "gone", "app"}, loads : BOOLEAN, more : BOOLEAN,
     id : Ids \cup {None}, user : Users \cup {None},
     wait : SUBSET {"public", "private", "body"}, failed : SUBSET {"public", "private"},
     knows : BOOLEAN, stamps : SUBSET ({"version"} \cup PageCounters)]

TypeOK ==
    /\ session \in Users \cup {None}
    /\ hash \in PageKinds \cup {None}
    /\ loading \in {"shown", "next", None}
    /\ pages \in [shown : PageRecord, next : PageRecord]
    /\ calls \in [CallIds -> CallRecord]
    /\ appBusy \in BOOLEAN

\* Whatever private data and results the page on screen shows belongs to the
\* user who is logged in and to the challenge the page is about, although the
\* answers to requests of earlier sessions, pages and routes still come in
\* (PageState.binding, unbinding, checkpoint and HttpClient's version checks).
PrivateIsOwn ==
    Page.kind # "answers" =>
        \A d \in {Page.own, Page.result, Page.solved} \ {None} :
            d.user = session /\ d.id = Page.id

\* client/test/pages/pages.spec.ts:11 and client/README.md:87 say that a lost
\* session takes the private data with it.  The same for the list of own
\* answers: read waits there for a private and a public request together, so
\* the private answer may be from before the end of the session, and a page
\* that is still loading does not hear of it.
HistoryIsOwn ==
    Page.kind = "answers" /\ Page.own # None => Page.own.user = session

\* A session is only ended by an answer to a call that was made with its own
\* token: an old 401, or the end of an old logout, leaves a newer login alone
\* (HttpClient.request and MyApp.logout).
EndedByItsOwnCall ==
    [][session # None /\ session' = None =>
          \E c \in Live : calls[c].user = session /\ calls'[c] # calls[c]
                          /\ "private" \in calls[c].wait /\ "private" \notin calls'[c].wait]_vars

\* Whoever is no longer logged in does not stay on a page that needs a login:
\* another page is on its way or the code has asked for the login page, also
\* when the session ended while the page was loading (MyApp.binding, logout).
LoggedOutLeaves ==
    Page.kind \in PrivateKinds /\ ~Allowed => hash = "auth" \/ loading = "next"

\* A page is busy exactly while one write is under way that will release it,
\* pending exactly while its newest read is, and the logout button is
\* disabled exactly during a logout: no order of answers, logins, logouts and
\* navigation leaves a page blocked or lets a second submission through.
NothingStuck ==
    LET writes(s) == {c \in Live : /\ calls[c].page = s
                                   /\ calls[c].op \notin {"read", "history"}
                                   /\ Current(calls[c])}
        reads(s) == {c \in Live : /\ calls[c].page = s
                                  /\ calls[c].op = "read"
                                  /\ "generation" \in calls[c].stamps}
    IN  /\ \A s \in DOMAIN pages :
              /\ Cardinality(writes(s)) = IF pages[s].busy THEN 1 ELSE 0
              /\ Cardinality(reads(s)) = IF pages[s].pending THEN 1 ELSE 0
        /\ Cardinality({c \in Live : calls[c].op = "logout"}) = IF appBusy THEN 1 ELSE 0

\* When the result of a submission is on screen and no history is awaited,
\* the list of own answers beside it knows of that submission, or an error
\* says that it could not be fetched: an older list never overwrites a newer
\* one (DetailPage.submit and refreshHistory).
ResultIsInHistory ==
    LET awaited == {c \in Live : /\ calls[c].page = "shown"
                                 /\ calls[c].op \in {"history", "submitted"}
                                 /\ {"lifetime", "version", "history"} \subseteq calls[c].stamps}
    IN  Page.result # None /\ Page.challenge /\ ~Page.historyError /\ awaited = {} =>
            Page.own # None /\ Page.own.knows
=============================================================================
