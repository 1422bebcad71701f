---------------------------- MODULE ClientProofs ----------------------------
(***************************************************************************)
(* Proofs about the browser client, for any users, challenges and number   *)
(* of calls under way.                                                     *)
(***************************************************************************)
EXTENDS Client, FiniteSetTheorems, TLAPS

-----------------------------------------------------------------------------
(* The inductive invariant. *)

Slots == {"shown", "next"}

\* What a call with these stamps is to page s: the write that keeps it busy,
\* the read it is pending for, a list of answers it will show.
Writes(k, s) == k.page = s /\ k.op \in WriteOps /\ Current(k)
Reads(k, s) == k.page = s /\ k.op = "read" /\ "generation" \in k.stamps
Awaited(k) ==
    /\ k.page = "shown" /\ k.op \in {"history", "submitted"}
    /\ {"lifetime", "version", "history"} \subseteq k.stamps

\* The calls whose user is the session's for as long as the version is.
TiedOps == {"history", "submitted", "submit", "save", "remove", "logout"}

\* A protected call belongs to the present session while its version does.
SessionFacts(k) ==
    /\ "version" \in k.stamps /\ (k.op \in TiedOps \/ k.wait \cap {"private", "body"} # {}) =>
           k.user = session
    /\ k.op \in {"submit", "save", "remove", "logout"} => k.user \in Users
    /\ k.op = "logout" => k.page = "app" /\ k.wait = {"private"}

\* A call belongs to the page it was made for while its lifetime does.
PageFacts(k) ==
    /\ k.op = "none" => k.page = "app" /\ k.wait = {} /\ k.stamps = {} /\ k.loads = FALSE
    /\ k.page = "next" => k.loads = TRUE /\ k.op \in {"read", "history"}
    /\ k.loads = TRUE => k.page = loading /\ k.page \in Slots
    /\ k.page \in Slots /\ "lifetime" \in k.stamps => k.id = pages[k.page].id
    /\ k.op \in WriteOps /\ "lifetime" \in k.stamps =>
           /\ k.page = "shown"
           /\ k.op = "submit" => Page.kind = "detail"
           /\ k.op = "save" => Page.kind = "editor"
    /\ "generation" \in k.stamps =>
           /\ k.op = "read" /\ k.page \in Slots
           /\ pages[k.page].kind \in {"mine", "editor"} => "public" \notin k.wait
    /\ Awaited(k) /\ Page.result # None => k.knows = TRUE

\* What page p shows is the session's own.
Own(p) ==
    p.kind # "answers" =>
        \A d \in {p.own, p.result, p.solved} \ {None} : d.user = session /\ d.id = p.id

\* Without calls HomePage stays as it is.
HomeFacts ==
    \A s \in Slots :
        pages[s].kind = "home" => pages[s] = Home /\ \A c \in CallIds : calls[c].page # s

ShownFacts ==
    /\ Own(Page)
    /\ Page.result # None => Page.kind = "detail" /\ session # None

\* The page to come has one call at most, and private data only once nothing
\* can happen before it is bound.
NextFacts ==
    LET p == pages["next"]
    IN  /\ loading # "next" => p = Home
        /\ p.busy = FALSE /\ p.result = None /\ p.solved = None
        /\ Own(p)
        /\ p.kind # "answers" /\ p.own # None => \A c \in CallIds : calls[c].page # "next"
        /\ p.kind \in PrivateKinds /\ session = None => hash = "auth"
        /\ \A c, d \in CallIds : calls[c].page = "next" /\ calls[d].page = "next" => c = d

\* A flag is set exactly while one call is under way that will reset it.
BusyFacts(s) ==
    /\ pages[s].busy = TRUE => \E c \in CallIds : Writes(calls[c], s)
    /\ \A c \in CallIds : Writes(calls[c], s) => pages[s].busy = TRUE
    /\ \A c, d \in CallIds : Writes(calls[c], s) /\ Writes(calls[d], s) => c = d

PendingFacts(s) ==
    /\ pages[s].pending = TRUE => \E c \in CallIds : Reads(calls[c], s)
    /\ \A c \in CallIds : Reads(calls[c], s) => pages[s].pending = TRUE
    /\ \A c, d \in CallIds : Reads(calls[c], s) /\ Reads(calls[d], s) => c = d

LogoutFacts ==
    /\ appBusy = TRUE => \E c \in CallIds : calls[c].op = "logout"
    /\ \A c \in CallIds : calls[c].op = "logout" => appBusy = TRUE
    /\ \A c, d \in CallIds : calls[c].op = "logout" /\ calls[d].op = "logout" => c = d

\* The list beside a result knows of it, or is awaited, or its error shown.
HistoryFacts ==
    /\ Page.result # None /\ Page.challenge = TRUE /\ Page.historyError = FALSE
    /\ \A c \in CallIds : ~Awaited(calls[c])
    => Page.own # None /\ Page.own.knows = TRUE

IInv ==
    /\ TypeOK
    /\ \A c \in CallIds : SessionFacts(calls[c]) /\ PageFacts(calls[c])
    /\ HomeFacts /\ ShownFacts /\ NextFacts
    /\ BusyFacts("shown") /\ PendingFacts("shown") /\ PendingFacts("next") /\ LogoutFacts
    /\ LoggedOutLeaves /\ HistoryFacts
-----------------------------------------------------------------------------
(* Fields of records. *)

CallOps == WriteOps \cup {"read", "history", "logout"}
CallPages == {"shown", "next", "gone", "app"}

\* k is m with the stamps X taken away; parts may have settled, and knows, more
\* and failed may differ.
Lost(k, m, X) ==
    /\ k \in CallRecord
    /\ k.op = m.op /\ k.page = m.page /\ k.loads = m.loads /\ k.id = m.id
    /\ k.user = m.user /\ k.stamps = m.stamps \ X
    /\ k.op \in {"none", "logout"} => k.wait = m.wait
    /\ k.wait \cap {"private", "body"} # {} => m.wait \cap {"private", "body"} # {}
    /\ "public" \in k.wait => "public" \in m.wait

\* The pages are one record for each slot.
LEMMA PageTypes ==
    ASSUME TypeOK
    PROVE  /\ pages \in [Slots -> PageRecord] /\ DOMAIN pages = Slots
           /\ pages["shown"] \in PageRecord /\ pages["next"] \in PageRecord
BY DEF TypeOK, Slots

\* HomePage has no state.
LEMMA HomeFields ==
    /\ Home \in PageRecord /\ Home.kind = "home" /\ Home.pending = FALSE /\ Home.busy = FALSE
    /\ Home.own = None /\ Home.result = None /\ Home.solved = None
<1> SUFFICES ASSUME NEW p, p = Home
             PROVE  /\ p \in PageRecord /\ p.kind = "home" /\ p.pending = FALSE /\ p.busy = FALSE
                    /\ p.own = None /\ p.result = None /\ p.solved = None
    OBVIOUS
<1>1. QED BY DEF Home, Blank, PageRecord

\* An increment of counters takes stamps away from the calls of one page.
LEMMA BumpFacts ==
    ASSUME NEW cs \in [CallIds -> CallRecord], NEW s, NEW X, NEW d \in CallIds
    PROVE  /\ Bump(cs, s, X) \in [CallIds -> CallRecord]
           /\ Lost(Bump(cs, s, X)[d], cs[d], IF cs[d].page = s THEN X ELSE {})
           /\ Bump(cs, s, X)[d].knows = cs[d].knows
<1> DEFINE b(e) == IF cs[e].page = s THEN [cs[e] EXCEPT !.stamps = @ \ X] ELSE cs[e]
<1>1. ASSUME NEW e \in CallIds
      PROVE  /\ b(e) \in CallRecord
             /\ Lost(b(e), cs[e], IF cs[e].page = s THEN X ELSE {})
             /\ b(e).knows = cs[e].knows
    <2>1. cs[e] \in CallRecord
        OBVIOUS
    <2>2. CASE cs[e].page = s
        BY <2>1, <2>2 DEF CallRecord, Lost
    <2>3. CASE cs[e].page # s
        BY <2>1, <2>3 DEF CallRecord, Lost
    <2>4. QED BY <2>2, <2>3
<1>2. Bump(cs, s, X) = [e \in CallIds |-> b(e)]
    BY DEF Bump
<1> HIDE DEF b
<1>3. QED BY <1>1, <1>2

\* A call whose page is unbound loses all the counters of that page.
LEMMA Unbound ==
    ASSUME NEW k \in CallRecord, NEW b \in BOOLEAN, NEW m,
           m = [k EXCEPT !.page = "gone", !.more = b, !.stamps = @ \ PageCounters]
    PROVE  /\ m \in CallRecord /\ m.op = k.op /\ m.user = k.user /\ m.wait = k.wait
           /\ m.loads = k.loads /\ m.page = "gone" /\ m.stamps = k.stamps \ PageCounters
<1>1. m \in CallRecord
    BY DEF CallRecord
<1>2. QED BY <1>1 DEF CallRecord

\* The same for Orphan.
LEMMA OrphanFacts ==
    ASSUME TypeOK, NEW k \in CallRecord
    PROVE  LET m == Orphan(k)
           IN  /\ m \in CallRecord /\ m.op = k.op /\ m.user = k.user /\ m.wait = k.wait
               /\ m.loads = k.loads /\ m.page = "gone" /\ m.stamps = k.stamps \ PageCounters
<1>1. Page.challenge \in BOOLEAN
    BY PageTypes DEF Page, PageRecord
<1>2. QED BY <1>1, Unbound DEF Orphan

\* The call that a request makes.
IsRequest(k, op, s, parts, stamps) ==
    /\ k \in CallRecord
    /\ k.op = op /\ k.page = s /\ k.loads = FALSE /\ k.wait = parts
    /\ k.stamps = stamps \cup {"version"}
    /\ s \in Slots => k.id = pages[s].id
    /\ "private" \in parts => k.user = session
    /\ "private" \notin parts => k.user = None
    /\ s = "shown" /\ Page.result # None => k.knows = TRUE

\* Request makes such a call.
LEMMA RequestFacts ==
    ASSUME TypeOK, NEW op, op \in CallOps, NEW s, s \in CallPages,
           NEW parts, parts \subseteq {"public", "private"},
           NEW stamps, stamps \subseteq PageCounters
    PROVE  IsRequest(Request(op, s, parts, stamps), op, s, parts, stamps)
<1> SUFFICES ASSUME NEW k, k = Request(op, s, parts, stamps)
             PROVE  IsRequest(k, op, s, parts, stamps)
    OBVIOUS
<1>1. DOMAIN pages = Slots /\ \A t \in Slots : pages[t].id \in Ids \cup {None}
    BY PageTypes DEF PageRecord, Slots
<1> DEFINE id == IF s \in DOMAIN pages THEN pages[s].id ELSE None
           user == IF "private" \in parts THEN session ELSE None
           knows == s = "shown" /\ Page.result # None
<1>2. id \in Ids \cup {None} /\ user \in Users \cup {None} /\ knows \in BOOLEAN
    BY <1>1 DEF TypeOK
<1>3. k = [op |-> op, page |-> s, loads |-> FALSE, more |-> FALSE, id |-> id, user |-> user,
           wait |-> parts, failed |-> {}, knows |-> knows, stamps |-> stamps \cup {"version"}]
    BY DEF Request, Idle
<1>4. /\ s \in Slots => id = pages[s].id
      /\ "private" \in parts => user = session
      /\ "private" \notin parts => user = None
      /\ s = "shown" /\ Page.result # None => knows = TRUE
    BY <1>1
<1> HIDE DEF id, user, knows
<1>5. QED BY <1>2, <1>3, <1>4 DEF IsRequest, CallRecord, CallOps, CallPages, PageCounters

\* What refresh() asks for.
LEMMA AsksFacts ==
    ASSUME NEW p \in PageRecord
    PROVE  /\ Asks(p) \in SUBSET {"public", "private"}
           /\ p.kind \in {"mine", "editor"} => "public" \notin Asks(p)
           /\ "private" \in Asks(p) => session # None
<1>1. p.kind \in PageKinds \cup {"home"}
    BY DEF PageRecord
<1>2. CASE p.kind = "list"
    <2>1. Asks(p) = {"public"} BY Zenon, <1>2 DEF Asks
    <2>2. QED BY <2>1, <1>2
<1>3. CASE p.kind = "detail"
    <2>1. Asks(p) = DetailAsks(p) BY Zenon, <1>3 DEF Asks
    <2>2. QED BY <2>1, <1>3 DEF DetailAsks
<1>4. CASE p.kind = "editor"
    <2>1. Asks(p) = EditorAsks(p) BY Zenon, <1>4 DEF Asks
    <2>2. QED BY <2>1, <1>4 DEF EditorAsks, Allowed
<1>5. CASE p.kind = "mine"
    <2>1. Asks(p) = MineAsks BY Zenon, <1>5 DEF Asks
    <2>2. QED BY <2>1, <1>5 DEF MineAsks, Allowed
<1>6. CASE p.kind = "answers"
    <2>1. Asks(p) = AnswersAsk BY Zenon, <1>6 DEF Asks
    <2>2. QED BY <2>1, <1>6 DEF AnswersAsk, Allowed
<1>7. CASE p.kind = "auth"
    <2>1. Asks(p) = {} BY Zenon, <1>7 DEF Asks
    <2>2. QED BY <2>1, <1>7
<1>8. CASE p.kind = "home"
    <2>1. Asks(p) = {} BY Zenon, <1>8 DEF Asks
    <2>2. QED BY <2>1, <1>8
<1>9. QED BY <1>1, <1>2, <1>3, <1>4, <1>5, <1>6, <1>7, <1>8 DEF PageKinds

\* What its synchronous part leaves of the page.
LEMMA RefreshedFacts ==
    ASSUME NEW p \in PageRecord, NEW q, q = Refreshed(p)
    PROVE  /\ q \in PageRecord
           /\ q.kind = p.kind /\ q.id = p.id /\ q.busy = p.busy
           /\ q.result = p.result /\ q.solved = p.solved
           /\ q.own \in {p.own, None}
           /\ Asks(p) = {} => q.pending = p.pending
           /\ Asks(p) # {} => q.pending = TRUE
           /\ p.kind = "detail" => q.challenge = FALSE
<1> DEFINE r == CASE p.kind = "detail" -> DetailRefreshed(p)
                  [] p.kind = "editor" -> EditorRefreshed(p)
                  [] OTHER -> p
<1>1. q = IF Asks(p) = {} THEN r ELSE [r EXCEPT !.pending = TRUE, !.error = FALSE]
    BY DEF Refreshed
<1>2. /\ r \in PageRecord /\ r.pending = p.pending
      /\ r.kind = p.kind /\ r.id = p.id /\ r.busy = p.busy
      /\ r.result = p.result /\ r.solved = p.solved
      /\ r.own \in {p.own, None}
      /\ p.kind = "detail" => r.challenge = FALSE
    <2>1. CASE p.kind = "detail"
        <3>1. r = DetailRefreshed(p)
            BY Zenon, <2>1
        <3> HIDE DEF r
        <3>2. QED BY <3>1 DEF DetailRefreshed, PageRecord
    <2>2. CASE p.kind = "editor"
        <3>1. r = EditorRefreshed(p)
            BY Zenon, <2>2
        <3> HIDE DEF r
        <3>2. QED BY <3>1, <2>2 DEF EditorRefreshed, PageRecord
    <2>3. CASE p.kind \notin {"detail", "editor"}
        <3>1. p.kind # "detail" /\ p.kind # "editor"
            BY <2>3
        <3>2. r = p
            BY Zenon, <3>1
        <3> HIDE DEF r
        <3>3. QED BY <3>1, <3>2
    <2>4. QED BY <2>1, <2>2, <2>3
<1> HIDE DEF r
<1>3. CASE Asks(p) = {}
    <2>1. q = r BY <1>1, <1>3
    <2>2. QED BY <2>1, <1>2, <1>3
<1>4. CASE Asks(p) # {}
    <2>1. q = [r EXCEPT !.pending = TRUE, !.error = FALSE]
        BY <1>1, <1>4
    <2>2. q \in PageRecord /\ q.pending = TRUE
        BY <2>1, <1>2 DEF PageRecord
    <2>3. /\ q.kind = r.kind /\ q.id = r.id /\ q.busy = r.busy
          /\ q.result = r.result /\ q.solved = r.solved
          /\ q.own = r.own /\ q.challenge = r.challenge
        BY <2>1, <1>2 DEF PageRecord
    <2>4. QED BY <2>2, <2>3, <1>2, <1>4
<1>5. QED BY <1>3, <1>4

\* What the end of a read leaves of it.
LEMMA ReadFacts ==
    ASSUME NEW p \in PageRecord, NEW k \in CallRecord, NEW q \in ReadShown(p, k)
    PROVE  /\ q \in PageRecord
           /\ q.kind = p.kind /\ q.id = p.id /\ q.busy = p.busy
           /\ q.result = p.result /\ q.solved = p.solved
           /\ "generation" \notin k.stamps => q = p
           /\ "generation" \in k.stamps => q.pending = FALSE
           /\ \/ q.own = p.own
              \/ /\ p.kind \in {"mine", "editor", "answers"} /\ k.failed = {}
                 /\ q.own.user = k.user /\ q.own.id = p.id
           /\ p.kind = "detail" => q.historyError = p.historyError /\ q.own = p.own
<1> DEFINE r == [p EXCEPT !.pending = FALSE]
           S == CASE p.kind = "detail" -> DetailRead(r)
                  [] p.kind = "editor" -> EditorRead(r, k)
                  [] p.kind = "mine" -> MineRead(r, k)
                  [] p.kind = "answers" -> AnswersRead(r, k)
                  [] OTHER -> {r}
<1>1. CASE "generation" \notin k.stamps
    <2>1. ReadShown(p, k) = {p}
        BY Zenon, <1>1 DEF ReadShown
    <2>2. QED BY <2>1, <1>1
<1>2. CASE "generation" \in k.stamps /\ k.failed # {}
    <2>1. ReadShown(p, k) = {NotFound(r)}
        BY Zenon, <1>2 DEF ReadShown
    <2>2. q = [r EXCEPT !.error = TRUE]
        BY <2>1 DEF NotFound
    <2>3. QED BY <2>2, <1>2 DEF PageRecord
<1>3. CASE "generation" \in k.stamps /\ k.failed = {}
    <2>1. ReadShown(p, k) = S
        BY Zenon, <1>3 DEF ReadShown
    <2>2. CASE p.kind = "detail"
        <3>1. S = DetailRead(r) BY Zenon, <2>2
        <3>2. q \in DetailRead(r) BY <3>1, <2>1
        <3>3. QED BY <3>2, <1>3, <2>2 DEF DetailRead, NotFound, PageRecord
    <2>3. CASE p.kind = "editor"
        <3>1. S = EditorRead(r, k) BY Zenon, <2>3
        <3>2. q \in EditorRead(r, k) BY <3>1, <2>1
        <3>3. Private(r, k) \in Data /\ Private(r, k).user = k.user /\ Private(r, k).id = p.id
            BY DEF Private, Data, CallRecord, PageRecord
        <3>4. QED BY ZenonT(40), <3>2, <3>3, <1>3, <2>3 DEF EditorRead, NotFound, PageRecord
    <2>4. CASE p.kind = "mine"
        <3>1. S = MineRead(r, k) BY Zenon, <2>4
        <3>2. q \in MineRead(r, k) BY <3>1, <2>1
        <3>3. Private(r, k) \in Data /\ Private(r, k).user = k.user /\ Private(r, k).id = p.id
            BY DEF Private, Data, CallRecord, PageRecord
        <3>4. QED BY ZenonT(40), <3>2, <3>3, <1>3, <2>4 DEF MineRead, NotFound, PageRecord
    <2>5. CASE p.kind = "answers"
        <3>1. S = AnswersRead(r, k) BY Zenon, <2>5
        <3>2. q \in AnswersRead(r, k) BY <3>1, <2>1
        <3>3. Private(r, k) \in Data /\ Private(r, k).user = k.user /\ Private(r, k).id = p.id
            BY DEF Private, Data, CallRecord, PageRecord
        <3>4. QED BY ZenonT(40), <3>2, <3>3, <1>3, <2>5 DEF AnswersRead, NotFound, PageRecord
    <2>6. CASE p.kind \notin {"detail", "editor", "mine", "answers"}
        <3>1. p.kind # "detail" /\ p.kind # "editor" /\ p.kind # "mine" /\ p.kind # "answers"
            BY <2>6
        <3>2. S = {r} BY Zenon, <3>1
        <3>3. q = r BY <3>2, <2>1
        <3>4. QED BY <3>1, <3>3, <1>3 DEF PageRecord
    <2>7. QED BY <2>2, <2>3, <2>4, <2>5, <2>6
<1>4. QED BY <1>1, <1>2, <1>3
-----------------------------------------------------------------------------
(* What the steps have in common. *)

\* A call that only loses stamps keeps its facts, if it loses those of the
\* counters that a step moves on.
LEMMA Others ==
    ASSUME IInv, NEW d \in CallIds, NEW X, Lost(calls'[d], calls[d], X),
           session' = session \/ "version" \in X,
           loading' = loading \/ calls[d].loads = FALSE,
           calls[d].page \in Slots =>
               /\ pages'[calls[d].page].kind = pages[calls[d].page].kind
               /\ pages'[calls[d].page].id = pages[calls[d].page].id \/ "lifetime" \in X,
           calls[d].page = "shown" =>
               \/ "history" \in X
               \/ /\ calls'[d].knows = calls[d].knows
                  /\ pages'["shown"].result # None => pages["shown"].result # None
    PROVE  SessionFacts(calls[d])' /\ PageFacts(calls[d])'
<1> DEFINE k == calls[d]
           m == calls'[d]
<1>1. SessionFacts(k) /\ PageFacts(k)
    BY DEF IInv
<1>2. /\ m.op = k.op /\ m.page = k.page /\ m.loads = k.loads /\ m.id = k.id
      /\ m.user = k.user /\ m.stamps = k.stamps \ X
      /\ m.op \in {"none", "logout"} => m.wait = k.wait
      /\ m.wait \cap {"private", "body"} # {} => k.wait \cap {"private", "body"} # {}
      /\ "public" \in m.wait => "public" \in k.wait
    BY DEF Lost
<1> HIDE DEF k, m
<1>3. /\ "version" \in m.stamps /\ (m.op \in TiedOps \/ m.wait \cap {"private", "body"} # {}) =>
             m.user = session'
      /\ m.op \in {"submit", "save", "remove", "logout"} => m.user \in Users
      /\ m.op = "logout" => m.page = "app" /\ m.wait = {"private"}
    BY <1>1, <1>2 DEF SessionFacts
<1>4. /\ m.op = "none" => m.page = "app" /\ m.wait = {} /\ m.stamps = {} /\ m.loads = FALSE
      /\ m.page = "next" => m.loads = TRUE /\ m.op \in {"read", "history"}
      /\ m.loads = TRUE => m.page = loading' /\ m.page \in Slots
    BY <1>1, <1>2 DEF PageFacts, k
<1>5. m.page \in Slots /\ "lifetime" \in m.stamps => m.id = pages'[m.page].id
    BY <1>1, <1>2 DEF PageFacts, k
<1>6. m.op \in WriteOps /\ "lifetime" \in m.stamps =>
          /\ m.page = "shown"
          /\ m.op = "submit" => pages'["shown"].kind = "detail"
          /\ m.op = "save" => pages'["shown"].kind = "editor"
    BY <1>1, <1>2 DEF PageFacts, k, Page, Slots
<1>7. "generation" \in m.stamps =>
          /\ m.op = "read" /\ m.page \in Slots
          /\ pages'[m.page].kind \in {"mine", "editor"} => "public" \notin m.wait
    BY <1>1, <1>2 DEF PageFacts, k
<1>8. Awaited(m) /\ pages'["shown"].result # None => m.knows = TRUE
    BY <1>1, <1>2 DEF PageFacts, k, m, Awaited, Page
<1>9. QED BY <1>3, <1>4, <1>5, <1>6, <1>7, <1>8 DEF SessionFacts, PageFacts, m, Page, Awaited

\* The call of a read that has just been made.
NewRead(k, s, p, loads) ==
    /\ k.op = "read" /\ k.page = s /\ k.loads = loads /\ k.id = p.id
    /\ k.wait = Asks(p) /\ k.stamps = {"generation", "version"}
    /\ "private" \in k.wait => k.user = session

\* The step of refresh(): it asks nothing, or makes one call.
LEMMA RefreshFacts ==
    ASSUME TypeOK, NEW s \in Slots, NEW p \in PageRecord,
           NEW cs \in [CallIds -> CallRecord], NEW loads \in BOOLEAN,
           Refresh(s, p, cs, loads)
    PROVE  /\ pages' \in [shown : PageRecord, next : PageRecord]
           /\ pages'[s] = Refreshed(p)
           /\ \A t \in Slots \ {s} : pages'[t] = pages[t]
           /\ calls' \in [CallIds -> CallRecord]
           /\ \/ Asks(p) = {} /\ calls' = cs
              \/ /\ Asks(p) # {}
                 /\ \E c \in CallIds :
                       /\ calls[c].op = "none"
                       /\ NewRead(calls'[c], s, p, loads)
                       /\ \A d \in CallIds \ {c} :
                             /\ calls'[d].knows = cs[d].knows
                             /\ Lost(calls'[d], cs[d],
                                     IF cs[d].page = s THEN {"generation"} ELSE {})
<1>1. Refreshed(p) \in PageRecord
    BY RefreshedFacts
<1>2. pages' = [pages EXCEPT ![s] = Refreshed(p)]
    BY DEF Refresh
<1>3. /\ pages' \in [shown : PageRecord, next : PageRecord]
      /\ pages'[s] = Refreshed(p)
      /\ \A t \in Slots \ {s} : pages'[t] = pages[t]
    BY <1>1, <1>2, PageTypes DEF Slots
<1>4. CASE Asks(p) = {}
    BY <1>3, <1>4 DEF Refresh
<1>5. CASE Asks(p) # {}
    <2> DEFINE R == Request("read", s, Asks(p), {"generation"})
               b == Bump(cs, s, {"generation"})
    <2>1. PICK c \in CallIds :
              FreeCall(c) /\ calls' = [b EXCEPT ![c] = [R EXCEPT !.id = p.id, !.loads = loads]]
        BY <1>5 DEF Refresh
    <2>2. calls[c].op = "none"
        BY <2>1 DEF FreeCall, Live
    <2>3. /\ R \in CallRecord /\ R.op = "read" /\ R.page = s /\ R.wait = Asks(p)
          /\ R.stamps = {"generation", "version"}
          /\ "private" \in Asks(p) => R.user = session
        <3>1. /\ "read" \in CallOps /\ s \in CallPages /\ {"generation"} \subseteq PageCounters
              /\ Asks(p) \subseteq {"public", "private"}
            BY AsksFacts DEF Slots, PageCounters, CallOps, CallPages
        <3>2. IsRequest(R, "read", s, Asks(p), {"generation"})
            BY <3>1, RequestFacts
        <3>3. QED BY <3>2 DEF IsRequest
    <2>4. b \in [CallIds -> CallRecord]
        BY <2>1, BumpFacts
    <2>5. ASSUME NEW d \in CallIds
          PROVE  /\ Lost(b[d], cs[d], IF cs[d].page = s THEN {"generation"} ELSE {})
                 /\ b[d].knows = cs[d].knows
        BY BumpFacts
    <2> HIDE DEF R, b
    <2>6. p.id \in Ids \cup {None}
        BY DEF PageRecord
    <2> DEFINE k == [R EXCEPT !.id = p.id, !.loads = loads]
    <2>7. k \in CallRecord /\ NewRead(k, s, p, loads)
        BY <2>3, <2>6 DEF CallRecord, NewRead
    <2> HIDE DEF k
    <2>8. calls' = [b EXCEPT ![c] = k]
        BY <2>1 DEF k
    <2>9. calls' \in [CallIds -> CallRecord] /\ calls'[c] = k /\ \A d \in CallIds \ {c} : calls'[d] = b[d]
        BY <2>4, <2>7, <2>8
    <2>10. NewRead(calls'[c], s, p, loads)
        BY <2>7, <2>9
    <2>11. ASSUME NEW d \in CallIds \ {c}
           PROVE  /\ calls'[d].knows = cs[d].knows
                  /\ Lost(calls'[d], cs[d], IF cs[d].page = s THEN {"generation"} ELSE {})
        BY <2>5, <2>9
    <2>12. QED BY <1>3, <1>5, <2>2, <2>9, <2>10, <2>11
<1>6. QED BY <1>4, <1>5

\* A read that has just been made has its facts.
LEMMA NewReadFacts ==
    ASSUME TypeOK, NEW c \in CallIds, NEW s \in Slots, NEW p \in PageRecord, NEW loads \in BOOLEAN,
           NewRead(calls'[c], s, p, loads),
           session' = session, s = "next" => loads = TRUE, loads = TRUE => s = loading',
           pages'[s].kind = p.kind
    PROVE  SessionFacts(calls[c])' /\ PageFacts(calls[c])'
<1> DEFINE m == calls'[c]
<1>1. /\ m.op = "read" /\ m.page = s /\ m.loads = loads
      /\ m.wait = Asks(p) /\ m.stamps = {"generation", "version"}
      /\ "private" \in m.wait => m.user = session
    BY DEF NewRead
<1>2. /\ "body" \notin Asks(p)
      /\ p.kind \in {"mine", "editor"} => "public" \notin Asks(p)
    BY AsksFacts
<1> HIDE DEF m
<1>3. /\ "version" \in m.stamps /\ (m.op \in TiedOps \/ m.wait \cap {"private", "body"} # {}) =>
             m.user = session'
      /\ m.op \in {"submit", "save", "remove", "logout"} => m.user \in Users
      /\ m.op = "logout" => m.page = "app" /\ m.wait = {"private"}
    BY <1>1, <1>2 DEF TiedOps
<1>4. /\ m.op # "none" /\ m.op \notin WriteOps /\ ~Awaited(m) /\ "lifetime" \notin m.stamps
    BY <1>1 DEF WriteOps, Awaited
<1>5. /\ m.page = "next" => m.loads = TRUE /\ m.op \in {"read", "history"}
      /\ m.loads = TRUE => m.page = loading' /\ m.page \in Slots
      /\ "generation" \in m.stamps =>
            /\ m.op = "read" /\ m.page \in Slots
            /\ pages'[m.page].kind \in {"mine", "editor"} => "public" \notin m.wait
    BY <1>1, <1>2
<1>6. QED BY <1>3, <1>4, <1>5 DEF SessionFacts, PageFacts, m, Page, Awaited

\* HomePage is left alone, and nobody calls from it.
LEMMA HomeKept ==
    ASSUME IInv,
           \A s \in Slots : /\ pages'[s].kind = pages[s].kind
                            /\ pages[s].kind = "home" => pages'[s] = pages[s],
           \A d \in CallIds : \A s \in Slots :
               calls'[d].page = s => calls[d].page = s \/ pages[s].kind # "home"
    PROVE  HomeFacts'
<1>1. HomeFacts
    BY DEF IInv
<1>2. QED BY <1>1 DEF HomeFacts, Home, Blank

\* A step that does not concern the page to come.
LEMMA NextKept ==
    ASSUME IInv, pages'["next"] = pages["next"], session' = session,
           loading = "next" => loading' = "next",
           hash' = hash \/ session # None \/ hash' = "auth" \/ loading # "next",
           \A d \in CallIds : calls'[d].page = "next" => calls[d].page = "next"
    PROVE  NextFacts'
<1>1. NextFacts
    BY DEF IInv
<1>2. QED BY <1>1 DEF NextFacts, Own, Home, Blank, PrivateKinds

\* The flags are kept with the calls they stand for.
LEMMA BusyKept ==
    ASSUME IInv, pages'["shown"].busy = pages["shown"].busy,
           \A d \in CallIds : Writes(calls'[d], "shown") <=> Writes(calls[d], "shown")
    PROVE  BusyFacts("shown")'
<1>1. BusyFacts("shown")
    BY DEF IInv
<1> USE DEF Writes, Current
<1>2. QED BY <1>1 DEF BusyFacts

\* The same for the flag of reads.
LEMMA PendingKept ==
    ASSUME IInv, NEW s \in Slots, pages'[s].pending = pages[s].pending,
           \A d \in CallIds : Reads(calls'[d], s) <=> Reads(calls[d], s)
    PROVE  PendingFacts(s)'
<1>1. PendingFacts(s)
    BY DEF IInv, Slots
<1>2. QED BY <1>1 DEF PendingFacts, Reads

\* The same for MyApp.busy.
LEMMA LogoutKept ==
    ASSUME IInv, appBusy' = appBusy,
           \A d \in CallIds : calls'[d].op = "logout" <=> calls[d].op = "logout"
    PROVE  LogoutFacts'
<1>1. LogoutFacts
    BY DEF IInv
<1>2. QED BY <1>1 DEF LogoutFacts

\* What the invariant says of one call and of the page on screen.
LEMMA Known ==
    ASSUME IInv
    PROVE  /\ TypeOK /\ calls \in [CallIds -> CallRecord]
           /\ pages["shown"] \in PageRecord /\ pages["next"] \in PageRecord
           /\ \A d \in CallIds : calls[d] \in CallRecord /\ SessionFacts(calls[d]) /\ PageFacts(calls[d])
<1>1. TypeOK /\ \A c \in CallIds : SessionFacts(calls[c]) /\ PageFacts(calls[c])
    BY DEF IInv
<1>2. calls \in [CallIds -> CallRecord]
    BY <1>1 DEF TypeOK
<1>3. QED BY <1>1, <1>2, PageTypes
-----------------------------------------------------------------------------
(* Each action keeps the invariant. *)

\* A button of the page that is bound.
LEMMA RefreshButtonStep == IInv /\ RefreshButton => IInv'
<1> SUFFICES ASSUME IInv, RefreshButton
             PROVE  IInv'
    OBVIOUS
<1> DEFINE p == pages["shown"]
           q == pages'["shown"]
<1>1. /\ p.kind \in {"list", "mine", "answers", "detail", "editor"}
      /\ Refresh("shown", p, calls, FALSE)
      /\ session' = session /\ hash' = hash /\ loading' = loading /\ appBusy' = appBusy
    BY DEF RefreshButton, Page
<1>2. TypeOK /\ calls \in [CallIds -> CallRecord] /\ p \in PageRecord
    BY Known
<1>3. /\ pages' \in [shown : PageRecord, next : PageRecord]
      /\ q = Refreshed(p) /\ pages'["next"] = pages["next"]
      /\ calls' \in [CallIds -> CallRecord]
      /\ \/ Asks(p) = {} /\ calls' = calls
         \/ /\ Asks(p) # {}
            /\ \E c \in CallIds :
                  /\ calls[c].op = "none"
                  /\ NewRead(calls'[c], "shown", p, FALSE)
                  /\ \A d \in CallIds \ {c} :
                        /\ calls'[d].knows = calls[d].knows
                        /\ Lost(calls'[d], calls[d],
                                IF calls[d].page = "shown" THEN {"generation"} ELSE {})
    BY <1>1, <1>2, RefreshFacts DEF Slots
<1>4. /\ q.kind = p.kind /\ q.id = p.id /\ q.busy = p.busy
      /\ q.result = p.result /\ q.solved = p.solved
      /\ q.own \in {p.own, None}
      /\ Asks(p) = {} => q.pending = p.pending
      /\ Asks(p) # {} => q.pending = TRUE
      /\ p.kind = "detail" => q.challenge = FALSE
    BY <1>2, <1>3, RefreshedFacts
<1> HIDE DEF p, q
<1>5. TypeOK'
    BY <1>1, <1>2, <1>3 DEF TypeOK
<1>6. ShownFacts'
    <2>1. ShownFacts
        BY DEF IInv
    <2>2. QED BY <2>1, <1>1, <1>4 DEF ShownFacts, Own, Page, p, q
<1>7. LoggedOutLeaves'
    <2>1. LoggedOutLeaves
        BY DEF IInv
    <2>2. QED BY <2>1, <1>1, <1>4 DEF LoggedOutLeaves, Allowed, Page, p, q
<1>8. HistoryFacts'
    <2>1. ShownFacts
        BY DEF IInv
    <2>2. q.result # None => q.challenge = FALSE
        BY <2>1, <1>4 DEF ShownFacts, Page, p
    <2>3. QED BY <2>2 DEF HistoryFacts, Page, q
<1>9. \A s \in Slots : /\ pages'[s].kind = pages[s].kind
                       /\ pages[s].kind = "home" => pages'[s] = pages[s]
    BY <1>1, <1>3, <1>4 DEF Slots, p, q
<1>10. CASE Asks(p) = {} /\ calls' = calls
    <2>1. ASSUME NEW d \in CallIds
          PROVE  SessionFacts(calls[d])' /\ PageFacts(calls[d])'
        <3>1. Lost(calls'[d], calls[d], {}) /\ calls'[d].knows = calls[d].knows
            BY <1>2, <1>10 DEF Lost
        <3>2. QED BY <1>1, <1>3, <1>4, <3>1, Others DEF Slots, p, q
    <2>2. HomeFacts' BY <1>9, <1>10, HomeKept
    <2>3. NextFacts' BY <1>1, <1>3, <1>10, NextKept
    <2>4. BusyFacts("shown")' BY <1>4, <1>10, BusyKept DEF p, q
    <2>5. PendingFacts("shown")' /\ PendingFacts("next")'
        BY <1>3, <1>4, <1>10, PendingKept DEF p, q, Slots
    <2>6. LogoutFacts' BY <1>1, <1>10, LogoutKept
    <2>7. QED BY <1>5, <1>6, <1>7, <1>8, <2>1, <2>2, <2>3, <2>4, <2>5, <2>6 DEF IInv
<1>11. CASE Asks(p) # {} /\ \E c \in CallIds :
                  /\ calls[c].op = "none"
                  /\ NewRead(calls'[c], "shown", p, FALSE)
                  /\ \A d \in CallIds \ {c} :
                        /\ calls'[d].knows = calls[d].knows
                        /\ Lost(calls'[d], calls[d],
                                IF calls[d].page = "shown" THEN {"generation"} ELSE {})
    <2>1. PICK c \in CallIds :
              /\ calls[c].op = "none"
              /\ NewRead(calls'[c], "shown", p, FALSE)
              /\ \A d \in CallIds \ {c} :
                    /\ calls'[d].knows = calls[d].knows
                    /\ Lost(calls'[d], calls[d],
                            IF calls[d].page = "shown" THEN {"generation"} ELSE {})
        BY <1>11
    <2>2. ASSUME NEW d \in CallIds \ {c}
          PROVE  SessionFacts(calls[d])' /\ PageFacts(calls[d])'
        BY <1>1, <1>3, <1>4, <2>1, Others DEF Slots, p, q
    <2>3. SessionFacts(calls[c])' /\ PageFacts(calls[c])'
        BY <1>1, <1>2, <1>4, <2>1, NewReadFacts DEF Slots, q
    <2>4. /\ calls'[c].op = "read" /\ calls'[c].page = "shown" /\ "generation" \in calls'[c].stamps
          /\ calls[c].op = "none" /\ calls[c].page = "app"
        BY <2>1, Known DEF NewRead, PageFacts
    <2>5. \A d \in CallIds \ {c} :
              /\ calls'[d].page = calls[d].page /\ calls'[d].op = calls[d].op
              /\ calls[d].page # "shown" => calls'[d].stamps = calls[d].stamps
              /\ calls[d].page = "shown" => calls'[d].stamps = calls[d].stamps \ {"generation"}
        BY <2>1 DEF Lost
    <2>6. HomeFacts'
        BY <1>1, <1>9, <2>4, <2>5, HomeKept DEF p
    <2>7. NextFacts'
        BY <1>1, <1>3, <2>4, <2>5, NextKept
    <2>8. BusyFacts("shown")'
        <3>1. \A d \in CallIds : Writes(calls'[d], "shown") <=> Writes(calls[d], "shown")
            BY <2>4, <2>5 DEF Writes, WriteOps, Current
        <3>2. QED BY <1>4, <3>1, BusyKept DEF p, q
    <2>9. PendingFacts("shown")'
        <3>1. Reads(calls'[c], "shown") /\ \A d \in CallIds \ {c} : ~Reads(calls'[d], "shown")
            BY <2>4, <2>5 DEF Reads
        <3>2. QED BY <1>4, <1>11, <3>1 DEF PendingFacts, Reads, q
    <2>10. PendingFacts("next")'
        <3>1. \A d \in CallIds : Reads(calls'[d], "next") <=> Reads(calls[d], "next")
            BY <2>4, <2>5 DEF Reads
        <3>2. QED BY <1>3, <3>1, PendingKept DEF Slots
    <2>11. LogoutFacts'
        BY <1>1, <2>4, <2>5, LogoutKept
    <2>12. QED BY <1>5, <1>6, <1>7, <1>8, <2>2, <2>3, <2>6, <2>7, <2>8, <2>9, <2>10, <2>11 DEF IInv
<1>12. QED BY <1>3, <1>10, <1>11

\* Nothing loads while the router is idle.
LEMMA NothingLoads ==
    ASSUME IInv, loading = None
    PROVE  /\ \A d \in CallIds : calls[d].loads = FALSE /\ calls[d].page # "next"
           /\ pages["next"] = Home
<1>1. loading \notin Slots
    BY NoneIsNothingElse DEF Slots
<1>2. ASSUME NEW d \in CallIds
      PROVE  calls[d].loads = FALSE
    <2>1. calls[d].loads \in BOOLEAN
        BY Known DEF CallRecord
    <2>2. calls[d].loads # TRUE
        BY <1>1, Known DEF PageFacts
    <2>3. QED BY <2>1, <2>2
<1>3. \A d \in CallIds : calls[d].page # "next"
    BY <1>2, Known DEF PageFacts
<1>4. NextFacts
    BY DEF IInv
<1>5. QED BY <1>1, <1>2, <1>3, <1>4 DEF NextFacts, Slots

\* A route for the page that is bound: it starts anew.
LEMMA LoadAgainStep == IInv /\ (\E id \in Ids \cup {None} : LoadAgain(id)) => IInv'
<1> SUFFICES ASSUME IInv, NEW id \in Ids \cup {None}, LoadAgain(id)
             PROVE  IInv'
    OBVIOUS
<1> DEFINE o == pages["shown"]
           p == [ClearPrivate(Reset(o)) EXCEPT !.id = id]
           q == pages'["shown"]
           cs == Bump(calls, "shown", PageCounters)
<1>1. /\ o.kind \in {"detail", "editor", "auth"}
      /\ o.kind \in PrivateKinds => session # None
      /\ Refresh("shown", p, cs, TRUE)
      /\ loading = None /\ loading' = "shown" /\ hash' = None
      /\ session' = session /\ appBusy' = appBusy
    BY DEF LoadAgain, CanLoad, Allowed, Page, PrivateKinds
<1>2. TypeOK /\ calls \in [CallIds -> CallRecord] /\ o \in PageRecord
    BY Known
<1>3. /\ p \in PageRecord /\ p.kind = o.kind /\ p.pending = FALSE /\ p.busy = FALSE
      /\ p.own = None /\ p.result = None /\ p.solved = None
    BY <1>2 DEF ClearPrivate, Reset, PageRecord
<1>4. /\ cs \in [CallIds -> CallRecord]
      /\ \A d \in CallIds : Lost(cs[d], calls[d], IF calls[d].page = "shown" THEN PageCounters ELSE {})
      /\ \A d \in CallIds : cs[d].knows = calls[d].knows
    <2>1. ASSUME NEW d \in CallIds
          PROVE  /\ cs \in [CallIds -> CallRecord]
                 /\ Lost(cs[d], calls[d], IF calls[d].page = "shown" THEN PageCounters ELSE {})
                 /\ cs[d].knows = calls[d].knows
        BY <1>2, BumpFacts
    <2>2. cs \in [CallIds -> CallRecord]
        BY <2>1, <1>2 DEF Bump
    <2>3. QED BY <2>1, <2>2
<1> HIDE DEF p, q, cs
<1>5. /\ pages' \in [shown : PageRecord, next : PageRecord]
      /\ q = Refreshed(p) /\ pages'["next"] = pages["next"]
      /\ calls' \in [CallIds -> CallRecord]
      /\ \/ Asks(p) = {} /\ calls' = cs
         \/ /\ Asks(p) # {}
            /\ \E c \in CallIds :
                  /\ calls[c].op = "none"
                  /\ NewRead(calls'[c], "shown", p, TRUE)
                  /\ \A d \in CallIds \ {c} :
                        /\ calls'[d].knows = cs[d].knows
                        /\ Lost(calls'[d], cs[d],
                                IF cs[d].page = "shown" THEN {"generation"} ELSE {})
    BY <1>1, <1>2, <1>3, <1>4, RefreshFacts DEF Slots, q
<1>6. /\ q.kind = o.kind /\ q.busy = FALSE
      /\ q.result = None /\ q.solved = None /\ q.own = None
      /\ Asks(p) = {} => q.pending = FALSE
      /\ Asks(p) # {} => q.pending = TRUE
    BY <1>3, <1>5, RefreshedFacts
<1> HIDE DEF o
<1>7. TypeOK'
    BY <1>1, <1>2, <1>5 DEF TypeOK
<1>8. ShownFacts'
    BY <1>6 DEF ShownFacts, Own, Page, q
<1>9. LoggedOutLeaves'
    BY <1>1, <1>6 DEF LoggedOutLeaves, Allowed, Page, q, o
<1>10. HistoryFacts'
    BY <1>6 DEF HistoryFacts, Page, q
<1>11. \A s \in Slots : /\ pages'[s].kind = pages[s].kind
                        /\ pages[s].kind = "home" => pages'[s] = pages[s]
    BY <1>1, <1>5, <1>6 DEF Slots, o, q
<1>12. /\ \A d \in CallIds : calls[d].loads = FALSE /\ calls[d].page # "next"
       /\ loading # "next"
    BY <1>1, NothingLoads, NoneIsNothingElse
<1> DEFINE X(d) == IF calls[d].page = "shown" THEN PageCounters ELSE {}
<1>13. ASSUME NEW d \in CallIds, Lost(calls'[d], calls[d], X(d)), calls'[d].knows = calls[d].knows
       PROVE  /\ SessionFacts(calls[d])' /\ PageFacts(calls[d])'
              /\ calls'[d].page = calls[d].page /\ calls'[d].op = calls[d].op
              /\ ~Writes(calls'[d], "shown") /\ ~Reads(calls'[d], "shown")
    <2>1. calls[d].page = "shown" => "lifetime" \in X(d) /\ "history" \in X(d) /\ "generation" \in X(d)
        BY DEF PageCounters
    <2>2. /\ calls'[d].page = calls[d].page /\ calls'[d].op = calls[d].op
          /\ calls'[d].stamps = calls[d].stamps \ X(d)
        BY <1>13 DEF Lost
    <2> HIDE DEF X
    <2>3. SessionFacts(calls[d])' /\ PageFacts(calls[d])'
        BY <1>1, <1>11, <1>12, <1>13, <2>1, Others DEF Slots
    <2>4. QED BY <2>1, <2>2, <2>3 DEF Writes, Reads, Current
<1>14. CASE Asks(p) = {}
    <2>1. \A d \in CallIds : Lost(calls'[d], calls[d], X(d)) /\ calls'[d].knows = calls[d].knows
        BY <1>4, <1>5, <1>14
    <2> HIDE DEF X
    <2>2. \A d \in CallIds : /\ SessionFacts(calls[d])' /\ PageFacts(calls[d])'
                             /\ calls'[d].page = calls[d].page /\ calls'[d].op = calls[d].op
                             /\ ~Writes(calls'[d], "shown") /\ ~Reads(calls'[d], "shown")
        BY <1>13, <2>1
    <2>3. HomeFacts' BY <1>11, <2>2, HomeKept
    <2>4. NextFacts' BY <1>1, <1>5, <1>12, <2>2, NextKept
    <2>5. BusyFacts("shown")' BY <1>6, <2>2 DEF BusyFacts, Writes, Current, q
    <2>6. PendingFacts("shown")' BY <1>6, <1>14, <2>2 DEF PendingFacts, Reads, q
    <2>7. PendingFacts("next")'
        <3>1. \A d \in CallIds : Reads(calls'[d], "next") <=> Reads(calls[d], "next")
            BY <1>12, <2>2 DEF Reads
        <3>2. QED BY <1>5, <3>1, PendingKept DEF Slots
    <2>8. LogoutFacts' BY <1>1, <2>2, LogoutKept
    <2>9. QED BY <1>7, <1>8, <1>9, <1>10, <2>2, <2>3, <2>4, <2>5, <2>6, <2>7, <2>8 DEF IInv
<1>15. CASE Asks(p) # {}
    <2>1. PICK c \in CallIds :
              /\ calls[c].op = "none"
              /\ NewRead(calls'[c], "shown", p, TRUE)
              /\ \A d \in CallIds \ {c} :
                    /\ calls'[d].knows = cs[d].knows
                    /\ Lost(calls'[d], cs[d], IF cs[d].page = "shown" THEN {"generation"} ELSE {})
        BY <1>5, <1>15
    <2>2. \A d \in CallIds \ {c} : Lost(calls'[d], calls[d], X(d)) /\ calls'[d].knows = calls[d].knows
        BY <1>4, <2>1 DEF Lost, PageCounters
    <2> HIDE DEF X
    <2>3. \A d \in CallIds \ {c} :
              /\ SessionFacts(calls[d])' /\ PageFacts(calls[d])'
              /\ calls'[d].page = calls[d].page /\ calls'[d].op = calls[d].op
              /\ ~Writes(calls'[d], "shown") /\ ~Reads(calls'[d], "shown")
        BY <1>13, <2>2
    <2>4. SessionFacts(calls[c])' /\ PageFacts(calls[c])'
        BY <1>1, <1>2, <1>3, <1>6, <2>1, NewReadFacts DEF Slots, q
    <2>5. /\ calls'[c].op = "read" /\ calls'[c].page = "shown" /\ "generation" \in calls'[c].stamps
          /\ calls[c].op = "none"
        BY <2>1 DEF NewRead
    <2>6. HomeFacts' BY <1>1, <1>11, <2>3, <2>5, HomeKept DEF o
    <2>7. NextFacts' BY <1>1, <1>5, <1>12, <2>3, <2>5, NextKept
    <2>8. BusyFacts("shown")'
        <3>1. ~Writes(calls'[c], "shown")
            BY <2>5 DEF Writes, WriteOps
        <3>2. QED BY <1>6, <2>3, <3>1 DEF BusyFacts, Writes, Current, q
    <2>9. PendingFacts("shown")'
        <3>1. Reads(calls'[c], "shown")
            BY <2>5 DEF Reads
        <3>2. QED BY <1>6, <1>15, <2>3, <3>1 DEF PendingFacts, Reads, q
    <2>10. PendingFacts("next")'
        <3>1. \A d \in CallIds : Reads(calls'[d], "next") <=> Reads(calls[d], "next")
            BY <1>12, <2>3, <2>5 DEF Reads
        <3>2. QED BY <1>5, <3>1, PendingKept DEF Slots
    <2>11. LogoutFacts' BY <1>1, <2>3, <2>5, LogoutKept
    <2>12. QED BY <1>7, <1>8, <1>9, <1>10, <2>3, <2>4, <2>6, <2>7, <2>8, <2>9, <2>10, <2>11 DEF IInv
<1>16. QED BY <1>14, <1>15

\* A route to another page, which starts to load.
LEMMA NavigateStep ==
    IInv /\ (\E kind \in Kinds, id \in Ids \cup {None} : Navigate(kind, id)) => IInv'
<1> SUFFICES ASSUME IInv, NEW kind \in Kinds, NEW id \in Ids \cup {None}, Navigate(kind, id)
             PROVE  IInv'
    OBVIOUS
<1> DEFINE k == CanLoad(kind)
           p == Blank(k, IF k \in {"detail", "editor"} THEN id ELSE None)
           q == pages'["next"]
<1>1. /\ Refresh("next", p, calls, TRUE)
      /\ loading = None /\ loading' = "next" /\ hash' = None
      /\ session' = session /\ appBusy' = appBusy
    BY DEF Navigate
<1>2. k \in PageKinds /\ (k \in PrivateKinds => session # None)
    BY KindsAreKnown DEF CanLoad, PageKinds, PrivateKinds, Allowed
<1>3. TypeOK /\ calls \in [CallIds -> CallRecord]
    BY Known
<1> HIDE DEF k
<1>4. /\ p \in PageRecord /\ p.kind = k /\ p.pending = FALSE /\ p.busy = FALSE
      /\ p.own = None /\ p.result = None /\ p.solved = None
    BY <1>2 DEF Blank, PageRecord
<1> HIDE DEF p, q
<1>5. /\ pages' \in [shown : PageRecord, next : PageRecord]
      /\ q = Refreshed(p) /\ pages'["shown"] = pages["shown"]
      /\ calls' \in [CallIds -> CallRecord]
      /\ \/ Asks(p) = {} /\ calls' = calls
         \/ /\ Asks(p) # {}
            /\ \E c \in CallIds :
                  /\ calls[c].op = "none"
                  /\ NewRead(calls'[c], "next", p, TRUE)
                  /\ \A d \in CallIds \ {c} :
                        /\ calls'[d].knows = calls[d].knows
                        /\ Lost(calls'[d], calls[d],
                                IF calls[d].page = "next" THEN {"generation"} ELSE {})
    BY <1>1, <1>3, <1>4, RefreshFacts DEF Slots, q
<1>6. /\ q.kind = k /\ q.busy = FALSE
      /\ q.result = None /\ q.solved = None /\ q.own = None
      /\ Asks(p) = {} => q.pending = FALSE
      /\ Asks(p) # {} => q.pending = TRUE
    BY <1>4, <1>5, RefreshedFacts
<1>7. TypeOK'
    BY <1>1, <1>3, <1>5 DEF TypeOK
<1>8. ShownFacts'
    <2>1. ShownFacts
        BY DEF IInv
    <2>2. QED BY <2>1, <1>1, <1>5 DEF ShownFacts, Own, Page
<1>9. LoggedOutLeaves'
    BY <1>1 DEF LoggedOutLeaves
<1>10. \A d \in CallIds : calls[d].loads = FALSE /\ calls[d].page # "next"
    BY <1>1, NothingLoads
<1>11. HomeFacts
    BY DEF IInv
<1>12. q.kind # "home"
    BY <1>2, <1>6 DEF PageKinds
<1>13. ASSUME NEW d \in CallIds, Lost(calls'[d], calls[d], {}), calls'[d].knows = calls[d].knows
       PROVE  /\ SessionFacts(calls[d])' /\ PageFacts(calls[d])'
              /\ calls'[d].page = calls[d].page /\ calls'[d].op = calls[d].op
              /\ calls'[d].stamps = calls[d].stamps
    <2>1. SessionFacts(calls[d])' /\ PageFacts(calls[d])'
        BY <1>1, <1>5, <1>10, <1>13, Others DEF Slots
    <2>2. QED BY <1>13, <2>1 DEF Lost
<1>14. CASE Asks(p) = {}
    <2>1. \A d \in CallIds : Lost(calls'[d], calls[d], {}) /\ calls'[d].knows = calls[d].knows
        BY <1>3, <1>5, <1>14 DEF Lost
    <2>2. \A d \in CallIds : /\ SessionFacts(calls[d])' /\ PageFacts(calls[d])'
        BY <1>13, <2>1
    <2>3. calls' = calls
        BY <1>5, <1>14
    <2>4. HomeFacts' BY <1>5, <1>11, <1>12, <2>3 DEF HomeFacts, Home, Blank, Slots, q
    <2>5. NextFacts' BY <1>1, <1>2, <1>6, <1>10, <2>3 DEF NextFacts, Own, q
    <2>6. BusyFacts("shown")' BY <1>5, <2>3, BusyKept
    <2>7. PendingFacts("shown")' BY <1>5, <2>3, PendingKept DEF Slots
    <2>8. PendingFacts("next")' BY <1>6, <1>10, <1>14, <2>3 DEF PendingFacts, Reads, q
    <2>9. LogoutFacts' BY <1>1, <2>3, LogoutKept
    <2>10. HistoryFacts'
        <3>1. HistoryFacts
            BY DEF IInv
        <3>2. QED BY <1>5, <2>3, <3>1 DEF HistoryFacts, Page, Awaited
    <2>11. QED BY <1>7, <1>8, <1>9, <2>2, <2>4, <2>5, <2>6, <2>7, <2>8, <2>9, <2>10 DEF IInv
<1>15. CASE Asks(p) # {}
    <2>1. PICK c \in CallIds :
              /\ calls[c].op = "none"
              /\ NewRead(calls'[c], "next", p, TRUE)
              /\ \A d \in CallIds \ {c} :
                    /\ calls'[d].knows = calls[d].knows
                    /\ Lost(calls'[d], calls[d], IF calls[d].page = "next" THEN {"generation"} ELSE {})
        BY <1>5, <1>15
    <2>2. \A d \in CallIds \ {c} : Lost(calls'[d], calls[d], {}) /\ calls'[d].knows = calls[d].knows
        BY <1>10, <2>1
    <2>3. \A d \in CallIds \ {c} :
              /\ SessionFacts(calls[d])' /\ PageFacts(calls[d])'
              /\ calls'[d].page = calls[d].page /\ calls'[d].op = calls[d].op
              /\ calls'[d].stamps = calls[d].stamps
        BY <1>13, <2>2
    <2>4. SessionFacts(calls[c])' /\ PageFacts(calls[c])'
        BY <1>1, <1>3, <1>4, <1>6, <2>1, NewReadFacts DEF Slots, q
    <2>5. /\ calls'[c].op = "read" /\ calls'[c].page = "next" /\ "generation" \in calls'[c].stamps
          /\ calls[c].op = "none" /\ calls[c].page = "app"
        BY <2>1, Known DEF NewRead, PageFacts
    <2>6. HomeFacts' BY <1>5, <1>11, <1>12, <2>3, <2>5 DEF HomeFacts, Home, Blank, Slots, q
    <2>7. NextFacts' BY <1>1, <1>2, <1>6, <1>10, <2>3, <2>5 DEF NextFacts, Own, q
    <2>8. BusyFacts("shown")'
        <3>1. \A d \in CallIds : Writes(calls'[d], "shown") <=> Writes(calls[d], "shown")
            BY <2>3, <2>5 DEF Writes, Current
        <3>2. QED BY <1>5, <3>1, BusyKept
    <2>9. PendingFacts("shown")'
        <3>1. \A d \in CallIds : Reads(calls'[d], "shown") <=> Reads(calls[d], "shown")
            BY <2>3, <2>5 DEF Reads
        <3>2. QED BY <1>5, <3>1, PendingKept DEF Slots
    <2>10. PendingFacts("next")'
        <3>1. Reads(calls'[c], "next") /\ \A d \in CallIds \ {c} : ~Reads(calls'[d], "next")
            BY <1>10, <2>3, <2>5 DEF Reads
        <3>2. QED BY <1>6, <1>15, <3>1 DEF PendingFacts, Reads, q
    <2>11. LogoutFacts' BY <1>1, <2>3, <2>5, LogoutKept
    <2>12. HistoryFacts'
        <3>1. HistoryFacts
            BY DEF IInv
        <3>2. \A d \in CallIds : Awaited(calls[d]) => Awaited(calls'[d])
            BY <2>3, <2>5 DEF Awaited
        <3>3. QED BY <1>5, <3>1, <3>2 DEF HistoryFacts, Page, Awaited
    <2>13. QED BY <1>7, <1>8, <1>9, <2>3, <2>4, <2>6, <2>7, <2>8, <2>9, <2>10, <2>11, <2>12 DEF IInv
<1>16. QED BY <1>14, <1>15

\* The page that has loaded takes the place of the one on screen.
LEMMA BindStep == IInv /\ Bind => IInv'
<1> SUFFICES ASSUME IInv, Bind
             PROVE  IInv'
    OBVIOUS
<1>1. /\ loading # None /\ loading' = None
      /\ session' = session /\ hash' = hash /\ appBusy' = appBusy
    BY DEF Bind, Loaded
<1>2. TypeOK /\ calls \in [CallIds -> CallRecord]
    BY Known
<1>3. ASSUME NEW d \in CallIds
      PROVE  calls[d].loads = FALSE /\ calls[d].page # "next"
    <2>1. calls[d].loads \in BOOLEAN
        BY <1>2 DEF CallRecord
    <2>2. calls[d].op # "none" => calls[d].loads # TRUE
        BY DEF Bind, Loaded, Live
    <2>3. PageFacts(calls[d])
        BY Known
    <2>4. QED BY <2>1, <2>2, <2>3 DEF PageFacts
<1>4. /\ NextFacts /\ ShownFacts /\ LoggedOutLeaves /\ HistoryFacts /\ HomeFacts
      /\ LogoutFacts /\ PendingFacts("next")
    BY DEF IInv
<1>5. CASE loading = "shown"
    <2>1. pages' = pages /\ calls' = calls
        BY <1>5 DEF Bind
    <2>2. ASSUME NEW d \in CallIds
          PROVE  SessionFacts(calls[d])' /\ PageFacts(calls[d])'
        <3>1. Lost(calls'[d], calls[d], {}) /\ calls'[d].knows = calls[d].knows
            BY <1>2, <2>1 DEF Lost
        <3>2. QED BY <1>1, <1>3, <2>1, <3>1, Others DEF Slots
    <2>3. TypeOK' BY <1>1, <1>2, <2>1 DEF TypeOK
    <2>4. HomeFacts' BY <2>1, HomeKept
    <2>5. NextFacts' BY <1>1, <1>5, <2>1, NextKept
    <2>6. BusyFacts("shown")' BY <2>1, BusyKept
    <2>7. PendingFacts("shown")' /\ PendingFacts("next")' BY <2>1, PendingKept DEF Slots
    <2>8. LogoutFacts' BY <1>1, <2>1, LogoutKept
    <2>9. ShownFacts' BY <1>1, <1>4, <2>1 DEF ShownFacts, Own, Page
    <2>10. LoggedOutLeaves' BY <1>1, <1>4, <1>5, <2>1 DEF LoggedOutLeaves, Allowed, Page
    <2>11. HistoryFacts' BY <1>4, <2>1 DEF HistoryFacts, Page, Awaited
    <2>12. QED BY <2>2, <2>3, <2>4, <2>5, <2>6, <2>7, <2>8, <2>9, <2>10, <2>11 DEF IInv
<1>6. CASE loading # "shown"
    <2> DEFINE n == pages["next"]
    <2>1. /\ pages' = [shown |-> n, next |-> Home]
          /\ calls' = [c \in CallIds |-> IF calls[c].page = "shown" THEN Orphan(calls[c]) ELSE calls[c]]
        BY <1>6 DEF Bind
    <2>2. n \in PageRecord /\ Home \in PageRecord /\ pages["shown"].challenge \in BOOLEAN
        BY <1>2, PageTypes DEF Home, Blank, PageRecord
    <2> HIDE DEF n
    <2>3. pages'["shown"] = n /\ pages'["next"] = Home
        BY <2>1
    <2>4. ASSUME NEW d \in CallIds
          PROVE  /\ calls'[d] \in CallRecord /\ calls'[d].op = calls[d].op
                 /\ calls'[d].user = calls[d].user /\ calls'[d].wait = calls[d].wait
                 /\ calls'[d].loads = FALSE /\ calls'[d].page \notin Slots
                 /\ calls'[d].stamps \subseteq calls[d].stamps
                 /\ calls[d].page = "shown" =>
                        calls'[d].page = "gone" /\ calls'[d].stamps \cap PageCounters = {}
                 /\ calls[d].page # "shown" => calls'[d] = calls[d]
        <3>1. calls[d] \in CallRecord
            BY <1>2
        <3>2. CASE calls[d].page = "shown"
            <4>1. calls'[d] = Orphan(calls[d])
                BY <2>1, <3>2
            <4>2. /\ calls'[d] \in CallRecord /\ calls'[d].op = calls[d].op
                  /\ calls'[d].user = calls[d].user /\ calls'[d].wait = calls[d].wait
                  /\ calls'[d].loads = calls[d].loads /\ calls'[d].page = "gone"
                  /\ calls'[d].stamps = calls[d].stamps \ PageCounters
                BY <1>2, <3>1, <4>1, OrphanFacts
            <4>3. QED BY <1>3, <3>2, <4>2 DEF Slots
        <3>3. CASE calls[d].page # "shown"
            <4>1. calls'[d] = calls[d]
                BY <2>1, <3>3
            <4>2. QED BY <1>3, <3>1, <3>3, <4>1 DEF Slots
        <3>4. QED BY <3>2, <3>3
    <2>5. TypeOK'
        <3>1. calls' \in [CallIds -> CallRecord]
            <4>1. calls' = [c \in CallIds |-> calls'[c]]
                BY <2>1
            <4>2. QED BY <2>4, <4>1
        <3>2. pages' \in [shown : PageRecord, next : PageRecord]
            BY <2>1, <2>2
        <3>3. QED BY <1>1, <1>2, <3>1, <3>2 DEF TypeOK
    <2>6. ASSUME NEW d \in CallIds
          PROVE  SessionFacts(calls[d])' /\ PageFacts(calls[d])'
        <3>1. SessionFacts(calls[d]) /\ PageFacts(calls[d])
            BY Known
        <3>2. SessionFacts(calls[d])'
            BY <1>1, <2>4, <3>1 DEF SessionFacts
        <3>3. /\ calls[d].page # "shown" => ~("lifetime" \in calls[d].stamps /\ calls[d].op \in WriteOps)
              /\ calls[d].page # "shown" => "generation" \notin calls[d].stamps
              /\ ~Awaited(calls'[d])
            BY <1>3, <2>4, <3>1 DEF PageFacts, Slots, Awaited
        <3>4. QED BY <2>4, <3>1, <3>2, <3>3 DEF PageFacts, Slots, PageCounters, Awaited
    <2>7. HomeFacts'
        BY <1>4, <2>3, <2>4 DEF HomeFacts, Home, Blank, Slots, n
    <2>8. ShownFacts'
        BY <1>1, <1>4, <2>3 DEF ShownFacts, NextFacts, Own, Page, n
    <2>9. NextFacts'
        <3>1. LET p == pages'["next"]
              IN  /\ p.kind = "home" /\ p.busy = FALSE
                  /\ p.own = None /\ p.result = None /\ p.solved = None
            BY <2>3, HomeFields
        <3>2. QED BY <2>3, <2>4, <3>1 DEF NextFacts, Own, Home, Blank, PrivateKinds, Slots
    <2>10. BusyFacts("shown")'
        BY <1>4, <2>3, <2>4 DEF BusyFacts, Writes, NextFacts, Slots, n
    <2>11. PendingFacts("shown")'
        BY <1>3, <1>4, <2>3, <2>4 DEF PendingFacts, Reads, Slots, n
    <2>12. PendingFacts("next")'
        <3>1. pages'["next"].pending = FALSE
            BY <2>3, HomeFields
        <3>2. QED BY <2>4, <3>1 DEF PendingFacts, Reads, Slots
    <2>13. LogoutFacts'
        BY <1>1, <2>4, LogoutKept
    <2>14. LoggedOutLeaves'
        BY <1>1, <1>4, <2>3 DEF LoggedOutLeaves, NextFacts, Allowed, Page, n
    <2>15. HistoryFacts'
        BY <1>4, <2>3 DEF HistoryFacts, NextFacts, Page, n
    <2>16. QED BY <2>5, <2>6, <2>7, <2>8, <2>9, <2>10, <2>11, <2>12, <2>13, <2>14, <2>15 DEF IInv
<1>7. QED BY <1>5, <1>6

\* Buttons that send something: the page is busy with the new call.
LEMMA WriteStep ==
    ASSUME IInv, NEW op, NEW parts, Write(op, parts),
           \/ op \in {"login", "signup"} /\ parts = {"public"}
           \/ op \in {"submit", "save", "remove"} /\ parts = {"private"} /\ session # None,
           op = "submit" => Page.kind = "detail", op = "save" => Page.kind = "editor",
           Page.kind # "home"
    PROVE  IInv'
<1> DEFINE p == pages["shown"]
           q == pages'["shown"]
           R == Request(op, "shown", parts, {"lifetime"})
<1>1. /\ session' = session /\ hash' = hash /\ loading' = loading /\ appBusy' = appBusy
      /\ p.busy # TRUE
      /\ pages' = [pages EXCEPT !["shown"].busy = TRUE, !["shown"].error = FALSE,
                                !["shown"].result = None]
    BY DEF Write, Page
<1>2. PICK c \in CallIds : calls[c].op = "none" /\ calls' = [calls EXCEPT ![c] = R]
    BY DEF Write, FreeCall, Live
<1>3. TypeOK /\ calls \in [CallIds -> CallRecord] /\ p \in PageRecord /\ pages \in [Slots -> PageRecord]
    BY Known, PageTypes
<1>4. IsRequest(R, op, "shown", parts, {"lifetime"})
    <2>1. /\ op \in CallOps /\ "shown" \in CallPages
          /\ parts \subseteq {"public", "private"} /\ {"lifetime"} \subseteq PageCounters
        BY DEF CallOps, CallPages, WriteOps, PageCounters
    <2>2. QED BY <1>3, <2>1, RequestFacts
<1>5. /\ R \in CallRecord /\ R.op = op /\ R.page = "shown" /\ R.loads = FALSE /\ R.wait = parts
      /\ R.stamps = {"lifetime", "version"} /\ R.id = p.id
      /\ parts = {"private"} => R.user = session
    BY <1>4 DEF IsRequest, Slots
<1> HIDE DEF R
<1>6. /\ calls' \in [CallIds -> CallRecord] /\ calls'[c] = R
      /\ \A d \in CallIds \ {c} : calls'[d] = calls[d]
    BY <1>2, <1>3, <1>5
<1>7. /\ pages' \in [shown : PageRecord, next : PageRecord]
      /\ pages'["next"] = pages["next"]
      /\ q.kind = p.kind /\ q.id = p.id /\ q.pending = p.pending /\ q.busy = TRUE
      /\ q.own = p.own /\ q.result = None /\ q.solved = p.solved
    <2>1. q = [p EXCEPT !.busy = TRUE, !.error = FALSE, !.result = None] /\ pages'["next"] = pages["next"]
        BY <1>1, <1>3 DEF Slots
    <2>2. q \in PageRecord /\ pages["next"] \in PageRecord
        BY <2>1, <1>3 DEF PageRecord, Slots
    <2>3. pages' = [shown |-> q, next |-> pages["next"]]
        BY <1>1, <1>3, <2>1 DEF Slots
    <2>4. QED BY <2>1, <2>2, <2>3, <1>3 DEF PageRecord
<1> HIDE DEF p, q
<1>8. ASSUME NEW d \in CallIds
      PROVE  SessionFacts(calls[d])' /\ PageFacts(calls[d])'
    <2>1. CASE d # c
        <3>1. Lost(calls'[d], calls[d], {}) /\ calls'[d].knows = calls[d].knows
            BY <1>3, <1>6, <2>1 DEF Lost
        <3>2. QED BY <1>1, <1>7, <3>1, Others DEF Slots, p, q
    <2>2. CASE d = c
        <3>1. SessionFacts(calls[c])'
            <4>1. session \in Users \cup {None}
                BY <1>3 DEF TypeOK
            <4>2. QED BY <1>1, <1>5, <1>6, <4>1 DEF SessionFacts, TiedOps
        <3>2. R.op \in WriteOps /\ ~Awaited(R)
            BY <1>5 DEF WriteOps, Awaited
        <3>3. PageFacts(calls[c])'
            BY <1>5, <1>6, <1>7, <3>2 DEF PageFacts, Page, Awaited, Slots, p, q
        <3>4. QED BY <2>2, <3>1, <3>3
    <2>3. QED BY <2>1, <2>2
<1>9. TypeOK'
    BY <1>1, <1>3, <1>6, <1>7 DEF TypeOK
<1>10. /\ calls[c].page = "app" /\ calls[c].stamps = {}
    BY <1>2, Known DEF PageFacts
<1>11. HomeFacts'
    BY <1>5, <1>6, <1>7, HomeKept DEF Slots, Page, p, q
<1>12. ShownFacts'
    <2>1. ShownFacts
        BY DEF IInv
    <2>2. QED BY <1>1, <1>7, <2>1 DEF ShownFacts, Own, Page, p, q
<1>13. NextFacts'
    BY <1>1, <1>5, <1>6, <1>7, NextKept
<1>14. BusyFacts("shown")'
    <2>1. \A d \in CallIds : ~Writes(calls[d], "shown")
        BY <1>1 DEF IInv, BusyFacts, p
    <2>2. Writes(calls'[c], "shown")
        BY <1>5, <1>6 DEF Writes, Current, WriteOps
    <2>3. QED BY <1>6, <1>7, <2>1, <2>2 DEF BusyFacts, Writes, Current, q
<1>15. PendingFacts("shown")' /\ PendingFacts("next")'
    <2>1. \A d \in CallIds, s \in Slots : Reads(calls'[d], s) <=> Reads(calls[d], s)
        BY <1>5, <1>6, <1>10 DEF Reads, Slots
    <2>2. QED BY <1>7, <2>1, PendingKept DEF Slots, p, q
<1>16. LogoutFacts'
    BY <1>1, <1>2, <1>5, <1>6, LogoutKept
<1>17. LoggedOutLeaves'
    <2>1. LoggedOutLeaves
        BY DEF IInv
    <2>2. QED BY <1>1, <1>7, <2>1 DEF LoggedOutLeaves, Allowed, Page, p, q
<1>18. HistoryFacts'
    BY <1>7 DEF HistoryFacts, Page, q
<1>19. QED BY <1>8, <1>9, <1>11, <1>12, <1>13, <1>14, <1>15, <1>16, <1>17, <1>18 DEF IInv

\* The buttons of the pages that are bound.
LEMMA WriteButtonStep == IInv /\ (Login \/ Signup \/ Submit \/ Save \/ Remove) => IInv'
<1> SUFFICES ASSUME IInv, Login \/ Signup \/ Submit \/ Save \/ Remove
             PROVE  IInv'
    OBVIOUS
<1>1. CASE Login BY <1>1, WriteStep DEF Login
<1>2. CASE Signup BY <1>2, WriteStep DEF Signup
<1>3. CASE Submit BY <1>3, WriteStep DEF Submit, Allowed
<1>4. CASE Save BY <1>4, WriteStep DEF Save, Allowed
<1>5. CASE Remove BY <1>5, WriteStep DEF Remove, Allowed
<1>6. QED BY <1>1, <1>2, <1>3, <1>4, <1>5

\* A complaint about the input changes nothing else.
LEMMA InputErrorStep == IInv /\ InputError => IInv'
<1> SUFFICES ASSUME IInv, InputError
             PROVE  IInv'
    OBVIOUS
<1> DEFINE p == pages["shown"]
           q == pages'["shown"]
<1>1. /\ session' = session /\ hash' = hash /\ loading' = loading /\ appBusy' = appBusy
      /\ calls' = calls /\ p.kind # "home"
      /\ pages' = [pages EXCEPT !["shown"].error = TRUE]
    BY DEF InputError, Page
<1>2. TypeOK /\ calls \in [CallIds -> CallRecord] /\ p \in PageRecord /\ pages \in [Slots -> PageRecord]
    BY Known, PageTypes
<1>3. /\ pages' \in [shown : PageRecord, next : PageRecord]
      /\ pages'["next"] = pages["next"]
      /\ q.kind = p.kind /\ q.id = p.id /\ q.pending = p.pending /\ q.busy = p.busy
      /\ q.own = p.own /\ q.result = p.result /\ q.solved = p.solved
      /\ q.challenge = p.challenge /\ q.historyError = p.historyError
    <2>1. q = [p EXCEPT !.error = TRUE] /\ pages'["next"] = pages["next"]
        BY <1>1, <1>2 DEF Slots
    <2>2. q \in PageRecord /\ pages["next"] \in PageRecord
        BY <2>1, <1>2 DEF PageRecord, Slots
    <2>3. pages' = [shown |-> q, next |-> pages["next"]]
        BY <1>1, <1>2, <2>1 DEF Slots
    <2>4. QED BY <2>1, <2>2, <2>3, <1>2 DEF PageRecord
<1> HIDE DEF p, q
<1>4. ASSUME NEW d \in CallIds
      PROVE  SessionFacts(calls[d])' /\ PageFacts(calls[d])'
    <2>1. Lost(calls'[d], calls[d], {}) /\ calls'[d].knows = calls[d].knows
        BY <1>1, <1>2 DEF Lost
    <2>2. QED BY <1>1, <1>3, <2>1, Others DEF Slots, p, q
<1>5. TypeOK' BY <1>1, <1>2, <1>3 DEF TypeOK
<1>6. HomeFacts' BY <1>1, <1>3, HomeKept DEF Slots, p, q
<1>7. ShownFacts /\ LoggedOutLeaves /\ HistoryFacts BY DEF IInv
<1>8. ShownFacts' BY <1>1, <1>3, <1>7 DEF ShownFacts, Own, Page, p, q
<1>9. NextFacts' BY <1>1, <1>3, NextKept
<1>10. BusyFacts("shown")' BY <1>1, <1>3, BusyKept DEF p, q
<1>11. PendingFacts("shown")' /\ PendingFacts("next")' BY <1>1, <1>3, PendingKept DEF Slots, p, q
<1>12. LogoutFacts' BY <1>1, LogoutKept
<1>13. LoggedOutLeaves' BY <1>1, <1>3, <1>7 DEF LoggedOutLeaves, Allowed, Page, p, q
<1>14. HistoryFacts' BY <1>1, <1>3, <1>7 DEF HistoryFacts, Page, Awaited, p, q
<1>15. QED BY <1>4, <1>5, <1>6, <1>8, <1>9, <1>10, <1>11, <1>12, <1>13, <1>14 DEF IInv

\* The button of MyApp.
LEMMA LogoutStep == IInv /\ Logout => IInv'
<1> SUFFICES ASSUME IInv, Logout
             PROVE  IInv'
    OBVIOUS
<1> DEFINE R == Request("logout", "app", {"private"}, {})
<1>1. /\ session' = session /\ hash' = hash /\ loading' = loading /\ pages' = pages
      /\ appBusy # TRUE /\ appBusy' = TRUE /\ session # None
    BY DEF Logout, Allowed
<1>2. PICK c \in CallIds : calls[c].op = "none" /\ calls' = [calls EXCEPT ![c] = R]
    BY DEF Logout, FreeCall, Live
<1>3. TypeOK /\ calls \in [CallIds -> CallRecord]
    BY Known
<1>4. IsRequest(R, "logout", "app", {"private"}, {})
    <2>1. /\ "logout" \in CallOps /\ "app" \in CallPages
          /\ {"private"} \subseteq {"public", "private"} /\ {} \subseteq PageCounters
        BY DEF CallOps, CallPages
    <2>2. QED BY <1>3, <2>1, RequestFacts
<1>5. /\ R \in CallRecord /\ R.op = "logout" /\ R.page = "app" /\ R.loads = FALSE
      /\ R.wait = {"private"} /\ R.stamps = {"version"} /\ R.user = session
    BY <1>4 DEF IsRequest
<1> HIDE DEF R
<1>6. /\ calls' \in [CallIds -> CallRecord] /\ calls'[c] = R
      /\ \A d \in CallIds \ {c} : calls'[d] = calls[d]
    BY <1>2, <1>3, <1>5
<1>7. /\ calls[c].page = "app" /\ calls[c].stamps = {}
    BY <1>2, Known DEF PageFacts
<1>8. ASSUME NEW d \in CallIds
      PROVE  SessionFacts(calls[d])' /\ PageFacts(calls[d])'
    <2>1. CASE d # c
        <3>1. Lost(calls'[d], calls[d], {}) /\ calls'[d].knows = calls[d].knows
            BY <1>3, <1>6, <2>1 DEF Lost
        <3>2. QED BY <1>1, <3>1, Others
    <2>2. CASE d = c
        <3>1. session \in Users \cup {None}
            BY <1>3 DEF TypeOK
        <3>2. SessionFacts(calls[c])'
            BY <1>1, <1>5, <1>6, <3>1 DEF SessionFacts
        <3>3. PageFacts(calls[c])'
            BY <1>5, <1>6 DEF PageFacts, Slots, WriteOps, Awaited
        <3>4. QED BY <2>2, <3>2, <3>3
    <2>3. QED BY <2>1, <2>2
<1>9. TypeOK' BY <1>1, <1>3, <1>6 DEF TypeOK
<1>10. HomeFacts' BY <1>1, <1>5, <1>6, HomeKept DEF Slots
<1>11. ShownFacts /\ LoggedOutLeaves /\ HistoryFacts /\ LogoutFacts BY DEF IInv
<1>12. ShownFacts' BY <1>1, <1>11 DEF ShownFacts, Own, Page
<1>13. NextFacts' BY <1>1, <1>5, <1>6, NextKept
<1>14. BusyFacts("shown")'
    <2>1. \A d \in CallIds : Writes(calls'[d], "shown") <=> Writes(calls[d], "shown")
        BY <1>5, <1>6, <1>7 DEF Writes, Current
    <2>2. QED BY <1>1, <2>1, BusyKept
<1>15. PendingFacts("shown")' /\ PendingFacts("next")'
    <2>1. \A d \in CallIds, s \in Slots : Reads(calls'[d], s) <=> Reads(calls[d], s)
        BY <1>5, <1>6, <1>7 DEF Reads, Slots
    <2>2. QED BY <1>1, <2>1, PendingKept DEF Slots
<1>16. LogoutFacts' BY ZenonT(40), <1>1, <1>5, <1>6, <1>11 DEF LogoutFacts
<1>17. LoggedOutLeaves' BY <1>1, <1>11 DEF LoggedOutLeaves, Allowed, Page
<1>18. HistoryFacts'
    <2>1. \A d \in CallIds : Awaited(calls'[d]) <=> Awaited(calls[d])
        BY <1>5, <1>6, <1>7 DEF Awaited
    <2>2. QED BY <1>1, <1>11, <2>1 DEF HistoryFacts, Page, Awaited
<1>19. QED BY <1>8, <1>9, <1>10, <1>12, <1>13, <1>14, <1>15, <1>16, <1>17, <1>18 DEF IInv

\* The call that refreshHistory has just made.
NewHistory(k, op, s, loads) ==
    /\ k \in CallRecord
    /\ k.op = op /\ k.page = s /\ k.loads = loads
    /\ k.wait \subseteq {"public", "private"} /\ k.user = session
    /\ k.stamps = {"lifetime", "history", "version"}
    /\ s \in Slots => k.id = pages[s].id
    /\ s = "shown" /\ Page.result # None => k.knows = TRUE

\* It outdates the lists its page awaits.
HistoryMade(new, cs, op, c, s, loads) ==
    /\ new \in [CallIds -> CallRecord]
    /\ NewHistory(new[c], op, s, loads)
    /\ \A d \in CallIds \ {c} :
          /\ Lost(new[d], cs[d], IF cs[d].page = s THEN {"history"} ELSE {})
          /\ new[d].knows = cs[d].knows

\* History makes such a call.
LEMMA HistoryCalls ==
    ASSUME TypeOK, NEW op, op \in {"history", "submitted"}, NEW c \in CallIds,
           NEW s, s \in CallPages, NEW loads \in BOOLEAN,
           NEW cs, cs \in [CallIds -> CallRecord],
           NEW new, new = History(op, c, s, loads, cs)
    PROVE  HistoryMade(new, cs, op, c, s, loads)
<1> DEFINE R == Request(op, s, HistoryParts, {"lifetime", "history"})
           b == Bump(cs, s, {"history"})
<1>1. new = [b EXCEPT ![c] = [R EXCEPT !.loads = loads]]
    BY DEF History
<1>2. /\ HistoryParts \subseteq {"public", "private"}
      /\ "private" \in HistoryParts => session # None
      /\ "private" \notin HistoryParts => session = None
    BY DEF HistoryParts, Allowed
<1>3. IsRequest(R, op, s, HistoryParts, {"lifetime", "history"})
    <2>1. op \in CallOps /\ {"lifetime", "history"} \subseteq PageCounters
        BY DEF CallOps, WriteOps, PageCounters
    <2>2. QED BY <1>2, <2>1, RequestFacts
<1>4. /\ R \in CallRecord /\ R.op = op /\ R.page = s /\ R.wait \subseteq {"public", "private"}
      /\ R.user = session /\ R.stamps = {"lifetime", "history", "version"}
      /\ s \in Slots => R.id = pages[s].id
      /\ s = "shown" /\ Page.result # None => R.knows = TRUE
    BY <1>2, <1>3 DEF IsRequest
<1>5. b \in [CallIds -> CallRecord]
    BY BumpFacts
<1>6. \A d \in CallIds : /\ Lost(b[d], cs[d], IF cs[d].page = s THEN {"history"} ELSE {})
                         /\ b[d].knows = cs[d].knows
    BY BumpFacts
<1> HIDE DEF R, b
<1> DEFINE k == [R EXCEPT !.loads = loads]
<1>7. NewHistory(k, op, s, loads)
    BY <1>4 DEF NewHistory, CallRecord
<1>8. k \in CallRecord /\ new = [b EXCEPT ![c] = k]
    BY <1>1, <1>7 DEF NewHistory
<1> HIDE DEF k
<1>9. /\ new \in [CallIds -> CallRecord] /\ new[c] = k
      /\ \A d \in CallIds \ {c} : new[d] = b[d]
    BY <1>5, <1>8
<1>10. QED BY <1>6, <1>7, <1>9 DEF HistoryMade

\* Such a call has its facts.
LEMMA NewHistoryFacts ==
    ASSUME NEW c \in CallIds, NEW op, op \in {"history", "submitted"}, NEW s, s \in CallPages,
           NEW loads \in BOOLEAN, NewHistory(calls'[c], op, s, loads), session' = session,
           op = "submitted" => s = "shown",
           s = "next" => loads = TRUE /\ op = "history",
           loads = TRUE => s = loading' /\ s \in Slots,
           s \in Slots => pages'[s].id = pages[s].id,
           s = "shown" /\ pages'["shown"].result # None => calls'[c].knows = TRUE
    PROVE  SessionFacts(calls[c])' /\ PageFacts(calls[c])'
<1> DEFINE m == calls'[c]
<1>1. /\ m.op = op /\ m.page = s /\ m.loads = loads /\ m.user = session
      /\ m.stamps = {"lifetime", "history", "version"}
      /\ s \in Slots => m.id = pages[s].id
    BY DEF NewHistory
<1>2. SessionFacts(calls[c])'
    BY <1>1 DEF SessionFacts
<1> HIDE DEF m
<1>3. /\ m.op # "none" /\ "generation" \notin m.stamps
      /\ m.op \in WriteOps => m.page = "shown" /\ m.op # "submit" /\ m.op # "save"
    BY <1>1 DEF WriteOps
<1>4. /\ m.page = "next" => m.loads = TRUE /\ m.op \in {"read", "history"}
      /\ m.loads = TRUE => m.page = loading' /\ m.page \in Slots
      /\ m.page \in Slots => m.id = pages'[m.page].id
    BY <1>1
<1>5. Awaited(m) /\ pages'["shown"].result # None => m.knows = TRUE
    BY <1>1 DEF Awaited, m
<1>6. PageFacts(calls[c])'
    BY <1>3, <1>4, <1>5 DEF PageFacts, Page, Awaited, m
<1>7. QED BY <1>2, <1>6

\* A new list of answers is asked for.
LEMMA HistoryButtonStep == IInv /\ HistoryButton => IInv'
<1> SUFFICES ASSUME IInv, HistoryButton
             PROVE  IInv'
    OBVIOUS
<1>1. /\ session' = session /\ hash' = hash /\ loading' = loading /\ pages' = pages
      /\ appBusy' = appBusy /\ pages["shown"].kind = "detail"
    BY DEF HistoryButton, Page
<1>2. PICK c \in CallIds : calls[c].op = "none" /\ calls' = History("history", c, "shown", FALSE, calls)
    BY DEF HistoryButton, FreeCall, Live
<1>3. TypeOK /\ calls \in [CallIds -> CallRecord]
    BY Known
<1>4. /\ calls' \in [CallIds -> CallRecord]
      /\ NewHistory(calls'[c], "history", "shown", FALSE)
      /\ \A d \in CallIds \ {c} :
            /\ Lost(calls'[d], calls[d], IF calls[d].page = "shown" THEN {"history"} ELSE {})
            /\ calls'[d].knows = calls[d].knows
    <2>1. "shown" \in CallPages /\ "history" \in {"history", "submitted"}
        BY DEF CallPages
    <2>2. HistoryMade(calls', calls, "history", c, "shown", FALSE)
        BY <1>2, <1>3, <2>1, HistoryCalls
    <2>3. QED BY <2>2 DEF HistoryMade
<1>5. /\ calls[c].page = "app" /\ calls[c].stamps = {}
    BY <1>2, Known DEF PageFacts
<1>6. /\ calls'[c].op = "history" /\ calls'[c].page = "shown" /\ Awaited(calls'[c])
      /\ Page.result # None => calls'[c].knows = TRUE
    BY <1>4 DEF NewHistory, Awaited
<1>7. \A d \in CallIds \ {c} :
          /\ calls'[d].page = calls[d].page /\ calls'[d].op = calls[d].op
          /\ calls[d].page # "shown" => calls'[d].stamps = calls[d].stamps
          /\ calls[d].page = "shown" => calls'[d].stamps = calls[d].stamps \ {"history"}
    BY <1>4 DEF Lost
<1>8. ASSUME NEW d \in CallIds
      PROVE  SessionFacts(calls[d])' /\ PageFacts(calls[d])'
    <2>1. CASE d # c
        BY <1>1, <1>4, <2>1, Others
    <2>2. CASE d = c
        BY <1>1, <1>4, <1>6, <2>2, NewHistoryFacts DEF CallPages, Page
    <2>3. QED BY <2>1, <2>2
<1>9. TypeOK' BY <1>1, <1>3, <1>4 DEF TypeOK
<1>10. HomeFacts' BY <1>1, <1>6, <1>7, HomeKept DEF Slots
<1>11. ShownFacts /\ LoggedOutLeaves BY DEF IInv
<1>12. ShownFacts' BY <1>1, <1>11 DEF ShownFacts, Own, Page
<1>13. NextFacts' BY <1>1, <1>6, <1>7, NextKept
<1>14. BusyFacts("shown")'
    <2>1. \A d \in CallIds : Writes(calls'[d], "shown") <=> Writes(calls[d], "shown")
        BY <1>5, <1>6, <1>7 DEF Writes, WriteOps, Current
    <2>2. QED BY <1>1, <2>1, BusyKept
<1>15. PendingFacts("shown")' /\ PendingFacts("next")'
    <2>1. \A d \in CallIds, s \in Slots : Reads(calls'[d], s) <=> Reads(calls[d], s)
        BY <1>5, <1>6, <1>7 DEF Reads, Slots
    <2>2. QED BY <1>1, <2>1, PendingKept DEF Slots
<1>16. LogoutFacts' BY <1>1, <1>2, <1>6, <1>7, LogoutKept
<1>17. LoggedOutLeaves' BY <1>1, <1>11 DEF LoggedOutLeaves, Allowed, Page
<1>18. HistoryFacts' BY <1>6 DEF HistoryFacts, Awaited
<1>19. QED BY <1>8, <1>9, <1>10, <1>12, <1>13, <1>14, <1>15, <1>16, <1>17, <1>18 DEF IInv
-----------------------------------------------------------------------------
(* The answers of the server. *)

\* k is call c after one of its parts has settled.
Settles(c, k) ==
    /\ k \in CallRecord /\ k.op # "none"
    /\ k.op = calls[c].op /\ k.page = calls[c].page /\ k.loads = calls[c].loads
    /\ k.id = calls[c].id /\ k.user = calls[c].user /\ k.knows = calls[c].knows
    /\ k.stamps = calls[c].stamps
    /\ k.wait \cap {"private", "body"} # {} => calls[c].wait \cap {"private", "body"} # {}
    /\ "public" \in k.wait => "public" \in calls[c].wait
    /\ k.op = "logout" => k.wait = {}
    /\ /\ "generation" \in k.stamps /\ pages[k.page].kind \in {"mine", "editor"}
       /\ k.wait = {} /\ k.failed = {}
       => k.user = session

\* Only wait and failed change.
OnlySettled(m, k, w, f) ==
    /\ m \in CallRecord /\ m.op = k.op /\ m.page = k.page /\ m.loads = k.loads
    /\ m.id = k.id /\ m.user = k.user /\ m.knows = k.knows /\ m.stamps = k.stamps
    /\ m.wait = w /\ m.failed = f

\* The same of the record that EXCEPT makes.
LEMMA SettledFields ==
    ASSUME NEW k \in CallRecord, NEW w \in SUBSET {"public", "private", "body"},
           NEW f \in SUBSET {"public", "private"}
    PROVE  OnlySettled([k EXCEPT !.wait = w, !.failed = f], k, w, f)
<1> SUFFICES ASSUME NEW m, m = [k EXCEPT !.wait = w, !.failed = f]
             PROVE  OnlySettled(m, k, w, f)
    OBVIOUS
<1>1. m \in CallRecord
    BY DEF CallRecord
<1>2. QED BY <1>1 DEF CallRecord, OnlySettled

\* A call has its facts when one of its parts has settled.
LEMMA SettlesFacts ==
    ASSUME IInv, NEW c \in CallIds, calls[c].op # "none",
           Answered(c) \/ Fulfilled(c) \/ Rejected(c) \/ \E ok \in BOOLEAN : PublicAnswered(c, ok)
    PROVE  \E k : Settles(c, k) /\ Resume(c, k)
<1> DEFINE m == calls[c]
<1>1. m \in CallRecord /\ SessionFacts(m) /\ PageFacts(m)
    BY Known
<1>2. m.wait \in SUBSET {"public", "private", "body"} /\ m.failed \in SUBSET {"public", "private"}
    BY <1>1 DEF CallRecord
<1>3. /\ m.op = "logout" => m.wait = {"private"}
      /\ "version" \in m.stamps /\ m.wait \cap {"private", "body"} # {} => m.user = session
      /\ "generation" \in m.stamps /\ pages[m.page].kind \in {"mine", "editor"} =>
             "public" \notin m.wait
    BY <1>1 DEF SessionFacts, PageFacts
<1>4. ASSUME NEW w \in SUBSET {"public", "private", "body"}, NEW f \in SUBSET {"public", "private"},
             NEW k, k = [m EXCEPT !.wait = w, !.failed = f],
             w \cap {"private", "body"} # {} => m.wait \cap {"private", "body"} # {},
             "public" \in w => "public" \in m.wait,
             m.op = "logout" => w = {},
             \/ w # {} \/ f # {} \/ "public" \in m.wait
             \/ "version" \in m.stamps /\ m.wait \cap {"private", "body"} # {}
      PROVE  Settles(c, k)
    <2>1. /\ k \in CallRecord /\ k.op = m.op /\ k.page = m.page /\ k.loads = m.loads
          /\ k.id = m.id /\ k.user = m.user /\ k.knows = m.knows /\ k.stamps = m.stamps
          /\ k.wait = w /\ k.failed = f
        <3>1. OnlySettled(k, m, w, f)
            BY <1>1, <1>4, SettledFields
        <3>2. QED BY <3>1 DEF OnlySettled
    <2>2. QED BY <1>3, <1>4, <2>1 DEF Settles
<1>5. CASE Answered(c)
    <2> DEFINE w == (m.wait \ {"private"}) \cup {"body"}
               k == [m EXCEPT !.wait = w, !.failed = m.failed]
    <2>1. "private" \in m.wait /\ m.op # "logout" /\ Resume(c, [m EXCEPT !.wait = w])
        BY <1>5 DEF Answered, Empty
    <2>2. k = [m EXCEPT !.wait = w]
        BY <1>1 DEF CallRecord
    <2>3. w \in SUBSET {"public", "private", "body"} /\ w # {} /\ ("public" \in w => "public" \in m.wait)
        BY <1>2
    <2>4. m.wait \cap {"private", "body"} # {}
        BY <2>1
    <2> HIDE DEF w
    <2>5. Settles(c, k)
        BY <1>2, <1>4, <2>1, <2>3, <2>4
    <2>6. QED BY <2>1, <2>2, <2>5
<1>6. CASE Fulfilled(c)
    <2> DEFINE w == m.wait \ {"private", "body"}
               k == [m EXCEPT !.wait = w, !.failed = m.failed]
    <2>1. /\ "body" \in m.wait \/ "private" \in m.wait
          /\ "version" \in m.stamps /\ Resume(c, [m EXCEPT !.wait = w])
        BY <1>6 DEF Fulfilled, SameVersion, Arrived
    <2>2. k = [m EXCEPT !.wait = w]
        BY <1>1 DEF CallRecord
    <2>3. /\ w \in SUBSET {"public", "private", "body"} /\ ("public" \in w => "public" \in m.wait)
          /\ w \cap {"private", "body"} = {} /\ (m.op = "logout" => w = {})
        BY <1>2, <1>3
    <2>4. m.wait \cap {"private", "body"} # {}
        BY <2>1
    <2> HIDE DEF w
    <2>5. Settles(c, k)
        BY <1>2, <1>4, <2>1, <2>3, <2>4
    <2>6. QED BY <2>1, <2>2, <2>5
<1>7. CASE Rejected(c)
    <2> DEFINE w == m.wait \ {"private", "body"}
               f == m.failed \cup {"private"}
               k == [m EXCEPT !.wait = w, !.failed = f]
    <2>1. /\ m.wait \cap {"private", "body"} # {}
          /\ Resume(c, [[m EXCEPT !.wait = w] EXCEPT !.failed = @ \cup {"private"}])
        BY <1>7 DEF Rejected, Arrived
    <2>2. k = [[m EXCEPT !.wait = w] EXCEPT !.failed = @ \cup {"private"}]
        BY <1>1 DEF CallRecord
    <2>3. /\ w \in SUBSET {"public", "private", "body"} /\ ("public" \in w => "public" \in m.wait)
          /\ w \cap {"private", "body"} = {} /\ (m.op = "logout" => w = {})
          /\ f \in SUBSET {"public", "private"} /\ f # {}
        BY <1>2, <1>3
    <2> HIDE DEF w, f
    <2>4. Settles(c, k)
        BY <1>4, <2>1, <2>3
    <2>5. QED BY <2>1, <2>2, <2>4
<1>8. CASE \E ok \in BOOLEAN : PublicAnswered(c, ok)
    <2>1. PICK ok \in BOOLEAN : PublicAnswered(c, ok)
        BY <1>8
    <2> DEFINE w == m.wait \ {"public"}
               f == m.failed \cup IF ok \/ (m.op = "read" /\ m.user # None) THEN {} ELSE {"public"}
               k == [m EXCEPT !.wait = w, !.failed = f]
    <2>2. "public" \in m.wait /\ Resume(c, k)
        BY <2>1 DEF PublicAnswered
    <2>3. /\ w \in SUBSET {"public", "private", "body"} /\ ("public" \in w => "public" \in m.wait)
          /\ w \cap {"private", "body"} # {} => m.wait \cap {"private", "body"} # {}
          /\ m.op # "logout" /\ f \in SUBSET {"public", "private"}
        BY <1>2, <1>3, <2>2
    <2> HIDE DEF w, f
    <2>4. Settles(c, k)
        BY <1>4, <2>2, <2>3
    <2>5. QED BY <2>2, <2>4
<1>9. QED BY <1>5, <1>6, <1>7, <1>8

\* What a call does when one of its parts has settled.
LEMMA ResumeCases ==
    ASSUME NEW c, NEW k, Resume(c, k)
    PROVE  /\ loading' = loading
           /\ \/ /\ ~Settled(k) /\ calls' = [calls EXCEPT ![c] = k]
                 /\ UNCHANGED <<session, pages, hash, appBusy>>
              \/ Settled(k) /\ k.op = "read" /\ AfterRead(c, k)
              \/ k.op \in {"history", "submitted"} /\ AfterHistory(c, k)
              \/ k.op = "logout" /\ AfterLogout(c, k)
              \/ k.op \notin {"read", "history", "submitted", "logout"} /\ AfterWrite(c, k)
<1> DEFINE A == CASE k.op = "read" -> AfterRead(c, k)
                  [] k.op \in {"history", "submitted"} -> AfterHistory(c, k)
                  [] k.op = "logout" -> AfterLogout(c, k)
                  [] OTHER -> AfterWrite(c, k)
<1>1. /\ loading' = loading
      /\ Settled(k) => A
      /\ ~Settled(k) => /\ calls' = [calls EXCEPT ![c] = k]
                        /\ UNCHANGED <<session, pages, hash, appBusy>>
    BY Zenon DEF Resume
<1>2. CASE ~Settled(k)
    BY <1>1, <1>2
<1>3. CASE Settled(k) /\ k.op = "read"
    <2>1. k.op \notin {"history", "submitted"} /\ k.op # "logout"
        BY <1>3
    <2>2. A => AfterRead(c, k)
        BY Zenon, <1>3, <2>1
    <2>3. QED BY Zenon, <1>1, <1>3, <2>2
<1>4. CASE Settled(k) /\ k.op \in {"history", "submitted"}
    <2>1. k.op # "read" /\ k.op # "logout"
        BY <1>4
    <2>2. A => AfterHistory(c, k)
        BY Zenon, <1>4, <2>1
    <2>3. QED BY Zenon, <1>1, <1>4, <2>2
<1>5. CASE Settled(k) /\ k.op = "logout"
    <2>1. k.op # "read" /\ k.op \notin {"history", "submitted"}
        BY <1>5
    <2>2. A => AfterLogout(c, k)
        BY Zenon, <1>5, <2>1
    <2>3. QED BY Zenon, <1>1, <1>5, <2>2
<1>6. CASE Settled(k) /\ k.op \notin {"read", "history", "submitted", "logout"}
    <2>1. k.op # "read" /\ k.op \notin {"history", "submitted"} /\ k.op # "logout"
        BY <1>6
    <2>2. A => AfterWrite(c, k)
        BY Zenon, <2>1
    <2>3. QED BY Zenon, <1>1, <1>6, <2>2
<1>7. QED BY Zenon, <1>2, <1>3, <1>4, <1>5, <1>6

\* No call.
LEMMA IdleFields ==
    /\ Idle \in CallRecord /\ Idle.op = "none" /\ Idle.page = "app" /\ Idle.loads = FALSE
    /\ Idle.wait = {} /\ Idle.stamps = {}
<1> SUFFICES ASSUME NEW k, k = Idle
             PROVE  /\ k \in CallRecord /\ k.op = "none" /\ k.page = "app" /\ k.loads = FALSE
                    /\ k.wait = {} /\ k.stamps = {}
    OBVIOUS
<1>1. QED BY DEF Idle, CallRecord

\* It has its facts.
LEMMA IdleFacts ==
    ASSUME NEW c \in CallIds, calls'[c] = Idle
    PROVE  SessionFacts(calls[c])' /\ PageFacts(calls[c])'
<1>1. /\ calls'[c].op = "none" /\ calls'[c].page = "app" /\ calls'[c].loads = FALSE
      /\ calls'[c].wait = {} /\ calls'[c].stamps = {}
    BY IdleFields
<1>2. QED BY <1>1 DEF SessionFacts, PageFacts, Slots, WriteOps, TiedOps, Awaited

\* Where nothing but a part of a call has settled.
LEMMA UnsettledStep ==
    ASSUME IInv, NEW c \in CallIds, NEW k, Settles(c, k), ~Settled(k),
           calls' = [calls EXCEPT ![c] = k], UNCHANGED <<session, pages, hash, loading, appBusy>>
    PROVE  IInv'
<1>1. TypeOK /\ calls \in [CallIds -> CallRecord]
    BY Known
<1>2. /\ k \in CallRecord /\ k.op = calls[c].op /\ k.page = calls[c].page /\ k.stamps = calls[c].stamps
      /\ k.knows = calls[c].knows
    BY DEF Settles
<1>3. k.op # "logout" /\ k.op # "none"
    BY DEF Settles, Settled
<1>4. /\ calls' \in [CallIds -> CallRecord] /\ calls'[c] = k
      /\ \A d \in CallIds \ {c} : calls'[d] = calls[d]
    BY <1>1, <1>2
<1>5. \A d \in CallIds : Lost(calls'[d], calls[d], {}) /\ calls'[d].knows = calls[d].knows
    <2>1. Lost(calls'[c], calls[c], {})
        BY <1>3, <1>4 DEF Lost, Settles
    <2>2. QED BY <1>1, <1>2, <1>4, <2>1 DEF Lost
<1>6. \A d \in CallIds : SessionFacts(calls[d])' /\ PageFacts(calls[d])'
    BY <1>5, Others
<1>7. \A d \in CallIds : /\ calls'[d].page = calls[d].page /\ calls'[d].op = calls[d].op
                         /\ calls'[d].stamps = calls[d].stamps
    BY <1>5 DEF Lost
<1>8. TypeOK' BY <1>1, <1>4 DEF TypeOK
<1>9. HomeFacts' BY <1>7, HomeKept
<1>10. ShownFacts /\ LoggedOutLeaves /\ HistoryFacts BY DEF IInv
<1>11. ShownFacts' BY <1>10 DEF ShownFacts, Own, Page
<1>12. NextFacts' BY <1>7, NextKept
<1>13. BusyFacts("shown")' BY <1>7, BusyKept DEF Writes, Current
<1>14. PendingFacts("shown")' /\ PendingFacts("next")' BY <1>7, PendingKept DEF Slots, Reads
<1>15. LogoutFacts' BY <1>7, LogoutKept
<1>16. LoggedOutLeaves' BY <1>10 DEF LoggedOutLeaves, Allowed, Page
<1>17. HistoryFacts' BY <1>7, <1>10 DEF HistoryFacts, Page, Awaited
<1>18. QED BY <1>6, <1>8, <1>9, <1>11, <1>12, <1>13, <1>14, <1>15, <1>16, <1>17 DEF IInv

\* What the end of call c leaves of page s.
PageLeft(c, s) ==
    /\ pages'[s] = pages[s] \/ calls[c].page = s
    /\ pages'[s].kind = pages[s].kind /\ pages'[s].id = pages[s].id
    /\ pages'[s].result = pages[s].result /\ pages'[s].solved = pages[s].solved
    /\ Reads(calls[c], s) => pages'[s].pending = FALSE
    /\ ~Reads(calls[c], s) => pages'[s].pending = pages[s].pending
    /\ Writes(calls[c], s) => pages'[s].busy = FALSE
    /\ ~Writes(calls[c], s) => pages'[s].busy = pages[s].busy
    /\ Own(pages'[s])

\* A call that ends without a change of the session.
LEMMA EndStep ==
    ASSUME IInv, NEW c \in CallIds, calls[c].op \notin {"none", "logout"}, calls' = Finish(c),
           UNCHANGED <<session, loading, appBusy>>,
           hash' \in PageKinds \cup {None}, hash' = hash \/ session # None \/ hash' = "auth",
           pages' \in [shown : PageRecord, next : PageRecord],
           \A s \in Slots : PageLeft(c, s), HistoryFacts'
    PROVE  IInv'
<1>1. TypeOK /\ calls \in [CallIds -> CallRecord] /\ PageFacts(calls[c])
    BY Known
<1>2. /\ calls' \in [CallIds -> CallRecord] /\ calls'[c] = Idle
      /\ \A d \in CallIds \ {c} : calls'[d] = calls[d]
    BY <1>1, IdleFields DEF Finish
<1>3. /\ Idle.op = "none" /\ Idle.page = "app" /\ Idle.stamps = {}
    BY IdleFields
<1>4. /\ HomeFacts /\ NextFacts /\ ShownFacts /\ BusyFacts("shown") /\ PendingFacts("shown")
      /\ PendingFacts("next") /\ LogoutFacts /\ LoggedOutLeaves
    BY DEF IInv
<1>5. ASSUME NEW d \in CallIds
      PROVE  SessionFacts(calls[d])' /\ PageFacts(calls[d])'
    <2>1. CASE d # c
        <3>1. Lost(calls'[d], calls[d], {}) /\ calls'[d].knows = calls[d].knows
            BY <1>1, <1>2, <2>1 DEF Lost
        <3>2. QED BY <3>1, Others DEF PageLeft, Slots
    <2>2. CASE d = c
        BY <1>2, <2>2, IdleFacts
    <2>3. QED BY <2>1, <2>2
<1>6. TypeOK' BY <1>1, <1>2 DEF TypeOK
<1>7. HomeFacts'
    <2>1. \A s \in Slots : /\ pages'[s].kind = pages[s].kind
                           /\ pages[s].kind = "home" => pages'[s] = pages[s]
        BY <1>4 DEF HomeFacts, PageLeft
    <2>2. QED BY <1>2, <1>3, <2>1, HomeKept DEF Slots
<1>8. ShownFacts'
    <2>1. Own(pages'["shown"]) /\ pages'["shown"].result = pages["shown"].result
          /\ pages'["shown"].kind = pages["shown"].kind
        BY DEF PageLeft, Slots
    <2>2. QED BY <1>4, <2>1 DEF ShownFacts, Own, Page
<1>9. NextFacts'
    <2>1. CASE pages'["next"] = pages["next"]
        BY <1>2, <1>3, <2>1, NextKept
    <2>2. CASE calls[c].page = "next"
        <3>1. loading = "next" /\ calls[c].op \in {"read", "history"}
            BY <1>1, <2>2 DEF PageFacts
        <3>2. \A d \in CallIds : calls'[d].page # "next"
            BY <1>2, <1>3, <1>4, <2>2 DEF NextFacts
        <3>3. ~Writes(calls[c], "next")
            BY <3>1 DEF Writes, WriteOps
        <3>4. /\ pages'["next"].busy = FALSE /\ pages'["next"].result = None
              /\ pages'["next"].solved = None /\ Own(pages'["next"])
              /\ pages'["next"].kind = pages["next"].kind
            BY <1>4, <3>3 DEF PageLeft, Slots, NextFacts
        <3>5. pages'["next"].kind \in PrivateKinds /\ session' = None => hash' = "auth"
            BY <1>4, <3>4 DEF NextFacts
        <3>6. QED BY <3>1, <3>2, <3>4, <3>5 DEF NextFacts, Own
    <2>3. QED BY <2>1, <2>2 DEF PageLeft, Slots
<1>10. BusyFacts("shown")'
    <2>1. ~Writes(calls'[c], "shown")
        BY <1>2, <1>3 DEF Writes
    <2>2. \A d \in CallIds \ {c} : Writes(calls'[d], "shown") <=> Writes(calls[d], "shown")
        BY <1>2 DEF Writes
    <2>3. CASE Writes(calls[c], "shown")
        <3>1. \A d \in CallIds : ~Writes(calls'[d], "shown")
            BY <1>4, <2>1, <2>2, <2>3 DEF BusyFacts
        <3>2. pages'["shown"].busy = FALSE
            BY <2>3 DEF PageLeft, Slots
        <3>3. QED BY <3>1, <3>2 DEF BusyFacts, Writes, Current
    <2>4. CASE ~Writes(calls[c], "shown")
        <3>1. pages'["shown"].busy = pages["shown"].busy
            BY <2>4 DEF PageLeft, Slots
        <3>2. QED BY <2>1, <2>2, <2>4, <3>1, BusyKept
    <2>5. QED BY <2>3, <2>4
<1>11. ASSUME NEW s \in Slots
       PROVE  PendingFacts(s)'
    <2>1. ~Reads(calls'[c], s)
        BY <1>2, <1>3 DEF Reads
    <2>2. \A d \in CallIds \ {c} : Reads(calls'[d], s) <=> Reads(calls[d], s)
        BY <1>2 DEF Reads
    <2>3. CASE Reads(calls[c], s)
        <3>1. \A d \in CallIds : ~Reads(calls'[d], s)
            BY <1>4, <2>1, <2>2, <2>3 DEF PendingFacts, Slots
        <3>2. pages'[s].pending = FALSE
            BY <2>3 DEF PageLeft
        <3>3. QED BY <3>1, <3>2 DEF PendingFacts, Reads
    <2>4. CASE ~Reads(calls[c], s)
        <3>1. pages'[s].pending = pages[s].pending
            BY <2>4 DEF PageLeft
        <3>2. QED BY <2>1, <2>2, <2>4, <3>1, PendingKept
    <2>5. QED BY <2>3, <2>4
<1>12. LogoutFacts' BY <1>2, <1>3, LogoutKept
<1>13. LoggedOutLeaves'
    <2>1. pages'["shown"].kind = pages["shown"].kind
        BY DEF PageLeft, Slots
    <2>2. QED BY <1>4, <2>1 DEF LoggedOutLeaves, Allowed, Page
<1>14. PendingFacts("shown")' /\ PendingFacts("next")'
    BY <1>11 DEF Slots
<1>15. QED BY <1>5, <1>6, <1>7, <1>8, <1>9, <1>10, <1>12, <1>13, <1>14 DEF IInv

\* The page of a call, also of one that is gone.
LEMMA PageOfFacts ==
    ASSUME TypeOK, NEW k \in CallRecord
    PROVE  /\ PageOf(k) \in PageRecord
           /\ k.page \in Slots => PageOf(k) = pages[k.page]
<1>1. CASE k.page \in Slots
    BY <1>1, PageTypes DEF PageOf
<1>2. CASE k.page \notin Slots
    <2>1. k.more \in BOOLEAN
        BY DEF CallRecord
    <2>2. ASSUME NEW b \in BOOLEAN
          PROVE  [Home EXCEPT !.kind = "detail", !.challenge = b] \in PageRecord
        BY HomeFields DEF PageRecord, PageKinds
    <2>3. PageOf(k) = [Home EXCEPT !.kind = "detail", !.challenge = k.more]
        BY <1>2, PageTypes DEF PageOf
    <2>4. QED BY <1>2, <2>1, <2>2, <2>3
<1>3. QED BY <1>1, <1>2

\* Only the page of the call changes.
LEMMA PutFacts ==
    ASSUME TypeOK, NEW k, NEW p \in PageRecord, Put(k, p)
    PROVE  /\ pages' \in [shown : PageRecord, next : PageRecord]
           /\ k.page \in Slots => pages'[k.page] = p
           /\ \A s \in Slots : s # k.page => pages'[s] = pages[s]
<1>1. CASE k.page \in Slots
    <2>1. pages' = [pages EXCEPT ![k.page] = p]
        BY <1>1, PageTypes DEF Put
    <2>2. QED BY <1>1, <2>1, PageTypes DEF Slots
<1>2. CASE k.page \notin Slots
    <2>1. pages' = pages
        BY <1>2, PageTypes DEF Put
    <2>2. QED BY <1>2, <2>1 DEF TypeOK
<1>3. QED BY <1>1, <1>2

\* What the end of a read leaves of the pages.
LEMMA ReadLeaves ==
    ASSUME IInv, NEW c \in CallIds, NEW k, Settles(c, k), Settled(k), k.op = "read",
           NEW p \in ReadShown(PageOf(k), k), Put(k, p), session' = session
    PROVE  /\ pages' \in [shown : PageRecord, next : PageRecord]
           /\ \A s \in Slots : PageLeft(c, s)
           /\ k.page \in Slots => /\ pages'[k.page] = p /\ p.kind = pages[k.page].kind
                                  /\ p.kind = "detail" => p.own = pages[k.page].own
<1>1. TypeOK /\ PageFacts(calls[c]) /\ pages["shown"] \in PageRecord /\ pages["next"] \in PageRecord
    BY Known
<1>2. /\ k \in CallRecord /\ calls[c].op = "read" /\ k.page = calls[c].page /\ k.stamps = calls[c].stamps
      /\ /\ "generation" \in k.stamps /\ pages[k.page].kind \in {"mine", "editor"}
         /\ k.wait = {} /\ k.failed = {}
         => k.user = session
    BY DEF Settles
<1> DEFINE o == PageOf(k)
<1>3. o \in PageRecord /\ (k.page \in Slots => o = pages[k.page])
    BY <1>1, <1>2, PageOfFacts
<1> HIDE DEF o
<1>4. /\ p \in PageRecord
      /\ p.kind = o.kind /\ p.id = o.id /\ p.busy = o.busy
      /\ p.result = o.result /\ p.solved = o.solved
      /\ "generation" \notin k.stamps => p = o
      /\ "generation" \in k.stamps => p.pending = FALSE
      /\ \/ p.own = o.own
         \/ /\ o.kind \in {"mine", "editor", "answers"} /\ k.failed = {}
            /\ p.own.user = k.user /\ p.own.id = o.id
      /\ o.kind = "detail" => p.historyError = o.historyError /\ p.own = o.own
    <2>1. p \in ReadShown(o, k)
        BY DEF o
    <2>2. QED BY <1>2, <1>3, <2>1, ReadFacts
<1>5. /\ pages' \in [shown : PageRecord, next : PageRecord]
      /\ k.page \in Slots => pages'[k.page] = p
      /\ \A s \in Slots : s # k.page => pages'[s] = pages[s]
    BY <1>1, <1>4, PutFacts
<1>6. \A s \in Slots : Own(pages[s]) /\ ~Writes(calls[c], s)
    <2>1. ShownFacts /\ NextFacts
        BY DEF IInv
    <2>2. QED BY <1>2, <2>1 DEF ShownFacts, NextFacts, Page, Slots, Writes, WriteOps
<1>7. ASSUME NEW s \in Slots
      PROVE  PageLeft(c, s)
    <2>1. CASE s # k.page
        <3>1. pages'[s] = pages[s] /\ ~Reads(calls[c], s)
            BY <1>2, <1>5, <2>1 DEF Reads
        <3>2. QED BY <1>6, <3>1 DEF PageLeft
    <2>2. CASE s = k.page
        <3>1. pages'[s] = p /\ o = pages[s]
            BY <1>3, <1>5, <2>2
        <3>2. Own(p)
            <4>1. CASE p.own = o.own
                BY <1>4, <1>6, <3>1, <4>1 DEF Own
            <4>2. CASE p.own # o.own
                <5>1. "generation" \in k.stamps /\ k.failed = {} /\ k.wait = {}
                    BY <1>4, <4>2 DEF Settled
                <5>2. p.kind # "answers" => p.own.user = session /\ p.own.id = p.id
                    BY <1>2, <1>4, <2>2, <3>1, <4>2, <5>1
                <5>3. QED BY <1>4, <1>6, <3>1, <5>2 DEF Own
            <4>3. QED BY <4>1, <4>2
        <3>3. Reads(calls[c], s) <=> "generation" \in k.stamps
            BY <1>2, <2>2 DEF Reads
        <3>4. QED BY <1>2, <1>4, <1>6, <2>2, <3>1, <3>2, <3>3 DEF PageLeft
    <2>3. QED BY <2>1, <2>2
<1>8. QED BY <1>3, <1>4, <1>5, <1>7

\* A read ends.
LEMMA ReadEnds ==
    ASSUME IInv, NEW c \in CallIds, NEW k, Settles(c, k), Settled(k), k.op = "read",
           NEW p \in ReadShown(PageOf(k), k), Put(k, p), calls' = Finish(c),
           ~(p.kind = "detail" /\ p.challenge),
           UNCHANGED <<session, loading, hash, appBusy>>
    PROVE  IInv'
<1>1. TypeOK /\ calls \in [CallIds -> CallRecord]
    BY Known
<1>2. calls[c].op = "read" /\ k.page = calls[c].page
    BY DEF Settles
<1>3. /\ pages' \in [shown : PageRecord, next : PageRecord]
      /\ \A s \in Slots : PageLeft(c, s)
      /\ k.page \in Slots => pages'[k.page] = p
    BY ReadLeaves
<1>4. HistoryFacts'
    <2>1. HistoryFacts /\ ShownFacts
        BY DEF IInv
    <2>2. PageLeft(c, "shown")
        BY <1>3 DEF Slots
    <2>3. CASE k.page = "shown"
        <3>1. pages'["shown"] = p
            BY <1>3, <2>3 DEF Slots
        <3>2. p.result # None => p.kind = "detail"
            BY <2>1, <2>2, <3>1 DEF ShownFacts, Page, PageLeft
        <3>3. QED BY <3>1, <3>2 DEF HistoryFacts, Page
    <2>4. CASE k.page # "shown"
        <3>1. pages'["shown"] = pages["shown"]
            BY <1>2, <2>2, <2>4 DEF PageLeft
        <3>2. \A d \in CallIds \ {c} : calls'[d] = calls[d]
            BY <1>1 DEF Finish
        <3>3. ~Awaited(calls[c])
            BY <1>2 DEF Awaited
        <3>4. QED BY <2>1, <3>1, <3>2, <3>3 DEF HistoryFacts, Page, Awaited
    <2>5. QED BY <2>3, <2>4
<1>5. hash' \in PageKinds \cup {None}
    BY <1>1 DEF TypeOK
<1>6. calls[c].op \notin {"none", "logout"}
    BY <1>2
<1>7. QED BY <1>3, <1>4, <1>5, <1>6, EndStep

\* A detail page goes on with its history.
LEMMA ReadGoesOn ==
    ASSUME IInv, NEW c \in CallIds, NEW k, Settles(c, k), Settled(k), k.op = "read",
           NEW p \in ReadShown(PageOf(k), k), Put(k, p),
           calls' = History("history", c, k.page, k.loads, calls),
           p.kind = "detail", UNCHANGED <<session, loading, hash, appBusy>>
    PROVE  IInv'
<1> DEFINE s == k.page
<1>1. TypeOK /\ calls \in [CallIds -> CallRecord] /\ PageFacts(calls[c])
    BY Known
<1>2. /\ k \in CallRecord /\ calls[c].op = "read" /\ k.page = calls[c].page /\ k.loads = calls[c].loads
    BY DEF Settles
<1>3. /\ pages' \in [shown : PageRecord, next : PageRecord]
      /\ \A t \in Slots : PageLeft(c, t)
      /\ k.page \in Slots => pages'[k.page].kind = "detail" /\ pages'[k.page].own = pages[k.page].own
    BY ReadLeaves
<1>4. s \in CallPages /\ k.loads \in BOOLEAN
    BY <1>2 DEF CallRecord, CallPages
<1> HIDE DEF s
<1>5. /\ calls' \in [CallIds -> CallRecord]
      /\ NewHistory(calls'[c], "history", s, k.loads)
      /\ \A d \in CallIds \ {c} :
            /\ Lost(calls'[d], calls[d], IF calls[d].page = s THEN {"history"} ELSE {})
            /\ calls'[d].knows = calls[d].knows
    <2>1. calls' = History("history", c, s, k.loads, calls)
        BY DEF s
    <2>2. HistoryMade(calls', calls, "history", c, s, k.loads)
        BY <1>1, <1>4, <2>1, HistoryCalls
    <2>3. QED BY <2>2 DEF HistoryMade
<1>6. /\ calls'[c].op = "history" /\ calls'[c].page = s /\ calls[c].page = s
      /\ s = "shown" => Awaited(calls'[c])
      /\ s = "shown" /\ Page.result # None => calls'[c].knows = TRUE
    BY <1>2, <1>5 DEF NewHistory, Awaited, s
<1>7. \A d \in CallIds \ {c} :
          /\ calls'[d].page = calls[d].page /\ calls'[d].op = calls[d].op
          /\ calls[d].page # s => calls'[d].stamps = calls[d].stamps
          /\ calls[d].page = s => calls'[d].stamps = calls[d].stamps \ {"history"}
    BY <1>5 DEF Lost
<1>8. /\ HomeFacts /\ NextFacts /\ ShownFacts /\ LoggedOutLeaves /\ HistoryFacts
      /\ PendingFacts("shown") /\ PendingFacts("next")
    BY DEF IInv
<1>9. \A t \in Slots : /\ pages'[t] = pages[t] \/ s = t
                       /\ pages'[t].kind = pages[t].kind /\ pages'[t].id = pages[t].id
                       /\ pages'[t].result = pages[t].result
                       /\ pages'[t].solved = pages[t].solved
                       /\ pages'[t].busy = pages[t].busy
                       /\ Own(pages'[t])
    <2>1. \A t \in Slots : ~Writes(calls[c], t)
        BY <1>2 DEF Writes, WriteOps
    <2>2. QED BY <1>3, <1>6, <2>1 DEF PageLeft
<1>10. ASSUME NEW d \in CallIds
       PROVE  SessionFacts(calls[d])' /\ PageFacts(calls[d])'
    <2>1. CASE d # c
        BY <1>5, <1>9, <2>1, Others DEF Slots
    <2>2. CASE d = c
        <3>1. /\ s = "next" => k.loads = TRUE
              /\ k.loads = TRUE => s = loading' /\ s \in Slots
            BY <1>1, <1>2 DEF PageFacts, s
        <3>2. s = "shown" /\ pages'["shown"].result # None => calls'[c].knows = TRUE
            BY <1>6, <1>9 DEF Page, Slots
        <3>3. QED BY ZenonT(40), <1>4, <1>5, <1>9, <2>2, <3>1, <3>2, NewHistoryFacts
    <2>3. QED BY <2>1, <2>2
<1>11. TypeOK' BY <1>1, <1>3, <1>5 DEF TypeOK
<1>12. HomeFacts'
    <2>1. \A t \in Slots : pages[t].kind = "home" => pages'[t] = pages[t]
        BY <1>6, <1>8, <1>9 DEF HomeFacts
    <2>2. QED BY <1>6, <1>7, <1>9, <2>1, HomeKept
<1>13. ShownFacts'
    BY <1>8, <1>9 DEF ShownFacts, Own, Page, Slots
<1>14. NextFacts'
    <2>1. CASE s # "next"
        BY <1>6, <1>7, <1>9, <2>1, NextKept DEF Slots
    <2>2. CASE s = "next"
        <3>1. loading = "next"
            BY <1>1, <1>2, <2>2 DEF PageFacts, s
        <3>2. pages'["next"].own = None
            BY <1>3, <1>6, <1>8, <1>9, <2>2 DEF NextFacts, s, Slots
        <3>3. \A d, e \in CallIds : calls'[d].page = "next" /\ calls'[e].page = "next" => d = e
            BY <1>6, <1>7, <1>8 DEF NextFacts
        <3>4. /\ pages'["next"].busy = FALSE /\ pages'["next"].result = None
              /\ pages'["next"].solved = None /\ pages'["next"].kind = pages["next"].kind
            BY <1>8, <1>9 DEF NextFacts, Slots
        <3>5. pages'["next"].kind \in PrivateKinds /\ session' = None => hash' = "auth"
            BY <1>8, <3>4 DEF NextFacts
        <3>6. QED BY <3>1, <3>2, <3>3, <3>4, <3>5 DEF NextFacts, Own
    <2>3. QED BY <2>1, <2>2
<1>15. BusyFacts("shown")'
    <2>1. \A d \in CallIds : Writes(calls'[d], "shown") <=> Writes(calls[d], "shown")
        BY <1>2, <1>6, <1>7 DEF Writes, WriteOps, Current
    <2>2. QED BY <1>9, <2>1, BusyKept DEF Slots
<1>16. ASSUME NEW t \in Slots
       PROVE  PendingFacts(t)'
    <2>1. ~Reads(calls'[c], t)
        BY <1>6 DEF Reads
    <2>2. \A d \in CallIds \ {c} : Reads(calls'[d], t) <=> Reads(calls[d], t)
        BY <1>7 DEF Reads
    <2>3. CASE Reads(calls[c], t)
        <3>1. \A d \in CallIds : ~Reads(calls'[d], t)
            BY <1>8, <2>1, <2>2, <2>3 DEF PendingFacts, Slots
        <3>2. pages'[t].pending = FALSE
            BY <1>3, <2>3 DEF PageLeft
        <3>3. QED BY <3>1, <3>2 DEF PendingFacts, Reads
    <2>4. CASE ~Reads(calls[c], t)
        <3>1. pages'[t].pending = pages[t].pending
            BY <1>3, <2>4 DEF PageLeft
        <3>2. QED BY <2>1, <2>2, <2>4, <3>1, PendingKept
    <2>5. QED BY <2>3, <2>4
<1>17. LogoutFacts' BY <1>2, <1>6, <1>7, LogoutKept
<1>18. LoggedOutLeaves'
    BY <1>8, <1>9 DEF LoggedOutLeaves, Allowed, Page, Slots
<1>19. HistoryFacts'
    <2>1. CASE s = "shown"
        BY <1>6, <2>1 DEF HistoryFacts, Awaited
    <2>2. CASE s # "shown"
        <3>1. pages'["shown"] = pages["shown"]
            BY <1>9, <2>2 DEF Slots
        <3>2. \A d \in CallIds : Awaited(calls[d]) => Awaited(calls'[d])
            BY <1>2, <1>6, <1>7, <2>2 DEF Awaited
        <3>3. QED BY <1>8, <3>1, <3>2 DEF HistoryFacts, Page, Awaited
    <2>3. QED BY <2>1, <2>2
<1>20. PendingFacts("shown")' /\ PendingFacts("next")'
    BY <1>16 DEF Slots
<1>21. QED BY <1>10, <1>11, <1>12, <1>13, <1>14, <1>15, <1>17, <1>18, <1>19, <1>20 DEF IInv

\* The rest of read.
LEMMA AfterReadStep ==
    ASSUME IInv, NEW c \in CallIds, NEW k, Settles(c, k), Settled(k), k.op = "read",
           AfterRead(c, k), loading' = loading
    PROVE  IInv'
<1>1. PICK p \in ReadShown(PageOf(k), k) :
          /\ Put(k, p)
          /\ calls' = IF p.kind = "detail" /\ p.challenge
                      THEN History("history", c, k.page, k.loads, calls) ELSE Finish(c)
    BY DEF AfterRead
<1>2. UNCHANGED <<session, hash, appBusy>>
    BY DEF AfterRead
<1>3. CASE p.kind = "detail" /\ p.challenge
    BY <1>1, <1>2, <1>3, ReadGoesOn
<1>4. CASE ~(p.kind = "detail" /\ p.challenge)
    BY <1>1, <1>2, <1>4, ReadEnds
<1>5. QED BY <1>3, <1>4

\* The stamps with which a list of answers is shown.
HistoryStamps(k) == {"lifetime", "version", "history"} \subseteq k.stamps

\* What a list of answers leaves of its page.
LEMMA HistoryShownFacts ==
    ASSUME NEW p \in PageRecord, NEW k \in CallRecord, NEW q, q = HistoryShown(p, k)
    PROVE  /\ q \in PageRecord
           /\ q.kind = p.kind /\ q.id = p.id /\ q.busy = p.busy /\ q.pending = p.pending
           /\ q.result = p.result /\ q.solved = p.solved /\ q.challenge = p.challenge
           /\ ~HistoryStamps(k) => q = p
           /\ \/ q.own = p.own \/ q.own = None
              \/ HistoryStamps(k) /\ q.own.user = k.user /\ q.own.id = p.id
           /\ HistoryStamps(k) /\ k.id = p.id /\ q.historyError = FALSE /\ k.user # None =>
                  q.own # None /\ q.own.knows = k.knows
<1> DEFINE new == [user |-> k.user, id |-> k.id, knows |-> k.knows]
           own == IF "private" \in k.failed THEN p.own ELSE IF k.user = None THEN None ELSE new
<1>1. CASE ~(HistoryStamps(k) /\ k.id = p.id)
    <2>1. q = p
        BY <1>1 DEF HistoryShown, HistoryStamps
    <2>2. QED BY <1>1, <2>1
<1>2. CASE HistoryStamps(k) /\ k.id = p.id
    <2>1. q = [p EXCEPT !.historyError = k.failed # {}, !.own = own]
        BY <1>2 DEF HistoryShown, HistoryStamps, PageRecord
    <2>2. new \in Data /\ new.user = k.user /\ new.id = p.id /\ new.knows = k.knows
        BY <1>2 DEF Data, CallRecord
    <2>3. new # None
        BY <2>2, NoneIsNothingElse
    <2> HIDE DEF new
    <2>4. /\ own \in Data \cup {None}
          /\ own \in {p.own, None, new}
          /\ k.failed = {} /\ k.user # None => own = new
        BY <2>2 DEF PageRecord
    <2> HIDE DEF own
    <2>5. q \in PageRecord
        BY <2>1, <2>4 DEF PageRecord
    <2>6. /\ q.kind = p.kind /\ q.id = p.id /\ q.busy = p.busy /\ q.pending = p.pending
          /\ q.result = p.result /\ q.solved = p.solved /\ q.challenge = p.challenge
          /\ q.own = own /\ q.historyError = (k.failed # {})
        BY <2>1, <2>4 DEF PageRecord
    <2>7. QED BY <1>2, <2>2, <2>3, <2>4, <2>5, <2>6
<1>3. QED BY <1>1, <1>2

\* The rest of refreshHistory, and of a submission.
LEMMA AfterHistoryStep ==
    ASSUME IInv, NEW c \in CallIds, NEW k, Settles(c, k), k.op \in {"history", "submitted"},
           AfterHistory(c, k), loading' = loading
    PROVE  IInv'
<1>1. TypeOK /\ calls \in [CallIds -> CallRecord] /\ PageFacts(calls[c]) /\ SessionFacts(calls[c])
    BY Known
<1>2. /\ k \in CallRecord /\ k.op = calls[c].op /\ k.page = calls[c].page /\ k.stamps = calls[c].stamps
      /\ k.id = calls[c].id /\ k.user = calls[c].user /\ k.knows = calls[c].knows
    BY DEF Settles
<1> DEFINE o == PageOf(k)
           h == HistoryShown(o, k)
           q == IF k.op = "submitted" /\ Current(k) THEN WriteEnded(h) ELSE h
<1>3. /\ Put(k, q) /\ calls' = Finish(c) /\ UNCHANGED <<session, hash, appBusy>>
    BY DEF AfterHistory
<1>4. o \in PageRecord /\ (k.page \in Slots => o = pages[k.page])
    BY <1>1, <1>2, PageOfFacts
<1> HIDE DEF o
<1>5. /\ h \in PageRecord
      /\ h.kind = o.kind /\ h.id = o.id /\ h.busy = o.busy /\ h.pending = o.pending
      /\ h.result = o.result /\ h.solved = o.solved /\ h.challenge = o.challenge
      /\ ~HistoryStamps(k) => h = o
      /\ \/ h.own = o.own \/ h.own = None
         \/ HistoryStamps(k) /\ h.own.user = k.user /\ h.own.id = o.id
      /\ HistoryStamps(k) /\ k.id = o.id /\ h.historyError = FALSE /\ k.user # None =>
             h.own # None /\ h.own.knows = k.knows
    BY ZenonT(40), <1>2, <1>4, HistoryShownFacts
<1> HIDE DEF h
<1>6. /\ q \in PageRecord
      /\ q.kind = h.kind /\ q.id = h.id /\ q.pending = h.pending /\ q.own = h.own
      /\ q.result = h.result /\ q.solved = h.solved /\ q.challenge = h.challenge
      /\ q.historyError = h.historyError
      /\ k.op = "submitted" /\ Current(k) => q.busy = FALSE
      /\ ~(k.op = "submitted" /\ Current(k)) => q.busy = h.busy
    BY ZenonT(40), <1>5 DEF WriteEnded, PageRecord
<1> HIDE DEF q
<1>7. /\ pages' \in [shown : PageRecord, next : PageRecord]
      /\ k.page \in Slots => pages'[k.page] = q
      /\ \A s \in Slots : s # k.page => pages'[s] = pages[s]
    BY <1>1, <1>3, <1>6, PutFacts
<1>8. /\ ShownFacts /\ NextFacts /\ HistoryFacts
    BY DEF IInv
<1>9. HistoryStamps(k) => k.user = session
    BY <1>1, <1>2 DEF HistoryStamps, SessionFacts, TiedOps
<1>10. ASSUME NEW s \in Slots
       PROVE  PageLeft(c, s)
    <2>1. ~Reads(calls[c], s) /\ Own(pages[s])
        BY <1>2, <1>8 DEF Reads, ShownFacts, NextFacts, Page, Slots
    <2>2. Writes(calls[c], s) <=> s = k.page /\ k.op = "submitted" /\ Current(k)
        BY <1>2 DEF Writes, WriteOps, Current
    <2>3. CASE s # k.page
        BY <1>3, <1>7, <2>1, <2>2, <2>3 DEF PageLeft
    <2>4. CASE s = k.page
        <3>1. pages'[s] = q /\ o = pages[s]
            BY <1>4, <1>7, <2>4
        <3>2. Own(q)
            BY <1>5, <1>6, <1>9, <2>1, <3>1 DEF Own
        <3>3. QED BY <1>2, <1>5, <1>6, <2>1, <2>2, <2>4, <3>1, <3>2 DEF PageLeft
    <2>5. QED BY <2>3, <2>4
<1>11. HistoryFacts'
    <2>1. \A d \in CallIds \ {c} : calls'[d] = calls[d]
        BY <1>1, <1>3 DEF Finish
    <2>2. CASE k.page # "shown"
        <3>1. pages'["shown"] = pages["shown"] /\ ~Awaited(calls[c])
            BY <1>2, <1>7, <2>2 DEF Slots, Awaited
        <3>2. QED BY <1>8, <2>1, <3>1 DEF HistoryFacts, Page, Awaited
    <2>3. CASE k.page = "shown" /\ ~HistoryStamps(k)
        <3>1. /\ pages'["shown"].result = Page.result /\ pages'["shown"].challenge = Page.challenge
              /\ pages'["shown"].historyError = Page.historyError /\ pages'["shown"].own = Page.own
            BY <1>4, <1>5, <1>6, <1>7, <2>3 DEF Page, Slots
        <3>2. ~Awaited(calls[c])
            BY <1>2, <2>3 DEF Awaited, HistoryStamps
        <3>3. QED BY <1>8, <2>1, <3>1, <3>2 DEF HistoryFacts, Page, Awaited
    <2>4. CASE k.page = "shown" /\ HistoryStamps(k)
        <3>1. pages'["shown"] = q /\ o = Page
            BY <1>4, <1>7, <2>4 DEF Page, Slots
        <3>2. k.id = o.id
            BY <1>1, <1>2, <2>4, <3>1 DEF PageFacts, HistoryStamps, Slots, Page
        <3>3. q.result # None => k.user # None /\ k.knows = TRUE
            <4>1. Awaited(calls[c])
                BY <1>2, <2>4 DEF Awaited, HistoryStamps
            <4>2. q.result # None => Page.result # None /\ session # None
                BY <1>5, <1>6, <1>8, <3>1 DEF ShownFacts
            <4>3. QED BY <1>1, <1>2, <1>9, <2>4, <4>1, <4>2 DEF PageFacts
        <3>4. QED BY <1>5, <1>6, <2>4, <3>1, <3>2, <3>3 DEF HistoryFacts, Page
    <2>5. QED BY <2>2, <2>3, <2>4
<1>12. hash' \in PageKinds \cup {None}
    BY <1>1, <1>3 DEF TypeOK
<1>13. calls[c].op \notin {"none", "logout"}
    BY <1>2
<1>14. QED BY <1>3, <1>7, <1>10, <1>11, <1>12, <1>13, EndStep

\* A current write belongs to the page on screen and to the session.
LEMMA CurrentWrite ==
    ASSUME IInv, NEW c \in CallIds, NEW k, Settles(c, k), k.op \in WriteOps, Current(k)
    PROVE  /\ k.page = "shown" /\ PageOf(k) = pages["shown"] /\ k.id = pages["shown"].id
           /\ k.op = "submit" => pages["shown"].kind = "detail"
           /\ k.op = "save" => pages["shown"].kind = "editor"
           /\ k.op \in {"submit", "save", "remove"} => k.user = session /\ session # None
<1>1. TypeOK /\ PageFacts(calls[c]) /\ SessionFacts(calls[c])
    BY Known
<1>2. /\ k \in CallRecord /\ k.op = calls[c].op /\ k.page = calls[c].page /\ k.stamps = calls[c].stamps
      /\ k.id = calls[c].id /\ k.user = calls[c].user
    BY DEF Settles
<1>3. "lifetime" \in calls[c].stamps /\ "version" \in calls[c].stamps
    BY <1>2 DEF Current
<1>4. /\ k.page = "shown" /\ k.id = pages["shown"].id
      /\ k.op = "submit" => pages["shown"].kind = "detail"
      /\ k.op = "save" => pages["shown"].kind = "editor"
    BY <1>1, <1>2, <1>3 DEF PageFacts, Page, Slots
<1>5. PageOf(k) = pages["shown"]
    BY <1>1, <1>2, <1>4, PageOfFacts DEF Slots
<1>6. k.op \in {"submit", "save", "remove"} => k.user = session /\ session # None
    BY <1>1, <1>2, <1>3, NoneIsNothingElse DEF SessionFacts, TiedOps
<1>7. QED BY <1>4, <1>5, <1>6

\* A write that ends with the session as it was.
LEMMA WriteEnds ==
    ASSUME IInv, NEW c \in CallIds, NEW k, Settles(c, k), k.op \in WriteOps \ {"submitted"},
           NEW q \in PageRecord, Put(k, q), calls' = Finish(c),
           UNCHANGED <<session, loading, appBusy>>,
           hash' \in PageKinds \cup {None}, hash' = hash \/ session # None \/ hash' = "auth",
           NEW o, o = PageOf(k),
           q.kind = o.kind, q.id = o.id, q.pending = o.pending, q.result = o.result,
           q.solved = o.solved, q.challenge = o.challenge, q.historyError = o.historyError,
           q.own = o.own \/ (q.own = None /\ o.result = None),
           Current(k) => q.busy = FALSE, ~Current(k) => q.busy = o.busy
    PROVE  IInv'
<1>1. TypeOK /\ calls \in [CallIds -> CallRecord]
    BY Known
<1>2. /\ k \in CallRecord /\ k.op = calls[c].op /\ k.page = calls[c].page /\ k.stamps = calls[c].stamps
    BY DEF Settles
<1>3. k.page \in Slots => o = pages[k.page]
    BY <1>1, <1>2, PageOfFacts
<1>4. /\ pages' \in [shown : PageRecord, next : PageRecord]
      /\ k.page \in Slots => pages'[k.page] = q
      /\ \A s \in Slots : s # k.page => pages'[s] = pages[s]
    BY <1>1, PutFacts
<1>5. ShownFacts /\ NextFacts /\ HistoryFacts
    BY DEF IInv
<1>6. calls[c].op \notin {"none", "logout", "read", "history", "submitted"}
    BY <1>2 DEF WriteOps
<1>7. ASSUME NEW s \in Slots
      PROVE  PageLeft(c, s)
    <2>1. ~Reads(calls[c], s) /\ Own(pages[s])
        BY <1>5, <1>6 DEF Reads, ShownFacts, NextFacts, Page, Slots
    <2>2. Writes(calls[c], s) <=> s = k.page /\ Current(k)
        BY <1>2 DEF Writes, Current
    <2>3. CASE s # k.page
        BY <1>4, <2>1, <2>2, <2>3 DEF PageLeft
    <2>4. CASE s = k.page
        <3>1. pages'[s] = q /\ o = pages[s]
            BY <1>3, <1>4, <2>4
        <3>2. Own(q)
            BY <2>1, <3>1 DEF Own
        <3>3. QED BY <1>2, <2>1, <2>2, <2>4, <3>1, <3>2 DEF PageLeft
    <2>5. QED BY <2>3, <2>4
<1>8. HistoryFacts'
    <2>1. \A d \in CallIds \ {c} : calls'[d] = calls[d]
        BY <1>1 DEF Finish
    <2>2. ~Awaited(calls[c])
        BY <1>6 DEF Awaited
    <2>3. CASE k.page # "shown"
        <3>1. pages'["shown"] = pages["shown"]
            BY <1>4, <2>3 DEF Slots
        <3>2. QED BY <1>5, <2>1, <2>2, <3>1 DEF HistoryFacts, Page, Awaited
    <2>4. CASE k.page = "shown"
        <3>1. pages'["shown"] = q /\ o = Page
            BY <1>3, <1>4, <2>4 DEF Page, Slots
        <3>2. QED BY <1>5, <2>1, <2>2, <3>1 DEF HistoryFacts, Page, Awaited
    <2>5. QED BY <2>3, <2>4
<1>9. QED BY <1>4, <1>6, <1>7, <1>8, EndStep

\* A submission has been answered and goes on with the history.
LEMMA AfterSubmitStep ==
    ASSUME IInv, NEW c \in CallIds, NEW k, Settles(c, k), k.op = "submit", Current(k),
           AfterSubmit(c, k), loading' = loading, appBusy' = appBusy
    PROVE  IInv'
<1> DEFINE p == pages["shown"]
           q == pages'["shown"]
           mine == [user |-> k.user, id |-> k.id]
           cs == Outdated("shown")
           new == History("submitted", c, "shown", FALSE, cs)
<1>1. TypeOK /\ calls \in [CallIds -> CallRecord] /\ p \in PageRecord
    BY Known
<1>2. /\ k \in CallRecord /\ calls[c].op = "submit" /\ k.page = calls[c].page
      /\ k.stamps = calls[c].stamps
    BY DEF Settles
<1>3. /\ k.page = "shown" /\ PageOf(k) = p /\ k.id = p.id /\ p.kind = "detail"
      /\ k.user = session /\ session # None
    BY CurrentWrite DEF WriteOps
<1>4. PICK solved \in {p.solved, mine} :
          Put(k, [p EXCEPT !.result = mine, !.solved = solved,
                           !.own = IF @ = None THEN None ELSE [@ EXCEPT !.knows = FALSE]])
    BY <1>3 DEF AfterSubmit
<1>5. calls' = [new EXCEPT ![c].knows = TRUE] /\ session' = session /\ hash' = hash
    BY <1>3 DEF AfterSubmit
<1>6. mine \in Outcomes /\ mine.user = session /\ mine.id = p.id
    BY <1>2, <1>3 DEF Outcomes, CallRecord
<1> HIDE DEF mine
<1> DEFINE own == IF p.own = None THEN None ELSE [p.own EXCEPT !.knows = FALSE]
           r == [p EXCEPT !.result = mine, !.solved = solved, !.own = own]
<1>7. /\ own \in Data \cup {None}
      /\ own # None => p.own # None /\ own.user = p.own.user /\ own.id = p.own.id
    BY <1>1 DEF PageRecord, Data
<1>8. Put(k, r)
    BY <1>1, <1>4 DEF PageRecord
<1> HIDE DEF own
<1>9. r \in PageRecord
    BY <1>1, <1>4, <1>6, <1>7 DEF PageRecord
<1>10. /\ r.kind = p.kind /\ r.id = p.id /\ r.busy = p.busy /\ r.pending = p.pending
       /\ r.own = own /\ r.result = mine /\ r.solved = solved
    BY <1>1, <1>4, <1>6, <1>7 DEF PageRecord
<1> HIDE DEF r
<1>11. /\ pages' \in [shown : PageRecord, next : PageRecord]
       /\ q = r /\ pages'["next"] = pages["next"]
    BY <1>1, <1>3, <1>8, <1>9, PutFacts DEF Slots
<1>12. \A d \in CallIds : cs[d] \in CallRecord /\ Lost(cs[d], calls[d], {})
    <2>1. ASSUME NEW d \in CallIds
          PROVE  cs[d] \in CallRecord /\ Lost(cs[d], calls[d], {})
        <3>1. calls[d] \in CallRecord
            BY <1>1
        <3>2. CASE calls[d].page = "shown"
            <4>1. cs[d] = [calls[d] EXCEPT !.knows = FALSE]
                BY <3>2 DEF Outdated
            <4> HIDE DEF cs
            <4>2. QED BY <3>1, <4>1 DEF CallRecord, Lost
        <3>3. CASE calls[d].page # "shown"
            <4>1. cs[d] = calls[d]
                BY <3>3 DEF Outdated
            <4> HIDE DEF cs
            <4>2. QED BY <3>1, <4>1 DEF Lost
        <3>4. QED BY <3>2, <3>3
    <2>2. QED BY <2>1
<1>13. cs \in [CallIds -> CallRecord]
    <2>1. cs = [d \in CallIds |-> cs[d]]
        BY DEF Outdated
    <2> HIDE DEF cs
    <2>2. QED BY <1>12, <2>1
<1> HIDE DEF cs
<1>14. /\ new \in [CallIds -> CallRecord]
       /\ NewHistory(new[c], "submitted", "shown", FALSE)
       /\ \A d \in CallIds \ {c} :
             Lost(new[d], cs[d], IF cs[d].page = "shown" THEN {"history"} ELSE {})
    <2>1. "shown" \in CallPages
        BY DEF CallPages
    <2>2. HistoryMade(new, cs, "submitted", c, "shown", FALSE)
        BY <1>1, <1>13, <2>1, HistoryCalls
    <2>3. QED BY <2>2 DEF HistoryMade
<1> HIDE DEF new
<1> DEFINE m == [new[c] EXCEPT !.knows = TRUE]
<1>15. m \in CallRecord /\ m.knows = TRUE /\ NewHistory(m, "submitted", "shown", FALSE)
    <2>1. new[c] \in CallRecord
        BY <1>14
    <2>2. m \in CallRecord
        BY <2>1 DEF CallRecord
    <2>3. QED BY <1>14, <2>1, <2>2 DEF NewHistory, CallRecord
<1>16. calls' = [new EXCEPT ![c] = m]
    BY <1>5, <1>14
<1> HIDE DEF m
<1>17. /\ calls' \in [CallIds -> CallRecord] /\ calls'[c] = m
       /\ \A d \in CallIds \ {c} : calls'[d] = new[d]
    BY <1>14, <1>15, <1>16
<1>18. \A d \in CallIds \ {c} :
           Lost(calls'[d], calls[d], IF calls[d].page = "shown" THEN {"history"} ELSE {})
    BY <1>12, <1>14, <1>17 DEF Lost
<1>19. /\ calls'[c].op = "submitted" /\ calls'[c].page = "shown" /\ Awaited(calls'[c])
       /\ Current(calls'[c])
    BY <1>15, <1>17 DEF NewHistory, Awaited, Current
<1>20. \A d \in CallIds \ {c} :
           /\ calls'[d].page = calls[d].page /\ calls'[d].op = calls[d].op
           /\ calls[d].page # "shown" => calls'[d].stamps = calls[d].stamps
           /\ calls[d].page = "shown" => calls'[d].stamps = calls[d].stamps \ {"history"}
    BY <1>18 DEF Lost
<1> HIDE DEF p, q
<1>21. ASSUME NEW d \in CallIds
       PROVE  SessionFacts(calls[d])' /\ PageFacts(calls[d])'
    <2>1. CASE d # c
        <3>1. calls[d].page = "shown" => "history" \in (IF calls[d].page = "shown" THEN {"history"} ELSE {})
            OBVIOUS
        <3>2. QED BY <1>5, <1>10, <1>11, <1>18, <2>1, <3>1, Others DEF Slots, p, q
    <2>2. CASE d = c
        BY <1>5, <1>10, <1>11, <1>15, <1>17, <2>2, NewHistoryFacts DEF CallPages, Slots, p, q
    <2>3. QED BY <2>1, <2>2
<1>22. TypeOK' BY <1>1, <1>5, <1>11, <1>17 DEF TypeOK
<1>23. ShownFacts /\ LoggedOutLeaves BY DEF IInv
<1>24. HomeFacts'
    BY <1>3, <1>10, <1>11, <1>19, <1>20, HomeKept DEF Slots, p, q
<1>25. ShownFacts'
    <2>1. Own(q)
        BY <1>4, <1>6, <1>7, <1>10, <1>11, <1>23 DEF ShownFacts, Own, Page, p
    <2>2. QED BY <1>3, <1>5, <1>10, <1>11, <2>1 DEF ShownFacts, Own, Page, q
<1>26. NextFacts' BY <1>5, <1>11, <1>19, <1>20, NextKept
<1>27. BusyFacts("shown")'
    <2>1. Writes(calls[c], "shown") /\ Writes(calls'[c], "shown")
        BY <1>2, <1>3, <1>19 DEF Writes, WriteOps, Current
    <2>2. \A d \in CallIds : Writes(calls'[d], "shown") <=> Writes(calls[d], "shown")
        BY <1>20, <2>1 DEF Writes, Current
    <2>3. QED BY <1>10, <1>11, <2>2, BusyKept DEF p, q
<1>28. PendingFacts("shown")' /\ PendingFacts("next")'
    <2>1. \A d \in CallIds, s \in Slots : Reads(calls'[d], s) <=> Reads(calls[d], s)
        BY <1>2, <1>19, <1>20 DEF Reads, Slots
    <2>2. QED BY <1>10, <1>11, <2>1, PendingKept DEF Slots, p, q
<1>29. LogoutFacts' BY <1>2, <1>19, <1>20, LogoutKept
<1>30. LoggedOutLeaves'
    BY <1>5, <1>10, <1>11, <1>23 DEF LoggedOutLeaves, Allowed, Page, p, q
<1>31. HistoryFacts' BY <1>19 DEF HistoryFacts, Awaited
<1>32. QED BY <1>21, <1>22, <1>24, <1>25, <1>26, <1>27, <1>28, <1>29, <1>30, <1>31 DEF IInv

\* A call that only loses stamps.
LEMMA StampsLost ==
    ASSUME NEW k \in CallRecord, NEW X
    PROVE  LET m == [k EXCEPT !.stamps = @ \ X] IN m \in CallRecord /\ Lost(m, k, X)
<1> SUFFICES ASSUME NEW m, m = [k EXCEPT !.stamps = @ \ X]
             PROVE  m \in CallRecord /\ Lost(m, k, X)
    OBVIOUS
<1>1. m \in CallRecord
    BY DEF CallRecord
<1>2. QED BY <1>1 DEF CallRecord, Lost

\* What the listeners leave of a page.
LEMMA NotifiedFacts ==
    ASSUME NEW p \in PageRecord, NEW user, NEW q, q = Notified(p, user)
    PROVE  /\ q \in PageRecord /\ q.kind = p.kind /\ q.id = p.id
           /\ p.kind = "home" => q = p
           /\ p.kind # "home" => /\ q.busy = FALSE /\ q.pending = FALSE
                                 /\ q.own = None /\ q.result = None /\ q.solved = None
<1>1. CASE p.kind = "home"
    BY <1>1 DEF Notified
<1>2. CASE p.kind # "home"
    <2> DEFINE e == user = None
    <2>1. e \in BOOLEAN
        OBVIOUS
    <2>2. q = [ClearPrivate(Reset(p)) EXCEPT !.error = e]
        BY <1>2 DEF Notified
    <2> HIDE DEF e
    <2>3. q \in PageRecord
        BY <2>1, <2>2 DEF ClearPrivate, Reset, PageRecord
    <2>4. QED BY <1>2, <2>1, <2>2, <2>3 DEF ClearPrivate, Reset, PageRecord
<1>3. QED BY <1>1, <1>2

\* While the page to come still loads it shows nothing that is private.
LEMMA NothingPrivateYet ==
    ASSUME IInv, ~Loaded
    PROVE  pages["next"].kind # "answers" => pages["next"].own = None
<1> SUFFICES ASSUME pages["next"].kind # "answers", pages["next"].own # None
             PROVE  FALSE
    OBVIOUS
<1>1. NextFacts
    BY DEF IInv
<1>2. \A d \in CallIds : calls[d].page # "next"
    BY <1>1 DEF NextFacts
<1>3. loading = "next"
    <2>1. Home.own = None
        BY HomeFields
    <2>2. QED BY <1>1, <2>1 DEF NextFacts
<1>4. ASSUME NEW d \in Live
      PROVE  ~calls[d].loads
    <2>1. PageFacts(calls[d]) /\ calls[d].loads \in BOOLEAN /\ d \in CallIds
        BY Known DEF Live, CallRecord
    <2>2. calls[d].loads # TRUE
        BY <1>2, <1>3, <2>1 DEF PageFacts
    <2>3. QED BY <2>1, <2>2
<1>5. Loaded
    BY <1>3, <1>4, NoneIsNothingElse DEF Loaded
<1>6. QED BY <1>5

\* What the step of call c that changes the session has made of a page and of
\* the call itself before the listeners run.
PageBefore(ps, c, s) ==
    /\ ps[s] \in PageRecord
    /\ ps[s] = pages[s] \/ calls[c].page = s
    /\ ps[s].kind = pages[s].kind /\ ps[s].id = pages[s].id /\ ps[s].busy = pages[s].busy
    /\ ps[s].own = pages[s].own /\ ps[s].result = pages[s].result
    /\ ps[s].solved = pages[s].solved
    /\ Reads(calls[c], s) => ps[s].pending = FALSE
    /\ ~Reads(calls[c], s) => ps[s].pending = pages[s].pending

CallBefore(k, c) ==
    \/ k = Idle
    \/ Lost(k, calls[c], {}) /\ calls[c].op \notin {"read", "logout"}

\* A step that starts or ends the session.
LEMMA SessionStep ==
    ASSUME IInv, ~Loaded, NEW c \in CallIds, NEW user, user \in Users \cup {None},
           NEW cs, cs \in [CallIds -> CallRecord], NEW ps, ps \in [Slots -> PageRecord],
           SessionBecomes(user, cs, ps), loading' = loading,
           hash' \in PageKinds \cup {None}, user = None => hash' = "auth",
           \A d \in CallIds \ {c} : cs[d] = calls[d], CallBefore(cs[c], c),
           \A s \in Slots : PageBefore(ps, c, s),
           appBusy' \in BOOLEAN,
           calls[c].op = "logout" => appBusy' = FALSE,
           calls[c].op # "logout" => appBusy' = appBusy
    PROVE  IInv'
<1> DEFINE X(d) == {"version"} \cup IF cs[d].page = "shown" THEN PageCounters ELSE {}
           p == pages["shown"]
           q == pages'["shown"]
<1>1. TypeOK /\ calls \in [CallIds -> CallRecord] /\ PageFacts(calls[c])
    BY Known
<1>2. /\ HomeFacts /\ NextFacts /\ PendingFacts("next") /\ LogoutFacts
    BY DEF IInv
<1>3. /\ session' = user /\ pages' = [ps EXCEPT !["shown"] = Notified(ps["shown"], user)]
      /\ calls' = [d \in CallIds |-> [cs[d] EXCEPT !.stamps = @ \ X(d)]]
    BY DEF SessionBecomes
<1>4. \A d \in CallIds : calls'[d] \in CallRecord /\ Lost(calls'[d], cs[d], X(d))
    <2>1. ASSUME NEW d \in CallIds
          PROVE  calls'[d] \in CallRecord /\ Lost(calls'[d], cs[d], X(d))
        <3>1. calls'[d] = [cs[d] EXCEPT !.stamps = @ \ X(d)] /\ cs[d] \in CallRecord
            BY <1>3
        <3> HIDE DEF X
        <3>2. QED BY <3>1, StampsLost
    <2>2. QED BY <2>1
<1>5. calls' \in [CallIds -> CallRecord]
    <2>1. calls' = [d \in CallIds |-> calls'[d]]
        BY <1>3
    <2>2. QED BY <1>4, <2>1
<1>6. /\ pages' \in [shown : PageRecord, next : PageRecord]
      /\ q = Notified(ps["shown"], user) /\ pages'["next"] = ps["next"]
    <2>1. ps["shown"] \in PageRecord /\ Notified(ps["shown"], user) \in PageRecord
        BY NotifiedFacts DEF Slots
    <2>2. QED BY <1>3, <2>1 DEF Slots
<1>7. /\ ps["shown"].kind = p.kind /\ ps["shown"].id = p.id
      /\ p.kind = "home" => ps["shown"] = p /\ p = Home
    BY <1>2 DEF PageBefore, HomeFacts, Slots
<1>8. /\ q.kind = p.kind /\ q.id = p.id /\ q.busy = FALSE /\ q.pending = FALSE
      /\ q.own = None /\ q.result = None /\ q.solved = None
      /\ p.kind = "home" => q = p
    <2> DEFINE o == ps["shown"]
    <2>1. o \in PageRecord /\ q = Notified(o, user)
        BY <1>6 DEF Slots
    <2>2. /\ o.kind = p.kind /\ o.id = p.id
          /\ p.kind = "home" => o = p /\ p = Home
        BY <1>7
    <2> HIDE DEF p, q, o
    <2>3. /\ q.kind = o.kind /\ q.id = o.id
          /\ o.kind = "home" => q = o
          /\ o.kind # "home" => /\ q.busy = FALSE /\ q.pending = FALSE
                                /\ q.own = None /\ q.result = None /\ q.solved = None
        BY <2>1, NotifiedFacts
    <2>4. CASE p.kind = "home"
        BY <2>2, <2>3, <2>4, HomeFields
    <2>5. CASE p.kind # "home"
        BY <2>2, <2>3, <2>5
    <2>6. QED BY <2>4, <2>5
<1> HIDE DEF p, q
<1>9. calls'[c] = Idle \/ (cs[c] # Idle /\ Lost(calls'[c], calls[c], X(c)) /\ cs[c].page = calls[c].page)
    <2>1. CASE cs[c] = Idle
        <3>1. calls'[c] = [Idle EXCEPT !.stamps = @ \ X(c)]
            BY <1>3, <2>1
        <3> HIDE DEF X
        <3>2. QED BY <3>1 DEF Idle
    <2>2. CASE cs[c] # Idle
        BY <1>4, <2>2 DEF CallBefore, Lost
    <2>3. QED BY <2>1, <2>2
<1>10. \A d \in CallIds \ {c} : Lost(calls'[d], calls[d], X(d)) /\ cs[d].page = calls[d].page
    BY <1>4
<1>11. \A d \in CallIds : "version" \in X(d) /\ (cs[d].page = "shown" => PageCounters \subseteq X(d))
    OBVIOUS
<1>12. \A d \in CallIds : /\ "version" \notin calls'[d].stamps
                          /\ calls'[d].page = "shown" => calls'[d].stamps \cap PageCounters = {}
    BY <1>4, <1>11 DEF Lost
<1>13. \A d \in CallIds : cs[d].page # "shown" => X(d) = {"version"}
    OBVIOUS
<1> HIDE DEF X
<1>14. ASSUME NEW d \in CallIds, Lost(calls'[d], calls[d], X(d)), cs[d].page = calls[d].page
       PROVE  SessionFacts(calls[d])' /\ PageFacts(calls[d])'
    <2>1. calls[d].page = "shown" => "history" \in X(d)
        BY <1>11, <1>14 DEF PageCounters
    <2>2. calls[d].page \in Slots =>
               /\ pages'[calls[d].page].kind = pages[calls[d].page].kind
               /\ pages'[calls[d].page].id = pages[calls[d].page].id
        BY <1>6, <1>8 DEF PageBefore, Slots, p, q
    <2>3. QED BY <1>11, <1>14, <2>1, <2>2, Others
<1>15. ASSUME NEW d \in CallIds
       PROVE  SessionFacts(calls[d])' /\ PageFacts(calls[d])'
    <2>1. CASE d = c /\ calls'[c] = Idle
        BY <2>1, IdleFacts
    <2>2. CASE ~(d = c /\ calls'[c] = Idle)
        BY <1>9, <1>10, <1>14, <2>2
    <2>3. QED BY <2>1, <2>2
<1>16. \A d \in CallIds : calls'[d].page = calls[d].page \/ calls'[d].page = "app"
    BY <1>9, <1>10, IdleFields DEF Lost
<1>17. TypeOK' BY <1>1, <1>3, <1>5, <1>6 DEF TypeOK
<1>18. HomeFacts'
    <2>1. \A s \in Slots : /\ pages'[s].kind = pages[s].kind
                           /\ pages[s].kind = "home" => pages'[s] = pages[s]
        BY <1>2, <1>6, <1>8 DEF PageBefore, HomeFacts, Slots, p, q
    <2>2. QED BY <1>16, <2>1, HomeKept DEF Slots
<1>19. ShownFacts' BY <1>8 DEF ShownFacts, Own, Page, q
<1>20. NextFacts'
    <2> DEFINE n == pages["next"]
               m == pages'["next"]
    <2>1. /\ m = n \/ calls[c].page = "next"
          /\ m.kind = n.kind /\ m.busy = n.busy /\ m.own = n.own /\ m.result = n.result
          /\ m.solved = n.solved
        BY <1>6 DEF PageBefore, Slots
    <2>2. loading' # "next" => m = Home
        <3>1. calls[c].page = "next" => loading = "next"
            BY <1>1 DEF PageFacts
        <3>2. QED BY <1>2, <2>1, <3>1 DEF NextFacts
    <2>3. m.kind # "answers" => m.own = None
        BY <2>1, NothingPrivateYet
    <2>4. m.busy = FALSE /\ m.result = None /\ m.solved = None
        BY <1>2, <2>1 DEF NextFacts
    <2>5. \A d, e \in CallIds : calls'[d].page = "next" /\ calls'[e].page = "next" => d = e
        BY <1>2, <1>16 DEF NextFacts
    <2>6. session' = None => hash' = "auth"
        BY <1>3
    <2> HIDE DEF n, m
    <2>7. QED BY <2>2, <2>3, <2>4, <2>5, <2>6 DEF NextFacts, Own, Home, Blank, m
<1>21. BusyFacts("shown")'
    BY <1>8, <1>12 DEF BusyFacts, Writes, Current, q
<1>22. PendingFacts("shown")'
    BY <1>8, <1>12 DEF PendingFacts, Reads, PageCounters, q
<1>23. PendingFacts("next")'
    <2>1. \A d \in CallIds \ {c} : Reads(calls'[d], "next") <=> Reads(calls[d], "next")
        BY <1>10, <1>13 DEF Reads, Lost
    <2>2. ~Reads(calls'[c], "next")
        BY <1>9, IdleFields DEF Reads, CallBefore, Lost
    <2>3. CASE Reads(calls[c], "next")
        <3>1. \A d \in CallIds : ~Reads(calls'[d], "next")
            BY <1>2, <2>1, <2>2, <2>3 DEF PendingFacts
        <3>2. pages'["next"].pending = FALSE
            BY <1>6, <2>3 DEF PageBefore, Slots
        <3>3. QED BY <3>1, <3>2 DEF PendingFacts, Reads
    <2>4. CASE ~Reads(calls[c], "next")
        <3>1. pages'["next"].pending = pages["next"].pending
            BY <1>6, <2>4 DEF PageBefore, Slots
        <3>2. QED BY <2>1, <2>2, <2>4, <3>1, PendingKept DEF Slots
    <2>5. QED BY <2>3, <2>4
<1>24. LogoutFacts'
    <2>1. /\ \A d \in CallIds \ {c} : calls'[d].op = calls[d].op
          /\ calls'[c].op # "logout"
        BY <1>9, <1>10, IdleFields DEF Lost, CallBefore
    <2>2. CASE calls[c].op = "logout"
        BY <1>2, <2>1, <2>2 DEF LogoutFacts
    <2>3. CASE calls[c].op # "logout"
        BY <2>1, <2>3, LogoutKept
    <2>4. QED BY <2>2, <2>3
<1>25. LoggedOutLeaves'
    BY <1>3 DEF LoggedOutLeaves, Allowed
<1>26. HistoryFacts'
    BY <1>8 DEF HistoryFacts, Page, q
<1>27. QED BY <1>15, <1>17, <1>18, <1>19, <1>20, <1>21, <1>22, <1>23, <1>24, <1>25, <1>26 DEF IInv

\* The calls without c.
LEMMA FinishFacts ==
    ASSUME TypeOK, NEW c \in CallIds
    PROVE  /\ Finish(c) \in [CallIds -> CallRecord] /\ Finish(c)[c] = Idle
           /\ \A d \in CallIds \ {c} : Finish(c)[d] = calls[d]
BY IdleFields DEF Finish, TypeOK

\* A call that is no read finds the pages as they are.
LEMMA PagesBefore ==
    ASSUME IInv, NEW c \in CallIds, calls[c].op # "read"
    PROVE  pages \in [Slots -> PageRecord] /\ \A s \in Slots : PageBefore(pages, c, s)
<1>1. pages \in [Slots -> PageRecord]
    BY Known, PageTypes
<1>2. QED BY <1>1 DEF PageBefore, Reads

\* Somebody has logged in.
LEMMA AfterLoginStep ==
    ASSUME IInv, ~Loaded, NEW c \in CallIds, calls[c].op = "login", NEW k, AfterLogin(c, k),
           UNCHANGED <<loading, appBusy>>
    PROVE  IInv'
<1>1. PICK user \in Users : SessionBecomes(user, Finish(c), pages)
    BY DEF AfterLogin
<1>2. hash' \in PageKinds \cup {None}
    BY DEF AfterLogin, PageKinds
<1>3. user \in Users \cup {None} /\ user # None
    BY NoneIsNothingElse
<1>4. TypeOK /\ appBusy' \in BOOLEAN
    BY Known DEF TypeOK
<1>5. /\ Finish(c) \in [CallIds -> CallRecord] /\ CallBefore(Finish(c)[c], c)
      /\ \A d \in CallIds \ {c} : Finish(c)[d] = calls[d]
    BY <1>4, FinishFacts DEF CallBefore
<1>6. pages \in [Slots -> PageRecord] /\ \A s \in Slots : PageBefore(pages, c, s)
    BY PagesBefore
<1>7. QED BY <1>1, <1>2, <1>3, <1>4, <1>5, <1>6, SessionStep

\* The rest of write.
LEMMA AfterWriteStep ==
    ASSUME IInv, ~Loaded, NEW c \in CallIds, NEW k, Settles(c, k),
           k.op \notin {"read", "history", "submitted", "logout"}, AfterWrite(c, k),
           loading' = loading
    PROVE  IInv'
<1>1. TypeOK
    BY Known
<1>2. k \in CallRecord /\ k.op = calls[c].op /\ k.op # "none"
    BY DEF Settles
<1>3. k.op \in WriteOps \ {"submitted"}
    BY <1>2 DEF CallRecord, WriteOps
<1> DEFINE o == PageOf(k)
<1>4. o \in PageRecord
    BY <1>1, <1>2, PageOfFacts
<1>5. appBusy' = appBusy
    BY DEF AfterWrite
<1>6. hash \in PageKinds \cup {None}
    BY <1>1 DEF TypeOK
<1> HIDE DEF o
<1>7. CASE ~Current(k) \/ k.failed # {}
    <2> DEFINE q == IF Current(k) THEN WriteFailed(o) ELSE o
    <2>1. Put(k, q) /\ calls' = Finish(c) /\ UNCHANGED <<session, hash>>
        BY <1>7 DEF AfterWrite, o
    <2>2. /\ q \in PageRecord
          /\ q.kind = o.kind /\ q.id = o.id /\ q.pending = o.pending /\ q.result = o.result
          /\ q.solved = o.solved /\ q.challenge = o.challenge /\ q.historyError = o.historyError
          /\ q.own = o.own
          /\ Current(k) => q.busy = FALSE
          /\ ~Current(k) => q.busy = o.busy
        BY ZenonT(40), <1>4 DEF WriteFailed, PageRecord
    <2> HIDE DEF q
    <2>3. QED BY <1>3, <1>5, <1>6, <2>1, <2>2, WriteEnds DEF o
<1>8. CASE Current(k) /\ k.failed = {}
    <2> DEFINE e == WriteEnded(o)
    <2>1. /\ k.page = "shown" /\ o = pages["shown"]
          /\ k.op = "save" => pages["shown"].kind = "editor"
          /\ k.op \in {"submit", "save", "remove"} => session # None
        BY <1>3, <1>8, CurrentWrite DEF o
    <2>2. /\ e \in PageRecord
          /\ e.kind = o.kind /\ e.id = o.id /\ e.pending = o.pending /\ e.result = o.result
          /\ e.solved = o.solved /\ e.challenge = o.challenge /\ e.historyError = o.historyError
          /\ e.own = o.own /\ e.busy = FALSE
        BY <1>4 DEF WriteEnded, PageRecord
    <2>3. \/ k.op = "submit" /\ AfterSubmit(c, k)
          \/ k.op = "save" /\ AfterSave(c, k)
          \/ k.op = "remove" /\ AfterRemove(c, k)
          \/ k.op = "signup" /\ AfterSignup(c, k)
          \/ k.op = "login" /\ AfterLogin(c, k)
        BY <1>8 DEF AfterWrite
    <2>4. CASE k.op = "submit" /\ AfterSubmit(c, k)
        BY <1>5, <1>8, <2>4, AfterSubmitStep
    <2>5. CASE k.op = "save" /\ AfterSave(c, k)
        <3> DEFINE q == [e EXCEPT !.own = None]
        <3>1. Put(k, q) /\ calls' = Finish(c) /\ session' = session /\ hash' = "mine"
            BY <2>5 DEF AfterSave, o
        <3>2. /\ q \in PageRecord
              /\ q.kind = o.kind /\ q.id = o.id /\ q.pending = o.pending /\ q.result = o.result
              /\ q.solved = o.solved /\ q.challenge = o.challenge /\ q.historyError = o.historyError
              /\ q.own = None /\ q.busy = FALSE
            <4> HIDE DEF e
            <4>1. QED BY <2>2 DEF PageRecord
        <3>3. o.result = None
            <4>1. ShownFacts
                BY DEF IInv
            <4>2. QED BY <2>1, <2>5, <4>1 DEF ShownFacts, Page
        <3>4. "mine" \in PageKinds \cup {None} /\ session # None
            BY <2>1, <2>5 DEF PageKinds
        <3> HIDE DEF q, e
        <3>5. QED BY <1>3, <1>5, <1>8, <3>1, <3>2, <3>3, <3>4, WriteEnds DEF o
    <2>6. CASE k.op = "remove" /\ AfterRemove(c, k)
        <3>1. Put(k, e) /\ calls' = Finish(c) /\ session' = session /\ hash' = "mine"
            BY <2>6 DEF AfterRemove, o
        <3>2. "mine" \in PageKinds \cup {None} /\ session # None
            BY <2>1, <2>6 DEF PageKinds
        <3> HIDE DEF e
        <3>3. QED BY <1>3, <1>5, <1>8, <2>2, <3>1, <3>2, WriteEnds DEF o
    <2>7. CASE k.op = "signup" /\ AfterSignup(c, k)
        <3>1. Put(k, e) /\ calls' = Finish(c) /\ session' = session /\ hash' = "auth"
            BY <2>7 DEF AfterSignup, o
        <3>2. "auth" \in PageKinds \cup {None}
            BY DEF PageKinds
        <3> HIDE DEF e
        <3>3. QED BY <1>3, <1>5, <1>8, <2>2, <3>1, <3>2, WriteEnds DEF o
    <2>8. CASE k.op = "login" /\ AfterLogin(c, k)
        BY <1>2, <1>5, <2>8, AfterLoginStep
    <2>9. QED BY <2>3, <2>4, <2>5, <2>6, <2>7, <2>8
<1>9. QED BY <1>7, <1>8

\* The end of a logout: of the session's own, or of an older one.
LEMMA AfterLogoutStep ==
    ASSUME IInv, ~Loaded, NEW c \in CallIds, NEW k, Settles(c, k), k.op = "logout",
           AfterLogout(c, k), loading' = loading
    PROVE  IInv'
<1>1. TypeOK /\ calls \in [CallIds -> CallRecord] /\ hash \in PageKinds \cup {None}
    BY Known DEF TypeOK
<1>2. calls[c].op = "logout" /\ k.stamps = calls[c].stamps
    BY DEF Settles
<1>3. appBusy' = FALSE /\ hash' = IF session' = None THEN "auth" ELSE hash
    BY DEF AfterLogout
<1>4. hash' \in PageKinds \cup {None}
    BY <1>1, <1>3 DEF PageKinds
<1>5. /\ Finish(c) \in [CallIds -> CallRecord] /\ Finish(c)[c] = Idle
      /\ \A d \in CallIds \ {c} : Finish(c)[d] = calls[d]
    BY <1>1, FinishFacts
<1>6. CASE "version" \in k.stamps
    <2>1. SessionBecomes(None, Finish(c), pages)
        BY <1>6 DEF AfterLogout
    <2>2. session' = None
        BY <2>1 DEF SessionBecomes
    <2>3. CallBefore(Finish(c)[c], c)
        BY <1>5 DEF CallBefore
    <2>4. pages \in [Slots -> PageRecord] /\ \A s \in Slots : PageBefore(pages, c, s)
        BY <1>2, PagesBefore
    <2>5. None \in Users \cup {None} /\ appBusy' \in BOOLEAN /\ hash' = "auth"
        BY <1>3, <2>2
    <2>6. QED BY <1>2, <1>3, <1>4, <1>5, <2>1, <2>3, <2>4, <2>5, SessionStep
<1>7. CASE "version" \notin k.stamps
    <2>1. calls' = Finish(c) /\ session' = session /\ pages' = pages
        BY <1>7 DEF AfterLogout
    <2>2. /\ calls' \in [CallIds -> CallRecord] /\ calls'[c] = Idle
          /\ \A d \in CallIds \ {c} : calls'[d] = calls[d]
        BY <1>5, <2>1
    <2>3. Idle.op = "none" /\ Idle.page = "app" /\ Idle.stamps = {}
        BY IdleFields
    <2>4. ASSUME NEW d \in CallIds
          PROVE  SessionFacts(calls[d])' /\ PageFacts(calls[d])'
        <3>1. CASE d # c
            <4>1. Lost(calls'[d], calls[d], {}) /\ calls'[d].knows = calls[d].knows
                BY <1>1, <2>2, <3>1 DEF Lost
            <4>2. QED BY <2>1, <4>1, Others
        <3>2. CASE d = c
            BY <2>2, <3>2, IdleFacts
        <3>3. QED BY <3>1, <3>2
    <2>5. calls[c].page = "app"
        BY <1>2, Known DEF SessionFacts
    <2>6. TypeOK' BY <1>1, <1>3, <1>4, <2>1, <2>2 DEF TypeOK
    <2>7. HomeFacts' BY <2>1, <2>2, <2>3, HomeKept DEF Slots
    <2>8. ShownFacts /\ LoggedOutLeaves /\ HistoryFacts /\ LogoutFacts BY DEF IInv
    <2>9. ShownFacts' BY <2>1, <2>8 DEF ShownFacts, Own, Page
    <2>10. NextFacts'
        <3>1. hash' = hash \/ session # None \/ hash' = "auth"
            BY <1>3
        <3>2. QED BY <2>1, <2>2, <2>3, <3>1, NextKept
    <2>11. BusyFacts("shown")'
        <3>1. \A d \in CallIds : Writes(calls'[d], "shown") <=> Writes(calls[d], "shown")
            BY <2>2, <2>3, <2>5 DEF Writes
        <3>2. QED BY <2>1, <3>1, BusyKept
    <2>12. PendingFacts("shown")' /\ PendingFacts("next")'
        <3>1. \A d \in CallIds, s \in Slots : Reads(calls'[d], s) <=> Reads(calls[d], s)
            BY <2>2, <2>3, <2>5 DEF Reads, Slots
        <3>2. QED BY <2>1, <3>1, PendingKept DEF Slots
    <2>13. LogoutFacts' BY <1>2, <1>3, <2>2, <2>3, <2>8 DEF LogoutFacts
    <2>14. LoggedOutLeaves' BY <1>3, <2>1, <2>8 DEF LoggedOutLeaves, Allowed, Page
    <2>15. HistoryFacts'
        <3>1. \A d \in CallIds : Awaited(calls'[d]) <=> Awaited(calls[d])
            BY <2>2, <2>3, <2>5 DEF Awaited
        <3>2. QED BY <2>1, <2>8, <3>1 DEF HistoryFacts, Page, Awaited
    <2>16. QED BY <2>4, <2>6, <2>7, <2>9, <2>10, <2>11, <2>12, <2>13, <2>14, <2>15 DEF IInv
<1>8. QED BY <1>6, <1>7

\* What a 401 makes of the calls and pages before the listeners run.
RefusedBefore(c, cs, ps) ==
    /\ cs \in [CallIds -> CallRecord] /\ ps \in [Slots -> PageRecord]
    /\ SessionBecomes(None, cs, ps)
    /\ \A d \in CallIds \ {c} : cs[d] = calls[d]
    /\ CallBefore(cs[c], c) /\ cs[c].wait \cap {"private", "body"} = {}
    /\ \A s \in Slots : PageBefore(ps, c, s)

\* A 401 ends the session of its own call.
LEMMA RefusedFacts ==
    ASSUME IInv, NEW c \in CallIds, Refused(c)
    PROVE  /\ \E cs, ps : RefusedBefore(c, cs, ps)
           /\ "private" \in calls[c].wait /\ calls[c].user = session
           /\ hash' = "auth" /\ loading' = loading /\ appBusy' \in BOOLEAN
           /\ calls[c].op = "logout" => appBusy' = FALSE
           /\ calls[c].op # "logout" => appBusy' = appBusy
<1> DEFINE k == calls[c]
           on == k.op \in {"history", "submitted"} /\ "public" \in k.wait
           rest == [Arrived(k) EXCEPT !.failed = @ \cup {"private"}]
           new == IF on THEN rest ELSE Idle
           p == pages[k.page]
           fails == k.op = "read" /\ "generation" \in k.stamps
           cs == [calls EXCEPT ![c] = new]
           ps == IF fails THEN [pages EXCEPT ![k.page] = [p EXCEPT !.error = TRUE, !.pending = FALSE]]
                 ELSE pages
<1>1. /\ TypeOK /\ calls \in [CallIds -> CallRecord] /\ k \in CallRecord /\ pages \in [Slots -> PageRecord]
      /\ SessionFacts(k) /\ PageFacts(k)
    BY Known, PageTypes
<1>2. /\ "private" \in k.wait /\ "version" \in k.stamps /\ SessionBecomes(None, cs, ps)
      /\ appBusy' = (appBusy /\ k.op # "logout") /\ loading' = loading
    BY DEF Refused, SameVersion
<1>3. hash' = "auth"
    BY DEF Refused, Redirected
<1>4. k.user = session
    BY <1>1, <1>2 DEF SessionFacts
<1>5. /\ appBusy' \in BOOLEAN
      /\ k.op = "logout" => appBusy' = FALSE
      /\ k.op # "logout" => appBusy' = appBusy
    BY <1>1, <1>2 DEF TypeOK
<1>6. /\ new \in CallRecord /\ CallBefore(new, c) /\ new.wait \cap {"private", "body"} = {}
    <2>1. CASE ~on
        <3>1. new = Idle
            BY <2>1
        <3> HIDE DEF new
        <3>2. QED BY <3>1, IdleFields DEF CallBefore
    <2>2. CASE on
        <3> DEFINE w == k.wait \ {"private", "body"}
                   f == k.failed \cup {"private"}
        <3>1. new = [k EXCEPT !.wait = w, !.failed = f]
            BY <1>1, <2>2 DEF Arrived, CallRecord
        <3>2. /\ w \in SUBSET {"public", "private", "body"} /\ f \in SUBSET {"public", "private"}
              /\ w \cap {"private", "body"} = {} /\ ("public" \in w => "public" \in k.wait)
            BY <1>1 DEF CallRecord
        <3>3. k.op \notin {"none", "read", "logout"}
            BY <2>2
        <3> HIDE DEF k, w, f, new, on
        <3>4. OnlySettled([k EXCEPT !.wait = w, !.failed = f], k, w, f)
            BY <1>1, <3>2, SettledFields
        <3>5. OnlySettled(new, k, w, f)
            BY <3>1, <3>4
        <3>6. Lost(new, k, {}) /\ new \in CallRecord /\ new.wait = w
            BY <1>1, <3>2, <3>3, <3>5 DEF OnlySettled, Lost, CallRecord
        <3>7. QED BY <3>2, <3>3, <3>6 DEF CallBefore, k
    <2>3. QED BY <2>1, <2>2
<1> HIDE DEF new
<1>7. /\ cs \in [CallIds -> CallRecord] /\ cs[c] = new
      /\ \A d \in CallIds \ {c} : cs[d] = calls[d]
    BY <1>1, <1>6
<1>8. ps \in [Slots -> PageRecord] /\ \A s \in Slots : PageBefore(ps, c, s)
    <2>1. CASE ~fails
        <3>1. ps = pages /\ \A s \in Slots : ~Reads(calls[c], s)
            BY <2>1 DEF Reads
        <3> HIDE DEF ps
        <3>2. QED BY <1>1, <3>1 DEF PageBefore
    <2>2. CASE fails
        <3> DEFINE q == [p EXCEPT !.error = TRUE, !.pending = FALSE]
        <3>1. k.page \in Slots
            BY <1>1, <2>2 DEF PageFacts
        <3>2. p \in PageRecord
            BY <1>1, <3>1
        <3>3. ps = [pages EXCEPT ![k.page] = q]
            BY <2>2
        <3> HIDE DEF p, ps
        <3>4. q \in PageRecord
            BY <3>2 DEF PageRecord
        <3>5. /\ q.kind = p.kind /\ q.id = p.id /\ q.busy = p.busy /\ q.own = p.own
              /\ q.result = p.result /\ q.solved = p.solved /\ q.pending = FALSE
            BY <3>2 DEF PageRecord
        <3> HIDE DEF q
        <3>6. /\ ps \in [Slots -> PageRecord] /\ ps[k.page] = q
              /\ \A s \in Slots : s # k.page => ps[s] = pages[s]
            BY <1>1, <3>1, <3>3, <3>4
        <3>7. \A s \in Slots : Reads(calls[c], s) <=> s = k.page
            BY <2>2 DEF Reads
        <3>8. ASSUME NEW s \in Slots
              PROVE  PageBefore(ps, c, s)
            <4>1. CASE s = k.page
                BY <3>4, <3>5, <3>6, <3>7, <4>1 DEF PageBefore, p
            <4>2. CASE s # k.page
                BY <1>1, <3>6, <3>7, <4>2 DEF PageBefore
            <4>3. QED BY <4>1, <4>2
        <3>9. QED BY <3>6, <3>8
    <2>3. QED BY <2>1, <2>2
<1> HIDE DEF cs, ps
<1>9. RefusedBefore(c, cs, ps)
    BY <1>2, <1>6, <1>7, <1>8 DEF RefusedBefore
<1>10. QED BY <1>2, <1>3, <1>4, <1>5, <1>9

\* A 401 keeps the invariant.
LEMMA RefusedStep ==
    ASSUME IInv, ~Loaded, NEW c \in CallIds, Refused(c)
    PROVE  IInv'
<1>1. /\ \E cs, ps : RefusedBefore(c, cs, ps)
      /\ hash' = "auth" /\ loading' = loading /\ appBusy' \in BOOLEAN
      /\ calls[c].op = "logout" => appBusy' = FALSE
      /\ calls[c].op # "logout" => appBusy' = appBusy
    BY RefusedFacts
<1>2. PICK cs, ps : RefusedBefore(c, cs, ps)
    BY <1>1
<1>3. /\ cs \in [CallIds -> CallRecord] /\ ps \in [Slots -> PageRecord]
      /\ SessionBecomes(None, cs, ps)
      /\ \A d \in CallIds \ {c} : cs[d] = calls[d]
      /\ CallBefore(cs[c], c)
      /\ \A s \in Slots : PageBefore(ps, c, s)
    BY <1>2 DEF RefusedBefore
<1>4. None \in Users \cup {None} /\ hash' \in PageKinds \cup {None}
    BY <1>1 DEF PageKinds
<1>5. QED BY <1>1, <1>3, <1>4, SessionStep

\* Every answer, and every failure, keeps the invariant.
LEMMA NetworkStep == IInv /\ ~Loaded /\ Network => IInv'
<1> SUFFICES ASSUME IInv, ~Loaded, NEW c \in Live,
                    \/ Answered(c) \/ Fulfilled(c) \/ Rejected(c) \/ Refused(c)
                    \/ \E ok \in BOOLEAN : PublicAnswered(c, ok)
             PROVE  IInv'
    BY DEF Network
<1>1. c \in CallIds /\ calls[c].op # "none"
    BY DEF Live
<1>2. CASE Refused(c)
    BY <1>1, <1>2, RefusedStep
<1>3. CASE ~Refused(c)
    <2>1. \E k : Settles(c, k) /\ Resume(c, k)
        BY <1>1, <1>3, SettlesFacts
    <2>2. PICK k : Settles(c, k) /\ Resume(c, k)
        BY <2>1
    <2>3. /\ loading' = loading
          /\ \/ /\ ~Settled(k) /\ calls' = [calls EXCEPT ![c] = k]
                /\ UNCHANGED <<session, pages, hash, appBusy>>
             \/ Settled(k) /\ k.op = "read" /\ AfterRead(c, k)
             \/ k.op \in {"history", "submitted"} /\ AfterHistory(c, k)
             \/ k.op = "logout" /\ AfterLogout(c, k)
             \/ k.op \notin {"read", "history", "submitted", "logout"} /\ AfterWrite(c, k)
        BY <2>2, ResumeCases
    <2>4. CASE /\ ~Settled(k) /\ calls' = [calls EXCEPT ![c] = k]
               /\ UNCHANGED <<session, pages, hash, appBusy>>
        BY <1>1, <2>2, <2>3, <2>4, UnsettledStep
    <2>5. CASE Settled(k) /\ k.op = "read" /\ AfterRead(c, k)
        BY <1>1, <2>2, <2>3, <2>5, AfterReadStep
    <2>6. CASE k.op \in {"history", "submitted"} /\ AfterHistory(c, k)
        BY <1>1, <2>2, <2>3, <2>6, AfterHistoryStep
    <2>7. CASE k.op = "logout" /\ AfterLogout(c, k)
        BY <1>1, <2>2, <2>3, <2>7, AfterLogoutStep
    <2>8. CASE k.op \notin {"read", "history", "submitted", "logout"} /\ AfterWrite(c, k)
        BY <1>1, <2>2, <2>3, <2>8, AfterWriteStep
    <2>9. QED BY <2>3, <2>4, <2>5, <2>6, <2>7, <2>8
<1>4. QED BY <1>2, <1>3
-----------------------------------------------------------------------------
(* The theorems. *)

\* The client starts on HomePage, without a session or a call.
LEMMA InitFacts == Init => IInv
<1> SUFFICES ASSUME Init
             PROVE  IInv
    OBVIOUS
<1>1. /\ session = None /\ hash = None /\ loading = None /\ appBusy = FALSE
      /\ pages = [shown |-> Home, next |-> Home]
      /\ \A c \in CallIds : calls[c] = Idle
      /\ calls = [c \in CallIds |-> Idle]
    BY DEF Init
<1>2. /\ pages["shown"] = Home /\ pages["next"] = Home
    BY <1>1
<1>3. /\ Home \in PageRecord /\ Home.kind = "home" /\ Home.pending = FALSE /\ Home.busy = FALSE
      /\ Home.own = None /\ Home.result = None /\ Home.solved = None
    BY HomeFields
<1>4. /\ Idle \in CallRecord /\ Idle.op = "none" /\ Idle.page = "app" /\ Idle.loads = FALSE
      /\ Idle.wait = {} /\ Idle.stamps = {}
    BY IdleFields
<1>5. TypeOK
    BY <1>1, <1>3, <1>4 DEF TypeOK
<1>6. \A c \in CallIds : SessionFacts(calls[c]) /\ PageFacts(calls[c])
    BY <1>1, <1>4 DEF SessionFacts, PageFacts, Slots, WriteOps, TiedOps, Awaited
<1>7. HomeFacts
    BY <1>1, <1>2, <1>4 DEF HomeFacts, Slots
<1>8. ShownFacts
    BY <1>2, <1>3 DEF ShownFacts, Own, Page
<1>9. NextFacts
    BY <1>1, <1>2, <1>3, <1>4 DEF NextFacts, Own, PrivateKinds
<1>10. BusyFacts("shown") /\ PendingFacts("shown") /\ PendingFacts("next")
    BY <1>1, <1>2, <1>3, <1>4 DEF BusyFacts, PendingFacts, Writes, Reads
<1>11. LogoutFacts
    BY <1>1, <1>4 DEF LogoutFacts
<1>12. LoggedOutLeaves
    BY <1>2, <1>3 DEF LoggedOutLeaves, PrivateKinds, Page
<1>13. HistoryFacts
    BY <1>2, <1>3 DEF HistoryFacts, Page
<1>14. QED BY <1>5, <1>6, <1>7, <1>8, <1>9, <1>10, <1>11, <1>12, <1>13 DEF IInv

\* Every step keeps the invariant.
LEMMA NextStep == IInv /\ [Next]_vars => IInv'
<1> SUFFICES ASSUME IInv, [Next]_vars
             PROVE  IInv'
    OBVIOUS
<1>1. CASE ~Loaded /\ Click
    <2>1. \/ RefreshButton \/ HistoryButton \/ InputError \/ Logout
          \/ (Login \/ Signup \/ Submit \/ Save \/ Remove)
        BY <1>1 DEF Click
    <2>2. QED BY <2>1, RefreshButtonStep, HistoryButtonStep, InputErrorStep, LogoutStep, WriteButtonStep
<1>2. CASE ~Loaded /\ Network
    BY <1>2, NetworkStep
<1>3. CASE Router
    BY <1>3, NavigateStep, LoadAgainStep, BindStep DEF Router
<1>4. CASE UNCHANGED vars
    <2>1. UNCHANGED <<session, hash, loading, pages, calls, appBusy>>
        BY <1>4 DEF vars
    <2>2. TypeOK' /\ HomeFacts' /\ ShownFacts' /\ NextFacts' /\ LogoutFacts' /\ LoggedOutLeaves'
        BY ZenonT(40), <2>1 DEF IInv, TypeOK, HomeFacts, Home, Blank, ShownFacts, NextFacts, Own, Page,
                    LogoutFacts, LoggedOutLeaves, Allowed
    <2>3. \A c \in CallIds : SessionFacts(calls[c])' /\ PageFacts(calls[c])'
        BY <2>1 DEF IInv, SessionFacts, PageFacts, Awaited, Page
    <2>4. BusyFacts("shown")' /\ PendingFacts("shown")' /\ PendingFacts("next")' /\ HistoryFacts'
        BY <2>1 DEF IInv, BusyFacts, PendingFacts, HistoryFacts, Writes, Reads, Current, Awaited, Page
    <2>5. QED BY <2>2, <2>3, <2>4 DEF IInv
<1>5. QED BY <1>1, <1>2, <1>3, <1>4 DEF Next

\* All that the theorems below use: the inductive invariant holds whatever the
\* order of clicks, routes and answers.
THEOREM Invariance == Spec => []IInv
<1>1. QED BY InitFacts, NextStep, PTL DEF Spec

\* Every variable keeps its type.
THEOREM TypeCorrect == Spec => []TypeOK
<1>1. IInv => TypeOK
    BY DEF IInv
<1>2. QED BY <1>1, Invariance, PTL

\* What the page on screen shows of private data and results belongs to the
\* user who is logged in and to the page's challenge (PageState.checkpoint and
\* the version checks of HttpClient).
THEOREM PrivateDataIsOwn == Spec => []PrivateIsOwn
<1>1. IInv => PrivateIsOwn
    BY DEF IInv, ShownFacts, Own, PrivateIsOwn
<1>2. QED BY <1>1, Invariance, PTL

\* Nobody stays on a page that needs a login without one (MyApp.binding).
THEOREM NobodyStays == Spec => []LoggedOutLeaves
<1>1. IInv => LoggedOutLeaves
    BY DEF IInv
<1>2. QED BY <1>1, Invariance, PTL

\* A result on screen is in the list beside it once no list is awaited
\* (DetailPage.submit and refreshHistory).
THEOREM ResultIsListed == Spec => []ResultIsInHistory
<1>1. IInv => ResultIsInHistory
    <2> SUFFICES ASSUME IInv
                 PROVE  ResultIsInHistory
        OBVIOUS
    <2> DEFINE awaited == {c \in Live : /\ calls[c].page = "shown"
                                        /\ calls[c].op \in {"history", "submitted"}
                                        /\ {"lifetime", "version", "history"} \subseteq calls[c].stamps}
    <2>1. SUFFICES ASSUME Page.result # None, Page.challenge, ~Page.historyError, awaited = {}
                   PROVE  Page.own # None /\ Page.own.knows
        BY DEF ResultIsInHistory
    <2>2. Page.challenge = TRUE /\ Page.historyError = FALSE
        <3>1. Page.challenge \in BOOLEAN /\ Page.historyError \in BOOLEAN
            BY Known DEF Page, PageRecord
        <3>2. QED BY <2>1, <3>1
    <2>3. \A c \in CallIds : ~Awaited(calls[c])
        BY <2>1 DEF Awaited, Live
    <2>4. HistoryFacts
        BY DEF IInv
    <2>5. QED BY <2>1, <2>2, <2>3, <2>4 DEF HistoryFacts
<1>2. QED BY <1>1, Invariance, PTL

\* A flag that is set exactly while one element is there counts them.
LEMMA FlagCounts ==
    ASSUME NEW S, NEW b \in BOOLEAN, b = TRUE => \E x \in S : TRUE,
           \A x \in S : b = TRUE, \A x, y \in S : x = y
    PROVE  Cardinality(S) = IF b THEN 1 ELSE 0
<1>1. CASE b = TRUE
    <2>1. PICK x \in S : TRUE
        BY <1>1
    <2>2. S = {x}
        BY <2>1
    <2>3. QED BY <1>1, <2>2, FS_Singleton
<1>2. CASE b = FALSE
    <2>1. S = {}
        BY <1>2
    <2>2. QED BY <1>2, <2>1, FS_EmptySet
<1>3. QED BY <1>1, <1>2

\* No page stays blocked and no second write gets through: each flag is set
\* exactly while the one call that will reset it is under way (PageState.write
\* and read, MyApp.logout).
THEOREM NothingGetsStuck == Spec => []NothingStuck
<1>1. IInv => NothingStuck
    <2> SUFFICES ASSUME IInv
                 PROVE  NothingStuck
        OBVIOUS
    <2> DEFINE writes(s) == {c \in Live : /\ calls[c].page = s
                                          /\ calls[c].op \notin {"read", "history"}
                                          /\ Current(calls[c])}
               reads(s) == {c \in Live : /\ calls[c].page = s
                                         /\ calls[c].op = "read"
                                         /\ "generation" \in calls[c].stamps}
               logouts == {c \in Live : calls[c].op = "logout"}
    <2>1. /\ BusyFacts("shown") /\ PendingFacts("shown") /\ PendingFacts("next") /\ LogoutFacts
          /\ NextFacts
        BY DEF IInv
    <2>2. /\ \A s \in Slots : pages[s].busy \in BOOLEAN /\ pages[s].pending \in BOOLEAN
          /\ appBusy \in BOOLEAN /\ DOMAIN pages = Slots
        BY Known, PageTypes DEF TypeOK, PageRecord, Slots
    <2>3. \A c \in CallIds : calls[c] \in CallRecord /\ SessionFacts(calls[c]) /\ PageFacts(calls[c])
        BY Known
    <2>4. ASSUME NEW s \in Slots
          PROVE  Cardinality(writes(s)) = IF pages[s].busy THEN 1 ELSE 0
        <3>1. \A c \in CallIds : c \in writes(s) <=> Writes(calls[c], s)
            BY <2>3 DEF Writes, WriteOps, Live, SessionFacts, PageFacts, CallRecord, Slots
        <3>2. \A c \in writes(s) : c \in CallIds
            BY DEF Live
        <3>3. CASE s = "shown"
            <4> HIDE DEF writes
            <4>1. /\ pages[s].busy = TRUE => \E c \in writes(s) : TRUE
                  /\ \A c \in writes(s) : pages[s].busy = TRUE
                  /\ \A c, d \in writes(s) : c = d
                BY <2>1, <3>1, <3>2, <3>3 DEF BusyFacts
            <4>2. QED BY <2>2, <4>1, FlagCounts
        <3>4. CASE s = "next"
            <4>1. \A c \in CallIds : ~Writes(calls[c], s)
                BY <2>3, <3>4 DEF PageFacts, Writes, WriteOps
            <4> HIDE DEF writes
            <4>2. writes(s) = {} /\ pages[s].busy = FALSE
                BY <2>1, <3>1, <3>2, <3>4, <4>1 DEF NextFacts
            <4>3. QED BY <4>2, FS_EmptySet
        <3>5. QED BY <3>3, <3>4 DEF Slots
    <2>5. ASSUME NEW s \in Slots
          PROVE  Cardinality(reads(s)) = IF pages[s].pending THEN 1 ELSE 0
        <3>1. /\ \A c \in CallIds : c \in reads(s) <=> Reads(calls[c], s)
              /\ \A c \in reads(s) : c \in CallIds
            BY DEF Reads, Live
        <3>2. PendingFacts(s)
            BY <2>1 DEF Slots
        <3> HIDE DEF reads
        <3>3. /\ pages[s].pending = TRUE => \E c \in reads(s) : TRUE
              /\ \A c \in reads(s) : pages[s].pending = TRUE
              /\ \A c, d \in reads(s) : c = d
            BY <3>1, <3>2 DEF PendingFacts
        <3>4. QED BY <2>2, <3>3, FlagCounts
    <2>6. Cardinality(logouts) = IF appBusy THEN 1 ELSE 0
        <3>1. /\ \A c \in CallIds : c \in logouts <=> calls[c].op = "logout"
              /\ \A c \in logouts : c \in CallIds
            BY DEF Live
        <3> HIDE DEF logouts
        <3>2. /\ appBusy = TRUE => \E c \in logouts : TRUE
              /\ \A c \in logouts : appBusy = TRUE
              /\ \A c, d \in logouts : c = d
            BY <2>1, <3>1 DEF LogoutFacts
        <3>3. QED BY <2>2, <3>2, FlagCounts
    <2>7. QED BY <2>2, <2>4, <2>5, <2>6 DEF NothingStuck
<1>2. QED BY <1>1, Invariance, PTL

\* The session becomes what start or clear was given, and call c is as they
\* found it.
LEMMA SessionWait ==
    ASSUME NEW cs, cs \in [CallIds -> CallRecord], NEW ps, NEW user, NEW c \in CallIds,
           SessionBecomes(user, cs, ps), cs[c].wait \cap {"private", "body"} = {}
    PROVE  session' = user /\ "private" \notin calls'[c].wait
<1> DEFINE X == {"version"} \cup IF cs[c].page = "shown" THEN PageCounters ELSE {}
<1>1. session' = user /\ calls'[c] = [cs[c] EXCEPT !.stamps = @ \ X] /\ cs[c] \in CallRecord
    BY DEF SessionBecomes
<1> HIDE DEF X
<1>2. Lost(calls'[c], cs[c], X)
    BY <1>1, StampsLost
<1>3. QED BY <1>1, <1>2 DEF Lost

\* Only the answer to a call of its own ends a session.
OwnCallEnds ==
    session # None /\ session' = None =>
        \E c \in Live : /\ calls[c].user = session /\ calls'[c] # calls[c]
                        /\ "private" \in calls[c].wait /\ "private" \notin calls'[c].wait

\* No step ends the session otherwise.
LEMMA OwnCallStep == IInv /\ [Next]_vars => OwnCallEnds
<1> SUFFICES ASSUME IInv, [Next]_vars, session # None, session' = None
             PROVE  \E c \in Live :
                       /\ calls[c].user = session /\ calls'[c] # calls[c]
                       /\ "private" \in calls[c].wait /\ "private" \notin calls'[c].wait
    BY DEF OwnCallEnds
<1>1. CASE Network
    <2>1. PICK c \in Live : \/ Answered(c) \/ Fulfilled(c) \/ Rejected(c) \/ Refused(c)
                            \/ \E ok \in BOOLEAN : PublicAnswered(c, ok)
        BY <1>1 DEF Network
    <2>2. c \in CallIds /\ calls[c].op # "none"
        BY DEF Live
    <2>3. TypeOK /\ SessionFacts(calls[c])
        BY <2>2, Known
    <2>4. CASE Refused(c)
        <3>1. /\ \E cs, ps : RefusedBefore(c, cs, ps)
              /\ "private" \in calls[c].wait /\ calls[c].user = session
            BY <2>2, <2>4, RefusedFacts
        <3>2. PICK cs, ps : RefusedBefore(c, cs, ps)
            BY <3>1
        <3>3. "private" \notin calls'[c].wait
            BY <2>2, <3>2, SessionWait DEF RefusedBefore
        <3>4. QED BY <3>1, <3>3
    <2>5. CASE ~Refused(c)
        <3>1. \E k : Settles(c, k) /\ Resume(c, k)
            BY <2>1, <2>2, <2>5, SettlesFacts
        <3>2. PICK k : Settles(c, k) /\ Resume(c, k)
            BY <3>1
        <3>3. \/ UNCHANGED <<session, pages, hash, appBusy>>
              \/ AfterRead(c, k) \/ AfterHistory(c, k)
              \/ k.op = "logout" /\ AfterLogout(c, k)
              \/ AfterWrite(c, k)
            BY <3>2, ResumeCases
        <3>4. ~AfterRead(c, k) /\ ~AfterHistory(c, k) /\ ~UNCHANGED <<session, pages, hash, appBusy>>
            BY DEF AfterRead, AfterHistory
        <3>5. ~AfterWrite(c, k)
            <4>1. ASSUME AfterLogin(c, k)
                  PROVE  FALSE
                <5>1. session' \in Users
                    BY <4>1 DEF AfterLogin, SessionBecomes
                <5>2. QED BY <5>1, NoneIsNothingElse
            <4>2. QED BY <4>1 DEF AfterWrite, AfterSubmit, AfterSave, AfterRemove, AfterSignup
        <3>6. k.op = "logout" /\ AfterLogout(c, k)
            BY <3>3, <3>4, <3>5
        <3>7. "version" \in k.stamps /\ SessionBecomes(None, Finish(c), pages)
            BY <3>6 DEF AfterLogout
        <3>8. calls[c].op = "logout" /\ calls[c].stamps = k.stamps
            BY <3>2, <3>6 DEF Settles
        <3>9. calls[c].wait = {"private"} /\ calls[c].user = session
            BY <2>3, <3>7, <3>8 DEF SessionFacts, TiedOps
        <3>10. "private" \notin calls'[c].wait
            <4>1. Finish(c) \in [CallIds -> CallRecord] /\ Finish(c)[c] = Idle /\ Idle.wait = {}
                BY <2>2, <2>3, FinishFacts, IdleFields
            <4>2. QED BY <2>2, <3>7, <4>1, SessionWait
        <3>11. QED BY <3>9, <3>10
    <2>6. QED BY <2>4, <2>5
<1>2. CASE Click
    BY <1>2 DEF Click, RefreshButton, HistoryButton, InputError, Login, Signup, Submit, Save, Remove,
                Write, Logout
<1>3. CASE Router
    BY <1>3 DEF Router, Navigate, LoadAgain, Bind
<1>4. CASE UNCHANGED vars
    BY <1>4 DEF vars
<1>5. QED BY <1>1, <1>2, <1>3, <1>4 DEF Next

\* An old 401, or the end of an old logout, leaves a newer login alone
\* (HttpClient.request and MyApp.logout).
THEOREM OnlyItsOwnCallEndsASession == Spec => EndedByItsOwnCall
<1>1. IInv /\ [Next]_vars =>
          [session # None /\ session' = None =>
              \E c \in Live : calls[c].user = session /\ calls'[c] # calls[c]
                              /\ "private" \in calls[c].wait /\ "private" \notin calls'[c].wait]_vars
    BY OwnCallStep DEF OwnCallEnds
<1>2. QED BY <1>1, Invariance, PTL DEF Spec, EndedByItsOwnCall
=============================================================================
