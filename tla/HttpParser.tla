----------------------------- MODULE HttpParser -----------------------------
(***************************************************************************)
(* The incremental HTTP/1.x request parser of http_request.c.              *)
(*                                                                         *)
(* parse_http_request receives the client's bytes in whatever pieces the   *)
(* network delivers and hands each piece to parse_chunk, which resumes a   *)
(* state machine where the previous piece left it.  The parsed request     *)
(* holds no copies: method, URI, header names, values and body are slices  *)
(* of the one receive buffer.                                              *)
(*                                                                         *)
(* stream is what the client sends before it closes its side, got the      *)
(* bytes received so far (buf_len; the buffer is stream[1..got]) and i the *)
(* loop's position, counted from 1.  A slice starts at the position in its *)
(* first field, 0 standing for a null pointer.  Bytes are the classes the  *)
(* parser tells apart: the separators, digits and letters; the names of    *)
(* the headers it understands are shortened to one letter each.            *)
(***************************************************************************)
EXTENDS Integers, Sequences

CONSTANTS
    Streams,          \* the byte sequences clients send
    Methods,          \* the method names, each a sequence of letters
    MethodPeek,       \* bytes compared at once: the longest method and a space
    Versions,         \* the version texts accepted
    MaxHeaderBytes,   \* MAX_HEADER_BYTES
    MaxRequestBytes,  \* MAX_REQUEST_BYTES, the size of the buffer
    MaxHeaders,       \* MAX_HEADERS
    SizeMax,          \* SIZE_MAX
    NormalizeUri(_)   \* the status normalize_uri leads to for a URI text

ASSUME LimitsAssumption ==
    /\ MethodPeek \in Nat \ {0} /\ MaxHeaders \in Nat /\ SizeMax \in Nat
    /\ MaxHeaderBytes \in Nat \ {0} /\ MaxRequestBytes \in Nat
    /\ MethodPeek < MaxHeaderBytes /\ MaxHeaderBytes < MaxRequestBytes

\* Method names are words; bytes are named by strings.
ASSUME MethodsAssumption ==
    \A m \in Methods : /\ m \in Seq(STRING) /\ Len(m) < MethodPeek
                       /\ \A k \in DOMAIN m : m[k] \notin {"SP", "LF"}
ASSUME StreamsAssumption == \A s \in Streams : s \in Seq(STRING)

\* What parse_http_request makes of normalize_uri's result, for any part of a
\* stream.
ASSUME NormalizeUriAssumption ==
    \A s \in Streams : \A a \in 1..Len(s) : \A n \in 0..(Len(s) - a + 1) :
        NormalizeUri([k \in 1..n |-> s[a + k - 1]]) \in {200, 400, 414}

VARIABLES
    stream,   \* what the client sends
    got,      \* buf_len
    i,        \* position of the byte parse_chunk looks at
    pc,       \* "recv", "parse" or "done"
    state,    \* the parser's state between bytes
    status,   \* status of the response parse_http_request returns
    req       \* the request under construction

parser == <<got, i, pc, state, status, req>>
vars == <<stream, got, i, pc, state, status, req>>

HeadStates == {"REQ_METHOD", "REQ_URI", "REQ_VERSION", "REQ_LF", "HEADER_KEY",
               "HEADER_NAME", "HEADER_VALUE", "HEADER_LF", "HEADER_END"}

NoHeader == [name |-> 0, nameLen |-> 0, value |-> 0, valueLen |-> 0]

Fresh == [method |-> 0, uri |-> 0, uriLen |-> 0, version |-> 0,
          headers |-> <<>>, h |-> NoHeader,
          contentLength |-> 0, body |-> 0, bodyRead |-> 0]

\* The part of the buffer not yet received is zero.
Byte(k) == IF k <= got THEN stream[k] ELSE "NUL"

Slice(at, len) == [k \in 1..len |-> Byte(at + k - 1)]

Whitespace == {"SP", "TAB", "CR", "LF"}

Digits == [d0 |-> 0, d1 |-> 1, d2 |-> 2, d3 |-> 3, d4 |-> 4,
           d5 |-> 5, d6 |-> 6, d7 |-> 7, d8 |-> 8, d9 |-> 9]

\* Header names are compared without regard to case.
Fold(name) == [k \in DOMAIN name |-> IF name[k] = "C" THEN "c" ELSE name[k]]

ContentLength == <<"c">>
TransferEncoding == <<"t">>

Init ==
    /\ stream \in Streams
    /\ got = 0
    /\ i = 1
    /\ pc = "recv"
    /\ state = "REQ_METHOD"
    /\ status = 0
    /\ req = Fresh
-----------------------------------------------------------------------------
(***************************************************************************)
(* parse_http_request: receiving.                                          *)
(***************************************************************************)
Return(s) ==
    /\ pc' = "done"
    /\ status' = s

Recv(n) ==
    /\ pc = "recv"
    /\ n <= Len(stream) - got
    /\ n <= MaxRequestBytes - got
    /\ got' = got + n
    /\ i' = got + 1
    /\ pc' = "parse"
    /\ UNCHANGED <<stream, state, status, req>>

\* recv returns 0 when the peer has closed, and also when it is given no room.
RecvNothing ==
    /\ pc = "recv"
    /\ got \in {Len(stream), MaxRequestBytes}
    /\ Return(400)
    /\ UNCHANGED <<stream, got, i, state, req>>

RecvFails ==
    /\ pc = "recv"
    /\ Return(500)
    /\ UNCHANGED <<stream, got, i, state, req>>

\* The loop has seen every byte of the chunk: more data needed.
ChunkEnds ==
    /\ pc = "parse"
    /\ i > got
    /\ pc' = "recv"
    /\ UNCHANGED <<stream, got, i, state, status, req>>
-----------------------------------------------------------------------------
(***************************************************************************)
(* parse_chunk: one action per state of the loop's switch.                 *)
(***************************************************************************)
At(s) ==
    /\ pc = "parse"
    /\ i <= got
    /\ state = s
    /\ s \in HeadStates => i < MaxHeaderBytes

Keep(r) ==
    /\ req' = r
    /\ UNCHANGED <<stream, got>>

\* The byte is consumed and the loop goes on in state s with request r.
Go(s, r) ==
    /\ state' = s
    /\ i' = i + 1
    /\ Keep(r)
    /\ UNCHANGED <<pc, status>>

\* The half-built request is only disposed of after this.
Fail(s) ==
    /\ state' = "ERROR"
    /\ Return(s)
    /\ Keep(req)
    /\ UNCHANGED i

\* parse_chunk returns ERR_NONE and parse_http_request normalizes the URI.
Complete(r) ==
    /\ state' = "DONE"
    /\ Return(NormalizeUri(Slice(r.uri, r.uriLen)))
    /\ Keep(r)
    /\ UNCHANGED i

BugEnterBodyIgnoringHead ==
    \/ req.contentLength >= MaxRequestBytes /\ Fail(413)
    \/ req.contentLength = 0 /\ Complete(req)
    \/ /\ req.contentLength \in 1..(MaxRequestBytes - 1)
       /\ Go("BODY", [req EXCEPT !.body = i + 1])

\* The checks made when the blank line has just been read.
EnterBody ==
    \/ /\ req.contentLength >= MaxRequestBytes - i
       /\ Fail(413)
    \/ /\ req.contentLength < MaxRequestBytes - i
       /\ req.contentLength = 0
       /\ Complete(req)
    \/ /\ req.contentLength < MaxRequestBytes - i
       /\ req.contentLength # 0
       /\ Go("BODY", [req EXCEPT !.body = i + 1])

HeaderTooLarge ==
    /\ pc = "parse"
    /\ i <= got
    /\ state \in HeadStates
    /\ i >= MaxHeaderBytes
    /\ Fail(431)

\* The method whose name and space the window begins with.
ParseMethod(window) ==
    {m \in Methods : SubSeq(window, 1, Len(m) + 1) = Append(m, "SP")}

BugNotAllInChunk(at) == got - i + 1 < MethodPeek

NotAllArrived(at) == got - at + 1 < MethodPeek

ReqMethod ==
    LET at == IF req.method = 0 THEN i ELSE req.method
        found == ParseMethod(Slice(at, MethodPeek))
        r == [req EXCEPT !.method = at]
    IN  /\ At("REQ_METHOD")
        /\ \/ /\ NotAllArrived(at)
              /\ pc' = "recv"
              /\ Keep(r)
              /\ UNCHANGED <<i, state, status>>
           \/ /\ ~NotAllArrived(at)
              /\ found = {}
              /\ Fail(501)
           \/ /\ ~NotAllArrived(at)
              /\ \E m \in found : i' = at + Len(m) + 1
              /\ state' = "REQ_URI"
              /\ Keep(r)
              /\ UNCHANGED <<pc, status>>

ReqUri ==
    LET b == stream[i]
        r == [req EXCEPT !.uri = IF @ = 0 THEN i ELSE @]
    IN  /\ At("REQ_URI")
        /\ \/ b = "SP" /\ i = r.uri /\ Fail(400)
           \/ b = "SP" /\ i # r.uri /\ Go("REQ_VERSION", [r EXCEPT !.uriLen = i - r.uri])
           \/ b \in {"CR", "LF"} /\ Fail(400)
           \/ b \notin {"SP", "CR", "LF"} /\ Go("REQ_URI", r)

ReqVersion ==
    LET b == stream[i]
        r == [req EXCEPT !.version = IF @ = 0 THEN i ELSE @]
        known == Slice(r.version, i - r.version) \in Versions
    IN  /\ At("REQ_VERSION")
        /\ \/ b = "CR" /\ known /\ Go("REQ_LF", r)
           \/ b = "LF" /\ known /\ Go("HEADER_KEY", r)
           \/ b \in {"CR", "LF"} /\ ~known /\ Fail(505)
           \/ b \notin {"CR", "LF"} /\ Go("REQ_VERSION", r)

ReqLf ==
    /\ At("REQ_LF")
    /\ \/ stream[i] = "LF" /\ Go("HEADER_KEY", req)
       \/ stream[i] # "LF" /\ Fail(400)

\* The first byte of a name is taken without the test for white space that
\* HEADER_NAME makes of the others.
HeaderKey ==
    LET b == stream[i]
    IN  /\ At("HEADER_KEY")
        /\ \/ b = "CR" /\ Go("HEADER_END", req)
           \/ b = "LF" /\ EnterBody
           \/ b = "COLON" /\ Fail(400)
           \/ /\ b \notin {"CR", "LF", "COLON"}
              /\ Len(req.headers) >= MaxHeaders
              /\ Fail(431)
           \/ /\ b \notin {"CR", "LF", "COLON"}
              /\ Len(req.headers) < MaxHeaders
              /\ Go("HEADER_NAME", [req EXCEPT !.h.name = i])

HeaderName ==
    LET b == stream[i]
    IN  /\ At("HEADER_NAME")
        /\ \/ b \in Whitespace /\ Fail(400)
           \/ b = "COLON" /\ Go("HEADER_VALUE", [req EXCEPT !.h.nameLen = i - req.h.name])
           \/ b \notin Whitespace \cup {"COLON"} /\ Go("HEADER_NAME", req)
-----------------------------------------------------------------------------
(***************************************************************************)
(* Header lines.                                                           *)
(***************************************************************************)
NameOf(h) == Fold(Slice(h.name, h.nameLen))

GetHeader(name) == {k \in DOMAIN req.headers : NameOf(req.headers[k]) = name}

\* The digit loop: value after k digits, or -1 once the text is refused.
LengthAfter(text) ==
    LET value[k \in 0..Len(text)] ==
            IF k = 0 THEN 0
            ELSE LET v == value[k - 1]
                 IN  IF v = -1 \/ text[k] \notin DOMAIN Digits THEN -1
                     ELSE IF v > (SizeMax - Digits[text[k]]) \div 10 THEN -1
                     ELSE v * 10 + Digits[text[k]]
    IN  value[Len(text)]

BugParseHeaderTwice(r) ==
    LET length == LengthAfter(Slice(r.h.value, r.h.valueLen))
    IN  IF NameOf(r.h) # ContentLength THEN {r}
        ELSE IF r.h.valueLen = 0 \/ length = -1 THEN {}
        ELSE {[r EXCEPT !.contentLength = length]}

\* parse_header: the request with the header taken in; {} when it is refused.
ParseHeader(r) ==
    LET name == NameOf(r.h)
        length == LengthAfter(Slice(r.h.value, r.h.valueLen))
    IN  IF name = ContentLength
        THEN IF r.h.valueLen = 0 \/ GetHeader(ContentLength) # {} \/ length = -1
             THEN {}
             ELSE {[r EXCEPT !.contentLength = length]}
        ELSE IF name = TransferEncoding THEN {} ELSE {r}

\* header_count++: the next slot of the zeroed array becomes the current one.
NextHeader(r) == [r EXCEPT !.headers = Append(@, r.h), !.h = NoHeader]

HeaderValue ==
    LET b == stream[i]
        value == IF req.h.value = 0 THEN i ELSE req.h.value
    IN  /\ At("HEADER_VALUE")
        /\ \/ /\ b \in {"CR", "LF"}
              /\ ParseHeader(req) = {}
              /\ Fail(400)
           \/ b = "CR" /\ \E r \in ParseHeader(req) : Go("HEADER_LF", r)
           \/ b = "LF" /\ \E r \in ParseHeader(req) : Go("HEADER_KEY", NextHeader(r))
           \/ b \in Whitespace \ {"CR", "LF"} /\ Go("HEADER_VALUE", req)
           \/ /\ b \notin Whitespace
              /\ Go("HEADER_VALUE", [req EXCEPT !.h.value = value,
                                                !.h.valueLen = i - value + 1])

BugHeaderLfUncounted ==
    /\ At("HEADER_LF")
    /\ \/ stream[i] = "LF" /\ Go("HEADER_KEY", req)
       \/ stream[i] # "LF" /\ Fail(400)

HeaderLf ==
    /\ At("HEADER_LF")
    /\ \/ stream[i] = "LF" /\ Go("HEADER_KEY", NextHeader(req))
       \/ stream[i] # "LF" /\ Fail(400)

HeaderEnd ==
    /\ At("HEADER_END")
    /\ \/ stream[i] = "LF" /\ EnterBody
       \/ stream[i] # "LF" /\ Fail(400)

\* All of the chunk that belongs to the body is taken at once.
Body ==
    LET remaining == req.contentLength - req.bodyRead
        available == got - i + 1
        read == req.bodyRead + (IF available < remaining THEN available ELSE remaining)
        r == [req EXCEPT !.bodyRead = read]
    IN  /\ At("BODY")
        /\ \/ read = req.contentLength /\ Complete(r)
           \/ /\ read # req.contentLength
              /\ pc' = "recv"
              /\ Keep(r)
              /\ UNCHANGED <<i, state, status>>

ParseByte ==
    \/ HeaderTooLarge \/ ReqMethod \/ ReqUri \/ ReqVersion \/ ReqLf
    \/ HeaderKey \/ HeaderName \/ HeaderValue \/ HeaderLf \/ HeaderEnd \/ Body

Returned == pc = "done" /\ UNCHANGED vars

Next ==
    \/ \E n \in 1..Len(stream) : Recv(n)
    \/ RecvNothing \/ RecvFails \/ ChunkEnds
    \/ ParseByte
    \/ Returned

Spec == Init /\ [][Next]_vars
-----------------------------------------------------------------------------
(***************************************************************************)
(* Properties.                                                             *)
(***************************************************************************)
Statuses == {0, 200, 400, 413, 414, 431, 500, 501, 505}

\* Cursors stay within what has been received and slices start where a byte
\* has been seen (parse_chunk, http_request.c:155).
TypeOK ==
    /\ got \in 0..Len(stream)
    /\ i \in 1..(got + 1)
    /\ pc \in {"recv", "parse", "done"}
    /\ state \in HeadStates \cup {"BODY", "DONE", "ERROR"}
    /\ status \in Statuses
    /\ {req.method, req.uri, req.version} \subseteq 0..got
    /\ Len(req.headers) \in 0..MaxHeaders
    /\ req.contentLength \in 0..SizeMax
    /\ req.bodyRead \in 0..req.contentLength

\* recv is never called with a full buffer.  With no room it would return 0,
\* which parse_http_request takes for a closed connection, and a request
\* within the limits would be refused (the checks at http_request.c:160, 456).
RoomToReceive == pc = "recv" => got < MaxRequestBytes

Accepted == pc = "done" /\ state = "DONE"

\* Reference: positions of line ends, and of the line end of the blank line.
LineEnds == {k \in 1..got : stream[k] = "LF"}
HeadEnds ==
    {k \in LineEnds : \/ k - 1 \in LineEnds
                      \/ stream[k - 1] = "CR" /\ k - 2 \in LineEnds}
HeadEnd == CHOOSE k \in HeadEnds : \A l \in HeadEnds : k <= l

\* The number a text of digits denotes.
Number(text) ==
    LET upTo[k \in 0..Len(text)] ==
            IF k = 0 THEN 0 ELSE 10 * upTo[k - 1] + Digits[text[k]]
    IN  upTo[Len(text)]

\* A request that parse_chunk completes has a body of exactly as many bytes
\* as its one Content-Length header says, none when it has none, all of them
\* received, beginning right after the first blank line: however the header
\* and the body were spread over chunks, not a byte is lost, doubled or taken
\* from the next request.
BodyIsFramed ==
    Accepted =>
        LET lengths == GetHeader(ContentLength)
            text(k) == Slice(req.headers[k].value, req.headers[k].valueLen)
        IN  /\ HeadEnds # {}
            /\ req.contentLength \in
                   IF lengths = {} THEN {0} ELSE {Number(text(k)) : k \in lengths}
            /\ \A k, l \in lengths : k = l
            /\ req.bodyRead = req.contentLength
            /\ HeadEnd + req.contentLength <= got
            /\ req.contentLength # 0 => req.body = HeadEnd + 1

\* The headers of a completed request are exactly the lines between the
\* request line and the blank line, in order: the name is what precedes the
\* first colon and the value the rest without surrounding white space, so no
\* line is skipped, merged with the next or cut at a chunk's border.
HeadersAreTheLines ==
    Accepted =>
        LET start(k) == req.headers[k].name
            eol(k) == CHOOSE e \in LineEnds :
                         e > start(k) /\ \A f \in LineEnds : f > start(k) => e <= f
            colon(k) == start(k) + req.headers[k].nameLen
            text(k) == {p \in (colon(k) + 1)..eol(k) : stream[p] \notin Whitespace}
            first(k) == CHOOSE p \in text(k) : \A q \in text(k) : p <= q
            last(k) == CHOOSE p \in text(k) : \A q \in text(k) : p >= q
        IN  /\ {start(k) - 1 : k \in DOMAIN req.headers} =
                   {e \in LineEnds : \E f \in LineEnds : e < f /\ f < HeadEnd}
            /\ \A k \in DOMAIN req.headers :
                   /\ \A l \in 1..(k - 1) : start(l) < start(k)
                   /\ stream[colon(k)] = "COLON"
                   /\ \A p \in start(k)..(colon(k) - 1) : stream[p] # "COLON"
                   /\ colon(k) < eol(k)
                   /\ IF text(k) = {} THEN req.headers[k].valueLen = 0
                      ELSE /\ req.headers[k].value = first(k)
                           /\ req.headers[k].valueLen = last(k) - first(k) + 1
=============================================================================
