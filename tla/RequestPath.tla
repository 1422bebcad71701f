----------------------------- MODULE RequestPath -----------------------------
(***************************************************************************)
(* normalize_uri (http_request_path.c): what becomes of the request target *)
(* once parse_chunk has completed the request, and the two readers of the  *)
(* query that the handlers use.                                            *)
(*                                                                         *)
(* Everything happens inside the receive buffer.  parse_query_params cuts  *)
(* the query off and leaves pointers to its names and values; url_decode   *)
(* and normalize_path then rewrite the path in place with a reading cursor *)
(* r and a writing cursor w, each the number of bytes passed.  Bytes are   *)
(* their character codes.                                                  *)
(***************************************************************************)
EXTENDS Integers, Sequences

CONSTANTS
    Uris,            \* the request targets (never empty: parse_chunk refuses that)
    MaxQueryParams,  \* MAX_QUERY_PARAMS
    Schemes,         \* "http://" and "https://", in lower case
    IdName,          \* "id", the parameter of /challenges
    FilterName,      \* "challenge_id", the parameter of /answers
    IntMax           \* INT_MAX

Byte == 0..255

ASSUME UrisAssumption == Uris \subseteq Seq(Byte) /\ \A u \in Uris : u # <<>>
\* No scheme holds capitals, and none begins with another.
ASSUME SchemesAssumption ==
    /\ Schemes \subseteq Seq(Byte)
    /\ \A c \in Schemes : Len(c) > 1 /\ \A k \in DOMAIN c : c[k] \notin 65..90
    /\ \A c, d \in Schemes : c # d => \E k \in DOMAIN c \cap DOMAIN d : c[k] # d[k]
ASSUME BoundsAssumption == MaxQueryParams \in Nat /\ IntMax \in Nat /\ IntMax >= 9

VARIABLES
    uri,     \* the target as received
    buf,     \* the same bytes of the buffer, rewritten in place
    len,     \* uri_len
    pc,      \* the loop that is running
    r, w,    \* cursors
    from,    \* seg_start + i, the byte of a segment to be copied next
    at,      \* bytes before the path: scheme and host of an absolute target
    params,  \* query_params
    path     \* the resulting request->uri, <<>> before

vars == <<uri, buf, len, pc, r, w, from, at, params, path>>

Slash == 47
Dot == 46
Percent == 37
Question == 63
Hash == 35
Equals == 61
Ampersand == 38
Asterisk == 42

\* The first position in lo..hi that holds one of the bytes, or hi + 1.
First(bytes, lo, hi) ==
    LET found == {k \in lo..hi : buf[k] \in bytes}
    IN  IF found = {} THEN hi + 1 ELSE CHOOSE k \in found : \A l \in found : k <= l

Slice(b, start, n) == [k \in 1..n |-> b[start + k - 1]]

Init ==
    /\ uri \in Uris
    /\ buf = uri
    /\ len = Len(uri)
    /\ pc = "query"
    /\ r = 0 /\ w = 0 /\ from = 0 /\ at = 0
    /\ params = <<>>
    /\ path = <<>>

Fail(s) ==
    /\ pc' = s
    /\ UNCHANGED <<uri, buf, len, r, w, from, at, params, path>>
-----------------------------------------------------------------------------
(***************************************************************************)
(* parse_query_params.                                                     *)
(***************************************************************************)
EndQuery ==
    /\ len' = First({Question, Hash}, 1, len) - 1
    /\ pc' = "decode"
    /\ r' = 0
    /\ UNCHANGED <<uri, buf, w, from, at, path>>

FindQuery ==
    LET question == First({Question}, 1, len)
    IN  /\ pc = "query"
        /\ \/ question > len /\ EndQuery /\ UNCHANGED params
           \/ /\ question <= len
              /\ pc' = "param"
              /\ r' = question
              /\ UNCHANGED <<uri, buf, len, w, from, at, params, path>>

Param(equals, ampersand) ==
    [name |-> r + 1, nameLen |-> equals - r - 1,
     value |-> IF equals = len THEN 0 ELSE equals + 1,
     valueLen |-> ampersand - equals - 1]

ReadParam ==
    LET equals == First({Equals}, r + 1, len)
        ampersand == First({Ampersand}, equals + 1, len)
    IN  /\ pc = "param"
        /\ \/ equals > len /\ EndQuery /\ UNCHANGED params
           \/ equals <= len /\ Len(params) >= MaxQueryParams /\ Fail("too_long")
           \/ /\ equals <= len
              /\ Len(params) < MaxQueryParams
              /\ params' = Append(params, Param(equals, ampersand))
              /\ \/ ampersand > len /\ EndQuery
                 \/ /\ ampersand <= len
                    /\ r' = ampersand
                    /\ UNCHANGED <<uri, buf, len, pc, w, from, at, path>>
-----------------------------------------------------------------------------
(***************************************************************************)
(* url_decode.                                                             *)
(***************************************************************************)
HexVal(c) ==
    IF c \in 48..57 THEN c - 48
    ELSE IF c \in 65..70 THEN c - 55
    ELSE IF c \in 97..102 THEN c - 87
    ELSE -1

Store(c, n) ==
    /\ buf' = [buf EXCEPT ![w + 1] = c]
    /\ w' = w + 1
    /\ r' = r + n
    /\ UNCHANGED <<uri, len, pc, from, at, params, path>>

Truncated == r + 2 >= len

UrlDecode ==
    LET h1 == HexVal(buf[r + 2])
        h2 == HexVal(buf[r + 3])
    IN  /\ pc = "decode"
        /\ r < len
        /\ \/ buf[r + 1] # Percent /\ Store(buf[r + 1], 1)
           \/ buf[r + 1] = Percent /\ Truncated /\ Fail("bad")
           \/ /\ buf[r + 1] = Percent
              /\ ~Truncated
              /\ \/ h1 < 0 \/ h2 < 0 \/ h1 + h2 = 0
              /\ Fail("bad")
           \/ /\ buf[r + 1] = Percent
              /\ ~Truncated
              /\ h1 >= 0 /\ h2 >= 0 /\ h1 + h2 > 0
              /\ Store(16 * h1 + h2, 3)

Decoded ==
    /\ pc = "decode"
    /\ r >= len
    /\ len' = w
    /\ pc' = "form"
    /\ UNCHANGED <<uri, buf, r, w, from, at, params, path>>
-----------------------------------------------------------------------------
(***************************************************************************)
(* The forms of a request target.                                          *)
(***************************************************************************)
Lower(c) == IF c \in 65..90 THEN c + 32 ELSE c

HasScheme(s) ==
    len >= Len(s) /\ \A k \in 1..Len(s) : Lower(buf[k]) = s[k]

BugKeepCursor(k) ==
    /\ at' = k - 1
    /\ r' = 0
    /\ pc' = IF k > len THEN "bad" ELSE IF buf[k] # Slash THEN "bad" ELSE "normalize"
    /\ UNCHANGED <<uri, buf, len, w, from, params, path>>

NormalizeFrom(k) ==
    /\ at' = k - 1
    /\ r' = 0 /\ w' = 0
    /\ pc' = IF k > len THEN "bad" ELSE IF buf[k] # Slash THEN "bad" ELSE "normalize"
    /\ UNCHANGED <<uri, buf, len, from, params, path>>

Finish(p) ==
    /\ pc' = "ok"
    /\ path' = p
    /\ UNCHANGED <<uri, len, r, from, at, params>>

Form ==
    /\ pc = "form"
    /\ \/ len = 1 /\ buf[1] = Asterisk /\ Fail("bad")
       \/ \E s \in Schemes :
             LET slash == First({Slash}, Len(s) + 1, len)
             IN  /\ HasScheme(s)
                 /\ \/ slash > len /\ Finish(<<Slash>>) /\ UNCHANGED <<buf, w>>
                    \/ slash <= len /\ NormalizeFrom(slash)
       \/ /\ ~(len = 1 /\ buf[1] = Asterisk)
          /\ \A s \in Schemes : ~HasScheme(s)
          /\ NormalizeFrom(1)
-----------------------------------------------------------------------------
(***************************************************************************)
(* normalize_path: one action per segment, one per byte that is copied.    *)
(***************************************************************************)
\* The segment after the reading cursor, its bounds within the path.
SegmentStart ==
    LET found == {k \in (r + 1)..(len - at) : buf[at + k] # Slash}
    IN  IF found = {} THEN len - at + 1
        ELSE CHOOSE k \in found : \A l \in found : k <= l
SegmentEnd == First({Slash}, at + SegmentStart, len) - at - 1
SegmentLen == SegmentEnd - SegmentStart + 1
Segment == Slice(buf, at + SegmentStart, SegmentLen)

BugParentKeepsSlash ==
    LET slashes == {k \in 1..w : buf[at + k] = Slash}
    IN  IF slashes = {} THEN 0 ELSE CHOOSE k \in slashes : \A l \in slashes : k >= l

\* What is left of the output when its last segment is taken away.
Parent ==
    LET slashes == {k \in 1..w : buf[at + k] = Slash}
    IN  IF slashes = {} THEN 0
        ELSE (CHOOSE k \in slashes : \A l \in slashes : k >= l) - 1

KeepPath == UNCHANGED <<uri, len, pc, from, at, params, path>>

NormalizeSegment ==
    /\ pc = "normalize"
    /\ SegmentLen > 0
    /\ \/ /\ Segment = <<Dot>>
          /\ r' = SegmentEnd
          /\ KeepPath /\ UNCHANGED <<buf, w>>
       \/ /\ Segment = <<Dot, Dot>>
          /\ w = 0
          /\ Fail("bad")
       \/ /\ Segment = <<Dot, Dot>>
          /\ w # 0
          /\ w' = Parent
          /\ r' = SegmentEnd
          /\ KeepPath /\ UNCHANGED buf
       \/ /\ Segment \notin {<<Dot>>, <<Dot, Dot>>}
          /\ buf' = [buf EXCEPT ![at + w + 1] = Slash]
          /\ w' = w + 1
          /\ r' = SegmentEnd
          /\ from' = SegmentStart - 1
          /\ pc' = "copy"
          /\ UNCHANGED <<uri, len, at, params, path>>

\* Each byte of the segment is read after the writes before it.
CopyByte ==
    /\ pc = "copy"
    /\ buf' = [buf EXCEPT ![at + w + 1] = buf[at + from + 1]]
    /\ w' = w + 1
    /\ from' = from + 1
    /\ pc' = IF from + 1 < r THEN "copy" ELSE "normalize"
    /\ UNCHANGED <<uri, len, r, at, params, path>>

Normalized ==
    /\ pc = "normalize"
    /\ SegmentLen = 0
    /\ \/ /\ w = 0
          /\ buf' = [buf EXCEPT ![at + 1] = Slash]
          /\ w' = 1
          /\ Finish(<<Slash>>)
       \/ /\ w # 0
          /\ Finish(Slice(buf, at + 1, w))
          /\ UNCHANGED <<buf, w>>

Returned == pc \in {"ok", "bad", "too_long"} /\ UNCHANGED vars

Next ==
    \/ FindQuery \/ ReadParam \/ UrlDecode \/ Decoded \/ Form
    \/ NormalizeSegment \/ CopyByte \/ Normalized \/ Returned

Spec == Init /\ [][Next]_vars
-----------------------------------------------------------------------------
(***************************************************************************)
(* The handlers' readers of the query.  0 stands for "refused".            *)
(***************************************************************************)
BugLastDigitUnchecked(text) ==
    LET value[k \in 0..Len(text)] ==
            IF k = 0 THEN 0
            ELSE LET v == value[k - 1]
                 IN  IF v = -1 \/ text[k] \notin 48..57 \/ v > IntMax \div 10 THEN -1
                     ELSE v * 10 + text[k] - 48
    IN  IF text = <<>> THEN 0
        ELSE IF text[1] \notin 49..57 \/ value[Len(text)] = -1 THEN 0
        ELSE value[Len(text)]

\* value after k digits, or -1 once the text is refused.
ParseChallengeId(text) ==
    LET value[k \in 0..Len(text)] ==
            IF k = 0 THEN 0
            ELSE LET v == value[k - 1]
                     digit == text[k] - 48
                 IN  IF v = -1 \/ digit \notin 0..9 THEN -1
                     ELSE IF v > (IntMax - digit) \div 10 THEN -1
                     ELSE v * 10 + digit
    IN  IF text = <<>> THEN 0
        ELSE IF text[1] \notin 49..57 \/ value[Len(text)] = -1 THEN 0
        ELSE value[Len(text)]

Named(name) ==
    {k \in DOMAIN params : Slice(buf, params[k].name, params[k].nameLen) = name}

ValueOf(k) == Slice(buf, params[k].value, params[k].valueLen)

\* The values of the parameters called name: exactly one, and a number.
ReadChallengeId ==
    IF \E k \in Named(IdName) : Named(IdName) = {k}
    THEN ParseChallengeId(ValueOf(CHOOSE k \in Named(IdName) : TRUE))
    ELSE 0

\* As above, but the parameter may be missing, which is -1 here.
AnswerFilter ==
    IF Named(FilterName) = {} THEN -1
    ELSE IF \E k \in Named(FilterName) : Named(FilterName) = {k}
    THEN ParseChallengeId(ValueOf(CHOOSE k \in Named(FilterName) : TRUE))
    ELSE 0
-----------------------------------------------------------------------------
(***************************************************************************)
(* Properties.                                                             *)
(***************************************************************************)
\* No byte is overwritten before it was read: in every rewriting loop the
\* writing cursor is behind the reading one, what url_decode has not read is
\* as received, and all cursors stay inside the target.  From the first ? or
\* # on, where the query's names and values lie and the header lines follow,
\* the buffer is never touched (url_decode, normalize_path).
WritesBehindReads ==
    /\ pc = "decode" => /\ w <= r /\ r <= len
                        /\ \A k \in (r + 1)..len : buf[k] = uri[k]
    /\ pc = "normalize" => w <= r /\ at + r <= len
    /\ pc = "copy" => w <= from /\ from < r /\ at + r <= len
    /\ len <= Len(uri) /\ Len(buf) = Len(uri)
    /\ \A k \in 1..Len(uri) :
           (\E q \in 1..k : uri[q] \in {Question, Hash}) => buf[k] = uri[k]
==============================================================================
