------------------------------- MODULE MCTexts -------------------------------
(***************************************************************************)
(* The text handling on small inputs, against TextReferences: every        *)
(* request target of up to UriLength bytes over a small alphabet runs      *)
(* through RequestPath; strings, pairs of strings, token sequences and     *)
(* dates (the jobs) are evaluated in one step each.                        *)
(***************************************************************************)
EXTENDS RequestPath, JsonText, JsonBody, ContestTime, TextReferences

CONSTANTS UriLength, SegmentCount, QueryLength, TokenLength,
          Dates   \* timestamps

ASSUME DatesAssumption == Dates \subseteq Timestamps

VARIABLES job, result

Nothing == [kind |-> "none"]
-----------------------------------------------------------------------------
(* Inputs. *)

\* "h:/" and "hs:/" stand for "http://" and "https://".
MCSchemes == {<<104, 58, 47>>, <<104, 115, 58, 47>>}
MCIdName == <<105>>
MCFilterName == <<102>>

\* A slash, a dot, a percent sign, hexadecimal digits that spell a slash, a
\* dot and a percent sign, and a letter.
PathBytes == {47, 46, 37, 50, 69, 70, 122}
Escaped == {<<37, 50, 101>>, <<37, 50, 70>>, <<37, 48, 48>>, <<46>>, <<47>>, <<122>>}

Segments == {<<47>>, <<47, 46>>, <<47, 46, 46>>, <<47, 122>>, <<47, 122, 122>>, <<47, 46, 122>>,
             <<47, 37, 50, 101, 46>>}

MCUris == UNION {
    {Concat(f) : f \in BoundedSeq(Segments, SegmentCount) \ {<<>>}},
    {<<47>> \o t : t \in BoundedSeq(PathBytes, UriLength)},
    {<<47>> \o Concat(f) : f \in BoundedSeq(Escaped, SegmentCount)},
    {s \o t : s \in {<<104, 58, 47>>, <<72, 58, 47>>, <<104, 83, 58, 47>>, <<104, 26, 47>>, <<47, 0>>},
              t \in BoundedSeq({47, 46, 122, 63}, 3)},
    {<<42>>, <<122>>, <<42, 122>>, <<63>>},
    {<<47, 63>> \o q : q \in BoundedSeq({105, 61, 38, 49, 53}, QueryLength)},
    {<<47, 122>> \o q : q \in BoundedSeq({35, 63, 105, 61, 50}, QueryLength - 1)},
    {<<47, 37, 50, 69, 63>> \o q : q \in {<<105, 61, 50, 49>>, <<102, 61, 49>>}},
    {<<47, 63, 105, 61>> \o q : q \in BoundedSeq({48, 50, 53, 57}, 3)},
    {<<47, 63>> \o a \o <<61>> \o b : a, b \in {<<102>>, <<49>>, <<49, 38, 102>>}}}

Broken ==
    {HighHalf, LowHalf, <<92>>, <<34>>, <<9>>, <<195>>, <<169>>, U(<<48>>), <<92, 120>>,
     <<237, 160, 128>>, <<192, 128>>, <<224, 159, 191>>, <<244, 144, 128, 128>>,
     <<240, 143, 191, 191>>}

Pieces == Broken \cup UNION {c.forms : c \in {d \in Characters : d.utf8 \notin
                                              {<<k>> : k \in (32..127) \ {34, 92, 97}}}}

Strings == {Concat(p) : p \in BoundedSeq(Pieces, 2)}
ShortStrings == {Concat(p) : p \in BoundedSeq({<<97>>, U(<<48, 48, 54, 49>>), <<195, 169>>,
                    U(<<48, 48, 101, 57>>), HighHalf, LowHalf, <<92, 110>>, <<92>>}, 2)}

\* "username*" and "alice*" spell the same texts as "username" and "alice".
MCStringTokens ==
    {"key1", "key2", "username", "username*", "password", "name", "description", "flag",
     "genre", "answer", "challenge_id", "web", "alice", "alice*", "secret", "half", "long", ""}
MCText(s) ==
    CASE s = "username*" -> "username" [] s = "alice*" -> "alice" [] s = "half" -> "none"
      [] OTHER -> s

BodyTokens == {"{", "}", "[", "]", ":", ",", "key1", "key2", "scalar"}
Member(k, v) == <<k, ":">> \o v
Object(members) == <<"{">> \o members \o <<"}">>
Inner == {<<"scalar">>, <<"{", "}">>, <<"[", "]">>, <<"[", "key1", "]">>,
          <<"[", "scalar", ",", "{", "}", "]">>, Object(Member("key1", <<"key1">>))}
Deep == Inner \cup {<<"[">> \o v \o <<"]">> : v \in Inner}
              \cup {Object(Member("key2", v)) : v \in Inner}
Documents ==
    {Object(Member("key1", v)) : v \in Deep}
    \cup {Object(Member("key1", v) \o <<",">> \o Member(k, x)) :
             v, x \in Inner, k \in {"key1", "key2"}}
Damaged(t) == {RemoveAt(t, k) : k \in DOMAIN t}

\* Requests as sequences of members, each a key and the tokens of its value.
Credentials ==
    BoundedSeq({"username", "username*", "password", "answer", "half"}
                  \X {<<"alice*">>, <<"secret">>, <<"half">>, <<"7">>}, 3)
Submissions ==
    BoundedSeq({"challenge_id", "answer", "key1"}
                  \X {<<"7">>, <<"scalar">>, <<"secret">>, <<"half">>, <<"">>, <<"long">>,
                      <<"{", "}">>}, 2)
    \cup {<<<<"challenge_id", <<"7">>>>, <<"answer", <<"alice*">>>>, m>> :
             m \in {<<"key1", <<"[", "scalar", "]">>>>, <<"answer", <<"secret">>>>,
                    <<"challenge_id", <<"7">>>>, <<"half", <<"half">>>>}}
WholeMembers ==
    {<<<<"name", n>>, <<"description", d>>, <<"flag", f>>, <<"genre", g>>>> :
        n \in {<<"alice*">>, <<"">>, <<"long">>, <<"7">>}, d \in {<<"">>, <<"long">>},
        f \in {<<"half">>, <<"">>, <<"[", "]">>}, g \in {<<"web">>, <<"alice">>, <<"scalar">>}}
ChallengeMembers ==
    WholeMembers
    \cup UNION {Damaged(c) : c \in WholeMembers}
    \cup {Append(c, m) : c \in WholeMembers,
             m \in {<<"key1", <<"{", "}">>>>, <<"name", <<"secret">>>>, <<"username", <<"7">>>>}}
    \cup {Reverse(c) : c \in WholeMembers}

Separated(parts) ==
    Concat([k \in DOMAIN parts |-> IF k = 1 THEN parts[k] ELSE <<",">> \o parts[k]])
BodyOf(members) ==
    Object(Separated([k \in DOMAIN members |-> Member(members[k][1], members[k][2])]))

MCDates ==
    [kind : {"time"},
     year : {1969, 1970, 1971, 1972, 2000, 2001, 2024, 2038, 2099, 2100, 2101, 2400, -1},
     month : {0, 1, 2, 3, 12, 13}, day : {-1, 0, 1, 28, 29, 30, 31, 32},
     hour : {0, 23, 24}, minute : {0, 59}, second : {0, 59, 60},
     sign : {"Z", "+", "-"}, offsetHour : {0, 23}, offsetMinute : {30}]
    \cup [kind : {"time"}, year : {1970, 2000}, month : {1}, day : {1, 2}, hour : {0, 9, -1},
          minute : {-1, 0, 60}, second : {0}, sign : {"Z", "+", "-", "x"},
          offsetHour : {-1, 9, 24}, offsetMinute : {-1, 0, 60}]

Bodies ==
    {<<"{">> \o s : s \in BoundedSeq(BodyTokens, TokenLength)}
    \cup Documents \cup UNION {Damaged(d) : d \in Documents}

Jobs ==
    {[kind |-> "string", text |-> t] : t \in Strings}
    \cup {[kind |-> "pair", left |-> l, right |-> r0] : l, r0 \in ShortStrings}
    \cup {[kind |-> "body", tokens |-> t] : t \in Bodies}
    \cup {[kind |-> "auth", members |-> ms] : ms \in Credentials}
    \cup {[kind |-> "answer", members |-> ms] : ms \in Submissions}
    \cup {[kind |-> "challenge", members |-> ms] : ms \in ChallengeMembers}
    \cup Dates
-----------------------------------------------------------------------------
(* The specification. *)

TextsInit ==
    /\ Init
    /\ job \in IF uri = <<42>> THEN Jobs ELSE {Nothing}
    /\ result = Nothing

ReadString ==
    /\ job.kind = "string"
    /\ result' = [decoded |-> Decode(job.text),
                  scanned |-> ParseJsonStr(<<Quote>> \o job.text \o <<Quote>>, 1)]

CompareStrings ==
    /\ job.kind = "pair"
    /\ result' = [equal |-> EqualDecoded(job.left, job.right)]

ReadBody ==
    /\ job.kind = "body"
    /\ result' = [accepted |-> ReadObject("answer", job.tokens) # {}]

ReadRequest ==
    \/ job.kind = "auth" /\ result' = [request |-> JsonToAuthRequest(BodyOf(job.members))]
    \/ /\ job.kind = "answer"
       /\ result' = [request |-> JsonToSubmitAnswerRequest(BodyOf(job.members))]
    \/ /\ job.kind = "challenge"
       /\ result' = [request |-> JsonToCreateChallengeRequest(BodyOf(job.members))]

ParseTime ==
    /\ job.kind = "time"
    /\ result' = ContestTimeParse(job)

DoJob ==
    /\ result = Nothing
    /\ \/ ReadString \/ CompareStrings \/ ReadBody \/ ReadRequest \/ ParseTime
    /\ UNCHANGED <<vars, job>>

TextsNext ==
    \/ job = Nothing /\ Next /\ UNCHANGED <<job, result>>
    \/ DoJob
    \/ job # Nothing /\ result # Nothing /\ UNCHANGED <<vars, job, result>>

TextsSpec == TextsInit /\ [][TextsNext]_<<vars, job, result>>

\* The timestamp of a date: the days of the calendar before it, and the time
\* of the day without its offset.
TimeReference(t) ==
    LET minutes == 60 * t.offsetHour + t.offsetMinute
        offset == CASE t.sign = "Z" -> 0 [] t.sign = "-" -> -60 * minutes [] OTHER -> 60 * minutes
        seconds == 3600 * t.hour + 60 * t.minute + t.second - offset
        day == DayNumber(t.year, t.month, t.day) + seconds \div 86400
        legal == /\ t.year >= 1970
                 /\ <<t.month, t.day>> \in Calendar(t.year)
                 /\ t.hour \in 0..23 /\ t.minute \in 0..59 /\ t.second \in 0..59
                 /\ \/ t.sign = "Z"
                    \/ /\ t.sign \in {"+", "-"}
                       /\ t.offsetHour \in 0..23 /\ t.offsetMinute \in 0..59
    IN  IF ~legal THEN Refuse
        ELSE IF day < 0 THEN Refuse
        ELSE [day |-> day, second |-> seconds % 86400]
-----------------------------------------------------------------------------
(* Properties. *)

Ended == pc \in {"ok", "bad", "too_long"}

\* The path a handler is chosen by is the target with its query and host cut
\* off, decoded once and its dot segments resolved, and a target is refused
\* exactly when that has no result: although the decoding and the resolving
\* overwrite the buffer they read (normalize_uri).
PathIsReference ==
    job = Nothing /\ pc \in {"ok", "bad"} =>
        (IF pc = "ok" THEN {path} ELSE {}) = PathReference(uri, Schemes)

\* The id that read_challenge_id and answer_filter take from the query is the
\* number written there, for every number up to INT_MAX and no other text, if
\* it is given exactly once: also after the path before it was rewritten, and
\* with no intermediate overflow near INT_MAX (handler_challenge.c:351,
\* handler_answer.c:58).
IdIsExact ==
    LET pairs == QueryReference(uri)
        given(name) == {k \in DOMAIN pairs : pairs[k][1] = name}
        number(name) ==
            IF Cardinality(given(name)) # 1 THEN {}
            ELSE PositiveReference(pairs[CHOOSE k \in given(name) : TRUE][2], IntMax)
    IN  job = Nothing /\ pc = "ok" =>
            /\ (IF ReadChallengeId = 0 THEN {} ELSE {ReadChallengeId}) = number(IdName)
            /\ IF given(FilterName) = {} THEN AnswerFilter = -1
               ELSE (IF AnswerFilter = 0 THEN {} ELSE {AnswerFilter}) = number(FilterName)

\* Decoding a string yields the UTF-8 of the characters it spells and refuses
\* everything that spells none; the result fits the buffer, which is as long
\* as the spelling (json_string.c:193); comparing two strings agrees with
\* comparing their characters even when they differ before a fault; and the
\* scanner of json_parser.c accepts the same strings and those with half a
\* surrogate pair.
StringIsReference ==
    /\ job.kind = "string" /\ result # Nothing =>
        /\ (IF result.decoded.ok THEN {result.decoded.out} ELSE {}) = StringReference(job.text)
        /\ Len(result.decoded.out) <= Len(job.text)
        /\ (result.scanned = Len(job.text) + 3) <=>
              (Readings(job.text, Spellings \cup Halves) # {})
    /\ job.kind = "pair" /\ result # Nothing =>
        LET l == StringReference(job.left)
            r0 == StringReference(job.right)
        IN  result.equal = IF l = {} \/ r0 = {} THEN -1 ELSE IF l = r0 THEN 1 ELSE 0

\* The request a list of members stands for, by the names of its fields.
Request(members, fields, named(_), passed(_), allowed(_, _)) ==
    LET given(f) == {k \in DOMAIN members : named(members[k][1]) = f}
        value(f) == members[CHOOSE k \in given(f) : TRUE][2]
    IN  IF /\ \A k, l \in DOMAIN members : members[k][1] = members[l][1] => k = l
           /\ \A f \in fields : Cardinality(given(f)) = 1
           /\ \A f \in fields : Len(value(f)) = 1 /\ allowed(f, value(f)[1])
        THEN {[f \in fields |-> passed(value(f)[1])]} ELSE {}

RequestReference(kind, members) ==
    LET same(s) == s
        stored(s) == s \in MCStringTokens \ {"", "long"}
        credential(f, s) ==
            s \in MCStringTokens /\ Text(s) \in IF f = "username" THEN Usernames ELSE Passwords
        submission(f, s) == IF f = "answer" THEN stored(s) /\ Text(s) # NoText ELSE s = "7"
        challenge(f, s) == IF f = "genre" THEN s = "web"
                           ELSE stored(s) \/ (f = "description" /\ s = "")
    IN  CASE kind = "auth" ->
               IF Len(members) # 2 THEN {}
               ELSE Request(members, {"username", "password"}, Text, Text, credential)
          [] kind = "answer" ->
               Request(members, {"challenge_id", "answer"}, same, same, submission)
          [] kind = "challenge" ->
               Request(members, {"name", "description", "flag", "genre"}, same, same, challenge)

\* read_object accepts exactly the objects of the grammar whose keys differ
\* and which are nested no deeper than MAX_JSON_DEPTH, and nothing after them;
\* and the request a handler gets holds each field's own value: no field is
\* missing, given twice (for credentials not even in two spellings), of the
\* wrong kind or outside its limits, whatever other members surround it.
BodyIsReference ==
    /\ job.kind = "body" /\ result # Nothing =>
           result.accepted = IsObject(job.tokens, MaxJsonDepth)
    /\ job.kind \in {"auth", "answer", "challenge"} /\ result # Nothing =>
           result.request = RequestReference(job.kind, job.members)

\* contest_time_parse counts the seconds from 1970 to the given date, leap
\* years and offsets included, and refuses dates that do not exist.
TimeIsReference ==
    job.kind = "time" /\ result # Nothing => result = TimeReference(job)
==============================================================================
