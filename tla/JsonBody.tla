------------------------------ MODULE JsonBody ------------------------------
(***************************************************************************)
(* Request bodies: read_object and read_value of app/json_parser.c, and    *)
(* the three readers of requests built on them (app/json_auth.c,           *)
(* app/json_request.c, app/json_answer.c).                                 *)
(*                                                                         *)
(* A body is a sequence of tokens: the structural characters, and each     *)
(* string, number or literal as one token; white space is left out.        *)
(* Tokens stand for spellings: two strings with the same text may be       *)
(* different tokens.                                                       *)
(***************************************************************************)
EXTENDS Integers, Sequences

CONSTANTS
    MaxJsonDepth,    \* MAX_JSON_DEPTH
    StringTokens,    \* the tokens that are strings
    PositiveTokens,  \* the integers from 1 to INT_MAX
    OtherScalars,    \* other numbers and literals
    Text(_),         \* the text a string decodes to
    NoText,          \* Text of a string with half a surrogate pair
    Empty,           \* the empty string
    TooLong,         \* strings of more characters than the columns hold
    Usernames,       \* texts of 3 to 32 characters of the alphabet of names
    Passwords,       \* texts of 8 to 128 bytes without a zero byte
    Genres           \* spellings of the genres

ASSUME TokensAssumption ==
    /\ MaxJsonDepth \in Nat
    /\ TooLong \cup Genres \cup {Empty} \subseteq StringTokens
    /\ NoText \notin Usernames \cup Passwords

AuthFields == {"username", "password"}
ChallengeFields == {"name", "description", "flag", "genre"}

Scalars == StringTokens \cup PositiveTokens \cup OtherScalars
Tokens == Scalars \cup {"{", "}", "[", "]", ":", ","}

Holds(t, k, token) == k <= Len(t) /\ t[k] = token
IsString(t, k) == k <= Len(t) /\ t[k] \in StringTokens

\* What a reader returns: the position after what it read, 0 if it refuses
\* it, and for an object its members as pairs of key and first token.
Refuses == [next |-> 0, members |-> {}]
To(k) == [next |-> k, members |-> {}]
-----------------------------------------------------------------------------
(***************************************************************************)
(* The callbacks that read the value of a member of the outermost object   *)
(* at position k.  anyEnd is where read_value would stop, members what the *)
(* object held before.                                                     *)
(***************************************************************************)
StringEnd(t, k) == IF IsString(t, k) THEN k + 1 ELSE 0

BugDuplicateBySpelling(t, key, k, members) ==
    IF Text(key) \notin AuthFields THEN 0 ELSE StringEnd(t, k)

\* Keys are compared by their texts, and only the two are allowed.
ReadAuthField(t, key, k, members) ==
    IF Text(key) \notin AuthFields \/ \E m \in members : Text(m[1]) = Text(key) THEN 0
    ELSE StringEnd(t, k)

\* Keys are compared by their spelling; others are skipped.
ReadChallengeField(t, key, k, anyEnd) ==
    IF key \notin ChallengeFields THEN anyEnd
    ELSE IF key = "genre" /\ IsString(t, k) /\ t[k] \notin Genres THEN 0
    ELSE StringEnd(t, k)

\* read_positive_integer, or a string, or any value that is skipped.
ReadAnswerField(t, key, k, anyEnd) ==
    IF key = "challenge_id"
    THEN IF k <= Len(t) THEN IF t[k] \in PositiveTokens THEN k + 1 ELSE 0 ELSE 0
    ELSE IF key = "answer" THEN StringEnd(t, k) ELSE anyEnd

ReadField(kind, t, key, k, anyEnd, members) ==
    CASE kind = "auth" -> ReadAuthField(t, key, k, members)
      [] kind = "challenge" -> ReadChallengeField(t, key, k, anyEnd)
      [] kind = "answer" -> ReadAnswerField(t, key, k, anyEnd)

\* read_value and read_object as one function.  "members" is the loop of
\* read_object, entered after the brace, "elements" that of an array.
Reader(kind, t) ==
    LET read[what \in {"value", "members", "elements"}, k \in 1..(Len(t) + 1),
             depth \in 0..(MaxJsonDepth + 1), members \in SUBSET (StringTokens \X Tokens)] ==
        IF what = "value"
        THEN IF depth > MaxJsonDepth \/ k > Len(t) THEN Refuses
             ELSE IF t[k] \in Scalars THEN To(k + 1)
             ELSE IF t[k] = "{"
                  THEN IF Holds(t, k + 1, "}") THEN To(k + 2)
                       ELSE read["members", k + 1, depth, {}]
             ELSE IF t[k] = "["
                  THEN IF Holds(t, k + 1, "]") THEN To(k + 2)
                       ELSE read["elements", k + 1, depth, {}]
             ELSE Refuses
        ELSE IF what = "members"
        THEN IF ~IsString(t, k) \/ ~Holds(t, k + 1, ":") THEN Refuses
             ELSE IF \E m \in members : m[1] = t[k] THEN Refuses
             ELSE LET anyEnd == read["value", k + 2, depth + 1, {}].next
                      next == IF depth = 0 THEN ReadField(kind, t, t[k], k + 2, anyEnd, members)
                              ELSE anyEnd
                      all == members \cup {<<t[k], t[k + 2]>>}
                  IN  IF next = 0 THEN Refuses
                      ELSE IF Holds(t, next, "}") THEN [next |-> next + 1, members |-> all]
                      ELSE IF Holds(t, next, ",")
                           THEN read["members", next + 1, depth, all]
                      ELSE Refuses
        ELSE LET next == read["value", k, depth + 1, {}].next
             IN  IF next = 0 THEN Refuses
                 ELSE IF Holds(t, next, "]") THEN To(next + 1)
                 ELSE IF Holds(t, next, ",") THEN read["elements", next + 1, depth, {}]
                 ELSE Refuses
    IN  read

\* read_object on a whole body: its members, or {} when it is refused.
ReadObject(kind, t) ==
    LET object == Reader(kind, t)["value", 1, 0, {}]
    IN  IF ~Holds(t, 1, "{") \/ object.next # Len(t) + 1 THEN {} ELSE {object.members}
-----------------------------------------------------------------------------
(***************************************************************************)
(* The requests.  A reader returns {} for a body it refuses, otherwise the *)
(* set of the one request, a function from fields to what is passed on.    *)
(***************************************************************************)
\* json_to_auth_request passes the decoded texts on.
JsonToAuthRequest(t) ==
    LET value(o, f) == CHOOSE v \in Tokens : \E m \in o : Text(m[1]) = f /\ m[2] = v
    IN  {[f \in AuthFields |-> Text(value(o, f))] :
            o \in {x \in ReadObject("auth", t) :
                      /\ {Text(m[1]) : m \in x} = AuthFields
                      /\ Text(value(x, "username")) \in Usernames
                      /\ Text(value(x, "password")) \in Passwords}}

Value(o, f) == CHOOSE v \in Tokens : <<f, v>> \in o

Has(o, fields) == \A f \in fields : \E m \in o : m[1] = f

\* json_to_create_challenge_request passes the spellings on.
JsonToCreateChallengeRequest(t) ==
    {[f \in ChallengeFields |-> Value(o, f)] :
        o \in {x \in ReadObject("challenge", t) :
                  /\ Has(x, ChallengeFields)
                  /\ Empty \notin {Value(x, "name"), Value(x, "flag")}
                  /\ {Value(x, f) : f \in ChallengeFields} \cap TooLong = {}}}

\* json_to_submit_answer_request passes a spelling on that can be decoded.
JsonToSubmitAnswerRequest(t) ==
    {[f \in {"challenge_id", "answer"} |-> Value(o, f)] :
        o \in {x \in ReadObject("answer", t) :
                  /\ Has(x, {"challenge_id", "answer"})
                  /\ Value(x, "answer") \notin TooLong \cup {Empty}
                  /\ Text(Value(x, "answer")) # NoText}}
=============================================================================
