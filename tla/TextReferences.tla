--------------------------- MODULE TextReferences ---------------------------
(***************************************************************************)
(* What the functions of RequestPath, JsonText and ContestTime are meant   *)
(* to compute, said without buffers, cursors or loops.  A reference that   *)
(* may refuse its input is the set of results: empty, or one element.      *)
(***************************************************************************)
EXTENDS Integers, Sequences, SequencesExt, FiniteSets

Concat(seqs) == FoldLeft(LAMBDA x, y : x \o y, <<>>, seqs)
-----------------------------------------------------------------------------
(* Request targets. *)

Before(s, bytes) ==
    LET stops == {k \in DOMAIN s : s[k] \in bytes}
    IN  SubSeq(s, 1, IF stops = {} THEN Len(s)
                     ELSE (CHOOSE k \in stops : \A l \in stops : k <= l) - 1)

After(s, n) == SubSeq(s, n + 1, Len(s))

HexOf == [c \in (48..57) \cup (65..70) \cup (97..102) |->
            IF c < 58 THEN c - 48 ELSE IF c < 71 THEN c - 55 ELSE c - 87]

\* Every %xx replaced by the byte it denotes; %00 is not allowed.
PercentDecoded(s) ==
    LET rest[k \in 1..(Len(s) + 1)] ==
            IF k > Len(s) THEN {<<>>}
            ELSE IF s[k] # 37 THEN {<<s[k]>> \o t : t \in rest[k + 1]}
            ELSE IF k + 2 > Len(s) THEN {}
            ELSE IF {s[k + 1], s[k + 2]} \subseteq DOMAIN HexOf /\ {s[k + 1], s[k + 2]} # {48}
                 THEN {<<16 * HexOf[s[k + 1]] + HexOf[s[k + 2]]>> \o t : t \in rest[k + 3]}
            ELSE {}
    IN  rest[1]

\* The names between the slashes, none of them empty.
Names(s) ==
    LET names[k \in 1..(Len(s) + 1)] ==
            IF k > Len(s) THEN <<>>
            ELSE IF s[k] = 47 THEN names[k + 1]
            ELSE LET name == Before(After(s, k - 1), {47})
                 IN  <<name>> \o names[k + Len(name)]
    IN  names[1]

\* Names with "." dropped and ".." taking back the name before it.
Resolved(names) ==
    LET upTo[k \in 0..Len(names)] ==
            IF k = 0 THEN {<<>>}
            ELSE IF names[k] = <<46>> THEN upTo[k - 1]
            ELSE IF names[k] = <<46, 46>>
                 THEN {Front(p) : p \in {q \in upTo[k - 1] : q # <<>>}}
            ELSE {Append(p, names[k]) : p \in upTo[k - 1]}
    IN  upTo[Len(names)]

PathText(names) ==
    LET text[k \in 0..Len(names)] ==
            IF k = 0 THEN <<>> ELSE text[k - 1] \o <<47>> \o names[k]
    IN  IF names = <<>> THEN <<47>> ELSE text[Len(names)]

\* The path of a target without its scheme and host; the scheme's letters may
\* be capitals.
WithoutHost(s, schemes) ==
    LET capital == [c \in 97..122 |-> c - 32]
        mine == {c \in schemes : /\ Len(c) <= Len(s)
                                 /\ \A k \in DOMAIN c :
                                        s[k] = c[k] \/ (c[k] \in 97..122 /\ s[k] = capital[c[k]])}
        afterHost == After(s, Len(CHOOSE c \in mine : TRUE))
        host == Before(afterHost, {47})
    IN  IF mine = {} THEN s
        ELSE IF host = afterHost THEN <<47>> ELSE After(afterHost, Len(host))

PathReference(target, schemes) ==
    UNION {LET p == WithoutHost(s, schemes)
           IN  IF p = <<>> THEN {}
               ELSE IF p[1] # 47 THEN {} ELSE {PathText(n) : n \in Resolved(Names(p))}
           : s \in PercentDecoded(Before(target, {63, 35}))}

\* The (name, value) pairs of the query; a name runs up to "=", whatever is
\* in it, and what has no "=" is dropped.
QueryReference(target) ==
    LET query == After(target, Len(Before(target, {63})) + 1)
        pairs[k \in 1..(Len(query) + 2)] ==
            LET text == After(query, k - 1)
                name == Before(text, {61})
                value == Before(After(text, Len(name) + 1), {38})
            IN  IF k > Len(query) \/ name = text THEN <<>>
                ELSE <<<<name, value>>>> \o
                     (IF k + Len(name) + Len(value) + 1 > Len(query) THEN <<>>
                      ELSE pairs[k + Len(name) + Len(value) + 2])
    IN  pairs[1]

Decimal(text) ==
    LET upTo[k \in 0..Len(text)] ==
            IF k = 0 THEN 0 ELSE 10 * upTo[k - 1] + text[k] - 48
    IN  upTo[Len(text)]

\* The positive numbers up to max that text writes without leading zeros.
PositiveReference(text, max) ==
    IF text = <<>> \/ ~(ToSet(text) \subseteq 48..57) THEN {}
    ELSE IF text[1] = 48 THEN {} ELSE {Decimal(text)} \cap 1..max
-----------------------------------------------------------------------------
(* JSON strings: a table of characters, their UTF-8 and their spellings.   *)

U(digits) == <<92, 117>> \o digits

Characters ==
    {[utf8 |-> <<c>>, forms |-> {<<c>>}] : c \in (32..127) \ {34, 92}}
    \cup
    {[utf8 |-> <<97>>, forms |-> {U(<<48, 48, 54, 49>>)}],
     [utf8 |-> <<10>>, forms |-> {<<92, 110>>, U(<<48, 48, 48, 65>>)}],
     [utf8 |-> <<34>>, forms |-> {<<92, 34>>}],
     [utf8 |-> <<92>>, forms |-> {<<92, 92>>}],
     [utf8 |-> <<0>>, forms |-> {U(<<48, 48, 48, 48>>)}],
     [utf8 |-> <<195, 169>>, forms |-> {<<195, 169>>, U(<<48, 48, 101, 57>>)}],
     [utf8 |-> <<224, 160, 128>>, forms |-> {<<224, 160, 128>>}],
     [utf8 |-> <<237, 159, 191>>, forms |-> {<<237, 159, 191>>, U(<<100, 55, 102, 102>>)}],
     [utf8 |-> <<240, 159, 152, 128>>,
      forms |-> {<<240, 159, 152, 128>>,
                 U(<<100, 56, 51, 100>>) \o U(<<100, 101, 48, 48>>)}],
     [utf8 |-> <<244, 143, 191, 191>>,
      forms |-> {<<244, 143, 191, 191>>,
                 U(<<100, 98, 102, 102>>) \o U(<<100, 102, 102, 102>>)}]}

\* Halves of surrogate pairs: written correctly, but no character.
HighHalf == U(<<100, 56, 51, 100>>)
LowHalf == U(<<100, 101, 48, 48>>)
Halves == {HighHalf, LowHalf, U(<<100, 98, 102, 102>>), U(<<100, 102, 102, 102>>)}

Spellings == UNION {c.forms : c \in Characters}

\* The ways to read a text as spellings of the set one after another.
Readings(t, spellings) ==
    LET rest[k \in 1..(Len(t) + 1)] ==
            IF k = Len(t) + 1 THEN {<<>>}
            ELSE UNION {{<<f>> \o more : more \in rest[k + Len(f)]} :
                           f \in {s \in spellings :
                                    /\ k + Len(s) - 1 <= Len(t)
                                    /\ SubSeq(t, k, k + Len(s) - 1) = s}}
    IN  rest[1]

Utf8Of(spelling) == (CHOOSE c \in Characters : spelling \in c.forms).utf8

StringReference(t) ==
    {Concat([k \in DOMAIN reading |-> Utf8Of(reading[k])]) :
        reading \in Readings(t, Spellings)}
-----------------------------------------------------------------------------
(* JSON documents as a grammar over tokens, by the ways to cut them up.    *)

IsObject(t, maxDepth) ==
    LET derives[what \in {"value", "members", "elements"}, i \in 1..(Len(t) + 1),
                j \in 0..Len(t), deep \in 0..maxDepth, seen \in SUBSET {"key1", "key2"}] ==
        CASE what = "value" ->
                \/ i = j /\ t[i] \in {"scalar", "key1", "key2"}
                \/ /\ i < j
                   /\ <<t[i], t[j]>> \in {<<"{", "}">>, <<"[", "]">>}
                   /\ \/ j = i + 1
                      \/ /\ deep > 0
                         /\ derives[IF t[i] = "{" THEN "members" ELSE "elements",
                                    i + 1, j - 1, deep - 1, {}]
          [] what = "members" ->
                /\ i + 2 <= j
                /\ t[i] \in {"key1", "key2"} \ seen
                /\ t[i + 1] = ":"
                /\ \/ derives["value", i + 2, j, deep, {}]
                   \/ \E c \in (i + 3)..(j - 1) :
                        /\ t[c] = ","
                        /\ derives["value", i + 2, c - 1, deep, {}]
                        /\ derives["members", c + 1, j, deep, seen \cup {t[i]}]
          [] what = "elements" ->
                /\ i <= j
                /\ \/ derives["value", i, j, deep, {}]
                   \/ \E c \in (i + 1)..(j - 1) :
                        /\ t[c] = ","
                        /\ derives["value", i, c - 1, deep, {}]
                        /\ derives["elements", c + 1, j, deep, {}]
    IN  t # <<>> /\ t[1] = "{" /\ derives["value", 1, Len(t), maxDepth, {}]
-----------------------------------------------------------------------------
(* Dates: counting the days of the calendar one by one.                    *)

LongYear(y) == (y % 4 = 0) # ((y % 100 = 0) # (y % 400 = 0))

Calendar(y) ==
    {e \in (1..12) \X (1..31) :
        /\ e[1] \in {4, 6, 9, 11} => e[2] <= 30
        /\ e[1] = 2 => e[2] <= IF LongYear(y) THEN 29 ELSE 28}

DayNumber(y, m, d) ==
    365 * (y - 1970) + Cardinality({x \in 1970..(y - 1) : LongYear(x)})
    + Cardinality({e \in Calendar(y) : e[1] < m \/ (e[1] = m /\ e[2] < d)})
=============================================================================
