------------------------------ MODULE JsonText ------------------------------
(***************************************************************************)
(* JSON strings: the decoder of app/json_string.c and the scanner of       *)
(* app/json_parser.c as pure functions.  Strings are sequences of bytes    *)
(* (numbers 0..255); a cursor is the position of the next byte, and a      *)
(* reader that refuses its input returns position 0.                       *)
(***************************************************************************)
EXTENDS Integers, Sequences

Quote == 34
Backslash == 92
LetterU == 117

\* The one-letter escapes: quote, backslash, slash, b, f, n, r, t.
Escapes == {34, 92, 47, 98, 102, 110, 114, 116}
EscapeValue(c) ==
    IF c = 98 THEN 8 ELSE IF c = 102 THEN 12 ELSE IF c = 110 THEN 10
    ELSE IF c = 114 THEN 13 ELSE IF c = 116 THEN 9 ELSE c

HexDigits == (48..57) \cup (65..70) \cup (97..102)
HexValue(c) == IF c <= 57 THEN c - 48 ELSE IF c <= 70 THEN c - 55 ELSE c - 87

Refused == [next |-> 0, value |-> 0]

\* hex_quad: four hexadecimal digits from position k.
HexQuad(t, k) ==
    IF k + 3 > Len(t) THEN Refused
    ELSE IF \E j \in k..(k + 3) : t[j] \notin HexDigits THEN Refused
    ELSE [next |-> k + 4,
          value |-> 4096 * HexValue(t[k]) + 256 * HexValue(t[k + 1])
                    + 16 * HexValue(t[k + 2]) + HexValue(t[k + 3])]

\* How many continuation bytes a leading byte announces, the bits it gives
\* and the smallest code point that needs that many.
Leads ==
    {[from |-> 194, to |-> 223, count |-> 1, mask |-> 32, minimum |-> 128],
     [from |-> 224, to |-> 239, count |-> 2, mask |-> 16, minimum |-> 2048],
     [from |-> 240, to |-> 244, count |-> 3, mask |-> 8, minimum |-> 65536]}

\* A multi-byte UTF-8 character, its leading byte at position k.
MultiByte(t, k) ==
    LET leads == {l \in Leads : t[k] \in l.from..l.to}
        lead == CHOOSE l \in leads : TRUE
        value[j \in 0..lead.count] ==
            IF j = 0 THEN t[k] % lead.mask
            ELSE 64 * value[j - 1] + (t[k + j] % 64)
        v == value[lead.count]
    IN  IF leads = {} THEN Refused
        ELSE IF k + lead.count > Len(t) THEN Refused
        ELSE IF \E j \in 1..lead.count : t[k + j] \notin 128..191 THEN Refused
        ELSE IF v < lead.minimum \/ v > 1114111 \/ v \in 55296..57343 THEN Refused
        ELSE [next |-> k + lead.count + 1, value |-> v]

High == 55296..56319
Low == 56320..57343

BugAnySecondHalf(t, k) ==
    LET one == HexQuad(t, k)
        two == HexQuad(t, one.next + 2)
    IN  IF one.next = 0 \/ one.value \in Low THEN Refused
        ELSE IF one.value \notin High THEN one
        ELSE IF one.next + 5 > Len(t) THEN Refused
        ELSE IF two.next = 0 \/ two.value \notin Low THEN Refused
        ELSE [next |-> two.next,
              value |-> 65536 + (one.value - 55296) * 1024 + two.value - 56320 + 1]

\* The \u escape whose digits begin at position k, with the second half of
\* a surrogate pair if the first is a high surrogate.
UnicodeEscape(t, k) ==
    LET one == HexQuad(t, k)
        two == HexQuad(t, one.next + 2)
    IN  IF one.next = 0 \/ one.value \in Low THEN Refused
        ELSE IF one.value \notin High THEN one
        ELSE IF one.next + 5 > Len(t) THEN Refused
        ELSE IF t[one.next] # Backslash \/ t[one.next + 1] # LetterU THEN Refused
        ELSE IF two.next = 0 \/ two.value \notin Low THEN Refused
        ELSE [next |-> two.next,
              value |-> 65536 + (one.value - 55296) * 1024 + two.value - 56320]

\* read_codepoint at position k of a string's contents.
ReadCodepoint(t, k) ==
    IF t[k] = Backslash
    THEN IF k = Len(t) THEN Refused
         ELSE IF t[k + 1] = LetterU THEN UnicodeEscape(t, k + 2)
         ELSE IF t[k + 1] \in Escapes
              THEN [next |-> k + 2, value |-> EscapeValue(t[k + 1])]
         ELSE Refused
    ELSE IF t[k] < 32 \/ t[k] = Quote THEN Refused
    ELSE IF t[k] < 128 THEN [next |-> k + 1, value |-> t[k]]
    ELSE MultiByte(t, k)

\* The loop of json_string_equal_decoded: 1 equal, 0 different, -1 refused.
EqualDecoded(left, right) ==
    LET Step(s) ==
            LET x == IF s.a <= Len(left) THEN ReadCodepoint(left, s.a)
                     ELSE [next |-> s.a, value |-> 0]
                y == IF s.b <= Len(right) THEN ReadCodepoint(right, s.b)
                     ELSE [next |-> s.b, value |-> 0]
            IN  IF s.equal = -1 \/ (s.a > Len(left) /\ s.b > Len(right)) THEN s
                ELSE IF x.next = 0 \/ y.next = 0 THEN [s EXCEPT !.equal = -1]
                ELSE [a |-> x.next, b |-> y.next,
                      equal |-> IF /\ s.equal = 1
                                   /\ (s.a <= Len(left)) = (s.b <= Len(right))
                                   /\ x.value = y.value
                                THEN 1 ELSE 0]
        after[n \in 0..(Len(left) + Len(right))] ==
            IF n = 0 THEN [a |-> 1, b |-> 1, equal |-> 1] ELSE Step(after[n - 1])
    IN  after[Len(left) + Len(right)].equal

Utf8(v) ==
    IF v < 128 THEN <<v>>
    ELSE IF v < 2048 THEN <<192 + (v \div 64), 128 + (v % 64)>>
    ELSE IF v < 65536
         THEN <<224 + (v \div 4096), 128 + ((v \div 64) % 64), 128 + (v % 64)>>
    ELSE <<240 + (v \div 262144), 128 + ((v \div 4096) % 64),
           128 + ((v \div 64) % 64), 128 + (v % 64)>>

\* json_string_decode: the bytes written to the buffer of Len(t) + 1 bytes.
\* The contents are validated first, so the second pass ignores failure.
Decode(t) ==
    LET after[n \in 0..Len(t)] ==
            IF n = 0 THEN [cur |-> 1, out |-> <<>>]
            ELSE LET s == after[n - 1]
                     c == ReadCodepoint(t, s.cur)
                 IN  IF s.cur > Len(t) THEN s
                     ELSE [cur |-> c.next, out |-> s.out \o Utf8(c.value)]
    IN  IF EqualDecoded(t, t) = -1 THEN [ok |-> FALSE, out |-> <<>>]
        ELSE [ok |-> TRUE, out |-> after[Len(t)].out]

\* parse_json_str: position after the closing quote of the string that
\* opens at position k.  Escapes are checked for their form only.
ScanOne(t, k) ==
    IF t[k] = Backslash
    THEN IF k = Len(t) THEN 0
         ELSE IF t[k + 1] = LetterU THEN HexQuad(t, k + 2).next
         ELSE IF t[k + 1] \in Escapes THEN k + 2 ELSE 0
    ELSE IF t[k] < 32 THEN 0
    ELSE IF t[k] < 128 THEN k + 1
    ELSE MultiByte(t, k).next

ParseJsonStr(t, k) ==
    LET after[n \in 0..Len(t)] ==
            IF n = 0 THEN k + 1
            ELSE LET p == after[n - 1]
                 IN  IF p = 0 \/ p > Len(t) THEN 0
                     ELSE IF t[p] = Quote THEN p ELSE ScanOne(t, p)
        close == after[Len(t)]
    IN  IF k > Len(t) THEN 0
        ELSE IF t[k] # Quote \/ close = 0 THEN 0 ELSE close + 1
=============================================================================
