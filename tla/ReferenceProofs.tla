--------------------------- MODULE ReferenceProofs ---------------------------
(***************************************************************************)
(* Proofs that what the server computes is what its references say, for    *)
(* inputs of every length: request targets and the ids in their queries    *)
(* (RequestPath), the dates of the contest (ContestTime) and the ranking   *)
(* (Scoreboard).                                                           *)
(***************************************************************************)
EXTENDS MCTexts, Scoreboard, SequenceTheorems, FiniteSetTheorems, WellFoundedInduction, TLAPS

-----------------------------------------------------------------------------
(* Least and greatest members, for the searches of the model. *)

\* A set of naturals has a least member.
LEMMA Least ==
    ASSUME NEW T, T \subseteq Nat, T # {}
    PROVE  \E x \in T : \A y \in T : x <= y
<1> DEFINE R == OpToRel(<, Nat)
<1>1. IsWellFoundedOn(R, Nat)
  BY NatLessThanWellFounded, Zenon
<1>2. PICK x \in T : \A y \in T : <<y, x>> \notin R
  <2> HIDE DEF R
  <2> QED BY <1>1, WFMin
<1>3. \A y \in T : ~(y < x)
  BY <1>2 DEF OpToRel
<1>4. QED BY <1>3

\* A set of naturals with a bound has a greatest member.
LEMMA Greatest ==
    ASSUME NEW n \in Nat, NEW T, T \subseteq 0..n, T # {}
    PROVE  \E x \in T : \A y \in T : x >= y
<1> DEFINE Gap == {g \in 0..n : n - g \in T}
<1>1. Gap \subseteq Nat
  OBVIOUS
<1>2. Gap # {}
  <2>1. PICK y \in T : TRUE
    OBVIOUS
  <2>2. n - y \in 0..n /\ n - (n - y) = y
    OBVIOUS
  <2>3. QED BY <2>2
<1>3. PICK g \in Gap : \A h \in Gap : g <= h
  <2> HIDE DEF Gap
  <2> QED BY <1>1, <1>2, Least
<1>4. \A y \in T : n - g >= y
  <2>1. TAKE y \in T
  <2>2. n - y \in 0..n /\ n - (n - y) = y
    OBVIOUS
  <2>3. g <= n - y
    BY <1>3, <2>2
  <2>4. QED BY <2>2, <2>3
<1>5. n - g \in T
  OBVIOUS
<1>6. QED BY <1>4, <1>5

-----------------------------------------------------------------------------
(* Induction and recursion, from the least counterexample. *)

\* Induction up to n, about a set instead of a predicate.
LEMMA UpTo ==
    ASSUME NEW n \in Nat, NEW G, 0 \in G, \A k \in 0..(n - 1) : k \in G => k + 1 \in G
    PROVE  \A k \in 0..n : k \in G
<1> DEFINE Bad == {k \in 0..n : k \notin G}
<1>1. SUFFICES ASSUME Bad # {} PROVE FALSE
  OBVIOUS
<1>2. PICK m \in Bad : \A y \in Bad : m <= y
  <2>1. Bad \subseteq Nat
    OBVIOUS
  <2> HIDE DEF Bad
  <2>2. QED BY <1>1, <2>1, Least
<1>3. m \in 0..n /\ m \notin G /\ m # 0
  OBVIOUS
<1>4. m - 1 \in 0..(n - 1) /\ m - 1 \in 0..n /\ (m - 1) + 1 = m
  BY <1>3
<1>5. m - 1 \notin Bad
  <2> HIDE DEF Bad
  <2> QED BY <1>2, <1>3, <1>4
<1>6. m - 1 \in G
  BY <1>4, <1>5
<1>7. QED BY <1>3, <1>4, <1>6

\* Induction down from n.
LEMMA DownFrom ==
    ASSUME NEW n \in Nat, NEW G, \A k \in 1..n : (\A j \in (k + 1)..n : j \in G) => k \in G
    PROVE  \A k \in 1..n : k \in G
<1> DEFINE H == {m \in 0..n : \A j \in (n - m + 1)..n : j \in G}
<1>1. 0 \in H
  OBVIOUS
<1>2. ASSUME NEW m \in 0..(n - 1), m \in H PROVE m + 1 \in H
  <2>1. n - m \in 1..n /\ m + 1 \in 0..n /\ n - (m + 1) + 1 = n - m
    OBVIOUS
  <2>2. \A j \in ((n - m) + 1)..n : j \in G
    BY <1>2
  <2>3. n - m \in G
    BY <2>1, <2>2
  <2>4. ASSUME NEW j \in (n - m)..n PROVE j \in G
    <3>1. j = n - m \/ j \in ((n - m) + 1)..n
      OBVIOUS
    <3>2. QED BY <2>2, <2>3, <3>1
  <2>5. QED BY <2>1, <2>4
<1>3. n \in H
  <2>1. n \in 0..n /\ \A k \in 0..(n - 1) : k \in H => k + 1 \in H
    BY <1>2
  <2> HIDE DEF H
  <2>2. QED BY <1>1, <2>1, UpTo
<1>4. n - n + 1 = 1
  OBVIOUS
<1>5. QED BY <1>3, <1>4

\* f is the function on 0..n that begins with a and goes on by step.
Unfolds(f, n, S, a, step) ==
    f \in [0..n -> S] /\ f[0] = a /\ \A k \in 1..n : f[k] = step[<<k, f[k - 1]>>]

IsStep(step, n, S) == step \in [(1..n) \X S -> S]

\* A function on 0..n may be defined by recursion.
LEMMA Recursion ==
    ASSUME NEW n \in Nat, NEW S, NEW a \in S, NEW step, IsStep(step, n, S)
    PROVE  \E f : Unfolds(f, n, S, a, step)
<1> DEFINE Good(m, f) == /\ f \in [0..m -> S] /\ f[0] = a
                         /\ \A k \in 1..m : f[k] = step[<<k, f[k - 1]>>]
           G == {m \in 0..n : \E f : Good(m, f)}
<1>1. 0 \in G
  <2>1. Good(0, [k \in {0} |-> a])
    OBVIOUS
  <2> HIDE DEF Good
  <2>2. QED BY <2>1
<1>2. ASSUME NEW j \in 0..(n - 1), j \in G PROVE j + 1 \in G
  <2>1. PICK f : Good(j, f)
    BY <1>2
  <2> DEFINE m == j + 1
             g == [k \in 0..m |-> IF k = m THEN step[<<m, f[m - 1]>>] ELSE f[k]]
  <2>2. m \in 1..n /\ m - 1 = j
    OBVIOUS
  <2>3. f[m - 1] \in S /\ \A k \in 0..(m - 1) : f[k] \in S
    BY <2>1, <2>2
  <2>4. <<m, f[m - 1]>> \in (1..n) \X S
    BY <2>2, <2>3
  <2>5. step[<<m, f[m - 1]>>] \in S
    BY <2>4 DEF IsStep
  <2>6. g \in [0..m -> S]
    BY <2>2, <2>3, <2>5
  <2>7. g[0] = a
    BY <2>1, <2>2
  <2>8. \A k \in 1..m : g[k] = step[<<k, g[k - 1]>>]
    <3>1. TAKE k \in 1..m
    <3>2. CASE k = m
      <4>1. m \in 0..m /\ m - 1 \in 0..m /\ m - 1 # m
        BY <2>2
      <4>2. g[m] = step[<<m, f[m - 1]>>] /\ g[m - 1] = f[m - 1]
        BY <4>1
      <4>3. QED BY <3>2, <4>2
    <3>3. CASE k # m
      <4>1. k \in 1..j /\ k - 1 \in 0..j /\ k - 1 # m /\ k \in 0..m /\ k - 1 \in 0..m
        BY <2>2, <3>3
      <4>2. g[k] = f[k] /\ g[k - 1] = f[k - 1]
        BY <3>3, <4>1
      <4>3. QED BY <2>1, <4>1, <4>2
    <3>4. QED BY <3>2, <3>3
  <2>9. Good(m, g)
    BY <2>6, <2>7, <2>8
  <2>10. m \in 0..n /\ \E h : Good(m, h)
    <3> HIDE DEF Good, g
    <3> QED BY <2>2, <2>9
  <2>11. QED BY <2>10
<1>3. n \in G
  <2>1. n \in 0..n /\ \A k \in 0..(n - 1) : k \in G => k + 1 \in G
    BY <1>2
  <2> HIDE DEF G
  <2>2. QED BY <1>1, <2>1, UpTo
<1>4. PICK f : Good(n, f)
  BY <1>3
<1>5. QED BY <1>4 DEF Unfolds

\* f is the function on 1..n whose value at k comes from that at next[k], a
\* later position, or is given.
Refers(f, n, S, next, given, step) ==
    /\ f \in [1..n -> S]
    /\ \A k \in 1..n : f[k] = IF next[k] \in (k + 1)..n THEN step[<<k, f[next[k]]>>] ELSE given[k]

\* A function on 1..n may be defined by recursion from its end.
LEMMA Backwards ==
    ASSUME NEW n \in Nat, NEW S, NEW next, NEW given \in [1..n -> S], NEW step, IsStep(step, n, S)
    PROVE  \E f : Refers(f, n, S, next, given, step)
<1> DEFINE Entry(f, k) == IF next[k] \in (k + 1)..n THEN step[<<k, f[next[k]]>>] ELSE given[k]
           Good(m, f) == f \in [(n - m + 1)..n -> S] /\ \A k \in (n - m + 1)..n : f[k] = Entry(f, k)
           G == {m \in 0..n : \E f : Good(m, f)}
<1>1. 0 \in G
  <2>1. Good(0, [k \in {} |-> given[1]])
    OBVIOUS
  <2> HIDE DEF Good
  <2>2. QED BY <2>1
<1>2. ASSUME NEW m \in 0..(n - 1), m \in G PROVE m + 1 \in G
  <2>1. PICK f : Good(m, f)
    BY <1>2
  <2> DEFINE j == n - m
             g == [k \in j..n |-> IF k = j THEN Entry(f, j) ELSE f[k]]
  <2>2. j \in 1..n /\ n - m + 1 = j + 1 /\ n - (m + 1) + 1 = j /\ m + 1 \in 0..n
    OBVIOUS
  <2>3. f \in [(j + 1)..n -> S] /\ \A k \in (j + 1)..n : f[k] = Entry(f, k)
    BY <2>1, <2>2
  <2> HIDE DEF j
  <2>4. Entry(f, j) \in S
    <3>1. CASE next[j] \in (j + 1)..n
      <4>1. f[next[j]] \in S
        BY <2>3, <3>1
      <4>2. <<j, f[next[j]]>> \in (1..n) \X S
        BY <2>2, <4>1
      <4>3. QED BY <3>1, <4>2 DEF IsStep
    <3>2. CASE next[j] \notin (j + 1)..n
      BY <2>2, <3>2
    <3>3. QED BY <3>1, <3>2
  <2> HIDE DEF Entry
  <2>5. \A k \in j..n : k = j \/ k \in (j + 1)..n
    BY <2>2
  <2>6. g \in [j..n -> S]
    BY <2>3, <2>4, <2>5
  <2>7. \A k \in (j + 1)..n : g[k] = f[k]
    BY <2>2
  <2>8. \A k \in j..n : Entry(g, k) = Entry(f, k)
    <3>1. TAKE k \in j..n
    <3>2. next[k] \in (k + 1)..n => next[k] \in (j + 1)..n
      BY <2>2
    <3>3. next[k] \in (k + 1)..n => g[next[k]] = f[next[k]]
      BY <2>7, <3>2
    <3> HIDE DEF g
    <3>4. QED BY <3>3 DEF Entry
  <2>9. \A k \in j..n : g[k] = Entry(g, k)
    <3>1. TAKE k \in j..n
    <3>2. CASE k = j
      BY <2>8, <3>2
    <3>3. CASE k \in (j + 1)..n
      <4>1. f[k] = Entry(f, k) /\ g[k] = f[k] /\ Entry(g, k) = Entry(f, k)
        BY <2>3, <2>7, <2>8, <3>3
      <4>2. QED BY <4>1
    <3>4. QED BY <2>5, <3>2, <3>3
  <2> HIDE DEF g
  <2>10. Good(m + 1, g)
    BY <2>2, <2>6, <2>9
  <2> HIDE DEF Good
  <2>11. QED BY <2>2, <2>10
<1>3. n \in G
  <2>1. n \in 0..n /\ \A k \in 0..(n - 1) : k \in G => k + 1 \in G
    BY <1>2
  <2> HIDE DEF G
  <2>2. QED BY <1>1, <2>1, UpTo
<1>4. PICK f : Good(n, f)
  BY <1>3
<1>5. n - n + 1 = 1
  OBVIOUS
<1>6. QED BY <1>4, <1>5 DEF Refers

-----------------------------------------------------------------------------
(* Request targets: the inductive invariant. *)

PathTypes ==
    /\ uri \in Seq(Byte) /\ buf \in Seq(Byte) /\ Len(buf) = Len(uri)
    /\ len \in Nat /\ len <= Len(uri)
    /\ r \in Nat /\ w \in Nat /\ from \in Nat /\ at \in Nat
    /\ pc \in {"query", "param", "decode", "form", "normalize", "copy", "ok", "bad", "too_long"}

\* Where the cursors are in each loop; a path to be normalized begins with a
\* slash, and so does what is left of it after each segment.
Cursors ==
    /\ pc \in {"query", "param"} => buf = uri /\ len = Len(uri) /\ w = 0
    /\ pc = "param" => r <= len /\ \E q \in 1..r : uri[q] = Question
    /\ pc = "decode" => /\ w <= r /\ r <= len
                        /\ \A k \in (r + 1)..len : buf[k] = uri[k]
    /\ pc \in {"normalize", "copy"} => /\ at < len /\ at + r <= len
                                       /\ at + r < len => buf[at + r + 1] = Slash
    /\ pc = "normalize" => w <= r
    /\ pc = "copy" => w <= from /\ from < r

\* Once the query is cut off, what is left holds no ? or #.
QueryIsCut ==
    pc \notin {"query", "param", "too_long"} => \A q \in 1..len : uri[q] \notin {Question, Hash}

QueryUntouched ==
    \A k \in 1..Len(uri) : (\E q \in 1..k : uri[q] \in {Question, Hash}) => buf[k] = uri[k]

\* The name and the value of a parameter lie behind the first ?.
InQuery(p) ==
    /\ p \in [name : Nat, nameLen : Nat, value : Nat, valueLen : Nat]
    /\ \E q \in 1..(p.name - 1) : uri[q] = Question
    /\ p.name + p.nameLen <= Len(uri)
    /\ \/ p.value = 0 /\ p.valueLen = 0
       \/ p.name < p.value /\ p.value + p.valueLen <= Len(uri) + 1

ParamsInQuery == params \in Seq({p \in [name : Nat, nameLen : Nat, value : Nat, valueLen : Nat] : InQuery(p)})

PathIInv == PathTypes /\ Cursors /\ QueryIsCut /\ QueryUntouched /\ ParamsInQuery

\* What First finds.
LEMMA FirstFacts ==
    ASSUME NEW bytes, NEW lo \in Nat, NEW hi \in Nat, lo <= hi + 1
    PROVE  /\ First(bytes, lo, hi) \in lo..(hi + 1)
           /\ First(bytes, lo, hi) <= hi => buf[First(bytes, lo, hi)] \in bytes
           /\ \A k \in lo..(First(bytes, lo, hi) - 1) : buf[k] \notin bytes
<1> DEFINE found == {k \in lo..hi : buf[k] \in bytes}
<1>1. CASE found = {}
  <2>1. First(bytes, lo, hi) = hi + 1
    BY <1>1 DEF First
  <2>2. QED BY <1>1, <2>1
<1>2. CASE found # {}
  <2> DEFINE f == CHOOSE k \in found : \A l \in found : k <= l
  <2>1. \E k \in found : \A l \in found : k <= l
    <3>1. found \subseteq Nat
      OBVIOUS
    <3> HIDE DEF found
    <3>2. QED BY <1>2, <3>1, Least
  <2>2. f \in found /\ \A l \in found : f <= l
    BY <2>1
  <2>3. First(bytes, lo, hi) = f
    BY <1>2 DEF First
  <2> HIDE DEF f
  <2>4. QED BY <2>2, <2>3
<1>3. QED BY <1>1, <1>2

\* The segment the next step of normalize_path looks at.
LEMMA SegmentFacts ==
    ASSUME PathIInv, pc = "normalize"
    PROVE  /\ SegmentStart \in (r + 1)..(len - at + 1)
           /\ SegmentEnd \in (SegmentStart - 1)..(len - at)
           /\ SegmentLen = SegmentEnd - SegmentStart + 1
           /\ SegmentLen > 0 => /\ SegmentStart <= SegmentEnd /\ r + 2 <= SegmentStart
                                /\ at + SegmentEnd < len => buf[at + SegmentEnd + 1] = Slash
<1>1. /\ r \in Nat /\ len \in Nat /\ at \in Nat /\ at + r <= len /\ at < len
      /\ at + r < len => buf[at + r + 1] = Slash
  BY DEF PathIInv, PathTypes, Cursors
<1> DEFINE n == len - at
           found == {k \in (r + 1)..n : buf[at + k] # Slash}
           s == SegmentStart
<1>2. s \in (r + 1)..(n + 1) /\ (s <= n => buf[at + s] # Slash)
  <2>1. CASE found = {}
    BY <1>1, <2>1 DEF SegmentStart
  <2>2. CASE found # {}
    <3>1. found \subseteq Nat
      BY <1>1
    <3>2. \E k \in found : \A l \in found : k <= l
      <4> HIDE DEF found
      <4> QED BY <2>2, <3>1, Least
    <3>3. s \in found
      BY <2>2, <3>2 DEF SegmentStart
    <3>4. QED BY <1>1, <3>3
  <2>3. QED BY <2>1, <2>2
<1>3. s <= n => r + 2 <= s
  <2>1. ASSUME s = r + 1, s <= n PROVE FALSE
    <3>1. buf[at + r + 1] # Slash
      BY <1>1, <1>2, <2>1
    <3>2. QED BY <1>1, <2>1, <3>1
  <2>2. QED BY <1>1, <1>2, <2>1
<1> HIDE DEF s
<1> DEFINE f == First({Slash}, at + s, len)
<1>4. at + s \in Nat /\ at + s <= len + 1
  BY <1>1, <1>2
<1>5. f \in (at + s)..(len + 1) /\ (f <= len => buf[f] \in {Slash})
  BY <1>1, <1>4, FirstFacts
<1>6. SegmentEnd = f - at - 1 /\ SegmentLen = SegmentEnd - s + 1
  BY DEF SegmentEnd, SegmentLen, s
<1> HIDE DEF f
<1>7. SegmentEnd \in (s - 1)..n
  BY <1>1, <1>2, <1>5, <1>6
<1>8. ASSUME SegmentLen > 0 PROVE s <= SegmentEnd /\ s <= n
  BY <1>1, <1>2, <1>6, <1>7, <1>8
<1>9. ASSUME at + SegmentEnd < len PROVE buf[at + SegmentEnd + 1] = Slash
  <2>1. f = at + SegmentEnd + 1 /\ f <= len
    BY <1>1, <1>2, <1>5, <1>6, <1>9
  <2>2. QED BY <1>5, <2>1
<1>10. QED BY <1>2, <1>3, <1>6, <1>7, <1>8, <1>9 DEF s

\* The invariant holds when normalize_uri begins.
LEMMA PathInit ==
    ASSUME Init PROVE PathIInv
<1>1. /\ uri \in Seq(Byte) /\ buf = uri /\ len = Len(uri) /\ pc = "query"
      /\ r = 0 /\ w = 0 /\ from = 0 /\ at = 0 /\ params = <<>>
  BY UrisAssumption DEF Init
<1>2. PathTypes
  BY <1>1 DEF PathTypes
<1>3. Cursors /\ QueryIsCut /\ QueryUntouched
  BY <1>1 DEF Cursors, QueryIsCut, QueryUntouched
<1>4. ParamsInQuery
  BY <1>1 DEF ParamsInQuery
<1>5. QED BY <1>2, <1>3, <1>4 DEF PathIInv

\* A step that writes nothing and keeps the target, the cut and the list of
\* parameters only has to account for its cursors.
LEMMA QuietStep ==
    ASSUME PathIInv, UNCHANGED <<uri, buf, len, params>>, pc # "too_long",
           r' \in Nat, w' \in Nat, from' \in Nat, at' \in Nat,
           pc' \in {"param", "form", "normalize", "copy", "ok", "bad", "too_long"},
           pc \in {"query", "param"} => pc' \in {"param", "too_long"},
           Cursors'
    PROVE  PathIInv'
<1>1. PathTypes'
  BY DEF PathIInv, PathTypes
<1>2. QueryIsCut' /\ QueryUntouched'
  BY DEF PathIInv, QueryIsCut, QueryUntouched
<1>3. ParamsInQuery'
  BY DEF PathIInv, ParamsInQuery, InQuery
<1>4. QED BY <1>1, <1>2, <1>3 DEF PathIInv

\* A refused target.
LEMMA FailStep ==
    ASSUME PathIInv, NEW s \in {"bad", "too_long"}, Fail(s), pc # "too_long",
           pc \in {"query", "param"} => s = "too_long"
    PROVE  PathIInv'
<1>1. /\ pc' = s /\ UNCHANGED <<uri, buf, len, r, w, from, at, params>>
      /\ r \in Nat /\ w \in Nat /\ from \in Nat /\ at \in Nat
  BY DEF Fail, PathIInv, PathTypes
<1>2. Cursors'
  BY <1>1 DEF Cursors
<1>3. QED BY <1>1, <1>2, QuietStep

\* A step that writes one byte of what precedes the cut.
LEMMA WriteStep ==
    ASSUME PathIInv, NEW k \in 1..len, NEW c \in Byte, buf' = [buf EXCEPT ![k] = c],
           pc \notin {"query", "param", "too_long"}, UNCHANGED <<uri, len, params>>,
           r' \in Nat, w' \in Nat, from' \in Nat, at' \in Nat,
           pc' \in {"decode", "normalize", "copy", "ok"},
           Cursors'
    PROVE  PathIInv'
<1>1. /\ uri \in Seq(Byte) /\ buf \in Seq(Byte) /\ Len(buf) = Len(uri) /\ len \in Nat
      /\ len <= Len(uri)
      /\ \A q \in 1..len : uri[q] \notin {Question, Hash}
  BY DEF PathIInv, PathTypes, QueryIsCut
<1>2. /\ buf' \in Seq(Byte) /\ Len(buf') = Len(uri)
      /\ \A j \in 1..Len(uri) : buf'[j] = IF j = k THEN c ELSE buf[j]
  BY <1>1
<1>3. PathTypes'
  BY <1>1, <1>2 DEF PathTypes
<1>4. QueryIsCut'
  BY <1>1 DEF QueryIsCut
<1>5. QueryUntouched'
  <2> SUFFICES ASSUME NEW j \in 1..Len(uri), NEW q \in 1..j, uri[q] \in {Question, Hash}
               PROVE  buf'[j] = uri[j]
    BY DEF QueryUntouched
  <2>1. j # k
    BY <1>1
  <2>2. buf[j] = uri[j]
    BY DEF PathIInv, QueryUntouched
  <2>3. QED BY <1>2, <2>1, <2>2
<1>6. ParamsInQuery'
  BY DEF PathIInv, ParamsInQuery, InQuery
<1>7. QED BY <1>3, <1>4, <1>5, <1>6 DEF PathIInv

\* The end of parse_query_params cuts the query off.
LEMMA EndQueryStep ==
    ASSUME PathIInv, pc \in {"query", "param"}, EndQuery, ParamsInQuery'
    PROVE  PathIInv'
<1> DEFINE f == First({Question, Hash}, 1, len)
<1>1. /\ uri \in Seq(Byte) /\ buf = uri /\ len = Len(uri) /\ len \in Nat /\ w = 0
      /\ from \in Nat /\ at \in Nat
      /\ len' = f - 1 /\ pc' = "decode" /\ r' = 0 /\ UNCHANGED <<uri, buf, w, from, at>>
  BY DEF EndQuery, PathIInv, PathTypes, Cursors
<1>2. f \in 1..(len + 1) /\ \A k \in 1..(f - 1) : buf[k] \notin {Question, Hash}
  BY <1>1, FirstFacts
<1> HIDE DEF f
<1>3. len' \in Nat /\ len' <= len
  BY <1>1, <1>2
<1>4. PathTypes' /\ Cursors'
  BY <1>1, <1>3 DEF PathTypes, Cursors
<1>5. QueryIsCut' /\ QueryUntouched'
  BY <1>1, <1>2 DEF QueryIsCut, QueryUntouched
<1>6. QED BY <1>4, <1>5 DEF PathIInv

\* Looking for the ?.
LEMMA FindQueryStep ==
    ASSUME PathIInv, FindQuery PROVE PathIInv'
<1> DEFINE f == First({Question}, 1, len)
<1>1. /\ uri \in Seq(Byte) /\ buf = uri /\ len = Len(uri) /\ len \in Nat /\ w = 0 /\ pc = "query"
      /\ from \in Nat /\ at \in Nat /\ ParamsInQuery
  BY DEF FindQuery, PathIInv, PathTypes, Cursors
<1>2. f \in 1..(len + 1) /\ (f <= len => buf[f] \in {Question})
  BY <1>1, FirstFacts
<1>3. CASE f > len /\ EndQuery /\ UNCHANGED params
  <2>1. ParamsInQuery'
    BY <1>1, <1>3 DEF ParamsInQuery, InQuery, EndQuery
  <2>2. QED BY <1>1, <1>3, <2>1, EndQueryStep
<1>4. CASE f <= len /\ pc' = "param" /\ r' = f /\ UNCHANGED <<uri, buf, len, w, from, at, params, path>>
  <2> HIDE DEF f
  <2>1. r' \in Nat /\ \E q \in 1..r' : uri[q] = Question
    BY <1>1, <1>2, <1>4
  <2>2. Cursors'
    BY <1>1, <1>4, <2>1 DEF Cursors
  <2>3. QED BY <1>1, <1>4, <2>1, <2>2, QuietStep
<1>5. QED BY <1>3, <1>4 DEF FindQuery

\* A parameter that is recorded lies in the query.
LEMMA ParamFacts ==
    ASSUME PathIInv, pc = "param", NEW e \in (r + 1)..len, NEW a \in (e + 1)..(len + 1)
    PROVE  InQuery(Param(e, a))
<1>1. /\ r \in Nat /\ len \in Nat /\ len = Len(uri) /\ \E q \in 1..r : uri[q] = Question
      /\ uri \in Seq(Byte)
  BY DEF PathIInv, PathTypes, Cursors
<1> DEFINE p == Param(e, a)
<1>2. /\ p.name = r + 1 /\ p.nameLen = e - r - 1 /\ p.valueLen = a - e - 1
      /\ p.value = IF e = len THEN 0 ELSE e + 1
  BY DEF Param
<1>3. p \in [name : Nat, nameLen : Nat, value : Nat, valueLen : Nat]
  BY <1>1 DEF Param
<1> HIDE DEF p
<1>4. \E q \in 1..(p.name - 1) : uri[q] = Question
  BY <1>1, <1>2
<1>5. p.name + p.nameLen <= Len(uri)
  BY <1>1, <1>2
<1>6. \/ p.value = 0 /\ p.valueLen = 0
      \/ p.name < p.value /\ p.value + p.valueLen <= Len(uri) + 1
  BY <1>1, <1>2
<1>7. InQuery(p)
  BY <1>3, <1>4, <1>5, <1>6 DEF InQuery
<1>8. QED BY <1>7 DEF p

\* One round of the loop over the parameters.
LEMMA ReadParamStep ==
    ASSUME PathIInv, ReadParam PROVE PathIInv'
<1> DEFINE e == First({Equals}, r + 1, len)
           a == First({Ampersand}, e + 1, len)
           Good == {p \in [name : Nat, nameLen : Nat, value : Nat, valueLen : Nat] : InQuery(p)}
<1>1. /\ uri \in Seq(Byte) /\ buf = uri /\ len = Len(uri) /\ len \in Nat /\ w = 0 /\ pc = "param"
      /\ from \in Nat /\ at \in Nat /\ r \in Nat /\ r <= len /\ \E q \in 1..r : uri[q] = Question
      /\ params \in Seq(Good)
  BY DEF ReadParam, PathIInv, PathTypes, Cursors, ParamsInQuery
<1>2. e \in (r + 1)..(len + 1)
  BY <1>1, FirstFacts
<1>3. e <= len => a \in (e + 1)..(len + 1)
  <2> HIDE DEF e
  <2> SUFFICES ASSUME e <= len PROVE a \in (e + 1)..(len + 1)
    OBVIOUS
  <2>1. e + 1 \in Nat /\ e + 1 <= len + 1
    BY <1>1, <1>2
  <2>2. QED BY <1>1, <2>1, FirstFacts
<1>4. uri' = uri => Good' = Good
  BY DEF InQuery
<1>5. CASE e > len /\ EndQuery /\ UNCHANGED params
  <2>1. uri' = uri
    BY <1>5 DEF EndQuery
  <2>2. ParamsInQuery'
    BY <1>1, <1>4, <1>5, <2>1 DEF ParamsInQuery
  <2>3. QED BY <1>1, <1>5, <2>2, EndQueryStep
<1>6. CASE Fail("too_long")
  BY <1>1, <1>6, FailStep
<1>7. CASE /\ e <= len /\ params' = Append(params, Param(e, a))
           /\ \/ a > len /\ EndQuery
              \/ a <= len /\ r' = a /\ UNCHANGED <<uri, buf, len, pc, w, from, at, path>>
  <2>1. InQuery(Param(e, a))
    <3> HIDE DEF e, a
    <3> QED BY <1>1, <1>2, <1>3, <1>7, ParamFacts
  <2>2. Param(e, a) \in Good
    <3> HIDE DEF e, a
    <3> QED BY <2>1 DEF InQuery
  <2>3. uri' = uri
    BY <1>7 DEF EndQuery
  <2> HIDE DEF e, a, Good
  <2>4. params' \in Seq(Good')
    BY <1>1, <1>4, <1>7, <2>2, <2>3
  <2>5. ParamsInQuery'
    BY <2>4 DEF ParamsInQuery, Good
  <2>6. CASE EndQuery
    BY <1>1, <2>5, <2>6, EndQueryStep
  <2>7. CASE a <= len /\ r' = a /\ UNCHANGED <<uri, buf, len, pc, w, from, at, path>>
    <3>1. r' \in Nat /\ \E q \in 1..r' : uri[q] = Question
      BY <1>1, <1>2, <1>3, <1>7, <2>7
    <3>2. Cursors'
      BY <1>1, <2>7, <3>1 DEF Cursors
    <3>3. PathTypes'
      BY <1>1, <2>7, <3>1 DEF PathTypes
    <3>4. QueryIsCut' /\ QueryUntouched'
      BY <1>1, <2>7 DEF QueryIsCut, QueryUntouched
    <3>5. QED BY <2>5, <3>2, <3>3, <3>4 DEF PathIInv
  <2>8. QED BY <1>7, <2>6, <2>7
<1>8. QED BY <1>5, <1>6, <1>7 DEF ReadParam

\* A hexadecimal digit is worth up to 15, and two make a byte.
LEMMA HexFacts ==
    ASSUME NEW c \in Byte, NEW d \in Byte, HexVal(c) >= 0, HexVal(d) >= 0
    PROVE  16 * HexVal(c) + HexVal(d) \in Byte
<1>1. HexVal(c) \in 0..15
  BY DEF HexVal, Byte
<1>2. HexVal(d) \in 0..15
  BY DEF HexVal, Byte
<1>3. QED BY <1>1, <1>2 DEF Byte

\* url_decode writes one byte for the one or three it has read.
LEMMA StoreStep ==
    ASSUME PathIInv, pc = "decode", NEW c \in Byte, NEW n \in Nat \ {0}, r + n <= len, Store(c, n)
    PROVE  PathIInv'
<1>1. /\ r \in Nat /\ w \in Nat /\ len \in Nat /\ w <= r /\ from \in Nat /\ at \in Nat
      /\ buf \in Seq(Byte) /\ Len(buf) = Len(uri) /\ len <= Len(uri)
      /\ \A k \in (r + 1)..len : buf[k] = uri[k]
  BY DEF PathIInv, PathTypes, Cursors
<1>2. /\ buf' = [buf EXCEPT ![w + 1] = c] /\ w' = w + 1 /\ r' = r + n
      /\ UNCHANGED <<uri, len, pc, from, at, params, path>>
  BY DEF Store
<1>3. w + 1 \in 1..len /\ w' \in Nat /\ r' \in Nat /\ w' <= r' /\ r' <= len
  BY <1>1, <1>2
<1>4. \A k \in (r' + 1)..len : buf'[k] = uri[k]
  <2> SUFFICES ASSUME NEW k \in (r + n + 1)..len PROVE buf'[k] = uri[k]
    BY <1>2
  <2>1. k \in (r + 1)..len /\ k # w + 1 /\ k \in 1..Len(buf)
    BY <1>1
  <2>2. buf'[k] = buf[k]
    BY <1>1, <1>2, <2>1
  <2>3. QED BY <1>1, <2>1, <2>2
<1>5. Cursors'
  BY <1>2, <1>3, <1>4 DEF Cursors
<1>6. QED BY <1>1, <1>2, <1>3, <1>5, WriteStep

\* One round of url_decode.
LEMMA UrlDecodeStep ==
    ASSUME PathIInv, UrlDecode PROVE PathIInv'
<1>1. /\ pc = "decode" /\ r < len /\ r \in Nat /\ len \in Nat /\ buf \in Seq(Byte) /\ len <= Len(buf)
  BY DEF UrlDecode, PathIInv, PathTypes
<1>2. buf[r + 1] \in Byte
  BY <1>1
<1>3. CASE Store(buf[r + 1], 1)
  BY <1>1, <1>2, <1>3, StoreStep
<1>4. CASE Fail("bad")
  BY <1>1, <1>4, FailStep
<1>5. CASE /\ ~Truncated /\ HexVal(buf[r + 2]) >= 0 /\ HexVal(buf[r + 3]) >= 0
           /\ Store(16 * HexVal(buf[r + 2]) + HexVal(buf[r + 3]), 3)
  <2>1. r + 3 <= len /\ buf[r + 2] \in Byte /\ buf[r + 3] \in Byte
    BY <1>1, <1>5 DEF Truncated
  <2>2. 16 * HexVal(buf[r + 2]) + HexVal(buf[r + 3]) \in Byte
    BY <1>5, <2>1, HexFacts
  <2>3. QED BY <1>1, <1>5, <2>1, <2>2, StoreStep
<1>6. QED BY <1>3, <1>4, <1>5 DEF UrlDecode

\* The decoded text replaces the target.
LEMMA DecodedStep ==
    ASSUME PathIInv, Decoded PROVE PathIInv'
<1>1. /\ pc = "decode" /\ len' = w /\ pc' = "form"
      /\ UNCHANGED <<uri, buf, r, w, from, at, params, path>>
      /\ w \in Nat /\ len \in Nat /\ w <= len /\ uri \in Seq(Byte) /\ len <= Len(uri)
  BY DEF Decoded, PathIInv, PathTypes, Cursors
<1>2. PathTypes'
  BY <1>1 DEF PathIInv, PathTypes
<1>3. Cursors'
  BY <1>1 DEF Cursors
<1>4. QueryIsCut' /\ QueryUntouched'
  BY <1>1 DEF PathIInv, QueryIsCut, QueryUntouched
<1>5. ParamsInQuery'
  BY <1>1 DEF PathIInv, ParamsInQuery, InQuery
<1>6. QED BY <1>2, <1>3, <1>4, <1>5 DEF PathIInv

\* normalize_path is entered at a slash or refuses the target.
LEMMA NormalizeFromStep ==
    ASSUME PathIInv, pc = "form", NEW k \in Nat \ {0}, NormalizeFrom(k) PROVE PathIInv'
<1>1. /\ at' = k - 1 /\ r' = 0 /\ w' = 0 /\ UNCHANGED <<uri, buf, len, from, params>>
      /\ pc' = IF k > len THEN "bad" ELSE IF buf[k] # Slash THEN "bad" ELSE "normalize"
      /\ len \in Nat /\ from \in Nat
  BY DEF NormalizeFrom, PathIInv, PathTypes
<1>2. Cursors'
  BY <1>1 DEF Cursors
<1>3. QED BY <1>1, <1>2, QuietStep

\* The forms of a target.
LEMMA FormStep ==
    ASSUME PathIInv, Form PROVE PathIInv'
<1>1. pc = "form" /\ len \in Nat /\ from \in Nat /\ at \in Nat /\ r \in Nat /\ w \in Nat
  BY DEF Form, PathIInv, PathTypes
<1>2. CASE Fail("bad")
  BY <1>1, <1>2, FailStep
<1>3. CASE NormalizeFrom(1)
  BY <1>1, <1>3, NormalizeFromStep
<1>4. ASSUME NEW s \in Schemes, HasScheme(s), NormalizeFrom(First({Slash}, Len(s) + 1, len))
      PROVE  PathIInv'
  <2>1. Len(s) \in Nat /\ Len(s) <= len
    BY <1>4, SchemesAssumption DEF HasScheme
  <2>2. First({Slash}, Len(s) + 1, len) \in (Len(s) + 1)..(len + 1)
    BY <1>1, <2>1, FirstFacts
  <2>3. First({Slash}, Len(s) + 1, len) \in Nat \ {0}
    BY <1>1, <2>1, <2>2
  <2>4. QED BY <1>1, <1>4, <2>3, NormalizeFromStep
<1>5. CASE Finish(<<Slash>>) /\ UNCHANGED <<buf, w>>
  <2>1. pc' = "ok" /\ UNCHANGED <<uri, buf, len, r, w, from, at, params>>
    BY <1>5 DEF Finish
  <2>2. Cursors'
    BY <2>1 DEF Cursors
  <2>3. QED BY <1>1, <2>1, <2>2, QuietStep
<1>6. QED BY <1>2, <1>3, <1>4, <1>5 DEF Form

\* A dot segment moves the reading cursor; any other one is begun with its
\* slash, which goes where a byte was read before.
LEMMA NormalizeSegmentStep ==
    ASSUME PathIInv, NormalizeSegment PROVE PathIInv'
<1>1. /\ pc = "normalize" /\ SegmentLen > 0
      /\ len \in Nat /\ from \in Nat /\ at \in Nat /\ r \in Nat /\ w \in Nat
      /\ w <= r /\ at + r <= len /\ at < len /\ buf \in Seq(Byte) /\ len <= Len(buf)
  BY DEF NormalizeSegment, PathIInv, PathTypes, Cursors
<1>2. /\ SegmentStart \in (r + 2)..(len - at) /\ SegmentEnd \in SegmentStart..(len - at)
      /\ at + SegmentEnd < len => buf[at + SegmentEnd + 1] = Slash
  BY <1>1, SegmentFacts
<1>3. CASE r' = SegmentEnd /\ KeepPath /\ UNCHANGED <<buf, w>>
  <2>1. r' \in Nat /\ w <= r' /\ at + r' <= len
    BY <1>1, <1>2, <1>3
  <2>2. UNCHANGED <<uri, len, pc, from, at, params, path>>
    BY <1>3 DEF KeepPath
  <2>3. Cursors'
    BY <1>1, <1>2, <1>3, <2>1, <2>2 DEF Cursors
  <2>4. QED BY <1>1, <1>3, <2>1, <2>2, <2>3, QuietStep
<1>4. CASE Fail("bad")
  BY <1>1, <1>4, FailStep
<1>5. CASE w # 0 /\ w' = Parent /\ r' = SegmentEnd /\ KeepPath /\ UNCHANGED buf
  <2>1. Parent \in 0..w
    <3> DEFINE slashes == {k \in 1..w : buf[at + k] = Slash}
    <3>1. CASE slashes = {}
      BY <1>1, <3>1 DEF Parent
    <3>2. CASE slashes # {}
      <4>1. slashes \subseteq 0..w
        OBVIOUS
      <4>2. \E k \in slashes : \A l \in slashes : k >= l
        <5> HIDE DEF slashes
        <5> QED BY <1>1, <3>2, <4>1, Greatest
      <4> DEFINE last == CHOOSE k \in slashes : \A l \in slashes : k >= l
      <4>3. last \in slashes
        BY <4>2
      <4>4. Parent = last - 1
        BY <3>2 DEF Parent
      <4> HIDE DEF last
      <4>5. last \in 1..w
        BY <4>3
      <4>6. QED BY <1>1, <4>4, <4>5
    <3>3. QED BY <3>1, <3>2
  <2>2. r' \in Nat /\ w' \in Nat /\ w' <= r' /\ at + r' <= len
    BY <1>1, <1>2, <1>5, <2>1
  <2>3. UNCHANGED <<uri, len, pc, from, at, params, path>>
    BY <1>5 DEF KeepPath
  <2>4. Cursors'
    BY <1>1, <1>2, <1>5, <2>2, <2>3 DEF Cursors
  <2>5. QED BY <1>1, <1>5, <2>2, <2>3, <2>4, QuietStep
<1>6. CASE /\ buf' = [buf EXCEPT ![at + w + 1] = Slash] /\ w' = w + 1 /\ r' = SegmentEnd
           /\ from' = SegmentStart - 1 /\ pc' = "copy" /\ UNCHANGED <<uri, len, at, params, path>>
  <2>1. /\ at + w + 1 \in 1..len /\ r' \in Nat /\ w' \in Nat /\ from' \in Nat
        /\ w' <= from' /\ from' < r' /\ at + r' <= len /\ at + w + 1 < at + r' + 1
    BY <1>1, <1>2, <1>6
  <2>2. ASSUME at + r' < len PROVE buf'[at + r' + 1] = Slash
    <3>1. buf[at + r' + 1] = Slash /\ at + r' + 1 \in 1..Len(buf)
      BY <1>1, <1>2, <1>6, <2>1, <2>2
    <3>2. QED BY <1>1, <1>6, <2>1, <3>1
  <2>3. Cursors'
    BY <1>1, <1>6, <2>1, <2>2 DEF Cursors
  <2>4. Slash \in Byte
    BY DEF Slash, Byte
  <2>5. QED BY <1>1, <1>6, <2>1, <2>3, <2>4, WriteStep
<1>7. QED BY <1>3, <1>4, <1>5, <1>6 DEF NormalizeSegment

\* A byte of a segment is copied backwards, or onto itself.
LEMMA CopyByteStep ==
    ASSUME PathIInv, CopyByte PROVE PathIInv'
<1>1. /\ pc = "copy" /\ len \in Nat /\ from \in Nat /\ at \in Nat /\ r \in Nat /\ w \in Nat
      /\ w <= from /\ from < r /\ at + r <= len /\ buf \in Seq(Byte) /\ len <= Len(buf)
      /\ at + r < len => buf[at + r + 1] = Slash
      /\ buf' = [buf EXCEPT ![at + w + 1] = buf[at + from + 1]] /\ w' = w + 1 /\ from' = from + 1
      /\ pc' = IF from + 1 < r THEN "copy" ELSE "normalize"
      /\ UNCHANGED <<uri, len, r, at, params, path>>
  BY DEF CopyByte, PathIInv, PathTypes, Cursors
<1>2. /\ at + w + 1 \in 1..len /\ at + from + 1 \in 1..Len(buf) /\ buf[at + from + 1] \in Byte
      /\ w' \in Nat /\ from' \in Nat /\ w' <= from' /\ from' <= r /\ at + w + 1 < at + r + 1
      /\ at < len
  <2> DEFINE end == Len(buf)
  <2>0. /\ len \in Nat /\ from \in Nat /\ at \in Nat /\ r \in Nat /\ w \in Nat /\ end \in Nat
        /\ w <= from /\ from < r /\ at + r <= len /\ len <= end
    BY <1>1
  <2>1. /\ at + w + 1 \in 1..len /\ at + from + 1 \in 1..Len(buf)
        /\ at + w + 1 < at + r + 1 /\ at < len
    <3> HIDE DEF end
    <3>1. /\ at + w + 1 \in 1..len /\ at + from + 1 \in 1..end
          /\ at + w + 1 < at + r + 1 /\ at < len
      BY <2>0
    <3>2. QED BY <3>1 DEF end
  <2>2. w' \in Nat /\ from' \in Nat /\ w' <= from' /\ from' <= r
    BY <1>1
  <2>3. buf[at + from + 1] \in Byte
    BY <1>1, <2>1
  <2>4. QED BY <2>1, <2>2, <2>3
<1>3. ASSUME at + r < len PROVE buf'[at + r + 1] = Slash
  <2> DEFINE end == Len(buf)
  <2>0. /\ len \in Nat /\ at \in Nat /\ r \in Nat /\ w \in Nat /\ end \in Nat
        /\ at + r < len /\ len <= end /\ at + w + 1 < at + r + 1
    BY <1>1, <1>2, <1>3
  <2>1. at + r + 1 # at + w + 1 /\ at + r + 1 \in 1..Len(buf)
    <3> HIDE DEF end
    <3>1. at + r + 1 # at + w + 1 /\ at + r + 1 \in 1..end
      BY <2>0
    <3>2. QED BY <3>1 DEF end
  <2>2. buf[at + r + 1] = Slash
    BY <1>1, <1>3
  <2>3. QED BY <1>1, <2>1, <2>2
<1>4. Cursors'
  <2>1. CASE from + 1 < r
    BY <1>1, <1>2, <1>3, <2>1 DEF Cursors
  <2>2. CASE ~(from + 1 < r)
    <3>1. w' <= r
      BY <1>1, <1>2
    <3>2. QED BY <1>1, <1>2, <1>3, <2>2, <3>1 DEF Cursors
  <2>3. QED BY <2>1, <2>2
<1>5. QED BY <1>1, <1>2, <1>4, WriteStep

\* The end of normalize_path.
LEMMA NormalizedStep ==
    ASSUME PathIInv, Normalized PROVE PathIInv'
<1>1. /\ pc = "normalize" /\ len \in Nat /\ from \in Nat /\ at \in Nat /\ r \in Nat /\ w \in Nat
      /\ at < len
  BY DEF Normalized, PathIInv, PathTypes, Cursors
<1>2. pc' = "ok" /\ UNCHANGED <<uri, len, r, from, at, params>>
  BY DEF Normalized, Finish
<1>3. Cursors'
  BY <1>2 DEF Cursors
<1>4. CASE buf' = [buf EXCEPT ![at + 1] = Slash] /\ w' = 1
  <2>1. at + 1 \in 1..len /\ Slash \in Byte
    BY <1>1 DEF Slash, Byte
  <2>2. QED BY <1>1, <1>2, <1>3, <1>4, <2>1, WriteStep
<1>5. CASE UNCHANGED <<buf, w>>
  BY <1>1, <1>2, <1>3, <1>5, QuietStep
<1>6. QED BY <1>4, <1>5 DEF Normalized

\* Every step of normalize_uri keeps the invariant.
LEMMA PathStep ==
    ASSUME PathIInv, [Next]_vars PROVE PathIInv'
<1>1. CASE UNCHANGED vars
  <2>1. UNCHANGED <<uri, buf, len, pc, r, w, from, at, params>>
    BY <1>1 DEF vars
  <2>2. PathTypes' /\ Cursors'
    BY <2>1 DEF PathIInv, PathTypes, Cursors
  <2>3. QueryIsCut' /\ QueryUntouched'
    BY <2>1 DEF PathIInv, QueryIsCut, QueryUntouched
  <2>4. ParamsInQuery'
    BY <2>1 DEF PathIInv, ParamsInQuery, InQuery
  <2>5. QED BY <2>2, <2>3, <2>4 DEF PathIInv
<1>2. CASE Returned
  BY <1>1, <1>2 DEF Returned
<1>3. QED
  BY <1>1, <1>2, FindQueryStep, ReadParamStep, UrlDecodeStep, DecodedStep, FormStep,
     NormalizeSegmentStep, CopyByteStep, NormalizedStep DEF Next

\* The invariant gives what is claimed of the buffer.
LEMMA PathClaims ==
    ASSUME PathIInv PROVE WritesBehindReads
<1>1. QueryUntouched
  BY DEF PathIInv
<1>2. /\ len <= Len(uri) /\ Len(buf) = Len(uri)
      /\ pc = "decode" => w <= r /\ r <= len /\ \A k \in (r + 1)..len : buf[k] = uri[k]
      /\ pc = "normalize" => w <= r /\ at + r <= len
      /\ pc = "copy" => w <= from /\ from < r /\ at + r <= len
  BY DEF PathIInv, PathTypes, Cursors
<1>3. QED BY <1>1, <1>2 DEF WritesBehindReads, QueryUntouched

\* The invariant holds in every state, for targets of every length.
THEOREM PathInvariance == Spec => []PathIInv
<1>1. Init => PathIInv
  BY PathInit
<1>2. PathIInv /\ [Next]_vars => PathIInv'
  BY PathStep
<1>3. QED BY <1>1, <1>2, PTL DEF Spec

\* url_decode and normalize_path never overwrite a byte they still have to
\* read, stay inside the target and leave the query alone.
THEOREM RewritesAreSafe == Spec => []WritesBehindReads
<1>1. PathIInv => WritesBehindReads
  BY PathClaims
<1>2. QED BY <1>1, PathInvariance, PTL

-----------------------------------------------------------------------------
(* Ids: the digit loop of parse_challenge_id. *)

\* One turn of the loop.
Turn(v, c) ==
    IF v = -1 \/ c - 48 \notin 0..9 THEN -1
    ELSE IF v > (IntMax - (c - 48)) \div 10 THEN -1
    ELSE v * 10 + (c - 48)

\* A turn refuses exactly the digit that would exceed IntMax.
LEMMA TurnFacts ==
    ASSUME NEW v \in Int, NEW c \in Byte
    PROVE  /\ Turn(v, c) \in Int
           /\ v = -1 \/ c \notin 48..57 => Turn(v, c) = -1
           /\ v >= 0 /\ c \in 48..57 =>
                Turn(v, c) = IF 10 * v + c - 48 <= IntMax THEN 10 * v + c - 48 ELSE -1
<1> DEFINE d == c - 48
<1>1. IntMax \in Nat /\ c \in 0..255
  BY BoundsAssumption DEF Byte
<1>2. Turn(v, c) \in Int /\ (v = -1 \/ c \notin 48..57 => Turn(v, c) = -1)
  BY <1>1 DEF Turn
<1>3. ASSUME v >= 0, c \in 48..57
      PROVE  Turn(v, c) = IF 10 * v + c - 48 <= IntMax THEN 10 * v + c - 48 ELSE -1
  <2>1. \A m \in Int, e \in 0..9 : v > (m - e) \div 10 <=> 10 * v + e > m
    OBVIOUS
  <2>2. c - 48 \in 0..9 /\ v # -1 /\ 10 * v + (c - 48) = 10 * v + c - 48
        /\ v * 10 + (c - 48) = 10 * v + c - 48
    BY <1>3
  <2>3. v > (IntMax - (c - 48)) \div 10 <=> 10 * v + c - 48 > IntMax
    BY <1>1, <2>1, <2>2
  <2>4. QED BY <1>1, <2>2, <2>3 DEF Turn
<1>4. QED BY <1>2, <1>3

\* The last of the values that the turns give decides about the text.
LEMMA IdLoop ==
    ASSUME NEW text \in Seq(Byte)
    PROVE  \E value \in [0..Len(text) -> Int] :
               /\ value[0] = 0
               /\ \A k \in 1..Len(text) : value[k] = Turn(value[k - 1], text[k])
               /\ ParseChallengeId(text) =
                    IF text = <<>> THEN 0
                    ELSE IF text[1] \notin 49..57 \/ value[Len(text)] = -1 THEN 0
                    ELSE value[Len(text)]
<1> DEFINE n == Len(text)
           step == [p \in (1..n) \X Int |-> Turn(p[2], text[p[1]])]
           Image(f) == [k \in 0..n |-> IF k = 0 THEN 0 ELSE Turn(f[k - 1], text[k])]
           V == CHOOSE f : f = Image(f)
<1>1. n \in Nat /\ \A k \in 1..n : text[k] \in Byte
  OBVIOUS
<1>2. \A k \in 1..n, v \in Int : Turn(v, text[k]) \in Int
  BY <1>1, TurnFacts
<1>3. IsStep(step, n, Int)
  BY <1>2 DEF IsStep
<1>4. \A k \in 1..n, v \in Int : step[<<k, v>>] = Turn(v, text[k])
  OBVIOUS
<1>5. PICK f : f \in [0..n -> Int] /\ f[0] = 0 /\ \A k \in 1..n : f[k] = step[<<k, f[k - 1]>>]
  <2> HIDE DEF step, n
  <2>1. \E f : Unfolds(f, n, Int, 0, step)
    BY <1>1, <1>3, 0 \in Int, Recursion
  <2>2. QED BY <2>1 DEF Unfolds
<1>6. \A k \in 1..n : f[k] = Turn(f[k - 1], text[k])
  <2> HIDE DEF step, n
  <2>1. TAKE k \in 1..n
  <2>2. k - 1 \in 0..n
    BY <1>1
  <2>3. f[k - 1] \in Int
    BY <1>5, <2>2
  <2>4. QED BY <1>4, <1>5, <2>3
<1>7. f = Image(f)
  <2>1. \A k \in 0..n : f[k] = IF k = 0 THEN 0 ELSE Turn(f[k - 1], text[k])
    BY <1>1, <1>5, <1>6
  <2>2. QED BY <1>5, <2>1
<1>8. V = Image(V)
  <2> HIDE DEF Image
  <2> QED BY <1>7
<1>9. ParseChallengeId(text) = IF text = <<>> THEN 0
                               ELSE IF text[1] \notin 49..57 \/ V[n] = -1 THEN 0 ELSE V[n]
  BY DEF ParseChallengeId, Turn
<1>10. V[0] = 0 /\ (\A k \in 1..n : V[k] = Turn(V[k - 1], text[k]))
  <2>1. \A g : Image(g)[0] = 0 /\ \A k \in 1..n : Image(g)[k] = Turn(g[k - 1], text[k])
    BY <1>1
  <2> HIDE DEF V, n, Image
  <2>2. QED BY <1>8, <2>1
<1>11. V \in [0..n -> Int]
  <2> DEFINE G == {k \in Int : V[k] \in Int}
  <2>1. 0 \in G
    BY <1>10
  <2>2. ASSUME NEW k \in 0..(n - 1), k \in G PROVE k + 1 \in G
    <3> HIDE DEF V, n
    <3>1. k + 1 \in 1..n /\ (k + 1) - 1 = k /\ V[k] \in Int
      BY <1>1, <2>2
    <3>2. V[k + 1] = Turn(V[k], text[k + 1])
      BY <1>10, <3>1
    <3>3. V[k + 1] \in Int
      BY <1>2, <3>1, <3>2
    <3>4. k + 1 \in Int
      BY <3>1
    <3>5. QED BY <3>3, <3>4
  <2>3. \A k \in 0..n : k \in G
    <3> HIDE DEF G, V, n
    <3> QED BY <1>1, <2>1, <2>2, UpTo
  <2>4. \A g : Image(g) \in [0..n -> {Image(g)[k] : k \in 0..n}]
    OBVIOUS
  <2>5. V \in [0..n -> {V[k] : k \in 0..n}]
    <3> HIDE DEF V, n, Image
    <3> QED BY <1>8, <2>4
  <2> HIDE DEF V, n
  <2>6. QED BY <2>3, <2>5
<1>12. QED
  <2> HIDE DEF V
  <2> QED BY <1>9, <1>10, <1>11

\* Decimal is the last value of its own recursion.
LEMMA DecimalLoop ==
    ASSUME NEW text \in Seq(Byte)
    PROVE  \E u \in [0..Len(text) -> Int] :
               /\ u[0] = 0
               /\ \A k \in 1..Len(text) : u[k] = 10 * u[k - 1] + text[k] - 48
               /\ Decimal(text) = u[Len(text)]
<1> DEFINE n == Len(text)
           step == [p \in (1..n) \X Int |-> 10 * p[2] + text[p[1]] - 48]
           Image(f) == [k \in 0..n |-> IF k = 0 THEN 0 ELSE 10 * f[k - 1] + text[k] - 48]
           V == CHOOSE f : f = Image(f)
<1>1. n \in Nat /\ \A k \in 1..n : text[k] \in Int
  <2>1. n \in Nat /\ \A k \in 1..n : text[k] \in Byte
    OBVIOUS
  <2>2. Byte \subseteq Int
    BY DEF Byte
  <2>3. QED BY <2>1, <2>2
<1>2. \A k \in 1..n, v \in Int : 10 * v + text[k] - 48 \in Int
  BY <1>1
<1>3. IsStep(step, n, Int)
  BY <1>2 DEF IsStep
<1>4. \A k \in 1..n, v \in Int : step[<<k, v>>] = 10 * v + text[k] - 48
  OBVIOUS
<1>5. PICK f : f \in [0..n -> Int] /\ f[0] = 0 /\ \A k \in 1..n : f[k] = step[<<k, f[k - 1]>>]
  <2> HIDE DEF step, n
  <2>1. \E f : Unfolds(f, n, Int, 0, step)
    BY <1>1, <1>3, 0 \in Int, Recursion
  <2>2. QED BY <2>1 DEF Unfolds
<1>6. \A k \in 1..n : f[k] = 10 * f[k - 1] + text[k] - 48
  <2> HIDE DEF step, n
  <2>1. TAKE k \in 1..n
  <2>2. k - 1 \in 0..n
    BY <1>1
  <2>3. f[k - 1] \in Int
    BY <1>5, <2>2
  <2>4. QED BY <1>4, <1>5, <2>3
<1>7. f = Image(f)
  <2>1. \A k \in 0..n : f[k] = IF k = 0 THEN 0 ELSE 10 * f[k - 1] + text[k] - 48
    BY <1>1, <1>5, <1>6
  <2>2. QED BY <1>5, <2>1
<1>8. V = Image(V)
  <2> HIDE DEF Image
  <2> QED BY <1>7
<1>9. Decimal(text) = V[n]
  BY DEF Decimal
<1>10. V[0] = 0 /\ (\A k \in 1..n : V[k] = 10 * V[k - 1] + text[k] - 48)
  <2>1. \A g : Image(g)[0] = 0 /\ \A k \in 1..n : Image(g)[k] = 10 * g[k - 1] + text[k] - 48
    BY <1>1
  <2> HIDE DEF V, n, Image
  <2>2. QED BY <1>8, <2>1
<1>11. V \in [0..n -> Int]
  <2> DEFINE G == {k \in Int : V[k] \in Int}
  <2>1. 0 \in G
    BY <1>10
  <2>2. ASSUME NEW k \in 0..(n - 1), k \in G PROVE k + 1 \in G
    <3> HIDE DEF V, n
    <3>1. k + 1 \in 1..n /\ (k + 1) - 1 = k /\ V[k] \in Int
      BY <1>1, <2>2
    <3>2. V[k + 1] = 10 * V[k] + text[k + 1] - 48
      BY <1>10, <3>1
    <3>3. V[k + 1] \in Int
      BY <1>2, <3>1, <3>2
    <3>4. k + 1 \in Int
      BY <3>1
    <3>5. QED BY <3>3, <3>4
  <2>3. \A k \in 0..n : k \in G
    <3> HIDE DEF G, V, n
    <3> QED BY <1>1, <2>1, <2>2, UpTo
  <2>4. \A g : Image(g) \in [0..n -> {Image(g)[k] : k \in 0..n}]
    OBVIOUS
  <2>5. V \in [0..n -> {V[k] : k \in 0..n}]
    <3> HIDE DEF V, n, Image
    <3> QED BY <1>8, <2>4
  <2> HIDE DEF V, n
  <2>6. QED BY <2>3, <2>5
<1>12. QED
  <2> HIDE DEF V
  <2> QED BY <1>9, <1>10, <1>11

\* A further digit does not make a number smaller.
LEMMA MoreDigits ==
    ASSUME NEW a \in Int, NEW c \in 48..57
    PROVE  /\ a >= 0 => 10 * a + c - 48 >= a /\ 10 * a + c - 48 >= 0
           /\ a >= 1 => 10 * a + c - 48 >= 1
OBVIOUS

\* parse_challenge_id reads exactly the positive numbers up to INT_MAX that
\* are written without leading zeros, and computes them.
LEMMA IdIsNumber ==
    ASSUME NEW text \in Seq(Byte)
    PROVE  (IF ParseChallengeId(text) = 0 THEN {} ELSE {ParseChallengeId(text)})
               = PositiveReference(text, IntMax)
<1> DEFINE n == Len(text)
           Digital(k) == \A j \in 1..k : text[j] \in 48..57
<1>1. PICK value \in [0..n -> Int] :
          /\ value[0] = 0
          /\ \A k \in 1..n : value[k] = Turn(value[k - 1], text[k])
          /\ ParseChallengeId(text) =
               IF text = <<>> THEN 0
               ELSE IF text[1] \notin 49..57 \/ value[n] = -1 THEN 0 ELSE value[n]
  BY IdLoop
<1>2. PICK u \in [0..n -> Int] :
          /\ u[0] = 0
          /\ \A k \in 1..n : u[k] = 10 * u[k - 1] + text[k] - 48
          /\ Decimal(text) = u[n]
  BY DecimalLoop
<1>3. n \in Nat /\ IntMax \in Nat /\ \A k \in 1..n : text[k] \in Byte
  BY BoundsAssumption
<1>4. ToSet(text) \subseteq 48..57 <=> Digital(n)
  <2>1. ToSet(text) = {text[k] : k \in 1..n}
    BY DEF ToSet
  <2> HIDE DEF n
  <2>2. QED BY <2>1
<1>5. text # <<>> <=> n >= 1
  BY EmptySeq
<1> HIDE DEF n
<1> DEFINE Agree(k) == /\ Digital(k) => u[k] >= 0
                       /\ value[k] = IF Digital(k) /\ u[k] <= IntMax THEN u[k] ELSE -1
           G == {k \in 0..n : Agree(k)}
<1>6. 0 \in G
  <2>1. Digital(0) /\ 0 \in 0..n /\ u[0] = 0 /\ value[0] = 0 /\ 0 <= IntMax
    BY <1>1, <1>2, <1>3
  <2> HIDE DEF Digital
  <2>2. Agree(0)
    BY <2>1
  <2>3. QED BY <2>1, <2>2
<1>7. ASSUME NEW k \in 0..(n - 1), k \in G PROVE k + 1 \in G
  <2>1. /\ k + 1 \in 1..n /\ (k + 1) - 1 = k /\ k \in 0..n /\ k + 1 \in 0..n
        /\ text[k + 1] \in Byte
    BY <1>3
  <2>2. /\ value[k + 1] = Turn(value[k], text[k + 1])
        /\ u[k + 1] = 10 * u[k] + text[k + 1] - 48
        /\ u[k] \in Int /\ u[k + 1] \in Int /\ value[k] \in Int
    BY <1>1, <1>2, <2>1
  <2>3. Digital(k + 1) <=> Digital(k) /\ text[k + 1] \in 48..57
    <3>1. \A j \in Nat : j \in 1..(k + 1) <=> j \in 1..k \/ j = k + 1
      BY <2>1
    <3>2. QED BY <2>1, <3>1
  <2>4. Agree(k)
    BY <1>7
  <2> HIDE DEF Digital
  <2>5. CASE Digital(k) /\ text[k + 1] \in 48..57
    <3>1. u[k] >= 0 /\ u[k + 1] >= u[k] /\ u[k + 1] >= 0
      <4>1. u[k] >= 0
        BY <2>4, <2>5
      <4>2. u[k + 1] >= u[k] /\ u[k + 1] >= 0
        BY <2>2, <2>5, <4>1, MoreDigits
      <4>3. QED BY <4>1, <4>2
    <3>2. CASE u[k] <= IntMax
      <4>1. value[k] = u[k]
        BY <2>4, <2>5, <3>2
      <4>2. value[k + 1] = IF u[k + 1] <= IntMax THEN u[k + 1] ELSE -1
        BY <2>1, <2>2, <2>5, <3>1, <4>1, TurnFacts
      <4>3. QED BY <2>1, <2>3, <2>5, <3>1, <4>2
    <3>3. CASE u[k] > IntMax
      <4>1. value[k] = -1
        BY <1>3, <2>2, <2>4, <3>3
      <4>2. value[k + 1] = -1
        BY <2>1, <2>2, <4>1, TurnFacts
      <4>3. ~(u[k + 1] <= IntMax)
        BY <1>3, <2>2, <3>1, <3>3
      <4>4. QED BY <2>1, <2>3, <2>5, <3>1, <4>2, <4>3
    <3>4. QED BY <1>3, <2>2, <3>2, <3>3
  <2>6. CASE ~(Digital(k) /\ text[k + 1] \in 48..57)
    <3>1. value[k] = -1 \/ text[k + 1] \notin 48..57
      BY <2>4, <2>6
    <3>2. value[k + 1] = -1
      BY <2>1, <2>2, <3>1, TurnFacts
    <3>3. QED BY <2>1, <2>3, <2>6, <3>2
  <2>7. QED BY <2>5, <2>6
<1>8. Agree(n)
  <2>1. n \in 0..n /\ \A k \in 0..(n - 1) : k \in G => k + 1 \in G
    BY <1>3, <1>7
  <2>2. n \in G
    <3> HIDE DEF G
    <3> QED BY <1>3, <1>6, <2>1, UpTo
  <2>3. QED BY <2>2
\* Nothing but zeros makes zero: with the first digit above zero the number is.
<1>9. n >= 1 /\ Digital(n) /\ text[1] # 48 => u[n] >= 1
  <2> SUFFICES ASSUME n >= 1, Digital(n), text[1] # 48 PROVE u[n] >= 1
    OBVIOUS
  <2>1. text[1] \in 49..57
    BY <1>3
  <2>2. u[1] = 10 * u[0] + text[1] - 48
    <3>1. 1 \in 1..n /\ 1 - 1 = 0
      BY <1>3
    <3>2. QED BY <1>2, <3>1
  <2>3. u[1] >= 1
    BY <1>2, <2>1, <2>2
  <2> DEFINE K == {k \in 0..(n - 1) : u[k + 1] >= 1}
  <2>4. 0 \in K
    BY <1>3, <2>3
  <2>5. ASSUME NEW k \in 0..((n - 1) - 1), k \in K PROVE k + 1 \in K
    <3>1. k + 1 \in 0..(n - 1) /\ k + 2 \in 1..n /\ (k + 2) - 1 = k + 1 /\ (k + 1) + 1 = k + 2
          /\ k + 1 \in 0..n /\ k + 2 \in 0..n
      BY <1>3
    <3>2. u[k + 2] = 10 * u[k + 1] + text[k + 2] - 48 /\ u[k + 1] >= 1 /\ u[k + 1] \in Int
          /\ text[k + 2] \in 48..57
      BY <1>2, <2>5, <3>1
    <3>3. u[k + 2] >= 1
      BY <3>2, MoreDigits
    <3>4. QED BY <3>1, <3>3
  <2>6. n - 1 \in K
    <3>1. n - 1 \in Nat /\ n - 1 \in 0..(n - 1)
      BY <1>3
    <3> HIDE DEF K
    <3>2. QED BY <2>4, <2>5, <3>1, UpTo
  <2>7. (n - 1) + 1 = n
    BY <1>3
  <2>8. QED BY <2>6, <2>7
<1>10. u[n] \in Int /\ Decimal(text) = u[n]
  BY <1>2, <1>3
<1> HIDE DEF Digital
<1>11. PositiveReference(text, IntMax) =
          IF text = <<>> \/ ~Digital(n) THEN {}
          ELSE IF text[1] = 48 THEN {} ELSE {u[n]} \cap 1..IntMax
  BY <1>4, <1>10 DEF PositiveReference
<1>12. CASE text = <<>>
  BY <1>1, <1>11, <1>12
<1>13. CASE text # <<>> /\ Digital(n) /\ text[1] # 48
  <2>1. text[1] \in 49..57 /\ u[n] >= 1
    BY <1>3, <1>5, <1>9, <1>13 DEF Digital
  <2>2. PositiveReference(text, IntMax) = {u[n]} \cap 1..IntMax
    BY <1>11, <1>13
  <2>3. value[n] = IF u[n] <= IntMax THEN u[n] ELSE -1
    BY <1>8, <1>13
  <2>4. ParseChallengeId(text) = IF u[n] <= IntMax THEN u[n] ELSE 0
    BY <1>1, <1>10, <1>13, <2>1, <2>3
  <2>5. QED BY <1>3, <1>10, <2>1, <2>2, <2>4
<1>14. CASE text # <<>> /\ ~(Digital(n) /\ text[1] # 48)
  <2>1. PositiveReference(text, IntMax) = {}
    BY <1>11, <1>14
  <2>2. text[1] \notin 49..57 \/ value[n] = -1
    BY <1>8, <1>14
  <2>3. QED BY <1>1, <1>14, <2>1, <2>2
<1>15. QED BY <1>12, <1>13, <1>14

-----------------------------------------------------------------------------
(* Query parameters: parse_query_params against QueryReference. *)

\* The first of some bytes in a text is behind m others.
CutAt(s, bytes, m) ==
    /\ m \in 0..Len(s)
    /\ \A k \in 1..m : s[k] \notin bytes
    /\ m < Len(s) => s[m + 1] \in bytes

\* A text before the first of some bytes, known by its length.
LEMMA BeforeIs ==
    ASSUME NEW s \in Seq(Byte), NEW bytes, NEW m, CutAt(s, bytes, m)
    PROVE  Before(s, bytes) = SubSeq(s, 1, m)
<1> DEFINE stops == {k \in DOMAIN s : s[k] \in bytes}
           c == CHOOSE k \in stops : \A l \in stops : k <= l
           cut == IF stops = {} THEN Len(s) ELSE c - 1
<1>1. Before(s, bytes) = SubSeq(s, 1, cut)
  BY DEF Before
<1>2. Len(s) \in Nat /\ DOMAIN s = 1..Len(s) /\ m \in 0..Len(s)
  BY DEF CutAt
<1>3. ASSUME m = Len(s) PROVE cut = m
  <2>1. stops = {}
    BY <1>2, <1>3 DEF CutAt
  <2>2. QED BY <1>3, <2>1
<1>4. ASSUME m < Len(s) PROVE cut = m
  <2>1. m + 1 \in stops
    BY <1>2, <1>4 DEF CutAt
  <2>2. ASSUME NEW l \in stops PROVE m + 1 <= l
    <3>1. l \in 1..Len(s) /\ l \notin 1..m
      BY <1>2 DEF CutAt
    <3>2. QED BY <1>2, <3>1
  <2>3. c \in stops /\ \A l \in stops : c <= l
    BY <2>1, <2>2
  <2>4. \A l \in stops : l \in Int
    BY <1>2
  <2> HIDE DEF stops, c
  <2>5. c = m + 1
    BY <1>2, <2>1, <2>2, <2>3, <2>4
  <2>6. stops # {} /\ (m + 1) - 1 = m
    BY <1>2, <2>1
  <2>7. QED BY <2>5, <2>6
<1>5. m = Len(s) \/ m < Len(s)
  <2>1. \A n \in Nat : \A k \in 0..n : k = n \/ k < n
    OBVIOUS
  <2>2. QED BY <1>2, <2>1
<1> HIDE DEF cut
<1>6. QED BY <1>1, <1>3, <1>4, <1>5

\* A text has a part before the first of some bytes.
LEMMA CutExists ==
    ASSUME NEW s \in Seq(Byte), NEW bytes
    PROVE  \E m : CutAt(s, bytes, m)
<1> DEFINE stops == {k \in 0..Len(s) : k < Len(s) => s[k + 1] \in bytes}
<1>1. Len(s) \in Nat
  OBVIOUS
<1>2. Len(s) \in stops /\ stops \subseteq Nat
  BY <1>1
<1>3. PICK m \in stops : \A l \in stops : m <= l
  <2> HIDE DEF stops
  <2> QED BY <1>2, Least
<1>4. ASSUME NEW k \in 1..m PROVE s[k] \notin bytes
  <2>1. k - 1 \in 0..Len(s) /\ k - 1 < Len(s) /\ (k - 1) + 1 = k /\ ~(m <= k - 1)
    BY <1>1, <1>3
  <2>2. k - 1 \notin stops
    <3> HIDE DEF stops
    <3> QED BY <1>3, <2>1
  <2>3. QED BY <2>1, <2>2
<1>5. QED BY <1>1, <1>3, <1>4 DEF CutAt

\* A part of a text.
LEMMA Parts ==
    ASSUME NEW s \in Seq(Byte), NEW a \in Nat, NEW b \in Nat, a <= b, b <= Len(s)
    PROVE  /\ SubSeq(s, a + 1, b) \in Seq(Byte) /\ Len(SubSeq(s, a + 1, b)) = b - a
           /\ \A k \in 1..(b - a) : SubSeq(s, a + 1, b)[k] = s[a + k]
           /\ SubSeq(s, a + 1, b) = Slice(s, a + 1, b - a)
<1> DEFINE t == SubSeq(s, a + 1, b)
<1>1. Len(s) \in Nat /\ b - a \in Nat /\ (b - (a + 1)) + 1 = b - a /\ \A k \in Int : (a + 1) + k - 1 = a + k
  OBVIOUS
<1>2. /\ t \in Seq(Byte) /\ Len(t) = b - a /\ \A k \in 1..(b - a) : t[k] = s[a + k]
  OBVIOUS
<1> HIDE DEF t
<1>3. t = Slice(s, a + 1, b - a)
  <2>1. DOMAIN t = 1..(b - a) /\ t = [k \in DOMAIN t |-> t[k]]
    BY <1>2
  <2>2. \A k \in 1..(b - a) : t[k] = s[(a + 1) + k - 1]
    BY <1>1, <1>2
  <2>3. QED BY <2>1, <2>2 DEF Slice
<1>4. QED BY <1>2, <1>3 DEF t

\* What Before and After return is a text.
LEMMA BeforeFacts ==
    ASSUME NEW s \in Seq(Byte), NEW bytes
    PROVE  Before(s, bytes) \in Seq(Byte) /\ Len(Before(s, bytes)) \in 0..Len(s)
<1>1. PICK m : CutAt(s, bytes, m)
  BY CutExists
<1>2. m \in 0..Len(s) /\ Len(s) \in Nat
  BY <1>1 DEF CutAt
<1>3. Before(s, bytes) = SubSeq(s, 0 + 1, m) /\ m - 0 = m
  BY <1>1, <1>2, BeforeIs
<1>4. QED BY <1>2, <1>3, Parts

LEMMA AfterFacts ==
    ASSUME NEW s \in Seq(Byte), NEW n \in Nat
    PROVE  /\ After(s, n) \in Seq(Byte)
           /\ n <= Len(s) => /\ Len(After(s, n)) = Len(s) - n
                             /\ \A k \in 1..(Len(s) - n) : After(s, n)[k] = s[n + k]
           /\ n > Len(s) => After(s, n) = <<>>
<1>1. Len(s) \in Nat
  OBVIOUS
<1>2. ASSUME n <= Len(s) PROVE /\ After(s, n) \in Seq(Byte) /\ Len(After(s, n)) = Len(s) - n
                               /\ \A k \in 1..(Len(s) - n) : After(s, n)[k] = s[n + k]
  BY <1>1, <1>2, Parts DEF After
<1>3. ASSUME n > Len(s) PROVE After(s, n) = <<>>
  <2>1. n + 1 \in Int /\ Len(s) \in Int /\ Len(s) < n + 1
    BY <1>1, <1>3
  <2>2. QED BY <2>1, SubSeqEmpty DEF After
<1>4. n <= Len(s) \/ n > Len(s)
  BY <1>1
<1>5. <<>> \in Seq(Byte)
  OBVIOUS
<1>6. QED BY <1>2, <1>3, <1>4, <1>5

\* The parts of the recursion in QueryReference, at the k-th byte of a query.
NameAt(query, k) == Before(After(query, k - 1), {61})
ValueAt(query, k) == Before(After(After(query, k - 1), Len(NameAt(query, k)) + 1), {38})
StopAt(query, k) == k > Len(query) \/ NameAt(query, k) = After(query, k - 1)
LastAt(query, k) == k + Len(NameAt(query, k)) + Len(ValueAt(query, k)) + 1 > Len(query)
NextAt(query, k) == k + Len(NameAt(query, k)) + Len(ValueAt(query, k)) + 2
PairAt(query, k) == <<NameAt(query, k), ValueAt(query, k)>>
RestAt(query, f, k) ==
    IF StopAt(query, k) THEN <<>>
    ELSE <<PairAt(query, k)>> \o (IF LastAt(query, k) THEN <<>> ELSE f[NextAt(query, k)])

Pairs == Seq(Seq(Byte) \X Seq(Byte))

\* The names and values are texts, and the recursion goes on behind them.
LEMMA PairFacts ==
    ASSUME NEW query \in Seq(Byte), NEW k \in 1..(Len(query) + 2)
    PROVE  /\ PairAt(query, k) \in Seq(Byte) \X Seq(Byte)
           /\ Len(NameAt(query, k)) \in Nat /\ Len(ValueAt(query, k)) \in Nat
           /\ ~LastAt(query, k) => NextAt(query, k) \in (k + 1)..(Len(query) + 2)
<1> DEFINE text == After(query, k - 1)
           name == NameAt(query, k)
           tail == After(text, Len(name) + 1)
           value == ValueAt(query, k)
<1>1. Len(query) \in Nat /\ k - 1 \in Nat
  OBVIOUS
<1>2. text \in Seq(Byte)
  BY <1>1, AfterFacts
<1>3. name \in Seq(Byte) /\ Len(name) \in Nat
  <2> HIDE DEF text
  <2>1. Before(text, {61}) \in Seq(Byte)
    BY <1>2, BeforeFacts
  <2>2. name \in Seq(Byte)
    BY <2>1 DEF NameAt, text
  <2>3. QED BY <2>2
<1>4. tail \in Seq(Byte)
  <2> HIDE DEF text, name
  <2>1. Len(name) + 1 \in Nat
    BY <1>3
  <2>2. QED BY <1>2, <2>1, AfterFacts
<1>5. value \in Seq(Byte) /\ Len(value) \in Nat
  <2> HIDE DEF tail
  <2>1. Before(tail, {38}) \in Seq(Byte)
    BY <1>4, BeforeFacts
  <2>2. value \in Seq(Byte)
    BY <2>1 DEF ValueAt, tail, text, name
  <2>3. QED BY <2>2
<1> HIDE DEF text, name, tail, value
<1>6. PairAt(query, k) \in Seq(Byte) \X Seq(Byte)
  BY <1>3, <1>5 DEF PairAt, name, value
<1>7. ~(k + Len(name) + Len(value) + 1 > Len(query))
         => k + Len(name) + Len(value) + 2 \in (k + 1)..(Len(query) + 2)
  BY <1>1, <1>3, <1>5
<1>8. QED BY <1>3, <1>5, <1>6, <1>7 DEF LastAt, NextAt, name, value

\* QueryReference begins its own recursion.
LEMMA QueryLoop ==
    ASSUME NEW target \in Seq(Byte), NEW query \in Seq(Byte),
           query = After(target, Len(Before(target, {63})) + 1)
    PROVE  \E P \in [1..(Len(query) + 2) -> Pairs] :
               /\ QueryReference(target) = P[1]
               /\ \A k \in 1..(Len(query) + 2) : P[k] = RestAt(query, P, k)
<1> DEFINE n == Len(query) + 2
           Image(f) == [k \in 1..n |-> RestAt(query, f, k)]
           V == CHOOSE f : f = Image(f)
           next == [k \in 1..n |-> IF StopAt(query, k) \/ LastAt(query, k) THEN 0 ELSE NextAt(query, k)]
           given == [k \in 1..n |-> IF StopAt(query, k) THEN <<>> ELSE <<PairAt(query, k)>>]
           step == [p \in (1..n) \X Pairs |-> <<PairAt(query, p[1])>> \o p[2]]
<1>1. n \in Nat /\ 1 \in 1..n
  OBVIOUS
<1>2. \A k \in 1..n : /\ PairAt(query, k) \in Seq(Byte) \X Seq(Byte)
                      /\ ~LastAt(query, k) => NextAt(query, k) \in (k + 1)..n
  BY PairFacts
<1>3. <<>> \in Pairs /\ \A p \in Seq(Byte) \X Seq(Byte) : <<p>> \in Pairs
  BY DEF Pairs
<1>4. \A p \in Seq(Byte) \X Seq(Byte), f \in Pairs : <<p>> \o f \in Pairs
  BY <1>3, ConcatProperties DEF Pairs
<1>5. \A p \in Seq(Byte) \X Seq(Byte) : <<p>> \o <<>> = <<p>>
  BY <1>3, ConcatEmptySeq DEF Pairs
<1> HIDE DEF n
<1>6. given \in [1..n -> Pairs]
  BY <1>2, <1>3
<1>7. IsStep(step, n, Pairs)
  BY <1>2, <1>4 DEF IsStep
<1>8. PICK f : f \in [1..n -> Pairs] /\ \A k \in 1..n :
                  f[k] = IF next[k] \in (k + 1)..n THEN step[<<k, f[next[k]]>>] ELSE given[k]
  <2> HIDE DEF next, given, step
  <2>1. \E f : Refers(f, n, Pairs, next, given, step)
    BY <1>1, <1>6, <1>7, Backwards
  <2>2. QED BY <2>1 DEF Refers
<1>9. \A k \in 1..n : f[k] = RestAt(query, f, k)
  <2>1. TAKE k \in 1..n
  <2>2. CASE StopAt(query, k)
    <3>1. next[k] = 0 /\ given[k] = <<>>
      BY <2>2
    <3>2. 0 \notin (k + 1)..n
      BY <1>1
    <3> HIDE DEF next, given, step
    <3>3. f[k] = <<>>
      BY <1>8, <3>1, <3>2
    <3>4. QED BY <2>2, <3>3 DEF RestAt
  <2>3. CASE ~StopAt(query, k) /\ LastAt(query, k)
    <3>1. next[k] = 0 /\ given[k] = <<PairAt(query, k)>>
      BY <2>3
    <3>2. 0 \notin (k + 1)..n
      BY <1>1
    <3> HIDE DEF next, given, step
    <3>3. f[k] = <<PairAt(query, k)>>
      BY <1>8, <3>1, <3>2
    <3>4. QED BY <1>2, <1>5, <2>3, <3>3 DEF RestAt
  <2>4. CASE ~StopAt(query, k) /\ ~LastAt(query, k)
    <3> DEFINE m == NextAt(query, k)
    <3>1. next[k] = m /\ m \in (k + 1)..n /\ m \in 1..n
      BY <1>1, <1>2, <2>4
    <3> HIDE DEF m
    <3>2. f[m] \in Pairs
      BY <1>8, <3>1
    <3>3. step[<<k, f[m]>>] = <<PairAt(query, k)>> \o f[m]
      BY <3>2
    <3> HIDE DEF next, given, step
    <3>4. f[k] = <<PairAt(query, k)>> \o f[m]
      BY <1>8, <3>1, <3>3
    <3>5. QED BY <2>4, <3>4 DEF RestAt, m
  <2>5. QED BY <2>2, <2>3, <2>4
<1>10. f = Image(f)
  BY <1>8, <1>9
<1>11. V = Image(V)
  <2> HIDE DEF Image
  <2> QED BY <1>10
<1>12. QueryReference(target) = V[1]
  BY DEF QueryReference, n, RestAt, StopAt, LastAt, NextAt, PairAt, NameAt, ValueAt
<1>13. \A k \in 1..n : V[k] = RestAt(query, V, k)
  <2>1. \A g : \A k \in 1..n : Image(g)[k] = RestAt(query, g, k)
    OBVIOUS
  <2> HIDE DEF V, Image
  <2>2. QED BY <1>11, <2>1
<1>14. V \in [1..n -> Pairs]
  <2> DEFINE G == {k \in 1..n : V[k] \in Pairs}
  <2>1. ASSUME NEW k \in 1..n, \A j \in (k + 1)..n : j \in G PROVE k \in G
    <3> HIDE DEF V
    <3>1. ~LastAt(query, k) => V[NextAt(query, k)] \in Pairs
      BY <1>2, <2>1
    <3>2. (IF LastAt(query, k) THEN <<>> ELSE V[NextAt(query, k)]) \in Pairs
      BY <1>3, <3>1
    <3>3. RestAt(query, V, k) \in Pairs
      BY <1>2, <1>3, <1>4, <3>2 DEF RestAt
    <3>4. QED BY <1>13, <3>3
  <2>2. \A k \in 1..n : k \in G
    <3> HIDE DEF G
    <3> QED BY <1>1, <2>1, DownFrom
  <2>3. \A g : Image(g) \in [1..n -> {Image(g)[k] : k \in 1..n}]
    OBVIOUS
  <2>4. V \in [1..n -> {V[k] : k \in 1..n}]
    <3> HIDE DEF V, Image
    <3> QED BY <1>11, <2>3
  <2> HIDE DEF V
  <2>5. QED BY <2>2, <2>4
<1>15. QED
  <2> HIDE DEF V
  <2> QED BY <1>12, <1>13, <1>14 DEF n

\* p is the first position from lo on with one of the bytes, or behind the text.
Finds(u, bytes, lo, p) ==
    /\ p \in lo..(Len(u) + 1)
    /\ p <= Len(u) => u[p] \in bytes
    /\ \A k \in lo..(p - 1) : u[k] \notin bytes

\* t is what follows the first d bytes of u.
IsTail(t, u, d) ==
    /\ t \in Seq(Byte)
    /\ Len(t) = Len(u) - d
    /\ \A k \in 1..(Len(u) - d) : t[k] = u[d + k]

\* A tail of a tail.
LEMMA TailOfTail ==
    ASSUME NEW u \in Seq(Byte), NEW d \in 0..Len(u), NEW t, IsTail(t, u, d), NEW m \in 0..(Len(u) - d)
    PROVE  IsTail(After(t, m), u, d + m)
<1>1. /\ t \in Seq(Byte) /\ Len(t) = Len(u) - d /\ Len(u) \in Nat /\ d \in Nat /\ m \in Nat
      /\ m <= Len(t) /\ Len(t) - m = Len(u) - (d + m)
      /\ \A k \in 1..(Len(u) - d) : t[k] = u[d + k]
  BY DEF IsTail
<1>2. /\ After(t, m) \in Seq(Byte) /\ Len(After(t, m)) = Len(u) - (d + m)
      /\ \A k \in 1..(Len(u) - (d + m)) : After(t, m)[k] = t[m + k]
  <2>1. /\ After(t, m) \in Seq(Byte) /\ Len(After(t, m)) = Len(t) - m
        /\ \A k \in 1..(Len(t) - m) : After(t, m)[k] = t[m + k]
    BY <1>1, AfterFacts
  <2>2. QED BY <1>1, <2>1
<1>3. \A k \in 1..(Len(u) - (d + m)) : m + k \in 1..(Len(u) - d) /\ d + (m + k) = (d + m) + k
  BY <1>1
<1>4. \A k \in 1..(Len(u) - (d + m)) : After(t, m)[k] = u[(d + m) + k]
  BY <1>1, <1>2, <1>3
<1>5. QED BY <1>2, <1>4 DEF IsTail

\* The part of a tail before some byte, in terms of the whole text.
LEMMA BeforeInTail ==
    ASSUME NEW u \in Seq(Byte), NEW d \in 0..Len(u), NEW t, IsTail(t, u, d),
           NEW bytes, NEW p, Finds(u, bytes, d + 1, p)
    PROVE  /\ Before(t, bytes) = Slice(u, d + 1, p - d - 1)
           /\ Len(Before(t, bytes)) = p - d - 1
           /\ Before(t, bytes) = t <=> p > Len(u)
<1> DEFINE m == p - d - 1
<1>1. /\ t \in Seq(Byte) /\ Len(t) = Len(u) - d /\ Len(u) \in Nat /\ d \in Nat /\ p \in (d + 1)..(Len(u) + 1)
      /\ \A k \in 1..(Len(u) - d) : t[k] = u[d + k]
  BY DEF IsTail, Finds
<1>2. m \in Nat /\ m \in 0..Len(t) /\ d + m + 1 = p /\ (m = Len(t) <=> p > Len(u)) /\ m - 0 = m
      /\ (m < Len(t) => p <= Len(u))
  BY <1>1
<1> HIDE DEF m
<1>3. \A k \in 1..m : t[k] \notin bytes
  <2>1. TAKE k \in 1..m
  <2>2. k \in 1..(Len(u) - d) /\ d + k \in (d + 1)..(p - 1)
    BY <1>1, <1>2
  <2>3. QED BY <1>1, <2>2 DEF Finds
<1>4. m < Len(t) => t[m + 1] \in bytes
  <2> SUFFICES ASSUME m < Len(t) PROVE t[m + 1] \in bytes
    OBVIOUS
  <2>1. m + 1 \in 1..(Len(u) - d) /\ d + (m + 1) = p /\ p <= Len(u)
    BY <1>1, <1>2
  <2>2. QED BY <1>1, <2>1 DEF Finds
<1>5. CutAt(t, bytes, m)
  BY <1>2, <1>3, <1>4 DEF CutAt
<1>6. Before(t, bytes) = SubSeq(t, 0 + 1, m)
  BY <1>1, <1>5, BeforeIs
<1>7. Len(Before(t, bytes)) = m /\ Before(t, bytes) = Slice(t, 0 + 1, m)
  <2>1. 0 \in Nat /\ 0 <= m /\ m <= Len(t)
    BY <1>1, <1>2
  <2>2. /\ Len(SubSeq(t, 0 + 1, m)) = m - 0 /\ SubSeq(t, 0 + 1, m) = Slice(t, 0 + 1, m - 0)
    BY <1>1, <1>2, <2>1, Parts
  <2>3. QED BY <1>2, <1>6, <2>2
<1>8. Slice(t, 0 + 1, m) = Slice(u, d + 1, m)
  <2>1. \A k \in 1..m : k \in 1..(Len(u) - d) /\ (0 + 1) + k - 1 = k /\ (d + 1) + k - 1 = d + k
    BY <1>1, <1>2
  <2>2. \A k \in 1..m : t[(0 + 1) + k - 1] = u[(d + 1) + k - 1]
    BY <1>1, <2>1
  <2>3. QED BY <2>2 DEF Slice
<1>9. Before(t, bytes) = t <=> m = Len(t)
  <2>1. m = Len(t) => SubSeq(t, 0 + 1, m) = t
    BY <1>1, SubSeqFull
  <2>2. QED BY <1>6, <1>7, <2>1
<1>10. QED BY <1>2, <1>7, <1>8, <1>9 DEF m

\* The k-th byte of the query is behind the first j of the target, and the
\* parameter there has its equals sign at e and ends before a.
Bounds(u, q, j, e, a) ==
    /\ u \in Seq(Byte) /\ q \in 1..Len(u) /\ j \in q..Len(u)
    /\ Finds(u, {61}, j + 1, e)
    /\ e \in 1..Len(u) => Finds(u, {38}, e + 1, a)

TurnIs(u, q, j, e, a, query, k) ==
    /\ k \in 1..(Len(query) + 2)
    /\ StopAt(query, k) <=> e > Len(u)
    /\ e \in 1..Len(u) =>
         /\ PairAt(query, k) = <<Slice(u, j + 1, e - j - 1), Slice(u, e + 1, a - e - 1)>>
         /\ LastAt(query, k) <=> a > Len(u)
         /\ NextAt(query, k) = a - q + 1

\* One turn of the recursion is one parameter of the target.
LEMMA PairHere ==
    ASSUME NEW u, NEW q, NEW j, NEW e, NEW a, Bounds(u, q, j, e, a)
    PROVE  TurnIs(u, q, j, e, a, After(u, q), j - q + 1)
<1> USE DEF Bounds
<1> DEFINE query == After(u, q)
           k == j - q + 1
           text == After(query, k - 1)
           name == NameAt(query, k)
           tail == After(text, Len(name) + 1)
           value == ValueAt(query, k)
<1>1. /\ Len(u) \in Nat /\ q \in Nat /\ j \in Nat /\ q <= j /\ j <= Len(u) /\ k \in Nat
      /\ k - 1 = j - q /\ q + (k - 1) = j /\ k - 1 \in 0..(Len(u) - q) /\ q \in 0..Len(u) /\ j \in 0..Len(u)
      /\ 0 + q = q /\ Len(u) - 0 = Len(u) /\ 0 \in 0..Len(u)
  OBVIOUS
<1>2. IsTail(query, u, q)
  <2>1. IsTail(u, u, 0)
    BY <1>1 DEF IsTail
  <2>2. IsTail(After(u, q), u, 0 + q)
    BY <1>1, <2>1, TailOfTail
  <2>3. QED BY <1>1, <2>2
<1>3. Len(query) = Len(u) - q
  BY <1>2 DEF IsTail
<1>a. \A n \in Nat : \A b \in 1..n : \A c \in b..n :
          (c - b) + 1 \in 1..((n - b) + 2) /\ ((c - b) + 1 > n - b <=> c = n)
  OBVIOUS
<1>b. k \in 1..((Len(u) - q) + 2) /\ (k > Len(u) - q <=> j = Len(u))
  BY <1>1, <1>a
<1> HIDE DEF query
<1>c. k \in 1..(Len(query) + 2) /\ (k > Len(query) <=> j = Len(u))
  BY <1>3, <1>b
<1> HIDE DEF query, k
<1>4. IsTail(text, u, j)
  <2>1. IsTail(After(query, k - 1), u, q + (k - 1))
    BY <1>1, <1>2, TailOfTail
  <2>2. QED BY <1>1, <2>1
<1> HIDE DEF text
<1>5. name = Before(text, {61})
  BY DEF NameAt, text
<1>6. /\ name = Slice(u, j + 1, e - j - 1) /\ Len(name) = e - j - 1
      /\ name = text <=> e > Len(u)
  BY <1>1, <1>4, <1>5, BeforeInTail
<1>7. e \in (j + 1)..(Len(u) + 1)
  BY DEF Finds
<1>8. StopAt(query, k) <=> e > Len(u)
  <2>1. j = Len(u) => e > Len(u)
    BY <1>1, <1>7
  <2>2. QED BY <1>c, <1>6, <2>1 DEF StopAt, text
<1> HIDE DEF name
<1>9. ASSUME e \in 1..Len(u)
      PROVE  /\ PairAt(query, k) = <<Slice(u, j + 1, e - j - 1), Slice(u, e + 1, a - e - 1)>>
             /\ LastAt(query, k) <=> a > Len(u)
             /\ NextAt(query, k) = a - q + 1
  <2>1. /\ Len(name) + 1 = e - j /\ Len(name) + 1 \in 0..(Len(u) - j) /\ j + (Len(name) + 1) = e
        /\ e \in 0..Len(u) /\ e \in Nat
    BY <1>1, <1>6, <1>7, <1>9
  <2>2. IsTail(tail, u, e)
    <3>1. IsTail(After(text, Len(name) + 1), u, j + (Len(name) + 1))
      BY <1>1, <1>4, <2>1, TailOfTail
    <3>2. QED BY <2>1, <3>1
  <2>3. value = Before(tail, {38})
    BY DEF ValueAt, tail, text, name
  <2> HIDE DEF tail
  <2>4. value = Slice(u, e + 1, a - e - 1) /\ Len(value) = a - e - 1 /\ a \in (e + 1)..(Len(u) + 1)
    <3>1. Finds(u, {38}, e + 1, a)
      BY <1>9
    <3>2. value = Slice(u, e + 1, a - e - 1) /\ Len(value) = a - e - 1
      <4> HIDE DEF value
      <4> QED BY <2>1, <2>2, <2>3, <3>1, BeforeInTail
    <3>3. a \in (e + 1)..(Len(u) + 1)
      BY <3>1 DEF Finds
    <3>4. QED BY <3>2, <3>3
  <2> HIDE DEF value
  <2>5. k + Len(name) + Len(value) + 1 = a - q /\ k + Len(name) + Len(value) + 2 = a - q + 1
    <3>1. \A b, c, d, f \in Int :
              /\ (c - b + 1) + (d - c - 1) + (f - d - 1) + 1 = f - b
              /\ (c - b + 1) + (d - c - 1) + (f - d - 1) + 2 = f - b + 1
      OBVIOUS
    <3>2. q \in Int /\ j \in Int /\ e \in Int /\ a \in Int
      BY <1>1, <2>1, <2>4
    <3>3. k = j - q + 1 /\ Len(name) = e - j - 1 /\ Len(value) = a - e - 1
      BY <1>6, <2>4 DEF k
    <3>4. QED BY <3>1, <3>2, <3>3
  <2>6. (a - q > Len(query)) <=> a > Len(u)
    <3>1. \A x, y, z \in Int : (x - z > y - z) <=> x > y
      OBVIOUS
    <3>2. a \in Int /\ q \in Int /\ Len(u) \in Int /\ Len(query) = Len(u) - q
      BY <1>1, <1>3, <2>1, <2>4
    <3>3. QED BY <3>1, <3>2
  <2>7. QED BY <1>6, <2>4, <2>5, <2>6 DEF PairAt, LastAt, NextAt, name, value
<1>10. QED BY <1>c, <1>8, <1>9 DEF query, k, TurnIs

\* Where the first ? is, and what is behind it.
Cut == Len(Before(uri, {63})) + 1
Query == After(uri, Cut)

\* The bytes that a parameter names and those it gives, as received.
ParamText(u, p) == <<Slice(u, p.name, p.nameLen), Slice(u, p.value, p.valueLen)>>
TextsOf(u, ps) == [k \in DOMAIN ps |-> ParamText(u, ps[k])]
ParamTexts == TextsOf(uri, params)

\* What is still to be read at the cursor, by the recursion of the reference.
Remaining(f) ==
    /\ f \in [1..(Len(Query) + 2) -> Pairs]
    /\ QueryReference(uri) = f[1]
    /\ \A k \in 1..(Len(Query) + 2) : f[k] = RestAt(Query, f, k)

\* The parameters read so far and those of the rest are those of the query.
QueryRead ==
    /\ pc = "query" => params = <<>>
    /\ pc = "param" => /\ Cut \in 1..r
                       /\ \E f : Remaining(f) /\ QueryReference(uri) = ParamTexts \o f[r - Cut + 1]
    /\ pc \notin {"query", "param", "too_long"} => QueryReference(uri) = ParamTexts

\* The recursion has a solution for every target.
LEMMA RemainingExists ==
    ASSUME uri \in Seq(Byte) PROVE Query \in Seq(Byte) /\ \E f : Remaining(f)
<1>1. Len(Before(uri, {63})) \in Nat
  BY BeforeFacts
<1>2. Query \in Seq(Byte)
  <2>1. Cut \in Nat
    BY <1>1 DEF Cut
  <2>2. QED BY <2>1, AfterFacts DEF Query
<1>3. Query = After(uri, Len(Before(uri, {63})) + 1)
  BY DEF Query, Cut
<1>4. \E P \in [1..(Len(Query) + 2) -> Pairs] :
          /\ QueryReference(uri) = P[1]
          /\ \A k \in 1..(Len(Query) + 2) : P[k] = RestAt(Query, P, k)
  BY <1>2, <1>3, QueryLoop, Zenon
<1>5. QED BY <1>2, <1>4, Zenon DEF Remaining

\* The texts of the parameters are pairs of texts.
LEMMA ParamTextsFacts ==
    ASSUME PathIInv PROVE ParamTexts \in Pairs /\ Len(ParamTexts) = Len(params)
<1>1. /\ uri \in Seq(Byte) /\ Len(uri) \in Nat /\ params \in Seq({p \in [name : Nat, nameLen : Nat, value : Nat, valueLen : Nat] : InQuery(p)})
  BY DEF PathIInv, PathTypes, ParamsInQuery
<1>2. ASSUME NEW p \in [name : Nat, nameLen : Nat, value : Nat, valueLen : Nat], InQuery(p)
      PROVE  ParamText(uri, p) \in Seq(Byte) \X Seq(Byte)
  <2>1. /\ p.name \in Nat /\ p.nameLen \in Nat /\ p.value \in Nat /\ p.valueLen \in Nat
        /\ p.name >= 1 /\ p.name + p.nameLen <= Len(uri)
        /\ p.valueLen = 0 \/ (p.name < p.value /\ p.value + p.valueLen <= Len(uri) + 1)
    BY <1>1, <1>2 DEF InQuery
  <2>2. \A k \in 1..p.nameLen : p.name + k - 1 \in 1..Len(uri)
    BY <1>1, <2>1
  <2>3. \A k \in 1..p.valueLen : p.value + k - 1 \in 1..Len(uri)
    BY <1>1, <2>1
  <2>4. \A k \in 1..p.nameLen : uri[p.name + k - 1] \in Byte
    BY <1>1, <2>2
  <2>5. \A k \in 1..p.valueLen : uri[p.value + k - 1] \in Byte
    BY <1>1, <2>3
  <2>6. Slice(uri, p.name, p.nameLen) \in Seq(Byte)
    BY <2>1, <2>4 DEF Slice
  <2>7. Slice(uri, p.value, p.valueLen) \in Seq(Byte)
    <3>1. \A f : (\A k \in 1..p.valueLen : f[k] \in Byte) => [k \in 1..p.valueLen |-> f[k]] \in Seq(Byte)
      BY <2>1
    <3> DEFINE f == [k \in 1..p.valueLen |-> uri[p.value + k - 1]]
    <3>2. f = [k \in 1..p.valueLen |-> f[k]] /\ \A k \in 1..p.valueLen : f[k] \in Byte
      BY <2>5
    <3>3. f = Slice(uri, p.value, p.valueLen)
      BY DEF Slice
    <3> HIDE DEF f
    <3>4. QED BY <3>1, <3>2, <3>3
  <2>8. QED BY <2>6, <2>7 DEF ParamText
<1>3. Len(params) \in Nat /\ DOMAIN params = 1..Len(params)
  BY <1>1
<1>4. \A k \in 1..Len(params) : ParamText(uri, params[k]) \in Seq(Byte) \X Seq(Byte)
  <2>1. TAKE k \in 1..Len(params)
  <2>2. params[k] \in {p \in [name : Nat, nameLen : Nat, value : Nat, valueLen : Nat] : InQuery(p)}
    BY <1>1
  <2>3. QED BY <1>2, <2>2
<1>5. ParamTexts = [k \in 1..Len(params) |-> ParamText(uri, params[k])]
  BY <1>3 DEF ParamTexts, TextsOf
<1>6. QED BY <1>3, <1>4, <1>5 DEF Pairs

\* Without parameters there are no texts.
LEMMA NoParams ==
    ASSUME params = <<>> PROVE ParamTexts = <<>>
BY DEF ParamTexts, TextsOf

\* A step that reads no parameter keeps the texts.
LEMMA SameTexts ==
    ASSUME UNCHANGED <<uri, params>> PROVE ParamTexts' = ParamTexts /\ QueryReference(uri)' = QueryReference(uri)
BY DEF ParamTexts

\* First, in the words of the reference.
LEMMA FirstFinds ==
    ASSUME uri \in Seq(Byte), buf = uri, len = Len(uri), NEW bytes, NEW lo \in Nat, lo <= len + 1
    PROVE  Finds(uri, bytes, lo, First(bytes, lo, len))
<1>1. len \in Nat
  OBVIOUS
<1>2. QED BY <1>1, FirstFacts DEF Finds

\* The ? that FindQuery finds is the one of the reference.
LEMMA CutIsFirst ==
    ASSUME uri \in Seq(Byte), NEW p, Finds(uri, {63}, 1, p) PROVE Cut = p
<1>1. IsTail(uri, uri, 0) /\ 0 \in 0..Len(uri) /\ 0 + 1 = 1
  BY DEF IsTail
<1>2. Len(Before(uri, {63})) = p - 0 - 1
  BY <1>1, BeforeInTail
<1>3. p \in Int
  BY DEF Finds
<1>4. QED BY <1>2, <1>3 DEF Cut

\* FindQuery leaves the whole query to be read.
LEMMA FindQueryReads ==
    ASSUME PathIInv, QueryRead, FindQuery PROVE QueryRead'
<1> DEFINE f == First({Question}, 1, len)
<1>1. /\ uri \in Seq(Byte) /\ buf = uri /\ len = Len(uri) /\ len \in Nat /\ pc = "query" /\ params = <<>>
  BY DEF FindQuery, PathIInv, PathTypes, Cursors, QueryRead
<1>2. Finds(uri, {63}, 1, f)
  <2>1. 1 \in Nat /\ 1 <= len + 1
    BY <1>1
  <2>2. QED BY <1>1, <2>1, FirstFinds DEF Question
<1>3. Cut = f /\ f \in 1..(len + 1)
  BY <1>1, <1>2, CutIsFirst DEF Finds
<1>4. PICK P : Remaining(P)
  BY <1>1, RemainingExists
<1>5. Query \in Seq(Byte)
  BY <1>1, RemainingExists
<1>6. uri' = uri /\ params' = params
  BY DEF FindQuery, EndQuery
<1>7. ParamTexts' = <<>> /\ QueryReference(uri)' = QueryReference(uri)
  BY <1>1, <1>6, NoParams, SameTexts
<1>8. CASE f > len /\ pc' = "decode"
  <2>1. Query = <<>>
    <3>1. Cut \in Nat /\ Cut > Len(uri)
      BY <1>1, <1>3, <1>8
    <3>2. QED BY <1>1, <3>1, AfterFacts DEF Query
  <2>2. P[1] = RestAt(<<>>, P, 1)
    BY <1>4, <2>1 DEF Remaining
  <2>3. P[1] = <<>>
    BY <2>2 DEF RestAt, StopAt
  <2>4. QueryReference(uri) = <<>>
    BY <1>4, <2>3 DEF Remaining
  <2>5. QED BY <1>7, <1>8, <2>4 DEF QueryRead
<1>9. CASE f <= len /\ pc' = "param" /\ r' = f
  <2>1. Cut' = Cut /\ (Remaining(P))' /\ (Cut \in 1..r)'
    <3>1. Cut' = Cut /\ Query' = Query
      BY <1>6 DEF Cut, Query
    <3>2. (Remaining(P))'
      BY <1>4, <1>6, <3>1 DEF Remaining
    <3>3. QED BY <1>3, <1>9, <3>1, <3>2
  <2>2. r' - Cut' + 1 = 1
    BY <1>1, <1>3, <1>9, <2>1
  <2>3. P[1] \in Pairs
    BY <1>4, <1>5 DEF Remaining
  <2>4. <<>> \o P[1] = P[1]
    BY <2>3, ConcatEmptySeq DEF Pairs
  <2>5. (QueryReference(uri) = ParamTexts \o P[r - Cut + 1])'
    BY <1>4, <1>7, <2>2, <2>4 DEF Remaining
  <2>6. QED BY <1>9, <2>1, <2>5 DEF QueryRead
<1>10. QED BY <1>8, <1>9 DEF FindQuery, EndQuery

\* A parameter's texts are those of the reference's pair.
LEMMA ParamIsPair ==
    ASSUME uri \in Seq(Byte), len = Len(uri), r \in Nat, NEW e \in (r + 1)..len, NEW a \in (e + 1)..(len + 1)
    PROVE  ParamText(uri, Param(e, a)) = <<Slice(uri, r + 1, e - r - 1), Slice(uri, e + 1, a - e - 1)>>
<1> DEFINE p == Param(e, a)
<1>1. /\ p.name = r + 1 /\ p.nameLen = e - r - 1 /\ p.valueLen = a - e - 1
      /\ p.value = IF e = len THEN 0 ELSE e + 1
  BY DEF Param
<1> HIDE DEF p
<1>2. Slice(uri, p.value, p.valueLen) = Slice(uri, e + 1, a - e - 1)
  <2>1. CASE e = len
    <3>1. len \in Nat /\ a - e - 1 = 0 /\ 1..0 = {}
      BY <2>1
    <3>2. QED BY <1>1, <3>1 DEF Slice
  <2>2. CASE e # len
    BY <1>1, <2>2
  <2>3. QED BY <2>1, <2>2
<1>3. ParamText(uri, p) = <<Slice(uri, r + 1, e - r - 1), Slice(uri, e + 1, a - e - 1)>>
  BY <1>1, <1>2 DEF ParamText
<1>4. QED BY <1>3 DEF p

\* A further parameter adds its texts.
LEMMA AppendText ==
    ASSUME NEW u, NEW S, NEW ps \in Seq(S), NEW p, TextsOf(u, ps) \in Pairs,
           ParamText(u, p) \in Seq(Byte) \X Seq(Byte)
    PROVE  TextsOf(u, Append(ps, p)) = TextsOf(u, ps) \o <<ParamText(u, p)>>
<1> DEFINE n == Len(ps)
           T == Seq(Byte) \X Seq(Byte)
           old == TextsOf(u, ps)
           new == TextsOf(u, Append(ps, p))
           t == ParamText(u, p)
<1>1. n \in Nat /\ DOMAIN ps = 1..n
  OBVIOUS
<1>2. /\ DOMAIN Append(ps, p) = 1..(n + 1) /\ Append(ps, p)[n + 1] = p
      /\ \A k \in 1..n : Append(ps, p)[k] = ps[k]
  OBVIOUS
<1>3. /\ old = [k \in 1..n |-> ParamText(u, ps[k])]
      /\ new = [k \in 1..(n + 1) |-> ParamText(u, Append(ps, p)[k])]
  BY <1>1, <1>2 DEF TextsOf
<1>4. old \in Seq(T) /\ t \in T
  BY DEF Pairs
<1> HIDE DEF n, T, t
<1>5. Len(old) = n /\ \A k \in 1..n : old[k] = ParamText(u, ps[k])
  BY <1>1, <1>3, <1>4
<1>6. \A k \in 1..(n + 1) : new[k] = IF k = n + 1 THEN t ELSE old[k]
  <2>1. \A k \in 1..(n + 1) : k = n + 1 \/ k \in 1..n
    BY <1>1
  <2> HIDE DEF old, new
  <2>2. QED BY <1>2, <1>3, <1>5, <2>1 DEF t
<1>7. new \in Seq(T) /\ Len(new) = n + 1
  <2>1. \A k \in 1..(n + 1) : new[k] \in T
    <3>1. \A k \in 1..n : old[k] \in T
      BY <1>4, <1>5
    <3>2. \A k \in 1..(n + 1) : k = n + 1 \/ k \in 1..n
      BY <1>1
    <3> HIDE DEF old, new
    <3>3. QED BY <1>4, <1>6, <3>1, <3>2
  <2>2. new = [k \in 1..(n + 1) |-> new[k]] /\ n + 1 \in Nat
    BY <1>1, <1>3
  <2>3. \A f, m : m \in Nat /\ (\A k \in 1..m : f[k] \in T)
                    => [k \in 1..m |-> f[k]] \in Seq(T) /\ Len([k \in 1..m |-> f[k]]) = m
    OBVIOUS
  <2> DEFINE m == n + 1
             g == [k \in 1..m |-> new[k]]
  <2> HIDE DEF new
  <2>4. g \in Seq(T) /\ Len(g) = m
    <3>1. m \in Nat /\ \A k \in 1..m : new[k] \in T
      BY <2>1, <2>2
    <3> HIDE DEF m
    <3>2. QED BY <2>3, <3>1
  <2>5. QED BY <2>2, <2>4
<1> HIDE DEF old, new
<1>8. /\ Append(old, t) \in Seq(T) /\ Len(Append(old, t)) = n + 1
      /\ \A k \in 1..(n + 1) : Append(old, t)[k] = IF k = n + 1 THEN t ELSE old[k]
  BY <1>1, <1>4, <1>5
<1>9. new = Append(old, t)
  BY <1>6, <1>7, <1>8, SeqEqual
<1>10. Append(old, t) = old \o <<t>>
  BY <1>4
<1>11. QED BY <1>9, <1>10 DEF old, new, t

\* ReadParam moves one pair from what is left to what was read.
LEMMA ReadParamReads ==
    ASSUME PathIInv, PathIInv', QueryRead, ReadParam PROVE QueryRead'
<1> DEFINE e == First({Equals}, r + 1, len)
           a == First({Ampersand}, e + 1, len)
           k == r - Cut + 1
<1>1. /\ uri \in Seq(Byte) /\ buf = uri /\ len = Len(uri) /\ len \in Nat /\ pc = "param"
      /\ r \in Nat /\ r <= len /\ Cut \in 1..r
  BY DEF ReadParam, PathIInv, PathTypes, Cursors, QueryRead
<1>2. Finds(uri, {61}, r + 1, e)
  <2>1. r + 1 \in Nat /\ r + 1 <= len + 1
    BY <1>1
  <2>2. QED BY <1>1, <2>1, FirstFinds DEF Equals
<1>3. e \in (r + 1)..(len + 1)
  BY <1>1, <1>2 DEF Finds
<1> HIDE DEF e
<1>4. e \in 1..Len(uri) => Finds(uri, {38}, e + 1, a)
  <2> SUFFICES ASSUME e \in 1..Len(uri) PROVE Finds(uri, {38}, e + 1, a)
    OBVIOUS
  <2>1. e + 1 \in Nat /\ e + 1 <= len + 1
    BY <1>1
  <2>2. QED BY <1>1, <2>1, FirstFinds DEF Ampersand
<1> HIDE DEF a
<1>5. /\ k \in 1..(Len(Query) + 2) /\ (StopAt(Query, k) <=> e > len)
      /\ e \in 1..len => /\ PairAt(Query, k) = <<Slice(uri, r + 1, e - r - 1), Slice(uri, e + 1, a - e - 1)>>
                         /\ LastAt(Query, k) <=> a > len
                         /\ NextAt(Query, k) = a - Cut + 1
  <2>1. Cut \in 1..Len(uri) /\ r \in Cut..Len(uri)
    BY <1>1
  <2>2. Query = After(uri, Cut) /\ k = r - Cut + 1
    BY DEF Query
  <2>3. Bounds(uri, Cut, r, e, a)
    BY <1>1, <1>2, <1>4, <2>1 DEF Bounds
  <2>4. TurnIs(uri, Cut, r, e, a, After(uri, Cut), r - Cut + 1)
    BY <2>3, PairHere
  <2> HIDE DEF k
  <2>5. TurnIs(uri, Cut, r, e, a, Query, k)
    BY <2>2, <2>4
  <2>6. QED BY <1>1, <2>5 DEF TurnIs
<1>6. PICK P : Remaining(P) /\ QueryReference(uri) = ParamTexts \o P[k]
  BY <1>1 DEF QueryRead
<1>7. P[k] = RestAt(Query, P, k)
  BY <1>5, <1>6 DEF Remaining
<1>8. ParamTexts \in Pairs
  BY ParamTextsFacts
<1>9. uri' = uri /\ Cut' = Cut /\ Query' = Query /\ QueryReference(uri)' = QueryReference(uri) /\ (Remaining(P))'
  <2>1. uri' = uri
    BY DEF ReadParam, EndQuery, Fail
  <2>2. Cut' = Cut /\ Query' = Query
    BY <2>1 DEF Cut, Query
  <2>3. QED BY <1>6, <2>1, <2>2 DEF Remaining
<1> HIDE DEF k
<1>10. CASE e > len /\ EndQuery /\ UNCHANGED params
  <2>1. P[k] = <<>>
    BY <1>5, <1>7, <1>10 DEF RestAt
  <2>2. QueryReference(uri) = ParamTexts
    BY <1>6, <1>8, <2>1, ConcatEmptySeq DEF Pairs
  <2>3. ParamTexts' = ParamTexts
    BY <1>9, <1>10, SameTexts
  <2>4. QED BY <1>9, <1>10, <2>2, <2>3 DEF QueryRead, EndQuery
<1>11. CASE Fail("too_long")
  BY <1>11 DEF QueryRead, Fail
<1>12. CASE /\ e <= len /\ params' = Append(params, Param(e, a))
            /\ \/ a > len /\ EndQuery
               \/ a <= len /\ r' = a /\ UNCHANGED <<uri, buf, len, pc, w, from, at, path>>
  <2>1. e \in (r + 1)..len /\ e \in 1..len /\ a \in (e + 1)..(len + 1)
    BY <1>1, <1>3, <1>4, <1>12 DEF Finds
  <2> DEFINE pair == PairAt(Query, k)
  <2>2. ParamText(uri, Param(e, a)) = pair
    BY <1>1, <1>5, <2>1, ParamIsPair
  <2>3. pair \in Seq(Byte) \X Seq(Byte)
    BY <1>1, <1>5, RemainingExists, PairFacts
  <2>4. ~StopAt(Query, k) /\ (LastAt(Query, k) <=> a > len) /\ NextAt(Query, k) = a - Cut + 1
    BY <1>1, <1>5, <2>1
  <2> HIDE DEF pair
  <2>5. ParamTexts' = ParamTexts \o <<pair>> /\ ParamTexts \o <<pair>> \in Pairs
    <3>1. params \in Seq({p \in [name : Nat, nameLen : Nat, value : Nat, valueLen : Nat] : InQuery(p)})
      BY DEF PathIInv, ParamsInQuery
    <3>2. ParamTexts' = TextsOf(uri, Append(params, Param(e, a)))
      BY <1>9, <1>12 DEF ParamTexts
    <3>3. TextsOf(uri, Append(params, Param(e, a))) = ParamTexts \o <<ParamText(uri, Param(e, a))>>
      BY <1>8, <2>2, <2>3, <3>1, AppendText DEF ParamTexts
    <3>4. <<pair>> \in Pairs
      BY <2>3 DEF Pairs
    <3>5. ParamTexts \o <<pair>> \in Pairs
      BY <1>8, <3>4, ConcatProperties DEF Pairs
    <3>6. QED BY <2>2, <3>2, <3>3, <3>5
  <2>6. CASE a > len /\ EndQuery
    <3>1. <<pair>> \in Pairs
      BY <2>3 DEF Pairs
    <3>2. P[k] = <<pair>>
      <4>1. <<pair>> \o <<>> = <<pair>>
        BY <3>1, ConcatEmptySeq DEF Pairs
      <4>2. P[k] = <<pair>> \o <<>>
        BY <1>7, <2>4, <2>6, Zenon DEF RestAt, pair
      <4>3. QED BY <4>1, <4>2
    <3>3. QueryReference(uri) = ParamTexts'
      BY <1>6, <2>5, <3>2
    <3>4. QED BY <1>9, <2>6, <3>3 DEF QueryRead, EndQuery
  <2>7. CASE a <= len /\ r' = a /\ UNCHANGED <<uri, buf, len, pc, w, from, at, path>>
    <3> DEFINE m == a - Cut + 1
    <3>1. a \in Nat /\ Cut \in 1..a /\ ~(a > len)
      BY <1>1, <2>1, <2>7
    <3>2. m \in 1..(Len(Query) + 2)
      BY <1>1, <1>5, <2>3, <2>4, <3>1, RemainingExists, PairFacts
    <3>3. P[m] \in Pairs /\ <<pair>> \in Pairs
      BY <1>6, <2>3, <3>2 DEF Remaining, Pairs
    <3>4. P[k] = <<pair>> \o P[m]
      BY <1>7, <2>4, <3>1 DEF RestAt, pair
    <3> HIDE DEF m
    <3>5. ParamTexts \o P[k] = (ParamTexts \o <<pair>>) \o P[m]
      <4>1. \A x, y, z \in Pairs : (x \o y) \o z = x \o (y \o z)
        <5> DEFINE S == Seq(Byte) \X Seq(Byte)
        <5>1. \A x, y, z \in Seq(S) : (x \o y) \o z = x \o (y \o z)
          <6> HIDE DEF S
          <6> QED BY ConcatAssociative
        <5>2. QED BY <5>1, Zenon DEF Pairs
      <4>2. (ParamTexts \o <<pair>>) \o P[m] = ParamTexts \o (<<pair>> \o P[m])
        BY <1>8, <3>3, <4>1, Zenon
      <4>3. QED BY <3>4, <4>2, Zenon
    <3>6. QueryReference(uri) = ParamTexts' \o P[m]
      BY <1>6, <2>5, <3>5
    <3>7. r' - Cut' + 1 = m /\ pc' = "param" /\ (Cut \in 1..r)'
      BY <1>1, <1>9, <2>7, <3>1 DEF m
    <3>8. (QueryReference(uri) = ParamTexts \o P[r - Cut + 1])'
      BY <1>9, <3>6, <3>7
    <3>9. QED BY <1>9, <3>7, <3>8 DEF QueryRead
  <2>8. QED BY <1>12, <2>6, <2>7
<1>13. QED BY <1>10, <1>11, <1>12 DEF ReadParam, e, a

\* The loops that rewrite the path leave the parameters alone.
LEMMA OtherReads ==
    ASSUME QueryRead, pc \notin {"query", "param"}, Next PROVE QueryRead'
<1>1. UNCHANGED <<uri, params>> /\ pc' \notin {"query", "param"} /\ (pc = "too_long" => pc' = "too_long")
  <2>1. CASE UrlDecode
    BY <2>1 DEF UrlDecode, Store, Fail
  <2>2. CASE Decoded
    BY <2>2 DEF Decoded
  <2>3. CASE Form
    BY <2>3 DEF Form, Fail, Finish, NormalizeFrom
  <2>4. CASE NormalizeSegment
    BY <2>4 DEF NormalizeSegment, KeepPath, Fail
  <2>5. CASE CopyByte
    BY <2>5 DEF CopyByte
  <2>6. CASE Normalized
    BY <2>6 DEF Normalized, Finish
  <2>7. CASE Returned
    BY <2>7 DEF Returned, vars
  <2>8. QED BY <2>1, <2>2, <2>3, <2>4, <2>5, <2>6, <2>7 DEF Next, FindQuery, ReadParam
<1>2. ParamTexts' = ParamTexts /\ QueryReference(uri)' = QueryReference(uri)
  BY <1>1, SameTexts
<1>3. QED BY <1>1, <1>2 DEF QueryRead

\* Every step keeps what was read and what is left together.
LEMMA QueryStep ==
    ASSUME PathIInv, PathIInv', QueryRead, [Next]_vars PROVE QueryRead'
<1>1. CASE UNCHANGED vars
  <2>1. UNCHANGED <<uri, params, pc, r>>
    BY <1>1 DEF vars
  <2>2. QED BY <2>1 DEF QueryRead, Remaining, Cut, Query, ParamTexts
<1>2. CASE Next /\ pc = "query"
  <2>1. FindQuery
    BY <1>2 DEF Next, ReadParam, UrlDecode, Decoded, Form, NormalizeSegment, CopyByte, Normalized, Returned
  <2>2. QED BY <2>1, FindQueryReads
<1>3. CASE Next /\ pc = "param"
  <2>1. ReadParam
    BY <1>3 DEF Next, FindQuery, UrlDecode, Decoded, Form, NormalizeSegment, CopyByte, Normalized, Returned
  <2>2. QED BY <2>1, ReadParamReads
<1>4. CASE Next /\ pc \notin {"query", "param"}
  BY <1>4, OtherReads
<1>5. QED BY <1>1, <1>2, <1>3, <1>4

\* What the readers see in the buffer is what was received.
LEMMA ParamsAsReceived ==
    ASSUME PathIInv, NEW k \in DOMAIN params
    PROVE  /\ Slice(buf, params[k].name, params[k].nameLen) = ParamTexts[k][1]
           /\ ValueOf(k) = ParamTexts[k][2]
<1> DEFINE p == params[k]
<1>1. /\ Len(uri) \in Nat /\ InQuery(p)
      /\ \A e \in 1..Len(uri) : (\E q \in 1..e : uri[q] \in {Question, Hash}) => buf[e] = uri[e]
  <2>1. params \in Seq({x \in [name : Nat, nameLen : Nat, value : Nat, valueLen : Nat] : InQuery(x)})
    BY DEF PathIInv, ParamsInQuery
  <2>2. params[k] \in {x \in [name : Nat, nameLen : Nat, value : Nat, valueLen : Nat] : InQuery(x)}
    BY <2>1
  <2>3. QED BY <2>2 DEF PathIInv, PathTypes, QueryUntouched
<1>2. ParamTexts[k] = ParamText(uri, p)
  BY DEF ParamTexts, TextsOf
<1> HIDE DEF p
<1>3. PICK q \in 1..(p.name - 1) : uri[q] = Question
  BY <1>1 DEF InQuery
<1>4. /\ p.name \in Nat /\ p.nameLen \in Nat /\ p.value \in Nat /\ p.valueLen \in Nat
      /\ p.name + p.nameLen <= Len(uri)
      /\ p.valueLen = 0 \/ (p.name < p.value /\ p.value + p.valueLen <= Len(uri) + 1)
  BY <1>1 DEF InQuery
<1>5. \A e \in (q + 1)..Len(uri) : buf[e] = uri[e]
  <2>1. TAKE e \in (q + 1)..Len(uri)
  <2>2. e \in 1..Len(uri) /\ q \in 1..e
    BY <1>1, <1>3, <1>4
  <2>3. QED BY <1>1, <1>3, <2>2
<1>6. \A e \in 1..p.nameLen : p.name + e - 1 \in (q + 1)..Len(uri)
  BY <1>1, <1>3, <1>4
<1>7. \A e \in 1..p.valueLen : p.value + e - 1 \in (q + 1)..Len(uri)
  <2> DEFINE end == Len(uri)
  <2>1. end \in Nat /\ (p.valueLen = 0 \/ (p.name < p.value /\ p.value + p.valueLen <= end + 1))
    BY <1>1, <1>4
  <2> HIDE DEF end
  <2>2. q \in 1..(p.name - 1) /\ p.name \in Nat /\ p.value \in Nat /\ p.valueLen \in Nat
    BY <1>3, <1>4
  <2>3. \A e \in 1..p.valueLen : p.value + e - 1 \in (q + 1)..end
    BY <2>1, <2>2
  <2>4. QED BY <2>3 DEF end
<1>8. Slice(buf, p.name, p.nameLen) = Slice(uri, p.name, p.nameLen)
  BY <1>5, <1>6 DEF Slice
<1>9. Slice(buf, p.value, p.valueLen) = Slice(uri, p.value, p.valueLen)
  BY <1>5, <1>7 DEF Slice
<1>10. QED BY <1>2, <1>8, <1>9 DEF ParamText, ValueOf, p

\* The reader of a parameter finds its values and reads a single one as the
\* reference does.
ReadsNumber(name, pairs, given) ==
    /\ Named(name) = given
    /\ Cardinality(given) = 1 <=> \E k \in given : given = {k}
    /\ Cardinality(given) = 1 =>
         LET text == pairs[CHOOSE k \in given : TRUE][2]
             id == ParseChallengeId(ValueOf(CHOOSE k \in Named(name) : TRUE))
         IN  (IF id = 0 THEN {} ELSE {id}) = PositiveReference(text, IntMax)

\* One value of a parameter is read as the reference reads it.
LEMMA NumberIsRead ==
    ASSUME PathIInv, NEW name, NEW pairs, pairs = ParamTexts,
           NEW given, given = {k \in DOMAIN pairs : pairs[k][1] = name}
    PROVE  ReadsNumber(name, pairs, given)
<1>1. DOMAIN pairs = DOMAIN params /\ DOMAIN params = 1..Len(params) /\ Len(params) \in Nat
  BY DEF ParamTexts, TextsOf, PathIInv, ParamsInQuery
<1>2. Named(name) = given
  BY <1>1, ParamsAsReceived DEF Named
<1>3. IsFiniteSet(given)
  <2>1. IsFiniteSet(1..Len(params))
    BY <1>1, FS_Interval
  <2>2. given \subseteq 1..Len(params)
    BY <1>1
  <2>3. QED BY <2>1, <2>2, FS_Subset
<1>4. Cardinality(given) = 1 <=> \E k \in given : given = {k}
  <2>1. Cardinality(given) = 1 <=> \E x : given = {x}
    BY <1>3, FS_Singleton
  <2>2. (\E x : given = {x}) <=> \E k \in given : given = {k}
    OBVIOUS
  <2>3. QED BY <2>1, <2>2
<1>5. ASSUME Cardinality(given) = 1
      PROVE  LET text == pairs[CHOOSE k \in given : TRUE][2]
                 id == ParseChallengeId(ValueOf(CHOOSE k \in Named(name) : TRUE))
             IN  (IF id = 0 THEN {} ELSE {id}) = PositiveReference(text, IntMax)
  <2> DEFINE c == CHOOSE k \in given : TRUE
  <2>1. c \in given
    BY <1>4, <1>5
  <2>2. c \in DOMAIN params
    BY <1>1, <2>1
  <2> HIDE DEF c
  <2>3. ValueOf(c) = pairs[c][2]
    BY <2>2, ParamsAsReceived
  <2>4. pairs[c] \in Seq(Byte) \X Seq(Byte)
    <3>1. ParamTexts \in Pairs
      BY ParamTextsFacts
    <3>2. pairs \in Seq(Seq(Byte) \X Seq(Byte)) /\ c \in DOMAIN pairs
      BY <1>1, <2>2, <3>1 DEF Pairs
    <3>3. QED BY <3>2
  <2>5. pairs[c][2] \in Seq(Byte)
    BY <2>4
  <2>6. (IF ParseChallengeId(pairs[c][2]) = 0 THEN {} ELSE {ParseChallengeId(pairs[c][2])})
          = PositiveReference(pairs[c][2], IntMax)
    BY <2>5, IdIsNumber
  <2>7. QED BY <1>2, <2>3, <2>6 DEF c
<1>6. QED BY <1>2, <1>4, <1>5 DEF ReadsNumber

\* At the end, the two readers agree with the reference.
LEMMA ReadersAreExact ==
    ASSUME PathIInv, QueryRead PROVE IdIsExact
<1> DEFINE pairs == QueryReference(uri)
           given(name) == {k \in DOMAIN pairs : pairs[k][1] = name}
           number(name) ==
               IF Cardinality(given(name)) # 1 THEN {}
               ELSE PositiveReference(pairs[CHOOSE k \in given(name) : TRUE][2], IntMax)
<1> SUFFICES ASSUME pc = "ok"
             PROVE  /\ (IF ReadChallengeId = 0 THEN {} ELSE {ReadChallengeId}) = number(IdName)
                    /\ IF given(FilterName) = {} THEN AnswerFilter = -1
                       ELSE (IF AnswerFilter = 0 THEN {} ELSE {AnswerFilter}) = number(FilterName)
  BY DEF IdIsExact
<1>1. pairs = ParamTexts
  BY DEF QueryRead
<1> HIDE DEF pairs
<1>2. \A name :
        /\ Named(name) = given(name)
        /\ Cardinality(given(name)) = 1 <=> \E k \in given(name) : given(name) = {k}
        /\ Cardinality(given(name)) = 1 =>
             LET id == ParseChallengeId(ValueOf(CHOOSE k \in Named(name) : TRUE))
             IN  (IF id = 0 THEN {} ELSE {id}) = number(name)
  <2>1. TAKE name
  <2> DEFINE g == given(name)
  <2>2. g = {k \in DOMAIN pairs : pairs[k][1] = name}
    OBVIOUS
  <2>3. number(name) = IF Cardinality(g) # 1 THEN {} ELSE PositiveReference(pairs[CHOOSE k \in g : TRUE][2], IntMax)
    OBVIOUS
  <2> HIDE DEF g, number
  <2>4. ReadsNumber(name, pairs, g)
    BY <1>1, <2>2, NumberIsRead
  <2>5. Cardinality(g) = 1 =>
             LET id == ParseChallengeId(ValueOf(CHOOSE k \in Named(name) : TRUE))
             IN  (IF id = 0 THEN {} ELSE {id}) = number(name)
    BY <2>3, <2>4 DEF ReadsNumber
  <2>6. QED BY <2>4, <2>5 DEF g, ReadsNumber
<1>3. \A name : Cardinality(given(name)) # 1 => number(name) = {}
  OBVIOUS
<1> HIDE DEF given, number
<1>4. (IF ReadChallengeId = 0 THEN {} ELSE {ReadChallengeId}) = number(IdName)
  <2>1. CASE Cardinality(given(IdName)) = 1
    BY <1>2, <2>1, Zenon DEF ReadChallengeId
  <2>2. CASE Cardinality(given(IdName)) # 1
    <3>1. ReadChallengeId = 0
      BY <1>2, <2>2, Zenon DEF ReadChallengeId
    <3>2. QED BY <1>3, <2>2, <3>1
  <2>3. QED BY <2>1, <2>2
<1>5. IF given(FilterName) = {} THEN AnswerFilter = -1
      ELSE (IF AnswerFilter = 0 THEN {} ELSE {AnswerFilter}) = number(FilterName)
  <2>1. CASE given(FilterName) = {}
    BY <1>2, <2>1 DEF AnswerFilter
  <2>2. CASE given(FilterName) # {} /\ Cardinality(given(FilterName)) = 1
    BY <1>2, <2>2, Zenon DEF AnswerFilter
  <2>3. CASE given(FilterName) # {} /\ Cardinality(given(FilterName)) # 1
    <3>1. AnswerFilter = 0
      BY <1>2, <2>3, Zenon DEF AnswerFilter
    <3>2. QED BY <1>3, <2>3, <3>1
  <2>4. QED BY <2>1, <2>2, <2>3
<1>6. QED BY <1>4, <1>5

\* read_challenge_id and answer_filter get exactly the number that was sent,
\* for every target: parse_query_params records the query's names and values
\* in order, the rewriting of the path leaves their bytes alone, and the digit
\* loop computes every number up to INT_MAX and refuses every other text.
THEOREM IdsAreExact == TextsSpec => []IdIsExact
<1> DEFINE I == PathIInv /\ QueryRead
<1>1. TextsInit => I
  <2> SUFFICES ASSUME TextsInit PROVE I
    OBVIOUS
  <2>1. Init /\ pc = "query" /\ params = <<>>
    BY DEF TextsInit, Init
  <2>2. QED BY <2>1, PathInit DEF QueryRead
<1>2. I /\ [TextsNext]_<<vars, job, result>> => I'
  <2> SUFFICES ASSUME I, [TextsNext]_<<vars, job, result>> PROVE I'
    OBVIOUS
  <2>1. [Next]_vars
    BY DEF TextsNext, DoJob
  <2>2. PathIInv'
    BY <2>1, PathStep
  <2>3. QED BY <2>1, <2>2, QueryStep
<1>3. I => IdIsExact
  BY ReadersAreExact
<1>4. QED BY <1>1, <1>2, <1>3, PTL DEF TextsSpec

-----------------------------------------------------------------------------
(* Paths: url_decode and normalize_path against PathReference. *)

\* The names a path consists of, and what spells a list of them.
Word == {n \in Seq(Byte) : n # <<>> /\ \A k \in DOMAIN n : n[k] # Slash}

Spelling(f, st) == f[0] = <<>> /\ \A k \in 1..Len(st) : f[k] = f[k - 1] \o <<47>> \o st[k]

Spells(t, st) ==
    /\ t \in Seq(Byte) /\ st \in Seq(Word)
    /\ \E f \in [0..Len(st) -> Seq(Byte)] : f[Len(st)] = t /\ Spelling(f, st)

\* A text, a slash and a name.
LEMMA Joined ==
    ASSUME NEW t \in Seq(Byte), NEW n \in Seq(Byte)
    PROVE  /\ t \o <<47>> \o n \in Seq(Byte)
           /\ Len(t \o <<47>> \o n) = Len(t) + 1 + Len(n)
           /\ \A k \in 1..Len(t) : (t \o <<47>> \o n)[k] = t[k]
           /\ (t \o <<47>> \o n)[Len(t) + 1] = 47
           /\ \A k \in 1..Len(n) : (t \o <<47>> \o n)[Len(t) + 1 + k] = n[k]
<1> DEFINE a == t \o <<47>>
<1>1. Len(t) \in Nat /\ Len(n) \in Nat /\ 47 \in Byte
  BY DEF Byte
<1>2. /\ a \in Seq(Byte) /\ Len(a) = Len(t) + 1 /\ \A k \in 1..Len(t) : a[k] = t[k] /\ a[Len(t) + 1] = 47
  <2>1. <<47>> \in Seq(Byte) /\ Len(<<47>>) = 1 /\ <<47>>[1] = 47
    BY <1>1
  <2>2. QED BY <1>1, <2>1
<1> HIDE DEF a
<1>3. /\ a \o n \in Seq(Byte) /\ Len(a \o n) = Len(a) + Len(n)
      /\ \A k \in 1..Len(a) : (a \o n)[k] = a[k]
      /\ \A k \in 1..Len(n) : (a \o n)[Len(a) + k] = n[k]
  <2>1. /\ a \o n \in Seq(Byte) /\ Len(a \o n) = Len(a) + Len(n)
        /\ \A k \in 1..(Len(a) + Len(n)) :
               (a \o n)[k] = IF k <= Len(a) THEN a[k] ELSE n[k - Len(a)]
    <3>1. a \in Seq(Byte)
      BY <1>2
    <3>2. QED BY <3>1, ConcatProperties
  <2> DEFINE l == Len(a)
             m == Len(n)
  <2>2. l \in Nat /\ m \in Nat
    BY <1>1, <1>2
  <2> HIDE DEF l, m
  <2>3. /\ \A k \in 1..l : k \in 1..(l + m) /\ k <= l
        /\ \A k \in 1..m : l + k \in 1..(l + m) /\ ~(l + k <= l) /\ (l + k) - l = k
    BY <2>2
  <2>4. QED BY <2>1, <2>3 DEF l, m
<1>4. QED BY <1>1, <1>2, <1>3 DEF a

\* Nothing spells nothing.
LEMMA SpellsNothing == Spells(<<>>, <<>>)
<1>1. [k \in {0} |-> <<>>] \in [0..0 -> Seq(Byte)] /\ Spelling([k \in {0} |-> <<>>], <<>>)
  BY DEF Spelling
<1>2. <<>> \in Seq(Byte) /\ <<>> \in Seq(Word) /\ Len(<<>>) = 0
  OBVIOUS
<1>3. QED BY <1>1, <1>2 DEF Spells

\* A name more.
LEMMA SpellsAppend ==
    ASSUME NEW t, NEW st, Spells(t, st), NEW n \in Word
    PROVE  Spells(t \o <<47>> \o n, Append(st, n))
<1>1. t \in Seq(Byte) /\ st \in Seq(Word) /\ n \in Seq(Byte)
  BY DEF Spells, Word
<1>2. PICK f \in [0..Len(st) -> Seq(Byte)] : f[Len(st)] = t /\ Spelling(f, st)
  BY DEF Spells
<1> DEFINE u == t \o <<47>> \o n
           m == Len(st)
           su == Append(st, n)
           g == [k \in 0..(m + 1) |-> IF k = m + 1 THEN u ELSE f[k]]
<1>3. u \in Seq(Byte)
  BY <1>1, Joined
<1>4. /\ m \in Nat /\ su \in Seq(Word) /\ Len(su) = m + 1 /\ su[m + 1] = n
      /\ \A k \in 1..m : su[k] = st[k]
  BY <1>1
<1> HIDE DEF u, su, m
<1>5. g \in [0..(m + 1) -> Seq(Byte)]
  BY <1>2, <1>3, <1>4 DEF m
<1>6. g[m + 1] = u /\ \A k \in 0..m : g[k] = f[k]
  BY <1>4
<1> HIDE DEF g
<1>7. ASSUME NEW k \in 1..(m + 1) PROVE g[k] = g[k - 1] \o <<47>> \o su[k]
  <2>1. CASE k = m + 1
    <3>1. g[k] = u /\ k - 1 = m /\ g[k - 1] = f[m] /\ su[k] = n
      BY <1>4, <1>6, <2>1
    <3>2. QED BY <1>2, <3>1 DEF u, m
  <2>2. CASE k # m + 1
    <3>1. k \in 1..m /\ k \in 0..m /\ k - 1 \in 0..m
      BY <1>4, <2>2
    <3>2. g[k] = f[k] /\ g[k - 1] = f[k - 1] /\ su[k] = st[k]
      BY <1>4, <1>6, <3>1
    <3>3. f[k] = f[k - 1] \o <<47>> \o st[k]
      BY <1>2, <3>1 DEF Spelling, m
    <3>4. QED BY <3>2, <3>3
  <2>3. QED BY <2>1, <2>2
<1>8. g[0] = <<>>
  BY <1>2, <1>4, <1>6 DEF Spelling
<1>9. Spelling(g, su)
  BY <1>4, <1>7, <1>8 DEF Spelling
<1>10. Spells(u, su)
  BY <1>3, <1>4, <1>5, <1>6, <1>9 DEF Spells
<1>11. QED BY <1>10 DEF u, su

\* A sequence without its last member.
LEMMA FrontFacts ==
    ASSUME NEW S, NEW st \in Seq(S), st # <<>>
    PROVE  /\ Front(st) \in Seq(S) /\ Len(Front(st)) = Len(st) - 1
           /\ \A k \in 1..(Len(st) - 1) : Front(st)[k] = st[k]
<1> DEFINE m == Len(st) - 1
           t == SubSeq(st, 1, m)
<1>1. m \in Nat /\ m <= Len(st)
  OBVIOUS
<1>2. t \in Seq(S) /\ Len(t) = m /\ \A k \in 1..m : t[k] = st[k]
  <2> HIDE DEF m
  <2> QED BY <1>1
<1>3. Front(st) = t
  BY DEF Front
<1>4. QED BY <1>2, <1>3

\* A name less.
LEMMA SpellsFront ==
    ASSUME NEW t, NEW st, Spells(t, st), st # <<>>
    PROVE  \E u \in Seq(Byte), n \in Word : t = u \o <<47>> \o n /\ Spells(u, Front(st))
<1>1. t \in Seq(Byte) /\ st \in Seq(Word)
  BY DEF Spells
<1>2. PICK f \in [0..Len(st) -> Seq(Byte)] : f[Len(st)] = t /\ Spelling(f, st)
  BY DEF Spells
<1> DEFINE m == Len(st)
           sf == Front(st)
           u == f[m - 1]
           g == [k \in 0..(m - 1) |-> f[k]]
<1>3. m \in Nat \ {0} /\ st[m] \in Word
  BY <1>1
<1>4. sf \in Seq(Word) /\ Len(sf) = m - 1 /\ \A k \in 1..(m - 1) : sf[k] = st[k]
  BY <1>1, FrontFacts
<1>5. u \in Seq(Byte) /\ t = u \o <<47>> \o st[m]
  <2>1. m \in 1..m /\ m - 1 \in 0..m
    BY <1>3
  <2>2. QED BY <1>2, <2>1 DEF Spelling
<1>6. g \in [0..(m - 1) -> Seq(Byte)] /\ g[m - 1] = u /\ g[0] = <<>>
  BY <1>2, <1>3 DEF Spelling
<1>7. ASSUME NEW k \in 1..(m - 1) PROVE g[k] = g[k - 1] \o <<47>> \o sf[k]
  <2>1. k \in 1..m /\ k \in 0..(m - 1) /\ k - 1 \in 0..(m - 1)
    BY <1>3
  <2>2. g[k] = f[k] /\ g[k - 1] = f[k - 1] /\ sf[k] = st[k]
    BY <1>4, <2>1
  <2>3. f[k] = f[k - 1] \o <<47>> \o st[k]
    BY <1>2, <2>1 DEF Spelling
  <2>4. QED BY <2>2, <2>3
<1> HIDE DEF g, sf, m, u
<1>8. Spelling(g, sf)
  BY <1>4, <1>6, <1>7 DEF Spelling
<1>9. Spells(u, sf)
  BY <1>4, <1>5, <1>6, <1>8 DEF Spells
<1>10. QED BY <1>3, <1>5, <1>9 DEF sf

\* Only nothing is spelt by nothing.
LEMMA SpellsEmpty ==
    ASSUME NEW t, NEW st, Spells(t, st)
    PROVE  st = <<>> <=> t = <<>>
<1>1. t \in Seq(Byte) /\ st \in Seq(Word)
  BY DEF Spells
<1>2. ASSUME st = <<>> PROVE t = <<>>
  <2>1. Len(st) = 0
    BY <1>2
  <2>2. QED BY <2>1 DEF Spells, Spelling
<1>3. ASSUME st # <<>> PROVE t # <<>>
  <2>1. PICK u \in Seq(Byte), n \in Word : t = u \o <<47>> \o n
    BY <1>3, SpellsFront
  <2>2. n \in Seq(Byte)
    BY DEF Word
  <2>3. Len(t) = Len(u) + 1 + Len(n) /\ Len(u) \in Nat /\ Len(n) \in Nat
    BY <2>1, <2>2, Joined
  <2>4. Len(t) # 0
    BY <2>3
  <2>5. QED BY <2>4
<1>4. QED BY <1>2, <1>3

\* PathText writes what spells the names.
LEMMA SpellsText ==
    ASSUME NEW t, NEW st, Spells(t, st)
    PROVE  PathText(st) = IF st = <<>> THEN <<47>> ELSE t
<1>1. t \in Seq(Byte) /\ st \in Seq(Word) /\ Len(st) \in Nat
  BY DEF Spells
<1>2. PICK f \in [0..Len(st) -> Seq(Byte)] : f[Len(st)] = t /\ Spelling(f, st)
  BY DEF Spells
<1> DEFINE m == Len(st)
           Image(g) == [k \in 0..m |-> IF k = 0 THEN <<>> ELSE g[k - 1] \o <<47>> \o st[k]]
           V == CHOOSE g : g = Image(g)
<1>3. f = Image(f)
  <2>1. \A k \in 0..m : f[k] = IF k = 0 THEN <<>> ELSE f[k - 1] \o <<47>> \o st[k]
    <3>1. TAKE k \in 0..m
    <3>2. k = 0 \/ k \in 1..m
      BY <1>1
    <3>3. QED BY <1>2, <3>2 DEF Spelling
  <2>2. QED BY <1>2, <2>1
<1>4. V = Image(V)
  <2> HIDE DEF Image
  <2> QED BY <1>3
<1>5. \A k \in 0..m : V[k] = IF k = 0 THEN <<>> ELSE V[k - 1] \o <<47>> \o st[k]
  <2>1. \A g : \A k \in 0..m : Image(g)[k] = IF k = 0 THEN <<>> ELSE g[k - 1] \o <<47>> \o st[k]
    OBVIOUS
  <2> HIDE DEF V, Image
  <2>2. QED BY <1>4, <2>1
<1>6. PathText(st) = IF st = <<>> THEN <<47>> ELSE V[m]
  BY DEF PathText
<1> HIDE DEF V
<1>7. V[m] = f[m]
  <2> DEFINE G == {k \in 0..m : V[k] = f[k]}
  <2>1. 0 \in G
    <3>1. V[0] = <<>> /\ f[0] = <<>> /\ 0 \in 0..m
      BY <1>1, <1>2, <1>5 DEF Spelling
    <3>2. QED BY <3>1
  <2>2. ASSUME NEW k \in 0..(m - 1), k \in G PROVE k + 1 \in G
    <3>1. k + 1 \in 1..m /\ k + 1 \in 0..m /\ k + 1 # 0 /\ (k + 1) - 1 = k /\ V[k] = f[k]
      BY <1>1, <2>2
    <3>2. V[k + 1] = V[k] \o <<47>> \o st[k + 1]
      BY <1>5, <3>1
    <3>3. f[k + 1] = f[k] \o <<47>> \o st[k + 1]
      BY <1>2, <3>1 DEF Spelling
    <3>4. QED BY <3>1, <3>2, <3>3
  <2>3. m \in Nat /\ m \in 0..m
    BY <1>1
  <2> HIDE DEF G, m
  <2>4. m \in G
    BY <2>1, <2>2, <2>3, UpTo
  <2>5. QED BY <2>4 DEF G
<1>8. QED BY <1>2, <1>6, <1>7

\* What the k-th name makes of the names resolved before it.
ResolveAt(ns, X, k) ==
    IF ns[k] = <<46>> THEN X
    ELSE IF ns[k] = <<46, 46>> THEN {Front(p) : p \in {q \in X : q # <<>>}}
    ELSE {Append(p, ns[k]) : p \in X}

Resolving(f, ns, j) == f[0] = {<<>>} /\ \A k \in 1..j : f[k] = ResolveAt(ns, f[k - 1], k)

\* The first j names resolve to X.
Reaches(ns, j, X) == j \in 0..Len(ns) /\ \E f : f[j] = X /\ Resolving(f, ns, j)

\* No name resolves to no name.
LEMMA ReachesNothing ==
    ASSUME NEW ns, Len(ns) \in Nat PROVE Reaches(ns, 0, {<<>>})
<1>1. Resolving([k \in {0} |-> {<<>>}], ns, 0)
  BY DEF Resolving
<1>2. 0 \in 0..Len(ns) /\ [k \in {0} |-> {<<>>}][0] = {<<>>}
  OBVIOUS
<1>3. QED BY <1>1, <1>2 DEF Reaches

\* One name more.
LEMMA ReachesNext ==
    ASSUME NEW ns, Len(ns) \in Nat, NEW j, NEW X, Reaches(ns, j, X), j + 1 <= Len(ns)
    PROVE  Reaches(ns, j + 1, ResolveAt(ns, X, j + 1))
<1>1. j \in 0..Len(ns) /\ j \in Nat
  BY DEF Reaches
<1>2. PICK f : f[j] = X /\ Resolving(f, ns, j)
  BY DEF Reaches
<1> DEFINE Y == ResolveAt(ns, X, j + 1)
           g == [k \in 0..(j + 1) |-> IF k = j + 1 THEN Y ELSE f[k]]
<1> HIDE DEF Y
<1>3. g[j + 1] = Y /\ \A k \in 0..j : g[k] = f[k]
  BY <1>1
<1> HIDE DEF g
<1>4. ASSUME NEW k \in 1..(j + 1) PROVE g[k] = ResolveAt(ns, g[k - 1], k)
  <2>1. CASE k = j + 1
    <3>1. k - 1 = j /\ j \in 0..j
      BY <1>1, <2>1
    <3>2. g[k] = Y /\ g[k - 1] = X
      BY <1>2, <1>3, <2>1, <3>1
    <3>3. QED BY <2>1, <3>2 DEF Y
  <2>2. CASE k # j + 1
    <3>1. k \in 1..j /\ k \in 0..j /\ k - 1 \in 0..j
      BY <1>1, <2>2
    <3>2. g[k] = f[k] /\ g[k - 1] = f[k - 1]
      BY <1>3, <3>1
    <3>3. f[k] = ResolveAt(ns, f[k - 1], k)
      BY <1>2, <3>1 DEF Resolving
    <3>4. QED BY <3>2, <3>3
  <2>3. QED BY <2>1, <2>2
<1>5. g[0] = {<<>>}
  BY <1>1, <1>2, <1>3 DEF Resolving
<1>6. Resolving(g, ns, j + 1)
  BY <1>4, <1>5 DEF Resolving
<1>7. j + 1 \in 0..Len(ns)
  BY <1>1
<1>8. QED BY <1>3, <1>6, <1>7 DEF Reaches, Y

\* All names.
LEMMA ReachesAll ==
    ASSUME NEW ns, Len(ns) \in Nat, NEW X, Reaches(ns, Len(ns), X)
    PROVE  Resolved(ns) = X
<1> DEFINE m == Len(ns)
           At0(g, k) == IF k = 0 THEN {<<>>} ELSE ResolveAt(ns, g[k - 1], k)
           Image(g) == [k \in 0..m |-> At0(g, k)]
           V == CHOOSE g : g = Image(g)
<1>1. PICK h : h[m] = X /\ Resolving(h, ns, m)
  BY DEF Reaches
<1> DEFINE f == [k \in 0..m |-> h[k]]
<1>2. \A k \in 0..m : f[k] = At0(f, k)
  <2>1. TAKE k \in 0..m
  <2>2. CASE k = 0
    BY <1>1, <2>2 DEF Resolving
  <2>3. CASE k # 0
    <3>1. k \in 1..m /\ k - 1 \in 0..m
      BY <2>3
    <3>2. f[k] = h[k] /\ f[k - 1] = h[k - 1]
      BY <3>1
    <3> HIDE DEF f
    <3>3. h[k] = ResolveAt(ns, h[k - 1], k)
      BY <1>1, <3>1 DEF Resolving
    <3>4. QED BY <2>3, <3>2, <3>3
  <2>4. QED BY <2>2, <2>3
<1>3. f = Image(f)
  <2> HIDE DEF At0
  <2> QED BY <1>2
<1>4. V = Image(V)
  <2> HIDE DEF Image, f
  <2> QED BY <1>3
<1>5. \A k \in 0..m : V[k] = At0(V, k)
  <2>1. \A g : \A k \in 0..m : Image(g)[k] = At0(g, k)
    <3> HIDE DEF At0
    <3> QED OBVIOUS
  <2> HIDE DEF V, Image, At0
  <2>2. QED BY <1>4, <2>1
<1>6. Resolved(ns) = V[m]
  BY DEF Resolved, ResolveAt
<1> HIDE DEF V, f
<1>7. V[m] = h[m]
  <2> DEFINE G == {k \in 0..m : V[k] = h[k]}
  <2>1. 0 \in G
    <3>1. V[0] = {<<>>} /\ h[0] = {<<>>} /\ 0 \in 0..m
      BY <1>1, <1>5 DEF Resolving
    <3>2. QED BY <3>1
  <2>2. ASSUME NEW k \in 0..(m - 1), k \in G PROVE k + 1 \in G
    <3>1. k + 1 \in 1..m /\ k + 1 \in 0..m /\ k + 1 # 0 /\ (k + 1) - 1 = k /\ V[k] = h[k]
      BY <2>2
    <3>2. V[k + 1] = ResolveAt(ns, V[k], k + 1)
      BY <1>5, <3>1
    <3>3. h[k + 1] = ResolveAt(ns, h[k], k + 1)
      BY <1>1, <3>1 DEF Resolving
    <3>4. QED BY <3>1, <3>2, <3>3
  <2>3. m \in Nat /\ m \in 0..m
    OBVIOUS
  <2> HIDE DEF G, m
  <2>4. m \in G
    BY <2>1, <2>2, <2>3, UpTo
  <2>5. QED BY <2>4 DEF G
<1>8. QED BY <1>1, <1>6, <1>7

\* From nothing nothing comes.
LEMMA ReachesNoMore ==
    ASSUME NEW ns, Len(ns) \in Nat, NEW j, Reaches(ns, j, {})
    PROVE  Resolved(ns) = {}
<1>1. j \in 0..Len(ns) /\ j \in Nat /\ Len(ns) - j \in Nat
  BY DEF Reaches
<1> DEFINE m == Len(ns) - j
           G == {k \in 0..m : Reaches(ns, j + k, {})}
<1>2. 0 \in G
  <2>1. j + 0 = j
    BY <1>1
  <2>2. QED BY <1>1, <2>1
<1>3. ASSUME NEW k \in 0..(m - 1), k \in G PROVE k + 1 \in G
  <2>1. k + 1 \in 0..m /\ j + (k + 1) = (j + k) + 1 /\ (j + k) + 1 <= Len(ns)
    BY <1>1
  <2>2. Reaches(ns, j + k, {})
    BY <1>3
  <2>3. Reaches(ns, (j + k) + 1, ResolveAt(ns, {}, (j + k) + 1))
    BY <2>1, <2>2, ReachesNext
  <2>4. ResolveAt(ns, {}, (j + k) + 1) = {}
    BY DEF ResolveAt
  <2>5. QED BY <2>1, <2>3, <2>4
<1>4. m \in Nat /\ m \in 0..m /\ j + m = Len(ns)
  BY <1>1
<1>5. m \in G
  <2> HIDE DEF G, m
  <2> QED BY <1>2, <1>3, <1>4, UpTo
<1>6. Reaches(ns, Len(ns), {})
  BY <1>4, <1>5
<1>7. QED BY <1>6, ReachesAll

\* The name that begins at position k of a path.
WordAt(s, k) == Before(After(s, k - 1), {47})

\* The recursion of Names, at the k-th byte of a path.
NamesAt(s, f, k) ==
    IF k > Len(s) THEN <<>>
    ELSE IF s[k] = 47 THEN f[k + 1] ELSE <<WordAt(s, k)>> \o f[k + Len(WordAt(s, k))]

NamesLoop(s) == CHOOSE f : f = [k \in 1..(Len(s) + 1) |-> NamesAt(s, f, k)]

\* A name ends before the next slash or with the path.
LEMMA WordIs ==
    ASSUME NEW s \in Seq(Byte), NEW a \in 1..Len(s), NEW b \in a..Len(s),
           \A k \in a..b : s[k] # 47, b < Len(s) => s[b + 1] = 47
    PROVE  /\ WordAt(s, a) = SubSeq(s, a, b) /\ WordAt(s, a) \in Word
           /\ Len(WordAt(s, a)) = b - a + 1
           /\ \A k \in 1..(b - a + 1) : WordAt(s, a)[k] = s[(a - 1) + k]
<1> DEFINE t == After(s, a - 1)
           m == b - a + 1
<1>1. /\ Len(s) \in Nat /\ a - 1 \in Nat /\ a - 1 <= Len(s) /\ a \in Nat /\ b \in Nat
      /\ m \in Nat /\ m <= Len(s) - (a - 1) /\ m >= 1
      /\ (a - 1) + m = b /\ \A k \in 1..m : (a - 1) + k \in a..b
      /\ m < Len(s) - (a - 1) => b < Len(s) /\ (a - 1) + (m + 1) = b + 1 /\ m + 1 \in 1..(Len(s) - (a - 1))
      /\ \A k \in 1..m : k \in 1..(Len(s) - (a - 1))
  OBVIOUS
<1>2. /\ t \in Seq(Byte) /\ Len(t) = Len(s) - (a - 1)
      /\ \A k \in 1..(Len(s) - (a - 1)) : t[k] = s[(a - 1) + k]
  <2> DEFINE d == a - 1
  <2>1. d \in Nat /\ d <= Len(s)
    BY <1>1
  <2> HIDE DEF d
  <2>2. /\ After(s, d) \in Seq(Byte) /\ Len(After(s, d)) = Len(s) - d
        /\ \A k \in 1..(Len(s) - d) : After(s, d)[k] = s[d + k]
    BY <2>1, AfterFacts
  <2>3. QED BY <2>2 DEF d
<1> HIDE DEF t, m
<1>3. ASSUME NEW k \in 1..m PROVE t[k] \notin {47}
  <2>1. k \in 1..(Len(s) - (a - 1)) /\ (a - 1) + k \in a..b
    BY <1>1
  <2>2. t[k] = s[(a - 1) + k]
    BY <1>2, <2>1
  <2>3. QED BY <2>1, <2>2
<1>4. m < Len(t) => t[m + 1] \in {47}
  <2> SUFFICES ASSUME m < Len(t) PROVE t[m + 1] = 47
    OBVIOUS
  <2>1. b < Len(s) /\ (a - 1) + (m + 1) = b + 1 /\ m + 1 \in 1..(Len(s) - (a - 1))
    BY <1>1, <1>2
  <2>2. t[m + 1] = s[(a - 1) + (m + 1)]
    BY <1>2, <2>1
  <2>3. QED BY <2>1, <2>2
<1>5. CutAt(t, {47}, m)
  <2>1. m \in 0..Len(t)
    BY <1>1, <1>2
  <2>2. QED BY <1>3, <1>4, <2>1 DEF CutAt
<1>6. WordAt(s, a) = SubSeq(t, 1, m)
  BY <1>2, <1>5, BeforeIs DEF WordAt, t
<1> DEFINE v == SubSeq(t, 0 + 1, m)
<1>7. v \in Seq(Byte) /\ Len(v) = m /\ \A k \in 1..m : v[k] = t[0 + k]
  <2>1. m - 0 = m /\ 0 \in Nat /\ 0 <= m /\ m <= Len(t)
    BY <1>1, <1>2
  <2>2. QED BY <1>1, <1>2, <2>1, Parts
<1>8. v = SubSeq(t, 1, m)
  OBVIOUS
<1> HIDE DEF v
<1>9. ASSUME NEW k \in 1..m PROVE v[k] = s[(a - 1) + k] /\ v[k] # 47
  <2>1. 0 + k = k /\ k \in 1..(Len(s) - (a - 1))
    BY <1>1
  <2>2. v[k] = t[k] /\ t[k] = s[(a - 1) + k]
    BY <1>2, <1>7, <2>1
  <2>3. QED BY <1>3, <2>2
<1>10. v \in Word
  <2>1. DOMAIN v = 1..m /\ v # <<>>
    BY <1>1, <1>7
  <2>2. QED BY <1>7, <1>9, <2>1 DEF Word, Slash
<1>11. v = SubSeq(s, a, b)
  <2> DEFINE d == a - 1
             z == SubSeq(s, d + 1, b)
  <2>2. b - d = m /\ d + 1 = a /\ d \in Nat /\ d <= b /\ b <= Len(s)
    BY <1>1 DEF m
  <2> HIDE DEF d
  <2>1. /\ z \in Seq(Byte) /\ Len(z) = b - d /\ \A k \in 1..(b - d) : z[k] = s[d + k]
    BY <1>1, <2>2, Parts
  <2>3. z = SubSeq(s, a, b)
    BY <2>2
  <2> HIDE DEF z
  <2>4. Len(v) = Len(z) /\ \A k \in 1..Len(v) : v[k] = z[k]
    BY <1>7, <1>9, <2>1, <2>2 DEF d
  <2>5. v = z
    BY <1>7, <2>1, <2>4, SeqEqual
  <2>6. QED BY <2>3, <2>5
<1>12. QED BY <1>6, <1>7, <1>8, <1>9, <1>10, <1>11 DEF m

\* There is a name where there is no slash.
LEMMA WordFacts ==
    ASSUME NEW s \in Seq(Byte), NEW a \in 1..Len(s), s[a] # 47
    PROVE  /\ WordAt(s, a) \in Word
           /\ a + Len(WordAt(s, a)) \in (a + 1)..(Len(s) + 1)
<1> DEFINE ends == {b \in a..Len(s) : b < Len(s) => s[b + 1] = 47}
<1>1. Len(s) \in Nat /\ a \in Nat
  OBVIOUS
<1>2. Len(s) \in ends /\ ends \subseteq Nat
  BY <1>1
<1>3. PICK b \in ends : \A c \in ends : b <= c
  <2> HIDE DEF ends
  <2> QED BY <1>2, Least
<1>4. b \in a..Len(s) /\ b \in Nat /\ (b < Len(s) => s[b + 1] = 47)
  BY <1>2
<1>5. ASSUME NEW k \in a..b PROVE s[k] # 47
  <2>1. CASE k = a
    BY <2>1
  <2>2. CASE k # a
    <3>1. k - 1 \in a..Len(s) /\ ~(b <= k - 1) /\ (k - 1) + 1 = k /\ k - 1 < Len(s)
      BY <1>1, <1>4, <2>2
    <3>2. k - 1 \notin ends
      <4> HIDE DEF ends
      <4> QED BY <1>3, <3>1
    <3>3. QED BY <3>1, <3>2
  <2>3. QED BY <2>1, <2>2
<1> HIDE DEF ends
<1>6. WordAt(s, a) \in Word /\ Len(WordAt(s, a)) = b - a + 1
  BY <1>4, <1>5, WordIs
<1>7. a + (b - a + 1) \in (a + 1)..(Len(s) + 1)
  BY <1>1, <1>4
<1>8. QED BY <1>6, <1>7

\* Names begins its own recursion.
LEMMA NamesFacts ==
    ASSUME NEW s \in Seq(Byte)
    PROVE  /\ Names(s) = NamesLoop(s)[1]
           /\ \A k \in 1..(Len(s) + 1) : /\ NamesLoop(s)[k] = NamesAt(s, NamesLoop(s), k)
                                         /\ NamesLoop(s)[k] \in Seq(Word)
<1> DEFINE n == Len(s) + 1
           W == Seq(Word)
           Image(f) == [k \in 1..n |-> NamesAt(s, f, k)]
           V == CHOOSE f : f = Image(f)
           next == [k \in 1..n |-> IF k > Len(s) THEN 0
                                   ELSE IF s[k] = 47 THEN k + 1 ELSE k + Len(WordAt(s, k))]
           given == [k \in 1..n |-> <<>>]
           step == [p \in (1..n) \X W |->
                      IF p[1] > Len(s) THEN <<>> ELSE IF s[p[1]] = 47 THEN p[2] ELSE <<WordAt(s, p[1])>> \o p[2]]
<1>1. n \in Nat /\ 1 \in 1..n /\ Len(s) \in Nat /\ \A k \in 1..n : k > Len(s) \/ k \in 1..Len(s)
  OBVIOUS
<1>2. \A k \in 1..n : ~(k > Len(s)) /\ s[k] # 47 =>
          WordAt(s, k) \in Word /\ k + Len(WordAt(s, k)) \in (k + 1)..n
  BY <1>1, WordFacts
<1>3. \A k \in 1..n : ~(k > Len(s)) => k + 1 \in (k + 1)..n
  BY <1>1
<1>4. <<>> \in W /\ \A x \in Word, f \in W : <<x>> \o f \in W
  <2>1. \A x \in Word : <<x>> \in W
    OBVIOUS
  <2>2. QED BY <2>1, ConcatProperties
<1> HIDE DEF n
<1>5. given \in [1..n -> W]
  BY <1>4
<1>6. IsStep(step, n, W)
  <2>1. ASSUME NEW p \in (1..n) \X W
        PROVE  (IF p[1] > Len(s) THEN <<>> ELSE IF s[p[1]] = 47 THEN p[2] ELSE <<WordAt(s, p[1])>> \o p[2]) \in W
    <3>1. p[1] \in 1..n /\ p[2] \in W
      OBVIOUS
    <3> HIDE DEF W
    <3>2. QED BY <1>2, <1>4, <3>1
  <2> HIDE DEF W
  <2>2. QED BY <2>1 DEF IsStep
<1>7. PICK f : f \in [1..n -> W] /\ \A k \in 1..n :
                  f[k] = IF next[k] \in (k + 1)..n THEN step[<<k, f[next[k]]>>] ELSE given[k]
  <2> HIDE DEF next, given, step, W
  <2>1. \E f : Refers(f, n, W, next, given, step)
    BY <1>1, <1>5, <1>6, Backwards
  <2>2. QED BY <2>1 DEF Refers
<1>8. \A k \in 1..n : f[k] = NamesAt(s, f, k)
  <2>1. TAKE k \in 1..n
  <2>2. CASE k > Len(s)
    <3>1. next[k] = 0 /\ given[k] = <<>> /\ 0 \notin (k + 1)..n
      BY <1>1, <2>2
    <3> HIDE DEF next, given, step
    <3>2. f[k] = <<>>
      BY <1>7, <3>1
    <3>3. QED BY <2>2, <3>2 DEF NamesAt
  <2>3. CASE ~(k > Len(s))
    <3> DEFINE m == IF s[k] = 47 THEN k + 1 ELSE k + Len(WordAt(s, k))
    <3>1. next[k] = m /\ m \in (k + 1)..n /\ m \in 1..n
      BY <1>1, <1>2, <1>3, <2>3
    <3> HIDE DEF m
    <3>2. f[m] \in W
      BY <1>7, <3>1
    <3>3. step[<<k, f[m]>>] = IF s[k] = 47 THEN f[m] ELSE <<WordAt(s, k)>> \o f[m]
      <4> HIDE DEF W
      <4>1. <<k, f[m]>> \in (1..n) \X W
        BY <3>2
      <4>2. QED BY <2>3, <4>1
    <3> HIDE DEF next, given, step
    <3>4. f[k] = step[<<k, f[m]>>]
      BY <1>7, <3>1
    <3>5. QED BY <2>3, <3>3, <3>4 DEF NamesAt, m
  <2>4. QED BY <2>2, <2>3
<1> HIDE DEF W
<1>9. f = Image(f)
  BY <1>7, <1>8
<1>10. V = Image(V)
  <2> HIDE DEF Image
  <2> QED BY <1>9
<1>11. Names(s) = V[1] /\ V = NamesLoop(s)
  BY DEF Names, NamesLoop, n, NamesAt, WordAt
<1>12. \A k \in 1..n : V[k] = NamesAt(s, V, k)
  <2>1. \A g : \A k \in 1..n : Image(g)[k] = NamesAt(s, g, k)
    OBVIOUS
  <2> HIDE DEF V, Image
  <2>2. QED BY <1>10, <2>1
<1> HIDE DEF V
<1>13. \A k \in 1..n : V[k] \in W
  <2> DEFINE G == {k \in 1..n : V[k] \in W}
  <2>1. ASSUME NEW k \in 1..n, \A j \in (k + 1)..n : j \in G PROVE k \in G
    <3>1. CASE k > Len(s)
      BY <1>4, <1>12, <3>1 DEF NamesAt
    <3>2. CASE ~(k > Len(s)) /\ s[k] = 47
      <4>1. k + 1 \in G
        BY <1>3, <2>1, <3>2
      <4>2. QED BY <1>12, <3>2, <4>1 DEF NamesAt
    <3>3. CASE ~(k > Len(s)) /\ s[k] # 47
      <4>1. WordAt(s, k) \in Word /\ k + Len(WordAt(s, k)) \in G
        BY <1>2, <2>1, <3>3
      <4>2. V[k + Len(WordAt(s, k))] \in W
        BY <4>1
      <4>3. V[k] = <<WordAt(s, k)>> \o V[k + Len(WordAt(s, k))]
        BY <1>12, <3>3 DEF NamesAt
      <4>4. QED BY <1>4, <4>1, <4>2, <4>3
    <3>4. QED BY <3>1, <3>2, <3>3
  <2>2. \A k \in 1..n : k \in G
    <3> HIDE DEF G
    <3> QED BY <1>1, <2>1, DownFrom
  <2>3. QED BY <2>2
<1>14. QED BY <1>11, <1>12, <1>13 DEF n, W

\* Slashes separate names and are none.
LEMMA SlashesAreSkipped ==
    ASSUME NEW s \in Seq(Byte), NEW a \in 1..(Len(s) + 1), NEW b \in a..(Len(s) + 1),
           \A k \in a..(b - 1) : s[k] = 47
    PROVE  NamesLoop(s)[a] = NamesLoop(s)[b]
<1> DEFINE m == b - a
           G == {k \in 0..m : NamesLoop(s)[a + k] = NamesLoop(s)[a]}
<1>1. Len(s) \in Nat /\ a \in Nat /\ b \in Nat /\ m \in Nat /\ a + m = b /\ a + 0 = a /\ m \in 0..m
  OBVIOUS
<1>2. 0 \in G
  BY <1>1
<1>3. ASSUME NEW k \in 0..(m - 1), k \in G PROVE k + 1 \in G
  <2>1. /\ a + k \in 1..(Len(s) + 1) /\ ~(a + k > Len(s)) /\ a + k \in a..(b - 1)
        /\ a + (k + 1) = (a + k) + 1 /\ k + 1 \in 0..m
    BY <1>1
  <2>2. NamesLoop(s)[a + k] = NamesAt(s, NamesLoop(s), a + k)
    BY <2>1, NamesFacts
  <2>3. NamesLoop(s)[a + k] = NamesLoop(s)[(a + k) + 1]
    BY <2>1, <2>2 DEF NamesAt
  <2>4. NamesLoop(s)[a + k] = NamesLoop(s)[a]
    BY <1>3
  <2>5. QED BY <2>1, <2>3, <2>4
<1>4. m \in G
  <2> HIDE DEF G, m
  <2> QED BY <1>1, <1>2, <1>3, UpTo
<1>5. QED BY <1>1, <1>4

\* The names from position k on are those after the first j.
Remains(s, j, k) ==
    /\ j \in 0..Len(Names(s)) /\ k \in 1..(Len(s) + 1)
    /\ Len(NamesLoop(s)[k]) = Len(Names(s)) - j
    /\ \A l \in 1..(Len(Names(s)) - j) : NamesLoop(s)[k][l] = Names(s)[j + l]

\* At the beginning all remain.
LEMMA RemainsAll ==
    ASSUME NEW s \in Seq(Byte) PROVE Remains(s, 0, 1) /\ Names(s) \in Seq(Word)
<1>1. Names(s) = NamesLoop(s)[1] /\ 1 \in 1..(Len(s) + 1)
  BY NamesFacts
<1>2. Names(s) \in Seq(Word)
  BY <1>1, NamesFacts
<1>3. Len(Names(s)) \in Nat /\ Len(Names(s)) - 0 = Len(Names(s)) /\ \A l \in 1..Len(Names(s)) : 0 + l = l
  BY <1>2
<1>4. QED BY <1>1, <1>2, <1>3 DEF Remains

\* At the end, or where only slashes are left, none remains.
LEMMA RemainsNone ==
    ASSUME NEW s \in Seq(Byte), NEW j, NEW a, Remains(s, j, a), \A k \in a..Len(s) : s[k] = 47
    PROVE  j = Len(Names(s))
<1>1. Len(s) \in Nat /\ Len(Names(s)) \in Nat /\ j \in 0..Len(Names(s)) /\ a \in 1..(Len(s) + 1)
  BY RemainsAll DEF Remains
<1>2. Len(s) + 1 \in a..(Len(s) + 1) /\ (Len(s) + 1) - 1 = Len(s) /\ Len(s) + 1 > Len(s)
      /\ Len(s) + 1 \in 1..(Len(s) + 1)
  BY <1>1
<1>3. NamesLoop(s)[a] = NamesLoop(s)[Len(s) + 1]
  BY <1>1, <1>2, SlashesAreSkipped
<1>4. NamesLoop(s)[Len(s) + 1] = <<>>
  <2>1. NamesLoop(s)[Len(s) + 1] = NamesAt(s, NamesLoop(s), Len(s) + 1)
    BY <1>2, NamesFacts
  <2>2. QED BY <1>2, <2>1 DEF NamesAt
<1>5. Len(NamesLoop(s)[a]) = 0
  BY <1>3, <1>4
<1>6. QED BY <1>1, <1>5 DEF Remains

\* The next name is read.
LEMMA RemainsNext ==
    ASSUME NEW s \in Seq(Byte), NEW j, NEW a, Remains(s, j, a),
           NEW b \in a..Len(s), \A k \in a..(b - 1) : s[k] = 47,
           NEW e \in b..Len(s), \A k \in b..e : s[k] # 47, e < Len(s) => s[e + 1] = 47
    PROVE  /\ j + 1 <= Len(Names(s)) /\ Names(s)[j + 1] = WordAt(s, b)
           /\ Remains(s, j + 1, e + 1)
<1>1. /\ Len(s) \in Nat /\ Len(Names(s)) \in Nat /\ j \in 0..Len(Names(s)) /\ a \in 1..(Len(s) + 1)
  BY RemainsAll DEF Remains
<1>2. /\ b \in 1..Len(s) /\ b \in a..(Len(s) + 1) /\ b \in 1..(Len(s) + 1) /\ ~(b > Len(s)) /\ s[b] # 47
      /\ e + 1 \in 1..(Len(s) + 1) /\ b + (e - b + 1) = e + 1
  BY <1>1
<1> DEFINE n == WordAt(s, b)
           F == NamesLoop(s)
           x == F[a]
           y == F[e + 1]
<1>3. n \in Word /\ Len(n) = e - b + 1
  BY <1>2, WordIs
<1>4. x = F[b]
  BY <1>1, <1>2, SlashesAreSkipped
<1>5. F[b] = NamesAt(s, F, b) /\ y \in Seq(Word)
  BY <1>2, NamesFacts
<1>6. x = <<n>> \o y
  BY <1>2, <1>3, <1>4, <1>5 DEF NamesAt
<1> HIDE DEF n, x, y, F
<1>7. /\ Len(x) = 1 + Len(y) /\ x[1] = n /\ Len(y) \in Nat
      /\ \A l \in 1..Len(y) : x[l + 1] = y[l]
  <2>1. <<n>> \in Seq(Word) /\ Len(<<n>>) = 1 /\ <<n>>[1] = n
    BY <1>3
  <2>2. Len(<<n>> \o y) = 1 + Len(y) /\ (<<n>> \o y)[1] = n /\ \A l \in 1..Len(y) : (<<n>> \o y)[1 + l] = y[l]
    BY <1>5, <2>1
  <2>3. \A l \in 1..Len(y) : 1 + l = l + 1
    BY <1>5
  <2>4. QED BY <1>5, <1>6, <2>2, <2>3
<1> DEFINE N == Names(s)
<1>8. Len(x) = Len(N) - j /\ \A l \in 1..(Len(N) - j) : x[l] = N[j + l]
  BY DEF Remains, x, F
<1> HIDE DEF N
<1>9. /\ Len(N) \in Nat /\ j \in 0..Len(N)
  BY <1>1 DEF N
<1>10. /\ j + 1 <= Len(N) /\ j + 1 \in 0..Len(N) /\ N[j + 1] = n /\ Len(y) = Len(N) - (j + 1)
  <2>1. j + 1 <= Len(N) /\ j + 1 \in 0..Len(N) /\ Len(y) = Len(N) - (j + 1) /\ 1 \in 1..(Len(N) - j)
    <3>1. \A c, p, q \in Nat : p <= c /\ 1 + q = c - p =>
             p + 1 <= c /\ p + 1 \in 0..c /\ q = c - (p + 1) /\ 1 \in 1..(c - p)
      OBVIOUS
    <3>2. Len(N) \in Nat /\ j \in Nat /\ Len(y) \in Nat /\ j <= Len(N) /\ 1 + Len(y) = Len(N) - j
      BY <1>7, <1>8, <1>9
    <3>3. QED BY <3>1, <3>2
  <2>2. N[j + 1] = n
    BY <1>7, <1>8, <2>1
  <2>3. QED BY <2>1, <2>2
<1>11. ASSUME NEW l \in 1..(Len(N) - (j + 1)) PROVE y[l] = N[(j + 1) + l]
  <2>1. l \in 1..Len(y) /\ l + 1 \in 1..(Len(N) - j) /\ j + (l + 1) = (j + 1) + l
    BY <1>7, <1>9, <1>10
  <2>2. QED BY <1>7, <1>8, <2>1
<1>12. QED BY <1>2, <1>10, <1>11 DEF Remains, N, n, y, F

\* The recursion of PercentDecoded, at the k-th byte of a text: a byte that is
\* no percent sign stands for itself, and so may two hexadecimal digits.
HexPair(s, k) == {s[k + 1], s[k + 2]} \subseteq DOMAIN HexOf /\ {s[k + 1], s[k + 2]} # {48}
NotDecoded(s, k) == s[k] = 37 /\ (k + 2 > Len(s) \/ ~HexPair(s, k))
CodeAt(s, k) == IF s[k] # 37 THEN s[k] ELSE 16 * HexOf[s[k + 1]] + HexOf[s[k + 2]]
BehindCode(s, k) == IF s[k] # 37 THEN k + 1 ELSE k + 3

DecodeAt(s, f, k) ==
    IF k > Len(s) THEN {<<>>}
    ELSE IF NotDecoded(s, k) THEN {}
    ELSE {<<CodeAt(s, k)>> \o t : t \in f[BehindCode(s, k)]}

DecodeLoop(s) == CHOOSE f : f = [k \in 1..(Len(s) + 1) |->
            IF k > Len(s) THEN {<<>>}
            ELSE IF s[k] # 37 THEN {<<s[k]>> \o t : t \in f[k + 1]}
            ELSE IF k + 2 > Len(s) THEN {}
            ELSE IF {s[k + 1], s[k + 2]} \subseteq DOMAIN HexOf /\ {s[k + 1], s[k + 2]} # {48}
                 THEN {<<16 * HexOf[s[k + 1]] + HexOf[s[k + 2]]>> \o t : t \in f[k + 3]}
            ELSE {}]

\* The two tables of hexadecimal digits agree.
LEMMA HexIsHex ==
    ASSUME NEW c \in Byte
    PROVE  /\ HexVal(c) >= 0 <=> c \in DOMAIN HexOf
           /\ c \in DOMAIN HexOf => /\ HexOf[c] = HexVal(c) /\ HexVal(c) \in 0..15
                                    /\ HexVal(c) = 0 <=> c = 48
BY DEF HexVal, HexOf, Byte

\* What a byte or three stand for is a byte.
LEMMA CodeFacts ==
    ASSUME NEW s \in Seq(Byte), NEW k \in 1..Len(s), ~NotDecoded(s, k)
    PROVE  CodeAt(s, k) \in Byte /\ BehindCode(s, k) \in (k + 1)..(Len(s) + 1)
<1>1. Len(s) \in Nat /\ s[k] \in Byte
  OBVIOUS
<1>2. CASE s[k] # 37
  BY <1>1, <1>2 DEF CodeAt, BehindCode
<1>3. CASE s[k] = 37
  <2>1. k + 2 <= Len(s) /\ HexPair(s, k)
    BY <1>1, <1>3 DEF NotDecoded
  <2> DEFINE c == s[k + 1]
             d == s[k + 2]
  <2>2. c \in Byte /\ d \in Byte
    BY <1>1, <2>1
  <2>3. c \in DOMAIN HexOf /\ d \in DOMAIN HexOf
    BY <2>1 DEF HexPair
  <2> HIDE DEF c, d
  <2>4. HexOf[c] \in 0..15 /\ HexOf[d] \in 0..15
    BY <2>2, <2>3, HexIsHex
  <2>5. 16 * HexOf[c] + HexOf[d] \in Byte
    <3>1. \A p, q \in 0..15 : 16 * p + q \in Byte
      BY DEF Byte
    <3>2. QED BY <2>4, <3>1
  <2>6. QED BY <1>1, <1>3, <2>1, <2>5 DEF CodeAt, BehindCode, c, d
<1>4. QED BY <1>2, <1>3

\* PercentDecoded begins its own recursion.
LEMMA DecodeFacts ==
    ASSUME NEW s \in Seq(Byte)
    PROVE  /\ PercentDecoded(s) = DecodeLoop(s)[1]
           /\ \A k \in 1..(Len(s) + 1) : /\ DecodeLoop(s)[k] = DecodeAt(s, DecodeLoop(s), k)
                                         /\ DecodeLoop(s)[k] \in SUBSET Seq(Byte)
<1> DEFINE n == Len(s) + 1
           W == SUBSET Seq(Byte)
           Literal(f, k) ==
            IF k > Len(s) THEN {<<>>}
            ELSE IF s[k] # 37 THEN {<<s[k]>> \o t : t \in f[k + 1]}
            ELSE IF k + 2 > Len(s) THEN {}
            ELSE IF {s[k + 1], s[k + 2]} \subseteq DOMAIN HexOf /\ {s[k + 1], s[k + 2]} # {48}
                 THEN {<<16 * HexOf[s[k + 1]] + HexOf[s[k + 2]]>> \o t : t \in f[k + 3]}
            ELSE {}
           Image(f) == [k \in 1..n |-> Literal(f, k)]
           V == CHOOSE f : f = Image(f)
           next == [k \in 1..n |-> IF k > Len(s) THEN 0
                                   ELSE IF NotDecoded(s, k) THEN 0 ELSE BehindCode(s, k)]
           given == [k \in 1..n |-> IF k > Len(s) THEN {<<>>} ELSE {}]
           step == [p \in (1..n) \X W |->
                      IF p[1] > Len(s) THEN {}
                      ELSE IF NotDecoded(s, p[1]) THEN {} ELSE {<<CodeAt(s, p[1])>> \o t : t \in p[2]}]
<1>1. n \in Nat /\ 1 \in 1..n /\ Len(s) \in Nat /\ \A k \in 1..n : k > Len(s) \/ k \in 1..Len(s)
  OBVIOUS
<1>2. \A k \in 1..n : ~(k > Len(s)) /\ ~NotDecoded(s, k) =>
          CodeAt(s, k) \in Byte /\ BehindCode(s, k) \in (k + 1)..n
  BY <1>1, CodeFacts
<1>3. {<<>>} \in W /\ {} \in W /\ \A x \in Byte, f \in W : {<<x>> \o t : t \in f} \in W
  <2>1. \A x \in Byte : <<x>> \in Seq(Byte)
    OBVIOUS
  <2>2. \A x \in Byte, t \in Seq(Byte) : <<x>> \o t \in Seq(Byte)
    BY <2>1, ConcatProperties
  <2>3. ASSUME NEW x \in Byte, NEW f \in W PROVE {<<x>> \o t : t \in f} \in W
    <3>1. \A t \in f : <<x>> \o t \in Seq(Byte)
      BY <2>2
    <3>2. QED BY <3>1
  <2>4. {<<>>} \in W /\ {} \in W
    OBVIOUS
  <2> HIDE DEF W
  <2>5. QED BY <2>3, <2>4
<1>4. ASSUME NEW f, NEW k PROVE Literal(f, k) = DecodeAt(s, f, k)
  <2>1. CASE s[k] # 37
    BY <2>1, Zenon DEF DecodeAt, NotDecoded, CodeAt, BehindCode
  <2>2. CASE s[k] = 37
    <3> DEFINE hex == {<<16 * HexOf[s[k + 1]] + HexOf[s[k + 2]]>> \o t : t \in f[k + 3]}
    <3>1. Literal(f, k) = IF k > Len(s) THEN {<<>>} ELSE IF k + 2 > Len(s) THEN {}
                          ELSE IF HexPair(s, k) THEN hex ELSE {}
      BY <2>2, Zenon DEF HexPair
    <3>2. {<<CodeAt(s, k)>> \o t : t \in f[BehindCode(s, k)]} = hex
      BY <2>2, Zenon DEF CodeAt, BehindCode
    <3>3. NotDecoded(s, k) <=> (k + 2 > Len(s) \/ ~HexPair(s, k))
      BY <2>2, Zenon DEF NotDecoded
    <3>4. DecodeAt(s, f, k) = IF k > Len(s) THEN {<<>>} ELSE IF NotDecoded(s, k) THEN {} ELSE hex
      BY <3>2, Zenon DEF DecodeAt
    <3> HIDE DEF hex, Literal
    <3>5. CASE NotDecoded(s, k)
      BY <3>1, <3>3, <3>4, <3>5
    <3>6. CASE ~NotDecoded(s, k)
      BY <3>1, <3>3, <3>4, <3>6
    <3>7. QED BY <3>5, <3>6
  <2>3. QED BY <2>1, <2>2
<1> HIDE DEF n, Literal
<1>5. given \in [1..n -> W]
  BY <1>3
<1>6. IsStep(step, n, W)
  <2>1. ASSUME NEW p \in (1..n) \X W
        PROVE  (IF p[1] > Len(s) THEN {}
                ELSE IF NotDecoded(s, p[1]) THEN {} ELSE {<<CodeAt(s, p[1])>> \o t : t \in p[2]}) \in W
    <3>1. p[1] \in 1..n /\ p[2] \in W
      OBVIOUS
    <3> HIDE DEF W
    <3>2. QED BY <1>2, <1>3, <3>1
  <2> HIDE DEF W
  <2>2. QED BY <2>1 DEF IsStep
<1>7. PICK f : f \in [1..n -> W] /\ \A k \in 1..n :
                  f[k] = IF next[k] \in (k + 1)..n THEN step[<<k, f[next[k]]>>] ELSE given[k]
  <2> HIDE DEF next, given, step, W
  <2>1. \E f : Refers(f, n, W, next, given, step)
    BY <1>1, <1>5, <1>6, Backwards
  <2>2. QED BY <2>1 DEF Refers
<1>8. \A k \in 1..n : f[k] = DecodeAt(s, f, k)
  <2>1. TAKE k \in 1..n
  <2>2. CASE k > Len(s)
    <3>1. next[k] = 0 /\ given[k] = {<<>>} /\ 0 \notin (k + 1)..n
      BY <1>1, <2>2
    <3> HIDE DEF next, given, step
    <3>2. f[k] = {<<>>}
      BY <1>7, <3>1
    <3>3. QED BY <2>2, <3>2 DEF DecodeAt
  <2>3. CASE ~(k > Len(s)) /\ NotDecoded(s, k)
    <3>1. next[k] = 0 /\ given[k] = {} /\ 0 \notin (k + 1)..n
      BY <1>1, <2>3
    <3> HIDE DEF next, given, step
    <3>2. f[k] = {}
      BY <1>7, <3>1
    <3>3. QED BY <2>3, <3>2 DEF DecodeAt
  <2>4. CASE ~(k > Len(s)) /\ ~NotDecoded(s, k)
    <3> DEFINE m == BehindCode(s, k)
    <3>1. next[k] = m /\ m \in (k + 1)..n /\ m \in 1..n
      BY <1>1, <1>2, <2>4
    <3> HIDE DEF m
    <3>2. f[m] \in W
      BY <1>7, <3>1
    <3>3. step[<<k, f[m]>>] = {<<CodeAt(s, k)>> \o t : t \in f[m]}
      <4> HIDE DEF W
      <4>1. <<k, f[m]>> \in (1..n) \X W
        BY <3>2
      <4>2. QED BY <2>4, <4>1
    <3> HIDE DEF next, given, step
    <3>4. f[k] = step[<<k, f[m]>>]
      BY <1>7, <3>1
    <3>5. QED BY <2>4, <3>3, <3>4 DEF DecodeAt, m
  <2>5. QED BY <2>2, <2>3, <2>4
<1> HIDE DEF W
<1>9. f = Image(f)
  BY <1>4, <1>7, <1>8
<1>10. V = Image(V)
  <2> HIDE DEF Image
  <2> QED BY <1>9
<1>11. PercentDecoded(s) = V[1] /\ V = DecodeLoop(s)
  BY DEF PercentDecoded, DecodeLoop, n, Literal
<1>12. \A k \in 1..n : V[k] = DecodeAt(s, V, k)
  <2>1. \A g : \A k \in 1..n : Image(g)[k] = Literal(g, k)
    OBVIOUS
  <2> HIDE DEF V, Image
  <2>2. QED BY <1>4, <1>10, <2>1
<1> HIDE DEF V
<1>13. \A k \in 1..n : V[k] \in W
  <2> DEFINE G == {k \in 1..n : V[k] \in W}
  <2>1. ASSUME NEW k \in 1..n, \A j \in (k + 1)..n : j \in G PROVE k \in G
    <3>1. CASE k > Len(s) \/ NotDecoded(s, k)
      BY <1>3, <1>12, <3>1 DEF DecodeAt
    <3>2. CASE ~(k > Len(s)) /\ ~NotDecoded(s, k)
      <4>1. CodeAt(s, k) \in Byte /\ BehindCode(s, k) \in G
        BY <1>2, <2>1, <3>2
      <4>2. V[BehindCode(s, k)] \in W
        BY <4>1
      <4>3. V[k] = {<<CodeAt(s, k)>> \o t : t \in V[BehindCode(s, k)]}
        BY <1>12, <3>2 DEF DecodeAt
      <4>4. QED BY <1>3, <4>1, <4>2, <4>3
    <3>3. QED BY <3>1, <3>2
  <2>2. \A k \in 1..n : k \in G
    <3> HIDE DEF G
    <3> QED BY <1>1, <2>1, DownFrom
  <2>3. QED BY <2>2
<1>14. QED BY <1>11, <1>12, <1>13 DEF n, W

\* One byte more is decoded.
LEMMA DecodeNext ==
    ASSUME NEW s \in Seq(Byte), NEW k \in 1..Len(s), ~NotDecoded(s, k), NEW a \in Seq(Byte)
    PROVE  {a \o t : t \in DecodeLoop(s)[k]}
               = {Append(a, CodeAt(s, k)) \o t : t \in DecodeLoop(s)[BehindCode(s, k)]}
<1> DEFINE c == CodeAt(s, k)
           m == BehindCode(s, k)
           L == DecodeLoop(s)
<1>1. /\ Len(s) \in Nat /\ k \in 1..(Len(s) + 1) /\ ~(k > Len(s))
      /\ c \in Byte /\ m \in 1..(Len(s) + 1)
  BY CodeFacts
<1>2. L[k] = {<<c>> \o t : t \in L[m]} /\ L[m] \subseteq Seq(Byte)
  BY <1>1, DecodeFacts DEF DecodeAt
<1> HIDE DEF c, m, L
<1>3. \A t \in Seq(Byte) : a \o (<<c>> \o t) = Append(a, c) \o t
  <2>1. <<c>> \in Seq(Byte)
    BY <1>1
  <2>2. Append(a, c) = a \o <<c>>
    BY <1>1, <2>1, AppendIsConcat
  <2>3. \A t \in Seq(Byte) : (a \o <<c>>) \o t = a \o (<<c>> \o t)
    BY <2>1, ConcatAssociative
  <2>4. QED BY <2>2, <2>3
<1>4. {a \o t : t \in L[k]} = {Append(a, c) \o t : t \in L[m]}
  <2>1. ASSUME NEW u \in L[k] PROVE a \o u \in {Append(a, c) \o t : t \in L[m]}
    <3>1. PICK t \in L[m] : u = <<c>> \o t
      BY <1>2
    <3>2. a \o u = Append(a, c) \o t
      BY <1>2, <1>3, <3>1
    <3>3. QED BY <3>2
  <2>2. ASSUME NEW t \in L[m] PROVE Append(a, c) \o t \in {a \o u : u \in L[k]}
    <3>1. <<c>> \o t \in L[k] /\ a \o (<<c>> \o t) = Append(a, c) \o t
      BY <1>2, <1>3
    <3>2. QED BY <3>1
  <2>3. QED BY <2>1, <2>2
<1>5. QED BY <1>4 DEF c, m, L

\* What the reference makes of a path, and of a decoded target.
PathsOf(p) == {PathText(n) : n \in Resolved(Names(p))}
TargetPaths(d) ==
    LET p == WithoutHost(d, Schemes)
    IN  IF p = <<>> THEN {} ELSE IF p[1] # 47 THEN {} ELSE PathsOf(p)
Wanted == PathReference(uri, Schemes)
Undecoded == Before(uri, {63, 35})

\* A target that cannot be decoded has no path, one that can has that of its text.
LEMMA WantedIs ==
    /\ PercentDecoded(Undecoded) = {} => Wanted = {}
    /\ \A d : PercentDecoded(Undecoded) = {d} => Wanted = TargetPaths(d)
<1>1. Wanted = UNION {TargetPaths(s) : s \in PercentDecoded(Undecoded)}
  BY DEF Wanted, PathReference, TargetPaths, Undecoded, PathsOf
<1>2. QED BY <1>1

\* A path whose names are all read and resolved.
LEMMA PathsAre ==
    ASSUME NEW p \in Seq(Byte), NEW t, NEW st, Spells(t, st),
           Reaches(Names(p), Len(Names(p)), {st})
    PROVE  PathsOf(p) = {IF st = <<>> THEN <<47>> ELSE t}
<1>1. Len(Names(p)) \in Nat
  BY RemainsAll
<1>2. Resolved(Names(p)) = {st}
  BY <1>1, ReachesAll
<1>3. PathText(st) = IF st = <<>> THEN <<47>> ELSE t
  BY SpellsText
<1>4. QED BY <1>2, <1>3 DEF PathsOf

\* The root.
LEMMA RootPath == PathsOf(<<47>>) = {<<47>>}
<1> DEFINE p == <<47>>
<1>1. p \in Seq(Byte) /\ Len(p) = 1 /\ \A k \in 1..1 : p[k] = 47
  BY DEF Byte
<1> HIDE DEF p
<1>2. Remains(p, 0, 1) /\ Len(Names(p)) \in Nat
  BY <1>1, RemainsAll
<1>3. Len(Names(p)) = 0
  BY <1>1, <1>2, RemainsNone
<1>4. Reaches(Names(p), Len(Names(p)), {<<>>})
  BY <1>2, <1>3, ReachesNothing
<1>5. QED BY <1>1, <1>4, PathsAre, SpellsNothing DEF p

\* The scheme a decoded target begins with, as the reference compares it.
Mine(d) == {c \in Schemes : /\ Len(c) <= Len(d)
                            /\ \A k \in DOMAIN c :
                                  d[k] = c[k] \/ (c[k] \in 97..122 /\ d[k] = [x \in 97..122 |-> x - 32][c[k]])}

\* The code compares the same way.
LEMMA MineIs ==
    ASSUME PathIInv, NEW d, d \in Seq(Byte), Len(d) = len, \A k \in 1..len : d[k] = buf[k], NEW c \in Schemes
    PROVE  HasScheme(c) <=> c \in Mine(d)
<1>1. /\ c \in Seq(Byte) /\ Len(c) \in Nat /\ len \in Nat /\ DOMAIN c = 1..Len(c)
      /\ \A k \in 1..Len(c) : c[k] \in Byte /\ c[k] \notin 65..90
  BY SchemesAssumption DEF PathIInv, PathTypes
<1>2. ASSUME NEW k \in 1..Len(c), Len(c) <= len
      PROVE  Lower(buf[k]) = c[k]
                <=> (d[k] = c[k] \/ (c[k] \in 97..122 /\ d[k] = [x \in 97..122 |-> x - 32][c[k]]))
  <2>0. k \in 1..len
    BY <1>1, <1>2
  <2>1. d[k] = buf[k] /\ d[k] \in Byte /\ c[k] \in Byte /\ c[k] \notin 65..90
    <3>1. d[k] = buf[k]
      BY <2>0
    <3>2. d[k] \in Byte
      BY <2>0
    <3>3. QED BY <1>1, <3>1, <3>2
  <2> DEFINE x == d[k]
             y == c[k]
  <2> HIDE DEF x, y
  <2>2. \A a \in 97..122 : [z \in 97..122 |-> z - 32][a] = a - 32
    OBVIOUS
  <2>3. x \in 0..255 /\ y \in 0..255 /\ y \notin 65..90
    BY <2>1 DEF x, y, Byte
  <2>4. Lower(x) = y <=> (x = y \/ (y \in 97..122 /\ x = y - 32))
    BY <2>3 DEF Lower
  <2>5. QED BY <2>1, <2>2, <2>4 DEF x, y
<1> DEFINE Fits(k) == d[k] = c[k] \/ (c[k] \in 97..122 /\ d[k] = [x \in 97..122 |-> x - 32][c[k]])
<1>3. c \in Mine(d) <=> (Len(c) <= len /\ \A k \in 1..Len(c) : Fits(k))
  <2>1. c \in Mine(d) <=> (Len(c) <= Len(d) /\ \A k \in DOMAIN c : Fits(k))
    BY Zenon DEF Mine
  <2> HIDE DEF Fits
  <2>2. QED BY <1>1, <2>1
<1>4. HasScheme(c) <=> (Len(c) <= len /\ \A k \in 1..Len(c) : Lower(buf[k]) = c[k])
  BY <1>1 DEF HasScheme
<1>5. ASSUME Len(c) <= len, NEW k \in 1..Len(c) PROVE Lower(buf[k]) = c[k] <=> Fits(k)
  BY <1>2, <1>5
<1> HIDE DEF Fits
<1>6. QED BY <1>3, <1>4, <1>5

\* At most one scheme fits.
LEMMA MineIsOne ==
    ASSUME NEW d, NEW b \in Mine(d), NEW c \in Mine(d) PROVE b = c
<1> SUFFICES ASSUME b # c PROVE FALSE
  OBVIOUS
<1>1. b \in Schemes /\ c \in Schemes
  BY DEF Mine
<1>2. PICK k \in DOMAIN b \cap DOMAIN c : b[k] # c[k]
  BY <1>1, SchemesAssumption
<1>3. b[k] \in 0..255 /\ c[k] \in 0..255 /\ b[k] \notin 65..90 /\ c[k] \notin 65..90
  <2>1. /\ b \in Seq(Byte) /\ c \in Seq(Byte) /\ b[k] \notin 65..90 /\ c[k] \notin 65..90
    BY <1>1, SchemesAssumption
  <2>2. b[k] \in Byte /\ c[k] \in Byte
    <3>1. \A z \in Seq(Byte) : \A y \in DOMAIN z : z[y] \in Byte
      OBVIOUS
    <3>2. QED BY <1>2, <2>1, <3>1
  <2>3. QED BY <2>1, <2>2 DEF Byte
<1>4. /\ d[k] = b[k] \/ (b[k] \in 97..122 /\ d[k] = [x \in 97..122 |-> x - 32][b[k]])
      /\ d[k] = c[k] \/ (c[k] \in 97..122 /\ d[k] = [x \in 97..122 |-> x - 32][c[k]])
  BY DEF Mine
<1>5. \A a \in 97..122 : [z \in 97..122 |-> z - 32][a] = a - 32
  OBVIOUS
<1>6. QED BY <1>2, <1>3, <1>4, <1>5

\* A target without a scheme is its own path.
LEMMA NoHost ==
    ASSUME NEW d, Mine(d) = {} PROVE WithoutHost(d, Schemes) = d
BY DEF WithoutHost, Mine

\* The path behind a host, and a target that ends with its host.
LEMMA BehindHost ==
    ASSUME NEW d \in Seq(Byte), NEW c \in Mine(d), NEW q \in (Len(c) + 1)..(Len(d) + 1),
           q <= Len(d) => d[q] = 47, \A k \in (Len(c) + 1)..(q - 1) : d[k] # 47
    PROVE  WithoutHost(d, Schemes) = IF q > Len(d) THEN <<47>> ELSE After(d, q - 1)
<1> DEFINE n == Len(c)
           a == After(d, n)
           m == q - 1 - n
           h == Before(a, {47})
<1>0. \A k \in (n + 1)..(q - 1) : d[k] # 47
  OBVIOUS
<1>1. c \in Schemes /\ Len(c) <= Len(d)
  BY DEF Mine
<1>2. n \in Nat /\ n <= Len(d) /\ Len(d) \in Nat /\ q \in Nat
  BY <1>1, SchemesAssumption
<1>3. (CHOOSE x \in Mine(d) : TRUE) = c
  BY MineIsOne
<1>4. WithoutHost(d, Schemes) = IF h = a THEN <<47>> ELSE After(a, Len(h))
  BY <1>3, Zenon DEF WithoutHost, Mine
<1>5. /\ a \in Seq(Byte) /\ Len(a) = Len(d) - n /\ \A k \in 1..(Len(d) - n) : a[k] = d[n + k]
  BY <1>2, AfterFacts
<1> HIDE DEF a, n
<1>6. /\ m \in Nat /\ m <= Len(a) /\ n + m = q - 1
      /\ q > Len(d) <=> m = Len(a)
  BY <1>2, <1>5 DEF n
<1> HIDE DEF m
<1>7. CutAt(a, {47}, m)
  <2>1. ASSUME NEW k \in 1..m PROVE a[k] # 47
    <3>1. k \in 1..(Len(d) - n) /\ n + k \in (n + 1)..(q - 1)
      BY <1>2, <1>5, <1>6
    <3>2. a[k] = d[n + k]
      BY <1>5, <3>1
    <3>3. QED BY <1>0, <3>1, <3>2
  <2>2. ASSUME m < Len(a) PROVE a[m + 1] = 47
    <3>1. m + 1 \in 1..(Len(d) - n) /\ n + (m + 1) = q /\ q <= Len(d)
      BY <1>2, <1>5, <1>6, <2>2
    <3>2. QED BY <1>5, <3>1
  <2>3. QED BY <1>5, <1>6, <2>1, <2>2 DEF CutAt
<1>8. h = SubSeq(a, 1, m)
  BY <1>5, <1>7, BeforeIs
<1>9. h \in Seq(Byte) /\ Len(h) = m
  <2>1. m - 0 = m /\ 0 <= m /\ 0 + 1 = 1
    BY <1>6
  <2>2. a \in Seq(Byte) /\ 0 \in Nat /\ m \in Nat /\ m <= Len(a)
    BY <1>5, <1>6
  <2> HIDE DEF h
  <2>3. SubSeq(a, 0 + 1, m) \in Seq(Byte) /\ Len(SubSeq(a, 0 + 1, m)) = m - 0
    BY <2>1, <2>2, Parts
  <2>4. QED BY <1>8, <2>1, <2>3
<1>10. m = Len(a) => h = a
  BY <1>5, <1>8
<1>11. h = a <=> q > Len(d)
  BY <1>6, <1>9, <1>10
<1>12. ASSUME m < Len(a) PROVE After(a, m) = After(d, q - 1)
  <2> DEFINE x == After(a, m)
             y == After(d, q - 1)
  <2>1. /\ x \in Seq(Byte) /\ Len(x) = Len(a) - m /\ \A k \in 1..(Len(a) - m) : x[k] = a[m + k]
    <3>1. a \in Seq(Byte) /\ m \in Nat /\ m <= Len(a)
      BY <1>5, <1>6
    <3>2. QED BY <3>1, AfterFacts
  <2>2. q - 1 \in Nat /\ q - 1 <= Len(d)
    BY <1>2, <1>5, <1>6, <1>12
  <2>3. /\ y \in Seq(Byte) /\ Len(y) = Len(d) - (q - 1) /\ \A k \in 1..(Len(d) - (q - 1)) : y[k] = d[(q - 1) + k]
    <3> DEFINE g == q - 1
    <3>1. g \in Nat /\ g <= Len(d)
      BY <2>2
    <3> HIDE DEF g
    <3>2. /\ After(d, g) \in Seq(Byte) /\ Len(After(d, g)) = Len(d) - g
          /\ \A k \in 1..(Len(d) - g) : After(d, g)[k] = d[g + k]
      BY <3>1, AfterFacts
    <3>3. QED BY <3>2 DEF g
  <2> HIDE DEF x, y
  <2>4. Len(x) = Len(y)
    <3>1. \A e, f, g, z \in Nat : f + g = z - 1 => (e - f) - g = e - (z - 1)
      OBVIOUS
    <3>2. Len(d) \in Nat /\ n \in Nat /\ m \in Nat /\ q \in Nat /\ n + m = q - 1
      BY <1>2, <1>6 DEF n
    <3>3. (Len(d) - n) - m = Len(d) - (q - 1)
      BY <3>1, <3>2
    <3>4. QED BY <1>5, <2>1, <2>3, <3>3
  <2>5. ASSUME NEW k \in 1..Len(x) PROVE x[k] = y[k]
    <3>1. /\ k \in 1..(Len(a) - m) /\ m + k \in 1..(Len(d) - n) /\ n + (m + k) = (q - 1) + k
          /\ k \in 1..(Len(d) - (q - 1))
      BY <1>2, <1>5, <1>6, <2>1, <2>3, <2>4
    <3>2. x[k] = a[m + k] /\ a[m + k] = d[n + (m + k)] /\ y[k] = d[(q - 1) + k]
      BY <1>5, <2>1, <2>3, <3>1
    <3>3. QED BY <3>1, <3>2
  <2>6. x = y
    BY <2>1, <2>3, <2>4, <2>5, SeqEqual
  <2>7. QED BY <2>6 DEF x, y
<1>13. m = Len(a) \/ m < Len(a)
  BY <1>5, <1>6
<1>14. QED BY <1>4, <1>6, <1>9, <1>11, <1>12, <1>13

\* While the decoding runs: what is written, and what the reference makes of
\* the rest.
Decoding ==
    pc = "decode" =>
        /\ CutAt(uri, {63, 35}, len)
        /\ PercentDecoded(Undecoded) = {Slice(buf, 1, w) \o x : x \in DecodeLoop(Undecoded)[r + 1]}

\* The whole target decoded.
Forming == pc = "form" => PercentDecoded(Undecoded) = {Slice(buf, 1, len)}

\* While path p is normalized: its bytes from f on are still in the buffer, the
\* names up to the reading cursor are resolved to st, and t, which spells st, is
\* what is written and what is to be copied yet.
Built(p, j, st, t, f) ==
    /\ p \in Seq(Byte) /\ Wanted = PathsOf(p) /\ Len(p) = len - at
    /\ \A k \in (f + 1)..Len(p) : buf[at + k] = p[k]
    /\ Remains(p, j, r + 1) /\ Reaches(Names(p), j, {st}) /\ Spells(t, st)
    /\ Len(t) = w + (r - f)
    /\ \A k \in 1..w : t[k] = buf[at + k]
    /\ \A k \in 1..(r - f) : t[w + k] = p[f + k]

Normalizing ==
    /\ pc = "normalize" => \E p, j, st, t : Built(p, j, st, t, r)
    /\ pc = "copy" => \E p, j, st, t : Built(p, j, st, t, from)

Answered == (pc = "ok" => Wanted = {path}) /\ (pc = "bad" => Wanted = {})

PathFound == Decoding /\ Forming /\ Normalizing /\ Answered

\* A part of the buffer is a text.
LEMMA SliceFacts ==
    ASSUME NEW b \in Seq(Byte), NEW a \in Nat, NEW n \in Nat, a + n <= Len(b)
    PROVE  /\ Slice(b, a + 1, n) \in Seq(Byte) /\ Len(Slice(b, a + 1, n)) = n
           /\ \A k \in 1..n : Slice(b, a + 1, n)[k] = b[a + k]
<1> DEFINE e == a + n
<1>1. e \in Nat /\ a <= e /\ e <= Len(b) /\ e - a = n
  OBVIOUS
<1> HIDE DEF e
<1>2. /\ SubSeq(b, a + 1, e) \in Seq(Byte) /\ Len(SubSeq(b, a + 1, e)) = e - a
      /\ \A k \in 1..(e - a) : SubSeq(b, a + 1, e)[k] = b[a + k]
      /\ SubSeq(b, a + 1, e) = Slice(b, a + 1, e - a)
  BY <1>1, Parts
<1>3. QED BY <1>1, <1>2

\* The first bytes of the buffer.
LEMMA PrefixFacts ==
    ASSUME NEW b \in Seq(Byte), NEW n \in Nat, n <= Len(b)
    PROVE  /\ Slice(b, 1, n) \in Seq(Byte) /\ Len(Slice(b, 1, n)) = n
           /\ \A k \in 1..n : Slice(b, 1, n)[k] = b[k]
<1>1. 0 \in Nat /\ 0 + 1 = 1 /\ 0 + n <= Len(b) /\ \A k \in 1..n : 0 + k = k
  OBVIOUS
<1>2. /\ Slice(b, 0 + 1, n) \in Seq(Byte) /\ Len(Slice(b, 0 + 1, n)) = n
      /\ \A k \in 1..n : Slice(b, 0 + 1, n)[k] = b[0 + k]
  BY <1>1, SliceFacts
<1>3. QED BY <1>1, <1>2

\* The target up to the cut.
LEMMA UndecodedFacts ==
    ASSUME PathIInv, CutAt(uri, {63, 35}, len)
    PROVE  /\ Undecoded \in Seq(Byte) /\ Len(Undecoded) = len
           /\ \A k \in 1..len : Undecoded[k] = uri[k]
<1>1. uri \in Seq(Byte) /\ len \in Nat /\ len <= Len(uri) /\ 0 \in Nat /\ 0 <= len
      /\ len - 0 = len /\ 0 + 1 = 1 /\ \A k \in 1..len : 0 + k = k
  BY DEF PathIInv, PathTypes
<1>2. Undecoded = SubSeq(uri, 0 + 1, len)
  BY <1>1, BeforeIs DEF Undecoded
<1>3. /\ SubSeq(uri, 0 + 1, len) \in Seq(Byte) /\ Len(SubSeq(uri, 0 + 1, len)) = len - 0
      /\ \A k \in 1..(len - 0) : SubSeq(uri, 0 + 1, len)[k] = uri[0 + k]
  BY <1>1, Parts
<1> HIDE DEF Undecoded
<1>4. QED BY <1>1, <1>2, <1>3

\* Where the query is cut off, nothing is decoded yet.
LEMMA EndQueryFinds ==
    ASSUME PathIInv, PathIInv', pc \in {"query", "param"}, EndQuery PROVE PathFound'
<1> DEFINE f == First({63, 35}, 1, len)
           und == Undecoded
<1>1. /\ uri \in Seq(Byte) /\ buf = uri /\ len = Len(uri) /\ len \in Nat /\ w = 0
      /\ len' = f - 1 /\ pc' = "decode" /\ r' = 0 /\ UNCHANGED <<uri, buf, w>>
  BY DEF EndQuery, PathIInv, PathTypes, Cursors, Question, Hash
<1>2. f \in 1..(len + 1) /\ (f <= len => buf[f] \in {63, 35}) /\ \A k \in 1..(f - 1) : buf[k] \notin {63, 35}
  BY <1>1, FirstFacts
<1> HIDE DEF f
<1>3. CutAt(uri, {63, 35}, len')
  <2>1. len' \in 0..Len(uri) /\ len' + 1 = f /\ (len' < Len(uri) => f <= len)
    BY <1>1, <1>2
  <2>2. QED BY <1>1, <1>2, <2>1 DEF CutAt
<1>4. und \in Seq(Byte)
  BY <1>1, BeforeFacts DEF Undecoded
<1> HIDE DEF und
<1>5. PercentDecoded(und) = DecodeLoop(und)[1] /\ DecodeLoop(und)[1] \in SUBSET Seq(Byte)
  <2>1. 1 \in 1..(Len(und) + 1)
    BY <1>4
  <2>2. QED BY <1>4, <2>1, DecodeFacts
<1>6. PercentDecoded(und) = {<<>> \o x : x \in DecodeLoop(und)[1]}
  <2>1. \A x \in Seq(Byte) : <<>> \o x = x
    OBVIOUS
  <2>2. \A x \in DecodeLoop(und)[1] : <<>> \o x = x
    BY <1>5, <2>1
  <2>3. QED BY <1>5, <2>2
<1>7. Slice(buf, 1, 0) = <<>>
  <2>1. 0 \in Nat /\ 0 <= Len(uri)
    BY <1>1
  <2>2. Slice(uri, 1, 0) \in Seq(Byte) /\ Len(Slice(uri, 1, 0)) = 0
    BY <1>1, <2>1, PrefixFacts
  <2>3. QED BY <1>1, <2>2
<1>8. und' = und
  BY <1>1 DEF und, Undecoded
<1>9. Decoding'
  <2>1. CutAt(uri', {63, 35}, len')
    BY <1>1, <1>3
  <2>2. r' + 1 = 1 /\ w' = 0 /\ buf' = buf
    BY <1>1
  <2>3. PercentDecoded(und') = {Slice(buf', 1, w') \o x : x \in DecodeLoop(und')[r' + 1]}
    BY <1>6, <1>7, <1>8, <2>2
  <2>4. QED BY <2>1, <2>3 DEF Decoding, und
<1>10. QED BY <1>1, <1>9 DEF PathFound, Forming, Normalizing, Answered

\* One more byte decoded and written.
LEMMA StoreFinds ==
    ASSUME PathIInv, PathFound, pc = "decode", NEW c \in Byte, NEW n \in Nat \ {0}, r + n <= len, Store(c, n),
           ~NotDecoded(Undecoded, r + 1), CodeAt(Undecoded, r + 1) = c,
           BehindCode(Undecoded, r + 1) = r + n + 1
    PROVE  PathFound'
<1> DEFINE und == Undecoded
           a == Slice(buf, 1, w)
           b == Slice(buf', 1, w + 1)
<1>1. /\ r \in Nat /\ w \in Nat /\ len \in Nat /\ w <= r
      /\ buf \in Seq(Byte) /\ Len(buf) = Len(uri) /\ len <= Len(uri)
  BY DEF PathIInv, PathTypes, Cursors
<1>2. /\ buf' = [buf EXCEPT ![w + 1] = c] /\ w' = w + 1 /\ r' = r + n
      /\ UNCHANGED <<uri, len, pc, from, at, params, path>>
  BY DEF Store
<1>3. CutAt(uri, {63, 35}, len) /\ PercentDecoded(und) = {a \o x : x \in DecodeLoop(und)[r + 1]}
  BY DEF PathFound, Decoding
<1>4. und \in Seq(Byte) /\ Len(und) = len
  BY <1>3, UndecodedFacts
<1>5. w + 1 <= Len(buf) /\ w <= Len(buf) /\ r + 1 \in 1..len
  BY <1>1
<1>6. /\ buf' \in Seq(Byte) /\ Len(buf') = Len(buf) /\ buf'[w + 1] = c
      /\ \A k \in 1..w : buf'[k] = buf[k]
  BY <1>1, <1>2, <1>5
<1>7. b = Append(a, c)
  <2>1. w + 1 \in Nat
    BY <1>1
  <2>2. a \in Seq(Byte) /\ Len(a) = w /\ \A k \in 1..w : a[k] = buf[k]
    BY <1>1, <1>5, PrefixFacts
  <2>3. b \in Seq(Byte) /\ Len(b) = w + 1 /\ \A k \in 1..(w + 1) : b[k] = buf'[k]
    BY <1>5, <1>6, <2>1, PrefixFacts
  <2> HIDE DEF a, b
  <2>4. /\ Append(a, c) \in Seq(Byte) /\ Len(Append(a, c)) = w + 1 /\ Append(a, c)[w + 1] = c
        /\ \A k \in 1..w : Append(a, c)[k] = a[k]
    BY <2>2
  <2>5. ASSUME NEW k \in 1..(w + 1) PROVE b[k] = Append(a, c)[k]
    <3>1. k \in Nat /\ (k = w + 1 \/ k \in 1..w)
      BY <1>1
    <3>2. b[k] = buf'[k] /\ (k \in 1..w => a[k] = buf[k])
      BY <2>1, <2>2, <2>3, <3>1
    <3>3. QED BY <1>6, <2>4, <3>1, <3>2
  <2>6. QED BY <2>3, <2>4, <2>5, SeqEqual
<1>8. a \in Seq(Byte)
  BY <1>1, <1>5, PrefixFacts
<1> HIDE DEF und, a, b
<1>9. {a \o x : x \in DecodeLoop(und)[r + 1]} = {Append(a, c) \o x : x \in DecodeLoop(und)[r + n + 1]}
  <2>1. r + 1 \in 1..Len(und) /\ ~NotDecoded(und, r + 1)
    BY <1>4, <1>5 DEF und
  <2>2. {a \o x : x \in DecodeLoop(und)[r + 1]}
          = {Append(a, CodeAt(und, r + 1)) \o x : x \in DecodeLoop(und)[BehindCode(und, r + 1)]}
    BY <1>4, <1>8, <2>1, DecodeNext
  <2>3. CodeAt(und, r + 1) = c /\ BehindCode(und, r + 1) = r + n + 1
    BY DEF und
  <2>4. QED BY <2>2, <2>3
<1>10. und' = und
  BY <1>2 DEF und, Undecoded
<1>11. PercentDecoded(und') = {Slice(buf', 1, w') \o x : x \in DecodeLoop(und')[r' + 1]}
  BY <1>2, <1>3, <1>7, <1>9, <1>10 DEF b
<1>12. CutAt(uri', {63, 35}, len') /\ pc' = "decode"
  BY <1>2, <1>3
<1>13. QED BY <1>11, <1>12 DEF PathFound, Decoding, Forming, Normalizing, Answered, und

\* What cannot be decoded.
LEMMA RefusedFinds ==
    ASSUME PathIInv, PathFound, pc = "decode", r < len, Fail("bad"), NotDecoded(Undecoded, r + 1)
    PROVE  PathFound'
<1> DEFINE und == Undecoded
<1>1. r \in Nat /\ len \in Nat
  BY DEF PathIInv, PathTypes
<1>2. CutAt(uri, {63, 35}, len) /\ PercentDecoded(und) = {Slice(buf, 1, w) \o x : x \in DecodeLoop(und)[r + 1]}
  BY DEF PathFound, Decoding
<1>3. und \in Seq(Byte) /\ Len(und) = len
  BY <1>2, UndecodedFacts
<1> HIDE DEF und
<1>4. DecodeLoop(und)[r + 1] = {}
  <2>1. r + 1 \in 1..(Len(und) + 1) /\ ~(r + 1 > Len(und))
    BY <1>1, <1>3
  <2>2. DecodeLoop(und)[r + 1] = DecodeAt(und, DecodeLoop(und), r + 1)
    BY <1>3, <2>1, DecodeFacts
  <2>3. QED BY <2>1, <2>2 DEF DecodeAt, und
<1>5. PercentDecoded(und) = {}
  BY <1>2, <1>4
<1>6. Wanted = {}
  BY <1>5, WantedIs DEF und
<1>7. Wanted' = Wanted /\ pc' = "bad"
  BY DEF Fail, Wanted
<1>8. QED BY <1>6, <1>7 DEF PathFound, Decoding, Forming, Normalizing, Answered

\* Each round of url_decode agrees with the reference.
LEMMA UrlDecodeFinds ==
    ASSUME PathIInv, PathFound, UrlDecode PROVE PathFound'
<1> DEFINE und == Undecoded
           k == r + 1
<1>1. /\ pc = "decode" /\ r < len /\ r \in Nat /\ len \in Nat /\ buf \in Seq(Byte) /\ len <= Len(buf)
      /\ \A y \in (r + 1)..len : buf[y] = uri[y]
  BY DEF UrlDecode, PathIInv, PathTypes, Cursors
<1>2. CutAt(uri, {63, 35}, len)
  BY <1>1 DEF PathFound, Decoding
<1>3. und \in Seq(Byte) /\ Len(und) = len /\ \A y \in 1..len : und[y] = uri[y]
  BY <1>2, UndecodedFacts
<1> HIDE DEF und
<1>4. \A y \in (r + 1)..len : und[y] = buf[y] /\ buf[y] \in Byte
  <2>1. TAKE y \in (r + 1)..len
  <2>2. y \in 1..len /\ y \in 1..Len(buf)
    BY <1>1
  <2>3. QED BY <1>1, <1>3, <2>2
<1>5. und[k] = buf[r + 1] /\ buf[r + 1] \in Byte /\ r + 1 <= len
  <2>1. r + 1 \in (r + 1)..len
    BY <1>1
  <2>2. QED BY <1>4, <2>1
<1>6. CASE buf[r + 1] # Percent /\ Store(buf[r + 1], 1)
  <2>1. und[k] # 37
    BY <1>5, <1>6 DEF Percent
  <2>2. ~NotDecoded(und, r + 1) /\ CodeAt(und, r + 1) = buf[r + 1] /\ BehindCode(und, r + 1) = r + 1 + 1
    BY <1>5, <2>1 DEF NotDecoded, CodeAt, BehindCode
  <2>3. QED BY <1>1, <1>5, <1>6, <2>2, StoreFinds DEF und
<1>7. CASE buf[r + 1] = Percent /\ Truncated /\ Fail("bad")
  <2>1. und[k] = 37 /\ k + 2 > Len(und)
    BY <1>1, <1>3, <1>5, <1>7 DEF Percent, Truncated
  <2>2. NotDecoded(und, r + 1)
    BY <2>1 DEF NotDecoded
  <2>3. QED BY <1>1, <1>7, <2>2, RefusedFinds DEF und
<1>8. CASE buf[r + 1] = Percent /\ ~Truncated
  <2> DEFINE c == buf[r + 2]
             d == buf[r + 3]
             h1 == HexVal(c)
             h2 == HexVal(d)
  <2>1. r + 3 <= len /\ ~(k + 2 > Len(und)) /\ und[k] = 37
    BY <1>1, <1>3, <1>5, <1>8 DEF Percent, Truncated
  <2>2. r + 2 \in (r + 1)..len /\ r + 3 \in (r + 1)..len /\ k + 1 = r + 2 /\ k + 2 = r + 3
    BY <1>1, <2>1
  <2>3. und[k + 1] = c /\ und[k + 2] = d /\ c \in Byte /\ d \in Byte
    BY <1>4, <2>2
  <2> HIDE DEF c, d
  <2>4. /\ h1 >= 0 <=> c \in DOMAIN HexOf
        /\ h2 >= 0 <=> d \in DOMAIN HexOf
        /\ c \in DOMAIN HexOf => HexOf[c] = h1 /\ h1 \in 0..15 /\ (h1 = 0 <=> c = 48)
        /\ d \in DOMAIN HexOf => HexOf[d] = h2 /\ h2 \in 0..15 /\ (h2 = 0 <=> d = 48)
    BY <2>3, HexIsHex
  <2>5. h1 \in Int /\ h2 \in Int
    <3>1. \A x \in Byte : HexVal(x) \in Int
      BY DEF HexVal, Byte
    <3>2. QED BY <2>3, <3>1
  <2> HIDE DEF h1, h2
  <2>6. HexPair(und, k) <=> (h1 >= 0 /\ h2 >= 0 /\ h1 + h2 > 0)
    <3>1. HexPair(und, k) <=> (c \in DOMAIN HexOf /\ d \in DOMAIN HexOf /\ ~(c = 48 /\ d = 48))
      <4>1. {c, d} # {48} <=> ~(c = 48 /\ d = 48)
        OBVIOUS
      <4>2. QED BY <2>3, <4>1 DEF HexPair
    <3>2. QED BY <2>4, <2>5, <3>1
  <2>7. CASE (h1 < 0 \/ h2 < 0 \/ h1 + h2 = 0) /\ Fail("bad")
    <3>1. ~HexPair(und, k)
      BY <2>5, <2>6, <2>7
    <3>2. NotDecoded(und, r + 1)
      BY <2>1, <3>1 DEF NotDecoded
    <3>3. QED BY <1>1, <2>7, <3>2, RefusedFinds DEF und
  <2>8. CASE h1 >= 0 /\ h2 >= 0 /\ h1 + h2 > 0 /\ Store(16 * h1 + h2, 3)
    <3>1. ~NotDecoded(und, r + 1)
      BY <2>1, <2>6, <2>8 DEF NotDecoded
    <3>2. CodeAt(und, r + 1) = 16 * h1 + h2 /\ BehindCode(und, r + 1) = r + 3 + 1
      <4>1. CodeAt(und, k) = 16 * HexOf[c] + HexOf[d] /\ BehindCode(und, k) = k + 3
        BY <2>1, <2>3 DEF CodeAt, BehindCode
      <4>2. k + 3 = r + 3 + 1
        BY <1>1
      <4>3. QED BY <2>4, <2>8, <4>1, <4>2
    <3>3. 16 * h1 + h2 \in Byte
      <4>1. \A p, q \in 0..15 : 16 * p + q \in Byte
        BY DEF Byte
      <4>2. QED BY <2>4, <2>8, <4>1
    <3>4. 3 \in Nat \ {0}
      OBVIOUS
    <3>5. QED BY <1>1, <2>1, <2>8, <3>1, <3>2, <3>3, <3>4, StoreFinds DEF und
  <2>9. \/ (h1 < 0 \/ h2 < 0 \/ h1 + h2 = 0) /\ Fail("bad")
        \/ h1 >= 0 /\ h2 >= 0 /\ h1 + h2 > 0 /\ Store(16 * h1 + h2, 3)
    BY <1>8 DEF UrlDecode, h1, h2, c, d
  <2>10. QED BY <2>7, <2>8, <2>9
<1>9. QED BY <1>6, <1>7, <1>8 DEF UrlDecode

\* The end of url_decode.
LEMMA DecodedFinds ==
    ASSUME PathIInv, PathFound, Decoded PROVE PathFound'
<1> DEFINE und == Undecoded
           a == Slice(buf, 1, w)
<1>1. /\ pc = "decode" /\ len' = w /\ pc' = "form" /\ UNCHANGED <<uri, buf, w>>
      /\ w \in Nat /\ len \in Nat /\ r \in Nat /\ w <= r /\ r = len /\ buf \in Seq(Byte) /\ len <= Len(buf)
  BY DEF Decoded, PathIInv, PathTypes, Cursors
<1>2. CutAt(uri, {63, 35}, len) /\ PercentDecoded(und) = {a \o x : x \in DecodeLoop(und)[r + 1]}
  BY <1>1 DEF PathFound, Decoding
<1>3. und \in Seq(Byte) /\ Len(und) = len
  BY <1>2, UndecodedFacts
<1>4. a \in Seq(Byte)
  <2>1. w <= Len(buf)
    BY <1>1
  <2>2. QED BY <1>1, <2>1, PrefixFacts
<1> HIDE DEF und, a
<1>5. DecodeLoop(und)[r + 1] = {<<>>}
  <2>1. r + 1 \in 1..(Len(und) + 1) /\ r + 1 > Len(und)
    BY <1>1, <1>3
  <2>2. DecodeLoop(und)[r + 1] = DecodeAt(und, DecodeLoop(und), r + 1)
    BY <1>3, <2>1, DecodeFacts
  <2>3. QED BY <2>1, <2>2 DEF DecodeAt
<1>6. a \o <<>> = a
  BY <1>4
<1>7. PercentDecoded(und) = {a}
  BY <1>2, <1>5, <1>6
<1>8. und' = und /\ Slice(buf', 1, len') = a
  BY <1>1 DEF und, Undecoded, a
<1>9. Forming'
  BY <1>7, <1>8 DEF Forming, und
<1>10. QED BY <1>1, <1>9 DEF PathFound, Decoding, Normalizing, Answered

\* The decoded target.
LEMMA TargetFacts ==
    ASSUME PathIInv, PathFound, pc = "form", NEW d, d = Slice(buf, 1, len)
    PROVE  /\ d \in Seq(Byte) /\ Len(d) = len /\ \A k \in 1..len : d[k] = buf[k]
           /\ Wanted = TargetPaths(d)
<1>1. buf \in Seq(Byte) /\ len \in Nat /\ len <= Len(buf)
  BY DEF PathIInv, PathTypes
<1>2. d \in Seq(Byte) /\ Len(d) = len /\ \A k \in 1..len : d[k] = buf[k]
  BY <1>1, PrefixFacts
<1>3. PercentDecoded(Undecoded) = {d}
  BY DEF PathFound, Forming
<1>4. QED BY <1>2, <1>3, WantedIs

\* normalize_path is entered with the path of the reference.
LEMMA EnterFinds ==
    ASSUME PathIInv, PathFound, pc = "form", NEW d, d = Slice(buf, 1, len),
           NEW q \in 1..(len + 1), WithoutHost(d, Schemes) = After(d, q - 1), NormalizeFrom(q)
    PROVE  PathFound'
<1> DEFINE p == After(d, q - 1)
<1>1. /\ d \in Seq(Byte) /\ Len(d) = len /\ \A k \in 1..len : d[k] = buf[k]
      /\ Wanted = TargetPaths(d)
  BY TargetFacts
<1>2. /\ at' = q - 1 /\ r' = 0 /\ w' = 0 /\ UNCHANGED <<uri, buf, len>>
      /\ pc' = IF q > len THEN "bad" ELSE IF buf[q] # Slash THEN "bad" ELSE "normalize"
      /\ len \in Nat
  BY DEF NormalizeFrom, PathIInv, PathTypes
<1>3. q - 1 \in Nat /\ q - 1 <= Len(d)
  BY <1>1, <1>2
<1>4. /\ p \in Seq(Byte) /\ Len(p) = Len(d) - (q - 1)
      /\ \A k \in 1..(Len(d) - (q - 1)) : p[k] = d[(q - 1) + k]
  BY <1>1, <1>3, AfterFacts
<1>5. Wanted = IF p = <<>> THEN {} ELSE IF p[1] # 47 THEN {} ELSE PathsOf(p)
  BY <1>1 DEF TargetPaths
<1> HIDE DEF p
<1>6. Wanted' = Wanted
  BY <1>2 DEF Wanted
<1>7. CASE q > len
  <2>1. Len(p) = 0 /\ pc' = "bad"
    BY <1>1, <1>2, <1>4, <1>7
  <2>2. p = <<>>
    BY <1>4, <2>1
  <2>3. QED BY <1>5, <1>6, <2>1, <2>2 DEF PathFound, Decoding, Forming, Normalizing, Answered
<1>8. CASE q <= len
  <2>1. 1 \in 1..(Len(d) - (q - 1)) /\ (q - 1) + 1 = q /\ q \in 1..len /\ ~(q > len)
    BY <1>1, <1>2, <1>8
  <2>2. p[1] = buf[q] /\ p # <<>>
    BY <1>1, <1>4, <2>1
  <2>3. CASE buf[q] # Slash
    BY <1>2, <1>5, <1>6, <2>1, <2>2, <2>3 DEF Slash, PathFound, Decoding, Forming, Normalizing, Answered
  <2>4. CASE buf[q] = Slash
    <3>1. pc' = "normalize" /\ Wanted = PathsOf(p)
      BY <1>2, <1>5, <2>1, <2>2, <2>4 DEF Slash
    <3>2. Remains(p, 0, 1) /\ Len(Names(p)) \in Nat
      BY <1>4, RemainsAll
    <3>3. Reaches(Names(p), 0, {<<>>}) /\ Spells(<<>>, <<>>)
      BY <3>2, ReachesNothing, SpellsNothing
    <3>4. ASSUME NEW k \in 1..Len(p) PROVE buf'[at' + k] = p[k]
      <4>1. k \in 1..(Len(d) - (q - 1)) /\ (q - 1) + k \in 1..len
        BY <1>1, <1>2, <1>4
      <4>2. QED BY <1>1, <1>2, <1>4, <4>1
    <3>5. Built(p, 0, <<>>, <<>>, r)'
      <4>1. r' + 1 = 1 /\ Len(p) = len' - at' /\ Len(<<>>) = w' + (r' - r') /\ 1..w' = {} /\ 1..(r' - r') = {}
        BY <1>1, <1>2, <1>4
      <4>2. p \in Seq(Byte) /\ Wanted' = PathsOf(p) /\ \A k \in (r' + 1)..Len(p) : buf'[at' + k] = p[k]
        BY <1>4, <1>6, <3>1, <3>4, <4>1
      <4>3. Remains(p, 0, r' + 1)
        BY <3>2, <4>1
      <4>4. QED BY <3>3, <4>1, <4>2, <4>3 DEF Built
    <3>6. QED BY <3>1, <3>5 DEF PathFound, Decoding, Forming, Normalizing, Answered
  <2>5. QED BY <2>3, <2>4
<1>9. QED BY <1>2, <1>7, <1>8

\* The forms of a target are those of the reference.
LEMMA FormFinds ==
    ASSUME PathIInv, PathFound, Form PROVE PathFound'
<1> DEFINE d == Slice(buf, 1, len)
<1>1. pc = "form" /\ len \in Nat
  BY DEF Form, PathIInv, PathTypes
<1>2. /\ d \in Seq(Byte) /\ Len(d) = len /\ \A k \in 1..len : d[k] = buf[k]
      /\ Wanted = TargetPaths(d)
  BY <1>1, TargetFacts
<1>3. CASE len = 1 /\ buf[1] = Asterisk /\ Fail("bad")
  <2>1. d # <<>> /\ d[1] = 42
    BY <1>2, <1>3 DEF Asterisk
  <2> HIDE DEF d
  <2>2. Mine(d) = {}
    <3>1. \A c \in Schemes : Len(c) > 1 /\ Len(c) \in Nat
      BY SchemesAssumption
    <3>2. QED BY <1>2, <1>3, <3>1 DEF Mine
  <2>3. WithoutHost(d, Schemes) = d
    BY <2>2, NoHost
  <2>4. Wanted = {}
    BY <1>2, <2>1, <2>3 DEF TargetPaths
  <2>5. Wanted' = Wanted /\ pc' = "bad"
    BY <1>3 DEF Fail, Wanted
  <2>6. QED BY <2>4, <2>5 DEF PathFound, Decoding, Forming, Normalizing, Answered
<1> DEFINE slash(c) == First({Slash}, Len(c) + 1, len)
<1>4. ASSUME NEW c \in Schemes, HasScheme(c),
             \/ slash(c) > len /\ Finish(<<Slash>>) /\ UNCHANGED <<buf, w>>
             \/ slash(c) <= len /\ NormalizeFrom(slash(c))
      PROVE  PathFound'
  <2> DEFINE q == First({Slash}, Len(c) + 1, len)
  <2>1. c \in Mine(d)
    <3> HIDE DEF d
    <3> QED BY <1>2, <1>4, MineIs
  <2>2. Len(c) \in Nat /\ Len(c) + 1 \in Nat /\ Len(c) + 1 <= len + 1
    <3>1. Len(c) \in Nat /\ len >= Len(c)
      BY <1>4, SchemesAssumption DEF HasScheme
    <3>2. QED BY <1>1, <3>1
  <2>3. /\ q \in (Len(c) + 1)..(len + 1) /\ (q <= len => buf[q] \in {Slash})
        /\ \A k \in (Len(c) + 1)..(q - 1) : buf[k] \notin {Slash}
    BY <1>1, <2>2, FirstFacts
  <2>4. \/ q > len /\ Finish(<<Slash>>) /\ UNCHANGED <<buf, w>>
        \/ q <= len /\ NormalizeFrom(q)
    BY <1>4
  <2> HIDE DEF d, q
  <2>5. q \in 1..(len + 1) /\ (q <= len => q \in 1..len) /\ \A k \in (Len(c) + 1)..(q - 1) : k \in 1..len
    BY <1>1, <2>2, <2>3
  <2>6. /\ q \in (Len(c) + 1)..(Len(d) + 1) /\ (q <= Len(d) => d[q] = 47)
        /\ \A k \in (Len(c) + 1)..(q - 1) : d[k] # 47
    BY <1>2, <2>3, <2>5 DEF Slash
  <2>7. WithoutHost(d, Schemes) = IF q > len THEN <<47>> ELSE After(d, q - 1)
    BY <1>2, <2>1, <2>6, BehindHost
  <2>8. CASE q > len /\ Finish(<<Slash>>)
    <3>1. pc' = "ok" /\ path' = <<47>> /\ Wanted' = Wanted
      BY <2>8 DEF Finish, Wanted, Slash
    <3>2. <<47>> # <<>> /\ <<47>>[1] = 47
      OBVIOUS
    <3>3. Wanted = PathsOf(<<47>>)
      BY <1>2, <2>7, <2>8, <3>2 DEF TargetPaths
    <3>4. QED BY <3>1, <3>3, RootPath DEF PathFound, Decoding, Forming, Normalizing, Answered
  <2>9. CASE q <= len /\ NormalizeFrom(q)
    <3>1. ~(q > len)
      BY <1>1, <2>5, <2>9
    <3>2. QED BY <1>1, <2>5, <2>7, <2>9, <3>1, EnterFinds DEF d
  <2>10. QED BY <2>4, <2>8, <2>9
<1>5. CASE (\A c \in Schemes : ~HasScheme(c)) /\ NormalizeFrom(1)
  <2>1. Mine(d) = {}
    <3> HIDE DEF d
    <3>1. \A c \in Schemes : c \notin Mine(d)
      BY <1>2, <1>5, MineIs
    <3>2. QED BY <3>1 DEF Mine
  <2>2. WithoutHost(d, Schemes) = d
    <3> HIDE DEF d
    <3> QED BY <2>1, NoHost
  <2>3. After(d, 1 - 1) = d
    <3> HIDE DEF d
    <3>1. SubSeq(d, 1, Len(d)) = d
      BY <1>2
    <3>2. QED BY <3>1 DEF After
  <2>4. 1 \in 1..(len + 1)
    BY <1>1
  <2>5. QED BY <1>1, <1>5, <2>2, <2>3, <2>4, EnterFinds
<1>6. QED BY <1>3, <1>4, <1>5 DEF Form

\* The bytes before and in the segment that is looked at.
LEMMA SegmentBytes ==
    ASSUME PathIInv, pc = "normalize"
    PROVE  /\ \A k \in (r + 1)..(SegmentStart - 1) : buf[at + k] = Slash
           /\ \A k \in SegmentStart..SegmentEnd : buf[at + k] # Slash
           /\ SegmentLen = 0 => SegmentStart = len - at + 1
<1>1. /\ r \in Nat /\ len \in Nat /\ at \in Nat /\ at + r <= len /\ at < len
  BY DEF PathIInv, PathTypes, Cursors
<1> DEFINE n == len - at
           found == {k \in (r + 1)..n : buf[at + k] # Slash}
           s == SegmentStart
<1>2. /\ s \in (r + 1)..(n + 1) /\ (s <= n => buf[at + s] # Slash)
      /\ \A k \in (r + 1)..(s - 1) : buf[at + k] = Slash
  <2>1. CASE found = {}
    <3>1. s = n + 1
      BY <2>1 DEF SegmentStart
    <3>2. \A k \in (r + 1)..n : buf[at + k] = Slash
      BY <2>1
    <3>3. n \in Nat /\ n + 1 \in (r + 1)..(n + 1) /\ ~(n + 1 <= n) /\ (n + 1) - 1 = n
      BY <1>1
    <3> HIDE DEF n, s
    <3>4. QED BY <3>1, <3>2, <3>3
  <2>2. CASE found # {}
    <3>1. found \subseteq Nat
      BY <1>1
    <3>2. \E k \in found : \A l \in found : k <= l
      <4> HIDE DEF found
      <4> QED BY <2>2, <3>1, Least
    <3>3. s \in found /\ \A l \in found : s <= l
      BY <2>2, <3>2 DEF SegmentStart
    <3> HIDE DEF s
    <3>4. s \in (r + 1)..n /\ buf[at + s] # Slash
      BY <3>3
    <3>5. ASSUME NEW k \in (r + 1)..(s - 1) PROVE buf[at + k] = Slash
      <4>1. k \in (r + 1)..n /\ ~(s <= k)
        BY <1>1, <3>4
      <4>2. k \notin found
        <5> HIDE DEF found
        <5> QED BY <3>3, <4>1
      <4>3. QED BY <4>1, <4>2
    <3>6. s \in (r + 1)..(n + 1)
      BY <1>1, <3>4
    <3>7. QED BY <3>4, <3>5, <3>6
  <2>3. QED BY <2>1, <2>2
<1> HIDE DEF s
<1> DEFINE f == First({Slash}, at + s, len)
<1>3. at + s \in Nat /\ at + s <= len + 1
  BY <1>1, <1>2
<1>4. /\ f \in (at + s)..(len + 1) /\ (f <= len => buf[f] \in {Slash})
      /\ \A k \in (at + s)..(f - 1) : buf[k] \notin {Slash}
  BY <1>1, <1>3, FirstFacts
<1>5. SegmentEnd = f - at - 1 /\ SegmentLen = SegmentEnd - s + 1
  BY DEF SegmentEnd, SegmentLen, s
<1> HIDE DEF f
<1>6. ASSUME NEW k \in s..SegmentEnd PROVE buf[at + k] # Slash
  <2>1. at + k \in (at + s)..(f - 1)
    BY <1>1, <1>2, <1>4, <1>5
  <2>2. QED BY <1>4, <2>1
<1>7. ASSUME SegmentLen = 0 PROVE s = n + 1
  <2>1. f = at + s
    BY <1>1, <1>2, <1>4, <1>5, <1>7
  <2>2. ASSUME s <= n PROVE FALSE
    <3>1. f <= len
      BY <1>1, <1>2, <2>1, <2>2
    <3>2. QED BY <1>2, <1>4, <2>1, <2>2, <3>1
  <2>3. QED BY <1>1, <1>2, <2>2
<1>8. QED BY <1>2, <1>6, <1>7 DEF s

\* The segment is the next name of the path, and resolving goes on with it.
LEMMA SegmentIsName ==
    ASSUME PathIInv, pc = "normalize", SegmentLen > 0,
           NEW p, NEW j, NEW st, NEW t, Built(p, j, st, t, r)
    PROVE  /\ SegmentStart \in (r + 2)..Len(p) /\ SegmentEnd \in SegmentStart..Len(p)
           /\ Segment \in Word /\ Len(Segment) = SegmentEnd - SegmentStart + 1
           /\ \A k \in 1..(SegmentEnd - SegmentStart + 1) : Segment[k] = p[(SegmentStart - 1) + k]
           /\ Remains(p, j + 1, SegmentEnd + 1) /\ Names(p)[j + 1] = Segment
           /\ Reaches(Names(p), j + 1, ResolveAt(Names(p), {st}, j + 1))
<1> DEFINE a == SegmentStart
           e == SegmentEnd
           m == e - a + 1
           v == WordAt(p, a)
<1>1. /\ r \in Nat /\ len \in Nat /\ at \in Nat /\ at + r <= len /\ at < len
      /\ buf \in Seq(Byte) /\ len <= Len(buf)
  BY DEF PathIInv, PathTypes, Cursors
<1>2. /\ p \in Seq(Byte) /\ Len(p) = len - at /\ \A k \in (r + 1)..Len(p) : buf[at + k] = p[k]
      /\ Remains(p, j, r + 1) /\ Reaches(Names(p), j, {st})
  BY DEF Built
<1>3. /\ a \in (r + 2)..Len(p) /\ e \in a..Len(p) /\ SegmentLen = m
      /\ at + e < len => buf[at + e + 1] = Slash
  <2>1. /\ a \in (r + 1)..(len - at + 1) /\ e \in (a - 1)..(len - at) /\ SegmentLen = m
        /\ a <= e /\ r + 2 <= a /\ (at + e < len => buf[at + e + 1] = Slash)
    BY SegmentFacts
  <2> HIDE DEF a, e
  <2>2. QED BY <1>1, <1>2, <2>1
<1>4. /\ \A k \in (r + 1)..(a - 1) : buf[at + k] = Slash
      /\ \A k \in a..e : buf[at + k] # Slash
  BY SegmentBytes
<1>5. Segment = Slice(buf, at + a, m)
  BY <1>3 DEF Segment
<1> HIDE DEF a, e, v
<1>6. /\ a \in Nat /\ e \in Nat /\ a \in (r + 1)..Len(p) /\ a \in 1..Len(p) /\ m \in Nat
      /\ \A k \in (r + 1)..(a - 1) : k \in (r + 1)..Len(p)
      /\ \A k \in a..e : k \in (r + 1)..Len(p)
  BY <1>1, <1>2, <1>3
<1>7. /\ \A k \in (r + 1)..(a - 1) : p[k] = 47
      /\ \A k \in a..e : p[k] # 47
  BY <1>2, <1>4, <1>6 DEF Slash
<1>8. e < Len(p) => p[e + 1] = 47
  <2> SUFFICES ASSUME e < Len(p) PROVE p[e + 1] = 47
    OBVIOUS
  <2>1. e + 1 \in (r + 1)..Len(p) /\ at + e < len /\ at + e + 1 = at + (e + 1)
    BY <1>1, <1>2, <1>3, <1>6
  <2>2. QED BY <1>2, <1>3, <2>1 DEF Slash
<1>9. /\ v \in Word /\ Len(v) = m /\ \A k \in 1..m : v[k] = p[(a - 1) + k]
  <2>1. p \in Seq(Byte) /\ a \in 1..Len(p) /\ e \in a..Len(p)
    BY <1>2, <1>3, <1>6
  <2>2. /\ WordAt(p, a) \in Word /\ Len(WordAt(p, a)) = e - a + 1
        /\ \A k \in 1..(e - a + 1) : WordAt(p, a)[k] = p[(a - 1) + k]
    BY <1>7, <1>8, <2>1, WordIs
  <2>3. QED BY <2>2 DEF v
<1>10. Segment = v
  <2> DEFINE b == at + a - 1
  <2>1. b \in Nat /\ b + 1 = at + a /\ b + m <= Len(buf)
    BY <1>1, <1>2, <1>3, <1>6
  <2>2. \A k \in 1..m : b + k = at + ((a - 1) + k) /\ (a - 1) + k \in (r + 1)..Len(p)
    BY <1>1, <1>2, <1>3, <1>6
  <2> HIDE DEF b, m
  <2>3. /\ Segment \in Seq(Byte) /\ Len(Segment) = m /\ \A k \in 1..m : Segment[k] = buf[b + k]
    <3>1. Segment = Slice(buf, b + 1, m)
      BY <1>5, <2>1
    <3>2. buf \in Seq(Byte) /\ m \in Nat
      BY <1>1, <1>6
    <3>3. QED BY <2>1, <3>1, <3>2, SliceFacts
  <2>4. v \in Seq(Byte) /\ \A k \in 1..m : Segment[k] = v[k]
    BY <1>2, <1>9, <2>2, <2>3 DEF Word
  <2>5. QED BY <1>9, <2>3, <2>4, SeqEqual
<1>11. /\ j + 1 <= Len(Names(p)) /\ Names(p)[j + 1] = v /\ Remains(p, j + 1, e + 1)
  BY <1>2, <1>3, <1>6, <1>7, <1>8, RemainsNext DEF v
<1>12. Len(Names(p)) \in Nat
  BY <1>2, RemainsAll
<1>13. Reaches(Names(p), j + 1, ResolveAt(Names(p), {st}, j + 1))
  BY <1>2, <1>11, <1>12, ReachesNext
<1>14. QED BY <1>3, <1>9, <1>10, <1>11, <1>13 DEF a, e

\* What .. leaves of the output.
LEMMA ParentFacts ==
    ASSUME PathIInv, pc = "normalize", NEW u \in Seq(Byte), NEW n \in Word, NEW t,
           t = u \o <<Slash>> \o n, Len(t) = w, \A k \in 1..w : t[k] = buf[at + k]
    PROVE  Parent = Len(u) /\ Len(u) <= w /\ \A k \in 1..Len(u) : u[k] = buf[at + k]
<1> DEFINE slashes == {k \in 1..w : buf[at + k] = Slash}
           m == Len(u)
<1>1. w \in Nat /\ n \in Seq(Byte) /\ m \in Nat /\ Len(n) \in Nat
  BY DEF PathIInv, PathTypes, Word
<1>2. /\ w = m + 1 + Len(n) /\ t[m + 1] = 47 /\ \A k \in 1..m : t[k] = u[k]
      /\ \A k \in 1..Len(n) : t[m + 1 + k] = n[k]
  BY <1>1, Joined DEF Slash
<1> HIDE DEF m
<1>3. m + 1 \in slashes
  <2>1. m + 1 \in 1..w
    BY <1>1, <1>2
  <2>2. QED BY <1>2, <2>1 DEF Slash
<1>4. ASSUME NEW l \in slashes PROVE m + 1 >= l
  <2> SUFFICES ASSUME ~(m + 1 >= l) PROVE FALSE
    OBVIOUS
  <2>1. l \in 1..w /\ buf[at + l] = 47
    BY DEF Slash
  <2> DEFINE y == l - (m + 1)
  <2>2. y \in 1..Len(n) /\ m + 1 + y = l
    BY <1>1, <1>2, <2>1
  <2> HIDE DEF y
  <2>3. n[y] = 47
    BY <1>2, <2>1, <2>2
  <2>4. n[y] # 47
    <3>1. y \in DOMAIN n
      BY <1>1, <2>2
    <3>2. QED BY <3>1 DEF Word, Slash
  <2>5. QED BY <2>3, <2>4
<1> DEFINE last == CHOOSE k \in slashes : \A l \in slashes : k >= l
<1>5. last \in slashes /\ \A l \in slashes : last >= l
  BY <1>3, <1>4
<1>6. slashes # {} /\ \A l \in slashes : l \in Int
  BY <1>3
<1>7. Parent = last - 1
  BY <1>6 DEF Parent
<1> HIDE DEF last, slashes
<1>8. last = m + 1
  BY <1>1, <1>3, <1>4, <1>5, <1>6
<1>9. Parent = m /\ m <= w /\ \A k \in 1..m : k \in 1..w
  BY <1>1, <1>2, <1>7, <1>8
<1>10. QED BY <1>2, <1>9 DEF m

\* A segment is resolved like its name.
LEMMA NormalizeSegmentFinds ==
    ASSUME PathIInv, PathFound, NormalizeSegment PROVE PathFound'
<1> DEFINE a == SegmentStart
           e == SegmentEnd
<1>0. PICK v : v = Segment
  OBVIOUS
<1>1. /\ pc = "normalize" /\ SegmentLen > 0
      /\ len \in Nat /\ from \in Nat /\ at \in Nat /\ r \in Nat /\ w \in Nat
      /\ w <= r /\ at + r <= len /\ at < len /\ buf \in Seq(Byte) /\ len <= Len(buf)
  BY DEF NormalizeSegment, PathIInv, PathTypes, Cursors
<1>2. PICK p, j, st, t : Built(p, j, st, t, r)
  BY <1>1 DEF PathFound, Normalizing
<1>3. /\ p \in Seq(Byte) /\ Wanted = PathsOf(p) /\ Len(p) = len - at
      /\ \A k \in (r + 1)..Len(p) : buf[at + k] = p[k]
      /\ Spells(t, st) /\ t \in Seq(Byte)
      /\ Len(t) = w + (r - r) /\ \A k \in 1..w : t[k] = buf[at + k]
  BY <1>2 DEF Built, Spells
<1>4. Len(t) = w
  BY <1>1, <1>3
<1>5. /\ a \in (r + 2)..Len(p) /\ e \in a..Len(p)
      /\ v \in Word /\ Len(v) = e - a + 1 /\ \A k \in 1..(e - a + 1) : v[k] = p[(a - 1) + k]
      /\ Remains(p, j + 1, e + 1) /\ Names(p)[j + 1] = v
      /\ Reaches(Names(p), j + 1, ResolveAt(Names(p), {st}, j + 1))
  BY <1>0, <1>1, <1>2, SegmentIsName
<1>6. \/ v = <<46>> /\ r' = e /\ KeepPath /\ UNCHANGED <<buf, w>>
      \/ v = <<46, 46>> /\ w = 0 /\ Fail("bad")
      \/ v = <<46, 46>> /\ w # 0 /\ w' = Parent /\ r' = e /\ KeepPath /\ UNCHANGED buf
      \/ /\ v \notin {<<46>>, <<46, 46>>}
         /\ buf' = [buf EXCEPT ![at + w + 1] = Slash] /\ w' = w + 1 /\ r' = e
         /\ from' = a - 1 /\ pc' = "copy" /\ UNCHANGED <<uri, len, at, params, path>>
  BY <1>0 DEF NormalizeSegment, Dot
<1> HIDE DEF a, e
<1>7. e \in Nat /\ a \in Nat /\ \A k \in (e + 1)..Len(p) : k \in (r + 1)..Len(p)
  BY <1>1, <1>3, <1>5
<1>8. <<46>> # <<46, 46>>
  <2>1. Len(<<46>>) = 1 /\ Len(<<46, 46>>) = 2
    OBVIOUS
  <2>2. QED BY <2>1
<1>9. CASE v = <<46>> /\ r' = e /\ KeepPath /\ UNCHANGED <<buf, w>>
  <2>1. UNCHANGED <<uri, len, pc, at, buf, w>> /\ r' = e
    BY <1>9 DEF KeepPath
  <2>2. Reaches(Names(p), j + 1, {st})
    BY <1>5, <1>9 DEF ResolveAt
  <2>3. Wanted' = Wanted
    BY <2>1 DEF Wanted
  <2>4. \A k \in (e + 1)..Len(p) : buf[at + k] = p[k]
    BY <1>3, <1>7
  <2>5. Len(t) = w + (e - e) /\ 1..(e - e) = {}
    BY <1>1, <1>4, <1>7
  <2>6. Built(p, j + 1, st, t, r)'
    BY <1>3, <1>5, <2>1, <2>2, <2>3, <2>4, <2>5 DEF Built
  <2>7. QED BY <1>1, <2>1, <2>6 DEF PathFound, Decoding, Forming, Normalizing, Answered
<1>10. CASE v = <<46, 46>> /\ w = 0 /\ Fail("bad")
  <2>1. t = <<>>
    BY <1>3, <1>4, <1>10
  <2>2. st = <<>>
    BY <1>3, <2>1, SpellsEmpty
  <2>3. ResolveAt(Names(p), {st}, j + 1) = {}
    <3>1. ResolveAt(Names(p), {st}, j + 1) = {Front(x) : x \in {y \in {st} : y # <<>>}}
      BY <1>5, <1>8, <1>10 DEF ResolveAt
    <3>2. QED BY <2>2, <3>1
  <2>4. Len(Names(p)) \in Nat
    BY <1>3, RemainsAll
  <2>5. Resolved(Names(p)) = {}
    BY <1>5, <2>3, <2>4, ReachesNoMore
  <2>6. Wanted = {}
    BY <1>3, <2>5 DEF PathsOf
  <2>7. Wanted' = Wanted /\ pc' = "bad"
    BY <1>10 DEF Fail, Wanted
  <2>8. QED BY <2>6, <2>7 DEF PathFound, Decoding, Forming, Normalizing, Answered
<1>11. CASE v = <<46, 46>> /\ w # 0 /\ w' = Parent /\ r' = e /\ KeepPath /\ UNCHANGED buf
  <2>1. UNCHANGED <<uri, len, pc, at, buf>> /\ r' = e
    BY <1>11 DEF KeepPath
  <2>2. st # <<>>
    <3>1. t # <<>>
      BY <1>4, <1>11
    <3>2. QED BY <1>3, <3>1, SpellsEmpty
  <2>3. PICK u \in Seq(Byte), n \in Word : t = u \o <<47>> \o n /\ Spells(u, Front(st))
    BY <1>3, <2>2, SpellsFront
  <2>4. Parent = Len(u) /\ Len(u) <= w /\ \A k \in 1..Len(u) : u[k] = buf[at + k]
    BY <1>1, <1>3, <1>4, <2>3, ParentFacts DEF Slash
  <2>5. ResolveAt(Names(p), {st}, j + 1) = {Front(st)}
    <3>1. ResolveAt(Names(p), {st}, j + 1) = {Front(x) : x \in {y \in {st} : y # <<>>}}
      BY <1>5, <1>8, <1>11 DEF ResolveAt
    <3>2. {y \in {st} : y # <<>>} = {st}
      BY <2>2
    <3>3. QED BY <3>1, <3>2
  <2>6. Wanted' = Wanted
    BY <2>1 DEF Wanted
  <2>7. \A k \in (e + 1)..Len(p) : buf[at + k] = p[k]
    BY <1>3, <1>7
  <2>8. w' = Len(u) /\ Len(u) = Len(u) + (e - e) /\ 1..(e - e) = {}
    BY <1>7, <1>11, <2>4
  <2>9. Built(p, j + 1, Front(st), u, r)'
    <3>1. /\ Remains(p, j + 1, r' + 1) /\ Reaches(Names(p), j + 1, {Front(st)}) /\ Spells(u, Front(st))
      BY <1>5, <2>1, <2>3, <2>5
    <3>2. /\ Len(u) = w' + (r' - r') /\ (\A k \in 1..w' : u[k] = buf'[at' + k])
          /\ \A k \in 1..(r' - r') : u[w' + k] = p[r' + k]
      BY <2>1, <2>4, <2>8
    <3>3. /\ p \in Seq(Byte) /\ Wanted' = PathsOf(p) /\ Len(p) = len' - at'
          /\ \A k \in (r' + 1)..Len(p) : buf'[at' + k] = p[k]
      BY <1>3, <2>1, <2>6, <2>7
    <3>4. QED BY <3>1, <3>2, <3>3 DEF Built
  <2>10. QED BY <1>1, <2>1, <2>9 DEF PathFound, Decoding, Forming, Normalizing, Answered
<1>12. CASE /\ v \notin {<<46>>, <<46, 46>>}
            /\ buf' = [buf EXCEPT ![at + w + 1] = Slash] /\ w' = w + 1 /\ r' = e
            /\ from' = a - 1 /\ pc' = "copy" /\ UNCHANGED <<uri, len, at, params, path>>
  <2> DEFINE x == t \o <<47>> \o v
             su == Append(st, v)
  <2>1. ResolveAt(Names(p), {st}, j + 1) = {su}
    <3>1. ResolveAt(Names(p), {st}, j + 1) = {Append(y, v) : y \in {st}}
      BY <1>5, <1>12 DEF ResolveAt
    <3>2. QED BY <3>1
  <2>2. Spells(x, su)
    BY <1>3, <1>5, SpellsAppend
  <2>3. v \in Seq(Byte)
    BY <1>5 DEF Word
  <2>4. /\ Len(x) = w + 1 + Len(v) /\ (\A k \in 1..w : x[k] = t[k]) /\ x[w + 1] = 47
        /\ \A k \in 1..Len(v) : x[w + 1 + k] = v[k]
    <3>1. t \in Seq(Byte)
      BY <1>3
    <3>2. /\ Len(x) = Len(t) + 1 + Len(v) /\ (\A k \in 1..Len(t) : x[k] = t[k]) /\ x[Len(t) + 1] = 47
          /\ \A k \in 1..Len(v) : x[Len(t) + 1 + k] = v[k]
      BY <2>3, <3>1, Joined
    <3> HIDE DEF x
    <3>3. QED BY <1>4, <3>2
  <2> HIDE DEF x, su
  <2>5. at + w + 1 \in 1..Len(buf)
    BY <1>1, <1>3, <1>5
  <2>6. buf'[at + w + 1] = 47 /\ \A k \in 1..Len(buf) : k # at + w + 1 => buf'[k] = buf[k]
    BY <1>1, <1>12, <2>5 DEF Slash
  <2>7. ASSUME NEW k \in 1..(w + 1) PROVE x[k] = buf'[at + k]
    <3>1. CASE k = w + 1
      <4>1. at + k = at + w + 1
        BY <1>1, <3>1
      <4>2. QED BY <2>4, <2>6, <3>1, <4>1
    <3>2. CASE k # w + 1
      <4>1. k \in 1..w /\ at + k \in 1..Len(buf) /\ at + k # at + w + 1
        BY <1>1, <3>2
      <4>2. QED BY <1>3, <2>4, <2>6, <4>1
    <3>3. QED BY <3>1, <3>2
  <2>8. ASSUME NEW k \in a..Len(p) PROVE buf'[at + k] = p[k]
    <3> DEFINE n == Len(p)
               z == Len(buf)
    <3>1. k \in (r + 1)..Len(p) /\ at + k \in 1..Len(buf) /\ at + k # at + w + 1
      <4>1. /\ r \in Nat /\ w \in Nat /\ at \in Nat /\ n \in Nat /\ z \in Nat /\ a \in (r + 2)..n
            /\ w <= r /\ at + n <= z /\ k \in a..n
        BY <1>1, <1>3, <1>5
      <4> HIDE DEF n, z
      <4>2. k \in (r + 1)..n /\ at + k \in 1..z /\ at + k # at + w + 1
        BY <4>1
      <4>3. QED BY <4>2 DEF n, z
    <3>2. QED BY <1>3, <2>6, <3>1
  <2>9. e - (a - 1) = e - a + 1 /\ (a - 1) + 1 = a
    BY <1>7
  <2>10. Len(x) = (w + 1) + (e - (a - 1))
    BY <1>1, <1>5, <2>4, <2>9
  <2>11. \A k \in 1..(e - (a - 1)) : x[(w + 1) + k] = p[(a - 1) + k]
    <3>1. TAKE k \in 1..(e - (a - 1))
    <3>2. k \in 1..(e - a + 1) /\ k \in 1..Len(v) /\ (w + 1) + k = w + 1 + k
      BY <1>1, <1>5, <2>9
    <3>3. QED BY <1>5, <2>4, <3>2
  <2>12. Wanted' = Wanted
    BY <1>12 DEF Wanted
  <2>13. Built(p, j + 1, su, x, from)'
    <3>1. /\ Remains(p, j + 1, r' + 1) /\ Reaches(Names(p), j + 1, {su}) /\ Spells(x, su)
      BY <1>5, <1>12, <2>1, <2>2
    <3>2. /\ Len(x) = w' + (r' - from') /\ (\A k \in 1..w' : x[k] = buf'[at' + k])
          /\ \A k \in 1..(r' - from') : x[w' + k] = p[from' + k]
      BY <1>12, <2>7, <2>10, <2>11
    <3>3. /\ p \in Seq(Byte) /\ Wanted' = PathsOf(p) /\ Len(p) = len' - at'
          /\ \A k \in (from' + 1)..Len(p) : buf'[at' + k] = p[k]
      BY <1>3, <1>12, <2>8, <2>9, <2>12
    <3>4. QED BY <3>1, <3>2, <3>3 DEF Built
  <2>14. QED BY <1>12, <2>13 DEF PathFound, Decoding, Forming, Normalizing, Answered
<1>13. QED BY <1>6, <1>9, <1>10, <1>11, <1>12

\* A byte copied is a byte of the name.
LEMMA CopyByteFinds ==
    ASSUME PathIInv, PathFound, CopyByte PROVE PathFound'
<1>1. /\ pc = "copy" /\ len \in Nat /\ from \in Nat /\ at \in Nat /\ r \in Nat /\ w \in Nat
      /\ w <= from /\ from < r /\ at + r <= len /\ buf \in Seq(Byte) /\ len <= Len(buf)
      /\ buf' = [buf EXCEPT ![at + w + 1] = buf[at + from + 1]] /\ w' = w + 1 /\ from' = from + 1
      /\ pc' = IF from + 1 < r THEN "copy" ELSE "normalize"
      /\ UNCHANGED <<uri, len, r, at, params, path>>
  BY DEF CopyByte, PathIInv, PathTypes, Cursors
<1>2. PICK p, j, st, t : Built(p, j, st, t, from)
  BY <1>1 DEF PathFound, Normalizing
<1>3. /\ p \in Seq(Byte) /\ Wanted = PathsOf(p) /\ Len(p) = len - at
      /\ \A k \in (from + 1)..Len(p) : buf[at + k] = p[k]
      /\ Remains(p, j, r + 1) /\ Reaches(Names(p), j, {st}) /\ Spells(t, st)
      /\ Len(t) = w + (r - from) /\ (\A k \in 1..w : t[k] = buf[at + k])
      /\ \A k \in 1..(r - from) : t[w + k] = p[from + k]
  BY <1>2 DEF Built
<1> DEFINE f == from + 1
           n == Len(p)
           z == Len(buf)
<1>4. /\ n \in Nat /\ z \in Nat /\ at + n = len /\ len <= z
  <2>1. n \in Nat /\ n = len - at
    BY <1>3
  <2>2. z \in Nat /\ len <= z /\ len \in Nat /\ at \in Nat
    BY <1>1
  <2> HIDE DEF n, z
  <2>3. QED BY <2>1, <2>2
<1> HIDE DEF n, z
<1>5. /\ len \in Nat /\ from \in Nat /\ at \in Nat /\ r \in Nat /\ w \in Nat
      /\ w <= from /\ from < r /\ at + r <= len
  BY <1>1
<1>6. /\ buf'[at + w + 1] = t[w + 1] /\ \A k \in 1..z : k # at + w + 1 => buf'[k] = buf[k]
  <2>1. f \in (from + 1)..n /\ at + f = at + from + 1 /\ 1 \in 1..(r - from) /\ at + w + 1 \in 1..z
    BY <1>4, <1>5
  <2>2. buf[at + f] = p[f] /\ t[w + 1] = p[from + 1]
    BY <1>3, <2>1 DEF n
  <2>3. buf[at + from + 1] = t[w + 1]
    BY <2>1, <2>2
  <2>4. QED BY <1>1, <2>1, <2>3 DEF z
<1>7. ASSUME NEW k \in 1..(w + 1) PROVE t[k] = buf'[at + k]
  <2>1. CASE k = w + 1
    <3>1. at + k = at + w + 1
      BY <1>5, <2>1
    <3>2. QED BY <1>6, <2>1, <3>1
  <2>2. CASE k # w + 1
    <3>1. k \in 1..w /\ at + k \in 1..z /\ at + k # at + w + 1
      BY <1>4, <1>5, <2>2
    <3>2. QED BY <1>3, <1>6, <3>1
  <2>3. QED BY <2>1, <2>2
<1>8. ASSUME NEW k \in (f + 1)..n PROVE buf'[at + k] = p[k]
  <2>1. k \in (from + 1)..n /\ at + k \in 1..z /\ at + k # at + w + 1
    BY <1>4, <1>5
  <2>2. QED BY <1>3, <1>6, <2>1 DEF n
<1>9. Len(t) = (w + 1) + (r - f)
  BY <1>1, <1>3
<1>10. ASSUME NEW k \in 1..(r - f) PROVE t[(w + 1) + k] = p[f + k]
  <2>1. k + 1 \in 1..(r - from) /\ (w + 1) + k = w + (k + 1) /\ f + k = from + (k + 1)
    BY <1>5
  <2>2. QED BY <1>3, <2>1
<1>11. Wanted' = Wanted
  BY <1>1 DEF Wanted
<1>12. Built(p, j, st, t, from)'
  <2>1. /\ p \in Seq(Byte) /\ Wanted' = PathsOf(p) /\ Len(p) = len' - at'
        /\ \A k \in (from' + 1)..Len(p) : buf'[at' + k] = p[k]
    BY <1>1, <1>3, <1>8, <1>11 DEF n
  <2>2. /\ Remains(p, j, r' + 1) /\ Reaches(Names(p), j, {st}) /\ Spells(t, st)
    BY <1>1, <1>3
  <2>3. /\ Len(t) = w' + (r' - from') /\ (\A k \in 1..w' : t[k] = buf'[at' + k])
        /\ \A k \in 1..(r' - from') : t[w' + k] = p[from' + k]
    BY <1>1, <1>7, <1>9, <1>10
  <2>4. QED BY <2>1, <2>2, <2>3 DEF Built
<1>13. ~(f < r) => from' = r'
  BY <1>1
<1>14. CASE f < r
  BY <1>1, <1>12, <1>14 DEF PathFound, Decoding, Forming, Normalizing, Answered
<1>15. CASE ~(f < r)
  <2>1. Built(p, j, st, t, r)'
    BY <1>12, <1>13, <1>15 DEF Built
  <2>2. QED BY <1>1, <1>15, <2>1 DEF PathFound, Decoding, Forming, Normalizing, Answered
<1>16. QED BY <1>14, <1>15

\* When no segment is left, the path is that of the reference.
LEMMA NormalizedFinds ==
    ASSUME PathIInv, PathFound, Normalized PROVE PathFound'
<1>1. /\ pc = "normalize" /\ SegmentLen = 0 /\ r \in Nat /\ w \in Nat /\ len \in Nat /\ at \in Nat
      /\ at + r <= len /\ w <= r /\ buf \in Seq(Byte) /\ len <= Len(buf)
  BY DEF Normalized, PathIInv, PathTypes, Cursors
<1>2. pc' = "ok" /\ UNCHANGED <<uri>> /\ path' = IF w = 0 THEN <<47>> ELSE Slice(buf, at + 1, w)
  BY DEF Normalized, Finish, Slash
<1>3. PICK p, j, st, t : Built(p, j, st, t, r)
  BY <1>1 DEF PathFound, Normalizing
<1>4. /\ p \in Seq(Byte) /\ Wanted = PathsOf(p) /\ Len(p) = len - at
      /\ \A k \in (r + 1)..Len(p) : buf[at + k] = p[k]
      /\ Remains(p, j, r + 1) /\ Reaches(Names(p), j, {st}) /\ Spells(t, st) /\ t \in Seq(Byte)
      /\ Len(t) = w + (r - r) /\ \A k \in 1..w : t[k] = buf[at + k]
  BY <1>3 DEF Built, Spells
<1>5. Len(t) = w
  BY <1>1, <1>4
<1>6. \A k \in (r + 1)..Len(p) : p[k] = 47
  <2>1. SegmentStart = len - at + 1 /\ \A k \in (r + 1)..(SegmentStart - 1) : buf[at + k] = Slash
    BY <1>1, SegmentBytes
  <2>2. SegmentStart - 1 = Len(p)
    BY <1>1, <1>4, <2>1
  <2>3. QED BY <1>4, <2>1, <2>2 DEF Slash
<1>7. j = Len(Names(p))
  BY <1>4, <1>6, RemainsNone
<1>8. PathsOf(p) = {IF st = <<>> THEN <<47>> ELSE t}
  BY <1>4, <1>7, PathsAre
<1>9. st = <<>> <=> w = 0
  <2>1. t = <<>> <=> w = 0
    BY <1>4, <1>5
  <2>2. QED BY <1>4, <2>1, SpellsEmpty
<1>10. Slice(buf, at + 1, w) = t
  <2>1. at + w <= Len(buf)
    BY <1>1
  <2>2. /\ Slice(buf, at + 1, w) \in Seq(Byte) /\ Len(Slice(buf, at + 1, w)) = w
        /\ \A k \in 1..w : Slice(buf, at + 1, w)[k] = buf[at + k]
    BY <1>1, <2>1, SliceFacts
  <2>3. QED BY <1>4, <1>5, <2>2, SeqEqual
<1>11. Wanted = {path'}
  BY <1>2, <1>4, <1>8, <1>9, <1>10
<1>12. Wanted' = Wanted
  BY <1>2 DEF Wanted
<1>13. QED BY <1>2, <1>11, <1>12 DEF PathFound, Decoding, Forming, Normalizing, Answered

\* Nothing is found yet.
LEMMA PathFoundInit ==
    ASSUME Init PROVE PathFound
BY DEF Init, PathFound, Decoding, Forming, Normalizing, Answered

\* Every step of normalize_uri goes on with what the reference wants.
LEMMA PathFoundStep ==
    ASSUME PathIInv, PathIInv', PathFound, [Next]_vars PROVE PathFound'
<1>1. CASE UNCHANGED vars
  <2>1. UNCHANGED <<uri, buf, len, pc, r, w, from, at, path>>
    BY <1>1 DEF vars
  <2>2. Undecoded' = Undecoded /\ Wanted' = Wanted
    BY <2>1 DEF Undecoded, Wanted
  <2>3. Decoding' /\ Forming' /\ Answered'
    BY <2>1, <2>2 DEF PathFound, Decoding, Forming, Answered
  <2>4. Normalizing'
    <3>1. ASSUME NEW p, NEW j, NEW st, NEW t
          PROVE  /\ Built(p, j, st, t, r) => Built(p, j, st, t, r)'
                 /\ Built(p, j, st, t, from) => Built(p, j, st, t, from)'
      BY <2>1, <2>2 DEF Built
    <3>2. QED BY <2>1, <3>1 DEF PathFound, Normalizing
  <2>5. QED BY <2>3, <2>4 DEF PathFound
<1>2. CASE EndQuery /\ pc \in {"query", "param"}
  BY <1>2, EndQueryFinds
<1>3. CASE pc' \in {"param", "too_long"}
  BY <1>3 DEF PathFound, Decoding, Forming, Normalizing, Answered
<1>4. CASE FindQuery
  <2>1. pc = "query" /\ (EndQuery \/ pc' = "param")
    BY <1>4 DEF FindQuery
  <2>2. QED BY <1>2, <1>3, <2>1
<1>5. CASE ReadParam
  <2>1. pc = "param" /\ (EndQuery \/ pc' \in {"param", "too_long"})
    BY <1>5 DEF ReadParam, Fail
  <2>2. QED BY <1>2, <1>3, <2>1
<1>6. CASE Returned
  BY <1>1, <1>6 DEF Returned
<1>7. QED
  BY <1>1, <1>4, <1>5, <1>6, UrlDecodeFinds, DecodedFinds, FormFinds, NormalizeSegmentFinds,
     CopyByteFinds, NormalizedFinds DEF Next

\* The path a handler is chosen by is that of the reference, and exactly the
\* targets the reference has no path for are refused, for every target and
\* whatever was overwritten on the way (normalize_uri).
THEOREM PathsAreReference == TextsSpec => []PathIsReference
<1> DEFINE I == PathIInv /\ PathFound
<1>1. TextsInit => I
  <2> SUFFICES ASSUME TextsInit PROVE I
    OBVIOUS
  <2>1. Init
    BY DEF TextsInit
  <2>2. QED BY <2>1, PathInit, PathFoundInit
<1>2. I /\ [TextsNext]_<<vars, job, result>> => I'
  <2> SUFFICES ASSUME I, [TextsNext]_<<vars, job, result>> PROVE I'
    OBVIOUS
  <2>1. [Next]_vars
    BY DEF TextsNext, DoJob
  <2>2. PathIInv'
    BY <2>1, PathStep
  <2>3. QED BY <2>1, <2>2, PathFoundStep
<1>3. I => PathIsReference
  <2> SUFFICES ASSUME I, pc \in {"ok", "bad"}
               PROVE  (IF pc = "ok" THEN {path} ELSE {}) = Wanted
    BY DEF PathIsReference, Wanted
  <2>1. QED BY DEF PathFound, Answered
<1>4. QED BY <1>1, <1>2, <1>3, PTL DEF TextsSpec

-----------------------------------------------------------------------------
(* Dates. *)

\* The two rules for leap years agree.
LEMMA LeapIsLong ==
    ASSUME NEW y \in Int PROVE Leap(y) <=> LongYear(y)
<1>1. y % 400 = 0 => y % 100 = 0
  OBVIOUS
<1>2. y % 100 = 0 => y % 4 = 0
  OBVIOUS
<1>3. QED BY <1>1, <1>2 DEF Leap, LongYear

\* The quotients of YearDays step with the multiples of 4, 100 and 400.
LEMMA Quotients ==
    ASSUME NEW y \in Nat \ {0}
    PROVE  /\ y \div 4 = (y - 1) \div 4 + (IF y % 4 = 0 THEN 1 ELSE 0)
           /\ y \div 100 = (y - 1) \div 100 + (IF y % 100 = 0 THEN 1 ELSE 0)
           /\ y \div 400 = (y - 1) \div 400 + (IF y % 400 = 0 THEN 1 ELSE 0)
<1>1. y \div 4 = (y - 1) \div 4 + (IF y % 4 = 0 THEN 1 ELSE 0)
  OBVIOUS
<1>2. y \div 100 = (y - 1) \div 100 + (IF y % 100 = 0 THEN 1 ELSE 0)
  OBVIOUS
<1>3. y \div 400 = (y - 1) \div 400 + (IF y % 400 = 0 THEN 1 ELSE 0)
  OBVIOUS
<1>4. QED BY <1>1, <1>2, <1>3

LeapsBefore(y) == {x \in 1970..(y - 1) : LongYear(x)}

LeapCount(y) == ((y - 1) \div 4 - 1969 \div 4) - ((y - 1) \div 100 - 1969 \div 100)
                    + ((y - 1) \div 400 - 1969 \div 400)

\* The formula of YearDays counts one more leap year exactly after a leap year.
LEMMA LeapCountStep ==
    ASSUME NEW y \in Nat, y >= 1970
    PROVE  LeapCount(y + 1) = LeapCount(y) + (IF LongYear(y) THEN 1 ELSE 0)
<1> DEFINE a == (y - 1) \div 4
           b == (y - 1) \div 100
           c == (y - 1) \div 400
<1>1. y % 400 = 0 => y % 100 = 0
  OBVIOUS
<1>2. y % 100 = 0 => y % 4 = 0
  OBVIOUS
<1>3. /\ y \div 4 = a + (IF y % 4 = 0 THEN 1 ELSE 0)
      /\ y \div 100 = b + (IF y % 100 = 0 THEN 1 ELSE 0)
      /\ y \div 400 = c + (IF y % 400 = 0 THEN 1 ELSE 0)
  BY Quotients
<1>4. LeapCount(y) = (a - 492) - (b - 19) + (c - 4)
  BY DEF LeapCount
<1>5. LeapCount(y + 1) = (y \div 4 - 492) - (y \div 100 - 19) + (y \div 400 - 4)
  <2>1. (y + 1) - 1 = y
    OBVIOUS
  <2>2. QED BY <2>1 DEF LeapCount
<1>6. a \in Int /\ b \in Int /\ c \in Int
  OBVIOUS
<1> HIDE DEF a, b, c
<1>7. QED BY <1>1, <1>2, <1>3, <1>4, <1>5, <1>6 DEF LongYear

\* The number of leap years before y is what YearDays computes from the
\* quotients: the least counterexample would follow a year without error.
LEMMA LeapsCounted ==
    \A y \in Nat : y >= 1970 =>
        IsFiniteSet(LeapsBefore(y)) /\ Cardinality(LeapsBefore(y)) = LeapCount(y)
<1> DEFINE Good(x) == IsFiniteSet(LeapsBefore(x)) /\ Cardinality(LeapsBefore(x)) = LeapCount(x)
           Bad == {x \in Nat : x >= 1970 /\ ~Good(x)}
<1>1. Good(1970)
  <2>1. LeapsBefore(1970) = {}
    BY DEF LeapsBefore
  <2>2. LeapCount(1970) = 0
    BY DEF LeapCount
  <2>3. QED BY <2>1, <2>2, FS_EmptySet
<1>2. ASSUME NEW x \in Nat, x >= 1970, Good(x) PROVE Good(x + 1)
  <2>1. LeapsBefore(x + 1) = IF LongYear(x) THEN LeapsBefore(x) \cup {x} ELSE LeapsBefore(x)
    <3>1. 1970..((x + 1) - 1) = (1970..(x - 1)) \cup {x}
      BY <1>2
    <3>2. LeapsBefore(x + 1) = {z \in (1970..(x - 1)) \cup {x} : LongYear(z)}
      BY <3>1 DEF LeapsBefore
    <3>3. QED BY <3>2 DEF LeapsBefore
  <2>2. x \notin LeapsBefore(x)
    BY DEF LeapsBefore
  <2>3. LeapCount(x) \in Int
    BY DEF LeapCount
  <2>4. LeapCount(x + 1) = LeapCount(x) + (IF LongYear(x) THEN 1 ELSE 0)
    BY <1>2, LeapCountStep
  <2>5. CASE LongYear(x)
    <3>1. IsFiniteSet(LeapsBefore(x) \cup {x}) /\ Cardinality(LeapsBefore(x) \cup {x}) = LeapCount(x) + 1
      BY <1>2, <2>2, FS_AddElement
    <3>2. QED BY <2>1, <2>4, <2>5, <3>1
  <2>6. CASE ~LongYear(x)
    BY <1>2, <2>1, <2>3, <2>4, <2>6
  <2>7. QED BY <2>5, <2>6
<1>3. SUFFICES ASSUME Bad # {} PROVE FALSE
  OBVIOUS
<1>4. Bad \subseteq Nat /\ Bad # {}
  BY <1>3
<1>5. PICK x \in Bad : \A z \in Bad : x <= z
  <2> HIDE DEF Bad
  <2> QED BY <1>4, Least
<1> HIDE DEF Good
<1>6. x \in Nat /\ x > 1970
  BY <1>1, <1>5
<1>7. x - 1 \in Nat /\ x - 1 >= 1970 /\ x - 1 \notin Bad
  BY <1>5, <1>6
<1>8. Good(x - 1) /\ (x - 1) + 1 = x
  BY <1>7
<1>9. Good(x)
  BY <1>2, <1>7, <1>8
<1>10. QED BY <1>5, <1>9

\* What the recursive sum of MonthsBefore computes: it begins with 0 and adds
\* the days of each month.
LEMMA MonthsSum ==
    ASSUME NEW y \in Nat
    PROVE  /\ MonthsBefore(y, 1) = 0
           /\ \A m \in 1..11 : /\ MonthsBefore(y, m) \in Nat
                               /\ MonthsBefore(y, m + 1) = MonthsBefore(y, m) + DaysIn(y, m)
<1> DEFINE L == IF Leap(y) THEN 1 ELSE 0
           Image(f) == [m \in 1..12 |-> IF m = 1 THEN 0 ELSE f[m - 1] + DaysIn(y, m - 1)]
           sum == CHOOSE f : f = Image(f)
           g == <<0, 31, 59 + L, 90 + L, 120 + L, 151 + L, 181 + L, 212 + L, 243 + L,
                  273 + L, 304 + L, 334 + L>>
<1>1. /\ L \in 0..1
      /\ DaysIn(y, 1) = 31 /\ DaysIn(y, 2) = 28 + L /\ DaysIn(y, 3) = 31 /\ DaysIn(y, 4) = 30
      /\ DaysIn(y, 5) = 31 /\ DaysIn(y, 6) = 30 /\ DaysIn(y, 7) = 31 /\ DaysIn(y, 8) = 31
      /\ DaysIn(y, 9) = 30 /\ DaysIn(y, 10) = 31 /\ DaysIn(y, 11) = 30
  BY DEF DaysIn, MonthDays
<1> HIDE DEF L
<1>2. g = Image(g)
  <2>1. \A m \in 1..12 : m = 1 \/ m = 2 \/ m = 3 \/ m = 4 \/ m = 5 \/ m = 6 \/ m = 7 \/ m = 8
                         \/ m = 9 \/ m = 10 \/ m = 11 \/ m = 12
    OBVIOUS
  <2>2. DOMAIN g = 1..12 /\ DOMAIN Image(g) = 1..12
    OBVIOUS
  <2>3. ASSUME NEW m \in 1..12 PROVE g[m] = Image(g)[m]
    BY <1>1, <2>1
  <2>4. QED BY <2>2, <2>3
<1>3. sum = Image(sum)
  <2> HIDE DEF g, Image
  <2> QED BY <1>2
<1>4. \A m \in 1..12 : MonthsBefore(y, m) = sum[m]
  BY DEF MonthsBefore
<1>5. sum[1] = 0 /\ \A m \in 1..11 : sum[m + 1] = sum[m] + DaysIn(y, m)
  <2>1. \A m \in 1..12 : sum[m] = Image(sum)[m]
    BY <1>3
  <2> HIDE DEF sum
  <2>2. QED BY <2>1
<1> HIDE DEF sum
<1>6. /\ sum[1] \in Nat /\ sum[2] \in Nat /\ sum[3] \in Nat /\ sum[4] \in Nat /\ sum[5] \in Nat
      /\ sum[6] \in Nat /\ sum[7] \in Nat /\ sum[8] \in Nat /\ sum[9] \in Nat /\ sum[10] \in Nat
      /\ sum[11] \in Nat
  BY <1>1, <1>5
<1>7. \A m \in 1..11 : sum[m] \in Nat
  BY <1>6
<1>8. QED BY <1>4, <1>5, <1>7

\* The lengths of the months.
LEMMA MonthLength ==
    ASSUME NEW y \in Nat, NEW m \in 1..12
    PROVE  /\ DaysIn(y, m) \in 28..31
           /\ DaysIn(y, m) = CASE m = 2 -> (IF LongYear(y) THEN 29 ELSE 28)
                               [] m \in {4, 6, 9, 11} -> 30 [] OTHER -> 31
<1> DEFINE L == IF Leap(y) THEN 1 ELSE 0
<1>1. /\ L \in 0..1
      /\ DaysIn(y, 1) = 31 /\ DaysIn(y, 2) = 28 + L /\ DaysIn(y, 3) = 31 /\ DaysIn(y, 4) = 30
      /\ DaysIn(y, 5) = 31 /\ DaysIn(y, 6) = 30 /\ DaysIn(y, 7) = 31 /\ DaysIn(y, 8) = 31
      /\ DaysIn(y, 9) = 30 /\ DaysIn(y, 10) = 31 /\ DaysIn(y, 11) = 30 /\ DaysIn(y, 12) = 31
  BY DEF DaysIn, MonthDays
<1>2. m = 1 \/ m = 2 \/ m = 3 \/ m = 4 \/ m = 5 \/ m = 6 \/ m = 7 \/ m = 8
      \/ m = 9 \/ m = 10 \/ m = 11 \/ m = 12
  OBVIOUS
<1>3. L = IF LongYear(y) THEN 1 ELSE 0
  BY LeapIsLong
<1> HIDE DEF L
<1>4. QED BY <1>1, <1>2, <1>3

\* The days a month has are those the calendar lists.
LEMMA CalendarDays ==
    ASSUME NEW y \in Nat, NEW m \in 1..12, NEW d \in Int
    PROVE  <<m, d>> \in Calendar(y) <=> d \in 1..DaysIn(y, m)
<1>1. /\ DaysIn(y, m) \in 28..31
      /\ DaysIn(y, m) = CASE m = 2 -> (IF LongYear(y) THEN 29 ELSE 28)
                          [] m \in {4, 6, 9, 11} -> 30 [] OTHER -> 31
  BY MonthLength
<1>2. <<m, d>> \in Calendar(y) <=>
          d \in 1..31 /\ (m \in {4, 6, 9, 11} => d <= 30)
                      /\ (m = 2 => d <= IF LongYear(y) THEN 29 ELSE 28)
  BY DEF Calendar
<1>3. QED BY <1>1, <1>2

\* The days of the months before m.
DaysBefore(y, m) == {e \in Calendar(y) : e[1] < m}

\* A month adds its days.
LEMMA MonthAdds ==
    ASSUME NEW y \in Nat, NEW m \in 1..12, NEW d \in 0..31, d <= DaysIn(y, m),
           IsFiniteSet(DaysBefore(y, m))
    PROVE  LET S == {e \in Calendar(y) : e[1] < m \/ (e[1] = m /\ e[2] <= d)}
           IN  IsFiniteSet(S) /\ Cardinality(S) = Cardinality(DaysBefore(y, m)) + d
<1> DEFINE S == {e \in Calendar(y) : e[1] < m \/ (e[1] = m /\ e[2] <= d)}
           T == {m} \X (1..d)
<1>1. \A e \in Calendar(y) : e = <<e[1], e[2]>> /\ e[1] \in 1..12 /\ e[2] \in 1..31
  BY DEF Calendar
<1>2. \A k \in 1..d : <<m, k>> \in Calendar(y)
  <2>1. TAKE k \in 1..d
  <2>2. k \in Int /\ DaysIn(y, m) \in 28..31
    BY MonthLength
  <2>3. k \in 1..DaysIn(y, m)
    BY <2>2
  <2>4. QED BY <2>2, <2>3, CalendarDays
<1>3. S = DaysBefore(y, m) \cup T
  <2>1. ASSUME NEW e \in S PROVE e \in DaysBefore(y, m) \cup T
    <3>1. e = <<e[1], e[2]>> /\ e[2] \in 1..31
      BY <1>1
    <3>2. QED BY <3>1 DEF DaysBefore
  <2>2. DaysBefore(y, m) \subseteq S
    BY DEF DaysBefore
  <2>3. ASSUME NEW e \in T PROVE e \in S
    <3>1. PICK k \in 1..d : e = <<m, k>>
      OBVIOUS
    <3>2. e \in Calendar(y) /\ e[1] = m /\ e[2] <= d
      BY <1>2, <3>1
    <3>3. QED BY <3>2
  <2>4. QED BY <2>1, <2>2, <2>3
<1>4. DaysBefore(y, m) \cap T = {}
  BY DEF DaysBefore
<1>5. IsFiniteSet(T) /\ Cardinality(T) = d
  <2>1. IsFiniteSet({m}) /\ Cardinality({m}) = 1
    BY FS_Singleton
  <2>2. IsFiniteSet(1..d) /\ Cardinality(1..d) = d
    <3>1. 1 \in Int /\ d \in Int
      OBVIOUS
    <3>2. IsFiniteSet(1..d) /\ Cardinality(1..d) = IF 1 > d THEN 0 ELSE d - 1 + 1
      BY <3>1, FS_Interval
    <3>3. QED BY <3>2
  <2>3. IsFiniteSet(T) /\ Cardinality(T) = 1 * d
    <3>1. /\ IsFiniteSet({m} \X (1..d))
          /\ Cardinality({m} \X (1..d)) = Cardinality({m}) * Cardinality(1..d)
      BY <2>1, <2>2, FS_Product, Zenon
    <3>2. QED BY <2>1, <2>2, <3>1
  <2>4. QED BY <2>3
<1> HIDE DEF T
<1>6. /\ IsFiniteSet(DaysBefore(y, m) \cup T)
      /\ Cardinality(DaysBefore(y, m) \cup T) = Cardinality(DaysBefore(y, m)) + d - Cardinality({})
  <2> HIDE DEF DaysBefore
  <2>1. IsFiniteSet(DaysBefore(y, m))
    OBVIOUS
  <2>2. Cardinality(DaysBefore(y, m) \cup T)
            = Cardinality(DaysBefore(y, m)) + Cardinality(T) - Cardinality(DaysBefore(y, m) \cap T)
    BY <1>5, <2>1, FS_Union
  <2>3. IsFiniteSet(DaysBefore(y, m) \cup T)
    BY <1>5, <2>1, FS_Union
  <2>4. QED BY <1>4, <1>5, <2>2, <2>3
<1>7. Cardinality({}) = 0 /\ Cardinality(DaysBefore(y, m)) \in Nat
  BY FS_EmptySet, FS_CardinalityType
<1> HIDE DEF S
<1>8. IsFiniteSet(S) /\ Cardinality(S) = Cardinality(DaysBefore(y, m)) + d
  BY <1>3, <1>6, <1>7
<1>9. QED BY <1>8 DEF S

\* MonthsBefore counts the days of the months before m.
LEMMA MonthsCounted ==
    ASSUME NEW y \in Nat
    PROVE  \A m \in 1..12 : /\ IsFiniteSet(DaysBefore(y, m))
                            /\ Cardinality(DaysBefore(y, m)) = MonthsBefore(y, m)
<1> DEFINE Good(m) == /\ IsFiniteSet(DaysBefore(y, m))
                      /\ Cardinality(DaysBefore(y, m)) = MonthsBefore(y, m)
<1>1. Good(1)
  <2>1. DaysBefore(y, 1) = {}
    BY DEF DaysBefore, Calendar
  <2>2. QED BY <2>1, FS_EmptySet, MonthsSum
<1>2. ASSUME NEW m \in 1..11, Good(m) PROVE Good(m + 1)
  <2> DEFINE d == DaysIn(y, m)
             S == {e \in Calendar(y) : e[1] < m \/ (e[1] = m /\ e[2] <= d)}
  <2>1. m \in 1..12 /\ d \in 0..31 /\ d <= DaysIn(y, m)
    BY MonthLength
  <2>2. IsFiniteSet(S) /\ Cardinality(S) = Cardinality(DaysBefore(y, m)) + d
    <3> HIDE DEF d
    <3> QED BY <1>2, <2>1, MonthAdds
  <2>3. DaysBefore(y, m + 1) = S
    <3>1. ASSUME NEW e \in Calendar(y)
          PROVE  e[1] < m + 1 <=> e[1] < m \/ (e[1] = m /\ e[2] <= d)
      <4>1. e = <<e[1], e[2]>> /\ e[1] \in 1..12 /\ e[2] \in 1..31
        BY DEF Calendar
      <4>2. e[1] = m => e[2] <= d
        <5>1. SUFFICES ASSUME e[1] = m PROVE e[2] <= d
          OBVIOUS
        <5>2. <<m, e[2]>> \in Calendar(y)
          BY <4>1, <5>1
        <5>3. e[2] \in 1..DaysIn(y, m)
          BY <2>1, <4>1, <5>2, CalendarDays
        <5>4. QED BY <2>1, <5>3
      <4>3. QED BY <4>1, <4>2
    <3>2. QED BY <3>1 DEF DaysBefore
  <2>4. MonthsBefore(y, m + 1) = MonthsBefore(y, m) + d
    BY MonthsSum
  <2> HIDE DEF d, S
  <2>5. QED BY <1>2, <2>2, <2>3, <2>4
<1> HIDE DEF Good
<1>3. Good(2) /\ Good(3) /\ Good(4)
  BY <1>1, <1>2
<1>4. Good(5) /\ Good(6) /\ Good(7)
  BY <1>2, <1>3
<1>5. Good(8) /\ Good(9) /\ Good(10)
  BY <1>2, <1>4
<1>6. Good(11) /\ Good(12)
  BY <1>2, <1>5
<1>7. \A m \in 1..12 : Good(m)
  BY <1>1, <1>3, <1>4, <1>5, <1>6
<1>8. QED BY <1>7 DEF Good

\* The days of the year before a date that exists.
LEMMA DaysCounted ==
    ASSUME NEW y \in Nat, NEW m \in 1..12, NEW d \in 1..DaysIn(y, m)
    PROVE  /\ Cardinality({e \in Calendar(y) : e[1] < m \/ (e[1] = m /\ e[2] < d)})
                 = MonthsBefore(y, m) + (d - 1)
           /\ MonthsBefore(y, m) \in Nat
<1> DEFINE S == {e \in Calendar(y) : e[1] < m \/ (e[1] = m /\ e[2] < d)}
<1>1. DaysIn(y, m) \in 28..31
  BY MonthLength
<1>2. IsFiniteSet(DaysBefore(y, m)) /\ Cardinality(DaysBefore(y, m)) = MonthsBefore(y, m)
  BY MonthsCounted
<1>3. PICK k \in 0..31 : k = d - 1 /\ k <= DaysIn(y, m)
  BY <1>1
<1> DEFINE T == {e \in Calendar(y) : e[1] < m \/ (e[1] = m /\ e[2] <= k)}
<1>4. S = T
  <2>1. \A e \in Calendar(y) : e[2] < d <=> e[2] <= k
    BY <1>1, <1>3 DEF Calendar
  <2>2. QED BY <2>1
<1>5. Cardinality(T) = Cardinality(DaysBefore(y, m)) + k
  BY <1>2, <1>3, MonthAdds
<1>6. MonthsBefore(y, m) \in Nat
  BY <1>2, FS_CardinalityType
<1> HIDE DEF S, T
<1>7. Cardinality(S) = MonthsBefore(y, m) + (d - 1)
  BY <1>2, <1>3, <1>4, <1>5
<1>8. QED BY <1>6, <1>7 DEF S

\* The day number of a date that exists.
LEMMA DayIsCounted ==
    ASSUME NEW y \in Nat, NEW m \in 1..12, NEW d \in 1..DaysIn(y, m)
    PROVE  y >= 1970 => YearDays(y) + MonthsBefore(y, m) + d - 1 = DayNumber(y, m, d)
<1> DEFINE C == Cardinality({e \in Calendar(y) : e[1] < m \/ (e[1] = m /\ e[2] < d)})
<1>1. y >= 1970 => Cardinality(LeapsBefore(y)) = LeapCount(y) /\ LeapCount(y) \in Int
  BY LeapsCounted DEF LeapCount
<1>2. C = MonthsBefore(y, m) + (d - 1) /\ MonthsBefore(y, m) \in Nat
  BY DaysCounted
<1>3. DayNumber(y, m, d) = 365 * (y - 1970) + Cardinality(LeapsBefore(y)) + C
  BY DEF DayNumber, LeapsBefore
<1>4. YearDays(y) = 365 * (y - 1970) + LeapCount(y)
  BY DEF YearDays, LeapCount
<1>5. DaysIn(y, m) \in 28..31
  BY MonthLength
<1> HIDE DEF C
<1>6. QED BY <1>1, <1>2, <1>3, <1>4, <1>5

\* contest_time_parse computes the timestamp of every date that exists, and
\* refuses every other.
LEMMA ParsedIsReference ==
    ASSUME NEW t \in Timestamps PROVE ContestTimeParse(t) = TimeReference(t)
<1>1. /\ t.year \in Field /\ t.month \in Field /\ t.day \in Field /\ t.hour \in Field
      /\ t.minute \in Field /\ t.second \in Field /\ t.offsetHour \in Field
      /\ t.offsetMinute \in Field
  BY DEF Timestamps
<1> DEFINE minutes == 60 * t.offsetHour + t.offsetMinute
           before == CASE t.sign = "Z" -> 0 [] t.sign = "-" -> -60 * minutes [] OTHER -> 60 * minutes
           seconds == 3600 * t.hour + 60 * t.minute + t.second - before
           clock == t.hour * 3600 + t.minute * 60 + t.second
                        - (IF t.sign = "Z" THEN 0 ELSE Offset(t))
           dated == /\ t.year >= 1970 /\ <<t.month, t.day>> \in Calendar(t.year)
           timed == t.hour \in 0..23 /\ t.minute \in 0..59 /\ t.second \in 0..59
           legal == /\ t.year >= 1970
                    /\ <<t.month, t.day>> \in Calendar(t.year)
                    /\ t.hour \in 0..23 /\ t.minute \in 0..59 /\ t.second \in 0..59
                    /\ \/ t.sign = "Z"
                       \/ /\ t.sign \in {"+", "-"}
                          /\ t.offsetHour \in 0..23 /\ t.offsetMinute \in 0..59
           days == YearDays(t.year) + MonthsBefore(t.year, t.month) + t.day - 1
           number == DayNumber(t.year, t.month, t.day)
<1>2. ContestTimeParse(t) =
        IF ~ValidOffset(t) \/ ~ValidDate(t) THEN Refuse
        ELSE IF days + (clock \div 86400) < 0 THEN Refuse
        ELSE [day |-> days + (clock \div 86400), second |-> clock % 86400]
  BY DEF ContestTimeParse
<1>3. TimeReference(t) =
        IF ~legal THEN Refuse
        ELSE IF number + seconds \div 86400 < 0 THEN Refuse
        ELSE [day |-> number + seconds \div 86400, second |-> seconds % 86400]
  BY DEF TimeReference
<1>4. clock = seconds
  <2>1. CASE t.sign = "Z"
    BY <1>1, <2>1 DEF Field
  <2>2. CASE t.sign = "-"
    BY <1>1, <2>2 DEF Field, Offset
  <2>3. CASE t.sign \notin {"Z", "-"}
    BY <1>1, <2>3 DEF Field, Offset
  <2>4. QED BY <2>1, <2>2, <2>3
<1>5. dated <=> /\ t.year >= 1970 /\ t.month \in 1..12 /\ t.day >= 1
                /\ t.day <= DaysIn(t.year, t.month)
  <2>1. CASE t.year >= 1970 /\ t.month \in 1..12
    <3>1. t.year \in Nat /\ t.day \in Int
      BY <1>1, <2>1 DEF Field
    <3>2. DaysIn(t.year, t.month) \in 28..31
      BY <2>1, <3>1, MonthLength
    <3>3. <<t.month, t.day>> \in Calendar(t.year) <=> t.day \in 1..DaysIn(t.year, t.month)
      BY <2>1, <3>1, CalendarDays
    <3>4. QED BY <2>1, <3>1, <3>2, <3>3
  <2>2. CASE t.month \notin 1..12
    BY <2>2 DEF Calendar
  <2>3. QED BY <2>1, <2>2
<1>6. (ValidOffset(t) /\ ValidDate(t)) <=> legal
  BY <1>5 DEF ValidOffset, ValidDate, Hours, Sixty
<1>7. legal => days = number
  <2>1. SUFFICES ASSUME legal PROVE days = number
    OBVIOUS
  <2>2. /\ t.year >= 1970 /\ t.month \in 1..12 /\ t.day >= 1 /\ t.day <= DaysIn(t.year, t.month)
    BY <1>5, <2>1
  <2>3. t.year \in Nat /\ t.day \in Int
    BY <1>1, <2>2 DEF Field
  <2>4. DaysIn(t.year, t.month) \in 28..31
    BY <2>2, <2>3, MonthLength
  <2>5. t.day \in 1..DaysIn(t.year, t.month)
    BY <2>2, <2>3, <2>4
  <2>6. QED BY <2>2, <2>3, <2>5, DayIsCounted
<1> HIDE DEF legal, clock, seconds, days, number
<1>8. QED BY <1>2, <1>3, <1>4, <1>6, <1>7

\* The invariant of the run about texts that the times need.
TimeIInv ==
    /\ job \in Jobs \cup {Nothing}
    /\ result = Nothing \/ (job.kind = "time" => result = ContestTimeParse(job))

\* A job that is a time is one of the timestamps.
LEMMA TimeJobs ==
    ASSUME NEW j \in Jobs \cup {Nothing}, j.kind = "time" PROVE j \in Timestamps
<1>1. Nothing.kind # "time"
  BY DEF Nothing
<1>2. j \in Jobs
  BY <1>1
<1>3. j \in Dates
  <2>1. j \notin {[kind |-> "string", text |-> t] : t \in Strings}
    OBVIOUS
  <2>2. j \notin {[kind |-> "pair", left |-> l, right |-> r0] : l, r0 \in ShortStrings}
    OBVIOUS
  <2>3. j \notin {[kind |-> "body", tokens |-> t] : t \in Bodies}
    OBVIOUS
  <2>4. j \notin {[kind |-> "auth", members |-> ms] : ms \in Credentials}
    OBVIOUS
  <2>5. j \notin {[kind |-> "answer", members |-> ms] : ms \in Submissions}
    OBVIOUS
  <2>6. j \notin {[kind |-> "challenge", members |-> ms] : ms \in ChallengeMembers}
    OBVIOUS
  <2>7. QED BY <1>2, <2>1, <2>2, <2>3, <2>4, <2>5, <2>6 DEF Jobs
<1>4. QED BY <1>3, DatesAssumption

\* contest_time_parse counts the seconds of every date as the calendar does,
\* for years without bound, and refuses exactly what is no date.
THEOREM TimesAreReference == TextsSpec => []TimeIsReference
<1>1. TextsInit => TimeIInv
  BY DEF TextsInit, TimeIInv
<1>2. TimeIInv /\ [TextsNext]_<<vars, job, result>> => TimeIInv'
  <2> SUFFICES ASSUME TimeIInv, [TextsNext]_<<vars, job, result>> PROVE TimeIInv'
    OBVIOUS
  <2>1. job' = job
    BY DEF TextsNext, DoJob
  <2>2. CASE result' = result
    BY <2>1, <2>2 DEF TimeIInv
  <2>3. CASE DoJob
    <3>1. job.kind = "time" => ParseTime
      BY <2>3 DEF DoJob, ReadString, CompareStrings, ReadBody, ReadRequest
    <3>2. QED BY <2>1, <3>1 DEF TimeIInv, ParseTime
  <2>4. QED BY <2>2, <2>3 DEF TextsNext
<1>3. TimeIInv => TimeIsReference
  BY TimeJobs, ParsedIsReference DEF TimeIInv, TimeIsReference
<1>4. QED BY <1>1, <1>2, <1>3, PTL DEF TextsSpec

-----------------------------------------------------------------------------
(* The scoreboard: the inductive invariant. *)

\* The challenges that the first n answers count for user u.
Counted(u, n) ==
    {answers[k].challenge : k \in {l \in 1..n : answers[l].user = u /\ ~TooLate(answers[l])}}

\* Before the walk begins nothing is consumed and every score is 0.
Fresh ==
    stage \in {"users_2", "users_3"} =>
        /\ i = 1 /\ answerIndex = 1 /\ lastChallenge = 0
        /\ \A u \in DOMAIN score : score[u] = 0

\* Once the accounts are read, the array holds each of the scored users once.
ListsUsersOnce ==
    stage # "users_2" =>
        IsFiniteSet(DOMAIN score) /\ ToSet(users) = DOMAIN score
                                  /\ Len(users) = Cardinality(DOMAIN score)

UsersSorted ==
    stage \in {"users_3", "merge"} =>
        \A j, k \in DOMAIN users : j < k => users[j] < users[k]

AnswersSorted ==
    stage = "merge" =>
        /\ ToSet(answers) = read
        /\ \A j, k \in DOMAIN answers : j < k => ByUserAndChallenge(answers[j], answers[k])

\* The scores are those of the answers consumed so far.
ScoresSoFar ==
    stage = "merge" =>
        \A u \in DOMAIN score : score[u] = 100 * Cardinality(Counted(u, answerIndex - 1))

\* What was consumed is not beyond the current user, what is left is beyond
\* every user before.
Apart ==
    stage = "merge" =>
        /\ i <= Len(users) => \A k \in 1..(answerIndex - 1) : answers[k].user <= users[i]
        /\ \A j \in 1..(i - 1), k \in answerIndex..Len(answers) : users[j] < answers[k].user

\* last_challenge is the last of the current user's counted challenges.
LastIsLast ==
    stage = "merge" /\ i <= Len(users) =>
        /\ \A c \in Counted(users[i], answerIndex - 1) : c <= lastChallenge
        /\ lastChallenge = 0 \/ lastChallenge \in Counted(users[i], answerIndex - 1)

\* The reference: what user u solved in time.
Solved(u) ==
    {a.challenge : a \in {b \in read : b.user = u /\ ~(EndEnabled /\ b.at >= EndAt)}}

Ranking ==
    stage = "done" =>
        /\ \A u \in DOMAIN score : score[u] = 100 * Cardinality(Solved(u))
        /\ \A j, k \in DOMAIN users : j < k => ByScore(users[j], users[k]) /\ users[j] # users[k]

IInv ==
    /\ TypeOK /\ Fresh /\ ListsUsersOnce /\ UsersSorted /\ AnswersSorted
    /\ ScoresSoFar /\ Apart /\ LastIsLast /\ Ranking

-----------------------------------------------------------------------------
(* Sets and arrays. *)

\* The tables are finite.
LEMMA AnswersAreFinite == IsFiniteSet(Answers)
<1> DEFINE Triples == (Users \X Challenges) \X Times
           f == [t \in Triples |-> [user |-> t[1][1], challenge |-> t[1][2], at |-> t[2]]]
<1>1. IsFiniteSet(Triples)
  BY FS_Product, TablesAreFinite
<1>2. f \in Surjection(Triples, Answers)
  <2>1. f \in [Triples -> Answers]
    BY DEF Answers
  <2>2. ASSUME NEW a \in Answers PROVE \E t \in Triples : f[t] = a
    <3>1. <<<<a.user, a.challenge>>, a.at>> \in Triples
      BY DEF Answers
    <3>2. f[<<<<a.user, a.challenge>>, a.at>>] = a
      BY <3>1 DEF Answers
    <3>3. QED BY <3>1, <3>2
  <2>3. QED BY <2>1, <2>2 DEF Surjection
<1>3. QED BY <1>1, <1>2, FS_Surjection

\* What qsort leaves: an array of the elements, each once.
LEMMA Arranged ==
    ASSUME NEW S, IsFiniteSet(S), NEW s \in SetToSeqs(S)
    PROVE  /\ s \in Seq(S) /\ Len(s) = Cardinality(S) /\ Len(s) \in Nat
           /\ DOMAIN s = 1..Len(s) /\ ToSet(s) = S
           /\ \A j, k \in DOMAIN s : j # k => s[j] # s[k]
<1> DEFINE D == 1..Cardinality(S)
<1>1. Cardinality(S) \in Nat
  BY FS_CardinalityType
<1>2. s \in [D -> S] /\ \A j, k \in D : j # k => s[j] # s[k]
  BY DEF SetToSeqs
<1>3. s \in Seq(S) /\ Len(s) = Cardinality(S) /\ DOMAIN s = D
  BY <1>1, <1>2
<1>4. s \in Injection(D, S)
  BY <1>2 DEF Injection, IsInjective
<1>5. IsFiniteSet(D) /\ Cardinality(D) = Cardinality(S)
  BY <1>1, FS_Interval
<1>6. s \in Surjection(D, S)
  BY <1>4, <1>5, FS_Injection
<1>7. ToSet(s) = S
  BY <1>2, <1>3, <1>6 DEF Surjection, ToSet
<1>8. QED BY <1>1, <1>2, <1>3, <1>7

\* Counted is a finite set of challenges.
LEMMA CountedIsFinite ==
    ASSUME TypeOK, NEW u, NEW n \in 0..Len(answers)
    PROVE  /\ Counted(u, n) \subseteq Challenges /\ IsFiniteSet(Counted(u, n))
           /\ Cardinality(Counted(u, n)) \in Nat
<1>1. \A k \in 1..n : answers[k] \in Answers
  BY DEF TypeOK
<1>2. Counted(u, n) \subseteq Challenges
  BY <1>1 DEF Counted, Answers
<1>3. IsFiniteSet(Counted(u, n))
  BY <1>2, TablesAreFinite, FS_Subset
<1>4. QED BY <1>2, <1>3, FS_CardinalityType

\* What one more answer adds.
LEMMA CountedNext ==
    ASSUME TypeOK, NEW u, NEW n \in Nat, n + 1 \in DOMAIN answers
    PROVE  Counted(u, n + 1) =
               IF answers[n + 1].user = u /\ ~TooLate(answers[n + 1])
               THEN Counted(u, n) \cup {answers[n + 1].challenge} ELSE Counted(u, n)
<1> DEFINE Hit(k) == answers[k].user = u /\ ~TooLate(answers[k])
           Hits(m) == {l \in 1..m : Hit(l)}
<1>1. Hits(n + 1) = IF Hit(n + 1) THEN Hits(n) \cup {n + 1} ELSE Hits(n)
  <2> HIDE DEF Hit
  <2>1. 1..(n + 1) = (1..n) \cup {n + 1}
    OBVIOUS
  <2>2. QED BY <2>1
<1>2. \A m : Counted(u, m) = {answers[k].challenge : k \in Hits(m)}
  BY DEF Counted
<1> HIDE DEF Hits, Hit
<1>3. CASE Hit(n + 1)
  <2>1. Counted(u, n + 1) = {answers[k].challenge : k \in Hits(n) \cup {n + 1}}
    BY <1>1, <1>2, <1>3
  <2>2. Counted(u, n + 1) = {answers[k].challenge : k \in Hits(n)} \cup {answers[n + 1].challenge}
    BY <2>1
  <2>3. QED BY <1>2, <1>3, <2>2 DEF Hit
<1>4. CASE ~Hit(n + 1)
  <2>1. Counted(u, n + 1) = Counted(u, n)
    BY <1>1, <1>2, <1>4
  <2>2. QED BY <1>4, <2>1 DEF Hit
<1>5. QED BY <1>3, <1>4

\* All the answers count for a user what the reference says.
LEMMA AllCounted ==
    ASSUME TypeOK, ToSet(answers) = read, NEW u
    PROVE  Counted(u, Len(answers)) = Solved(u)
<1>1. DOMAIN answers = 1..Len(answers)
  BY DEF TypeOK
<1>2. \A a : a \in read <=> \E k \in 1..Len(answers) : a = answers[k]
  BY <1>1 DEF ToSet
<1>3. ASSUME NEW c \in Counted(u, Len(answers)) PROVE c \in Solved(u)
  BY <1>2, <1>3 DEF Counted, Solved, TooLate
<1>4. ASSUME NEW c \in Solved(u) PROVE c \in Counted(u, Len(answers))
  BY <1>2, <1>4 DEF Counted, Solved, TooLate
<1>5. QED BY <1>3, <1>4

\* Answers beyond the current user count for nobody before.
LEMMA NothingLeft ==
    ASSUME TypeOK, NEW u, NEW n \in 0..Len(answers),
           \A k \in (n + 1)..Len(answers) : answers[k].user # u
    PROVE  Counted(u, n) = Counted(u, Len(answers))
<1>1. Len(answers) \in Nat
  BY DEF TypeOK
<1>2. {l \in 1..n : answers[l].user = u /\ ~TooLate(answers[l])}
      = {l \in 1..Len(answers) : answers[l].user = u /\ ~TooLate(answers[l])}
  <2>1. \A l \in 1..Len(answers) : l \in 1..n \/ l \in (n + 1)..Len(answers)
    BY <1>1
  <2>2. 1..n \subseteq 1..Len(answers)
    BY <1>1
  <2>3. QED BY <2>1, <2>2
<1>3. QED BY <1>2 DEF Counted

-----------------------------------------------------------------------------
(* The initial states and the steps before the walk. *)

\* The initial states satisfy the invariant.
LEMMA InitIInv == BoardInit => IInv
<1> SUFFICES ASSUME BoardInit PROVE IInv
  OBVIOUS
<1>1. correct \subseteq Answers
  <2>1. correct \in UNION {kSubset(n, Answers) : n \in 0..MaxAnswers}
    BY DEF BoardInit
  <2>2. QED BY <2>1 DEF kSubset
<1>2. users \in Seq(Users) /\ answers \in Seq(Answers) /\ Len(users) = 0 /\ Len(answers) = 0
  BY DEF BoardInit
<1>3. DOMAIN score = {} /\ score \in [DOMAIN score -> Nat]
  BY DEF BoardInit
<1>4. TypeOK
  BY <1>1, <1>2, <1>3 DEF BoardInit, TypeOK
<1>5. QED
  BY <1>3, <1>4 DEF BoardInit, IInv, Fresh, ListsUsersOnce, UsersSorted, AnswersSorted,
                    ScoresSoFar, Apart, LastIsLast, Ranking

\* GET /users reads and sorts the accounts.
LEMMA GetUsers2Step == IInv /\ GetUsers2 => IInv'
<1> SUFFICES ASSUME IInv, GetUsers2 PROVE IInv'
  OBVIOUS
<1>0. TypeOK /\ Fresh /\ stage = "users_2" /\ stage' = "users_3"
      /\ score' = [u \in accounts |-> 0]
      /\ UNCHANGED <<tables, answers, i, answerIndex, lastChallenge, read>>
  BY DEF IInv, GetUsers2
<1>1. accounts \subseteq Users /\ IsFiniteSet(accounts)
  BY <1>0, TablesAreFinite, FS_Subset DEF TypeOK
<1>2. /\ users' \in SetToSeqs(accounts)
      /\ \A j, k \in DOMAIN users' : j < k => users'[j] <= users'[k]
  BY DEF GetUsers2, SortedUsers, Sorted, ById
<1>3. /\ users' \in Seq(accounts) /\ Len(users') = Cardinality(accounts) /\ Len(users') \in Nat
      /\ DOMAIN users' = 1..Len(users') /\ ToSet(users') = accounts
      /\ \A j, k \in DOMAIN users' : j # k => users'[j] # users'[k]
  BY <1>1, <1>2, Arranged
<1>4. users' \in Seq(Users)
  BY <1>1, <1>3
<1>5. DOMAIN score' = accounts /\ score' \in [accounts -> Nat] /\ \A u \in DOMAIN score' : score'[u] = 0
  BY <1>0
<1>6. TypeOK'
  BY <1>0, <1>1, <1>3, <1>4, <1>5 DEF TypeOK, Fresh, tables
<1>7. UsersSorted'
  <2>1. \A j \in DOMAIN users' : users'[j] \in Nat
    <3>1. \A j \in DOMAIN users' : users'[j] \in Users
      BY <1>4
    <3>2. QED BY <3>1, IdsArePositive
  <2>2. \A j, k \in DOMAIN users' : j < k => users'[j] < users'[k]
    <3>1. \A j, k \in DOMAIN users' : j < k => j # k
      BY <1>3
    <3>2. QED BY <1>2, <1>3, <2>1, <3>1
  <2>3. QED BY <2>2 DEF UsersSorted
<1>8. Fresh' /\ ListsUsersOnce'
  BY <1>0, <1>1, <1>3, <1>5 DEF Fresh, ListsUsersOnce
<1>9. QED
  BY <1>0, <1>6, <1>7, <1>8 DEF IInv, AnswersSorted, ScoresSoFar, Apart, LastIsLast, Ranking

\* It reads and sorts the answers; the walk begins.
LEMMA GetUsers3Step == IInv /\ GetUsers3 => IInv'
<1> SUFFICES ASSUME IInv, GetUsers3 PROVE IInv'
  OBVIOUS
<1>0. /\ TypeOK /\ Fresh /\ stage = "users_3" /\ stage' = "merge"
      /\ ListsUsersOnce /\ UsersSorted /\ read' = correct
      /\ UNCHANGED <<tables, users, i, answerIndex, lastChallenge, score>>
  BY DEF IInv, GetUsers3
<1>1. correct \subseteq Answers /\ IsFiniteSet(correct)
  BY <1>0, AnswersAreFinite, FS_Subset DEF TypeOK
<1>2. /\ answers' \in SetToSeqs(correct)
      /\ \A j, k \in DOMAIN answers' : j < k => ByUserAndChallenge(answers'[j], answers'[k])
  BY DEF GetUsers3, SortedAnswers, Sorted
<1>3. /\ answers' \in Seq(correct) /\ Len(answers') \in Nat /\ ToSet(answers') = correct
  BY <1>1, <1>2, Arranged
<1>4. answers' \in Seq(Answers)
  BY <1>1, <1>3
<1>5. i = 1 /\ answerIndex = 1 /\ lastChallenge = 0 /\ \A u \in DOMAIN score : score[u] = 0
  BY <1>0 DEF Fresh
<1>6. TypeOK'
  BY <1>0, <1>1, <1>3, <1>4, <1>5 DEF TypeOK, tables
<1>7. AnswersSorted'
  BY <1>0, <1>2, <1>3 DEF AnswersSorted, ByUserAndChallenge
<1>8. \A u : Counted(u, answerIndex - 1)' = {}
  BY <1>0, <1>5 DEF Counted
<1>9. ScoresSoFar'
  BY <1>0, <1>5, <1>8, FS_EmptySet DEF ScoresSoFar
<1>10. Apart' /\ LastIsLast'
  BY <1>0, <1>5, <1>8 DEF Apart, LastIsLast
<1>11. QED
  BY <1>0, <1>6, <1>7, <1>9, <1>10 DEF IInv, Fresh, ListsUsersOnce, UsersSorted, Ranking

\* A failed statement ends the request with an empty list.
LEMMA FailsStep == IInv /\ Fails => IInv'
<1> SUFFICES ASSUME IInv, Fails PROVE IInv'
  OBVIOUS
<1>0. /\ TypeOK /\ Fresh /\ stage' = "done" /\ users' = <<>> /\ score' = <<>>
      /\ stage \in {"users_2", "users_3"}
      /\ UNCHANGED <<tables, answers, i, answerIndex, lastChallenge, read>>
  BY DEF IInv, Fails
<1>1. /\ DOMAIN score' = {} /\ score' \in [DOMAIN score' -> Nat] /\ users' \in Seq(Users)
      /\ Len(users') = 0 /\ DOMAIN users' = {} /\ ToSet(users') = {}
  BY <1>0 DEF ToSet
<1>2. TypeOK'
  BY <1>0, <1>1 DEF TypeOK, Fresh, tables
<1>3. ListsUsersOnce'
  BY <1>1, FS_EmptySet DEF ListsUsersOnce
<1>4. QED
  BY <1>0, <1>1, <1>2, <1>3 DEF IInv, Fresh, UsersSorted, AnswersSorted, ScoresSoFar, Apart,
                                LastIsLast, Ranking

\* What the other requests do to the tables leaves the arrays alone.
LEMMA OthersStep == IInv /\ Others => IInv'
<1> SUFFICES ASSUME IInv, Others PROVE IInv'
  OBVIOUS
<1>1. /\ TypeOK /\ stage = "users_3"
      /\ UNCHANGED <<stage, users, answers, i, answerIndex, lastChallenge, score, read>>
  BY DEF IInv, Others, loop
<1>2. accounts' \subseteq Users /\ correct' \subseteq Answers
  BY <1>1 DEF Others, SignUp, Solve, DeleteChallenge, TypeOK
<1>3. TypeOK'
  BY <1>1, <1>2 DEF TypeOK
<1>4. QED
  BY <1>1, <1>3 DEF IInv, Fresh, ListsUsersOnce, UsersSorted, AnswersSorted, ScoresSoFar, Apart,
                    LastIsLast, Ranking

-----------------------------------------------------------------------------
(* The walk. *)

\* What the walk relies on.
LEMMA WalkFacts ==
    ASSUME IInv, stage = "merge"
    PROVE  /\ TypeOK /\ Len(users) \in Nat /\ Len(answers) \in Nat
           /\ DOMAIN users = 1..Len(users) /\ DOMAIN answers = 1..Len(answers)
           /\ i \in 1..(Len(users) + 1) /\ answerIndex \in 1..(Len(answers) + 1)
           /\ \A j \in 1..Len(users) : users[j] \in Nat /\ users[j] \in DOMAIN score
           /\ \A u \in DOMAIN score : u \in Nat /\ \E j \in 1..Len(users) : users[j] = u
           /\ \A k \in 1..Len(answers) : /\ answers[k] \in Answers /\ answers[k].user \in Nat
                                         /\ answers[k].challenge \in Nat \ {0}
           /\ lastChallenge \in Nat
<1>1. /\ TypeOK /\ Len(users) \in Nat /\ Len(answers) \in Nat
      /\ DOMAIN users = 1..Len(users) /\ DOMAIN answers = 1..Len(answers)
      /\ i \in 1..(Len(users) + 1) /\ answerIndex \in 1..(Len(answers) + 1)
  BY DEF IInv, TypeOK
<1>2. ToSet(users) = DOMAIN score
  BY DEF IInv, ListsUsersOnce
<1>3. \A j \in 1..Len(users) : users[j] \in Users /\ users[j] \in DOMAIN score
  BY <1>1, <1>2 DEF TypeOK, ToSet
<1>4. \A u \in DOMAIN score : u \in Users /\ \E j \in 1..Len(users) : users[j] = u
  BY <1>1, <1>2 DEF TypeOK, ToSet
<1>5. \A k \in 1..Len(answers) : answers[k] \in Answers
  BY <1>1 DEF TypeOK
<1>6. \A k \in 1..Len(answers) : answers[k].user \in Users /\ answers[k].challenge \in Challenges
  BY <1>5 DEF Answers
<1>7. lastChallenge \in Challenges \cup {0}
  BY <1>1 DEF TypeOK
<1>8. \A u \in Users : u \in Nat
  BY IdsArePositive
<1>9. \A c \in Challenges : c \in Nat \ {0}
  BY IdsArePositive
<1>10. lastChallenge \in Nat
  BY <1>7, <1>9
<1>11. QED BY <1>1, <1>3, <1>4, <1>5, <1>6, <1>8, <1>9, <1>10

\* An answer is consumed: it scores exactly when it is the first in time for
\* its challenge of a listed user.
LEMMA TakeAnswerStep == IInv /\ TakeAnswer => IInv'
<1> SUFFICES ASSUME IInv, TakeAnswer PROVE IInv'
  OBVIOUS
<1> DEFINE a == answers[answerIndex]
           n == answerIndex - 1
           me == users[i]
<1>0. /\ stage = "merge" /\ stage' = "merge" /\ i <= Len(users)
      /\ answerIndex <= Len(answers) /\ a.user <= me /\ answerIndex' = answerIndex + 1
      /\ UNCHANGED <<accounts, correct, users, answers, i, read>>
  BY DEF TakeAnswer, Merging, InReach, Current, tables
<1>1. /\ TypeOK /\ Len(users) \in Nat /\ Len(answers) \in Nat
      /\ DOMAIN users = 1..Len(users) /\ DOMAIN answers = 1..Len(answers)
      /\ i \in 1..(Len(users) + 1) /\ answerIndex \in 1..(Len(answers) + 1)
      /\ \A j \in 1..Len(users) : users[j] \in Nat /\ users[j] \in DOMAIN score
      /\ \A u \in DOMAIN score : u \in Nat /\ \E j \in 1..Len(users) : users[j] = u
      /\ \A k \in 1..Len(answers) : /\ answers[k] \in Answers /\ answers[k].user \in Nat
                                    /\ answers[k].challenge \in Nat \ {0}
      /\ lastChallenge \in Nat
  BY <1>0, WalkFacts
<1>2. /\ n \in Nat /\ n \in 0..Len(answers) /\ n + 1 = answerIndex /\ n + 1 \in DOMAIN answers
      /\ answerIndex' - 1 = n + 1 /\ a \in Answers /\ a.user \in Nat /\ a.challenge \in Nat \ {0}
      /\ i \in 1..Len(users) /\ me \in Nat /\ me \in DOMAIN score
  BY <1>0, <1>1
<1>3. /\ \A j, k \in 1..Len(users) : j < k => users[j] < users[k]
      /\ \A j, k \in 1..Len(answers) : j < k => ByUserAndChallenge(answers[j], answers[k])
  BY <1>0, <1>1 DEF IInv, UsersSorted, AnswersSorted
<1>4. /\ \A k \in 1..n : answers[k].user <= me
      /\ \A j \in 1..(i - 1) : users[j] < a.user
      /\ \A j \in 1..(i - 1), k \in (answerIndex + 1)..Len(answers) : users[j] < answers[k].user
  <2>1. /\ \A k \in 1..(answerIndex - 1) : answers[k].user <= users[i]
        /\ \A j \in 1..(i - 1), k \in answerIndex..Len(answers) : users[j] < answers[k].user
    BY <1>0 DEF IInv, Apart
  <2>2. /\ answerIndex \in answerIndex..Len(answers)
        /\ (answerIndex + 1)..Len(answers) \subseteq answerIndex..Len(answers)
    BY <1>0, <1>1
  <2>3. QED BY <2>1, <2>2
<1>5. /\ \A c \in Counted(me, n) : c <= lastChallenge
      /\ lastChallenge = 0 \/ lastChallenge \in Counted(me, n)
  BY <1>0 DEF IInv, LastIsLast
<1>6. \A u \in DOMAIN score : score[u] = 100 * Cardinality(Counted(u, n))
  BY <1>0 DEF IInv, ScoresSoFar
<1>7. \A u : Counted(u, n + 1) =
              IF a.user = u /\ ~TooLate(a) THEN Counted(u, n) \cup {a.challenge} ELSE Counted(u, n)
  <2>1. answers[n + 1] = a
    BY <1>2
  <2>2. TAKE u
  <2>3. n \in Nat /\ n + 1 \in DOMAIN answers
    BY <1>2
  <2> HIDE DEF a, n
  <2>4. Counted(u, n + 1) =
            IF answers[n + 1].user = u /\ ~TooLate(answers[n + 1])
            THEN Counted(u, n) \cup {answers[n + 1].challenge} ELSE Counted(u, n)
    BY <1>1, <2>3, CountedNext
  <2>5. QED BY <2>1, <2>4
<1>8. \A u : Counted(u, answerIndex - 1)' = Counted(u, n + 1)
  <2>1. \A b : TooLate(b)' = TooLate(b)
    BY <1>0 DEF TooLate
  <2>2. 1..(answerIndex - 1)' = 1..(n + 1)
    BY <1>2
  <2>3. QED BY <1>0, <2>1, <2>2, ZenonT(40) DEF Counted
<1>9. \A u : /\ Counted(u, n) \subseteq Challenges /\ IsFiniteSet(Counted(u, n))
             /\ Cardinality(Counted(u, n)) \in Nat
  BY <1>1, <1>2, CountedIsFinite
\* A listed user other than the current one is not the author.
<1>10. \A u \in DOMAIN score : u # me => a.user # u
  <2> SUFFICES ASSUME NEW j \in 1..Len(users), j # i PROVE a.user # users[j]
    BY <1>1
  <2>1. CASE j < i
    <3>1. j \in 1..(i - 1)
      BY <1>1, <2>1
    <3>2. users[j] < a.user
      BY <1>4, <3>1
    <3>3. users[j] \in Nat /\ a.user \in Nat
      BY <1>1, <1>2
    <3>4. QED BY <3>2, <3>3
  <2>2. CASE i < j
    <3>1. me < users[j] /\ users[j] \in Nat
      BY <1>1, <1>2, <1>3, <2>2
    <3>2. QED BY <1>0, <1>2, <3>1
  <2>3. QED BY <1>1, <2>1, <2>2
\* The challenges counted for the author come before this one, or are this one.
<1>11. a.user = me => \A c \in Counted(me, n) : c \in Nat /\ c <= a.challenge
  <2> SUFFICES ASSUME a.user = me, NEW k \in 1..n, answers[k].user = me
               PROVE  answers[k].challenge \in Nat /\ answers[k].challenge <= a.challenge
    BY DEF Counted
  <2>1. k \in 1..Len(answers) /\ k < answerIndex /\ answerIndex \in 1..Len(answers)
    BY <1>0, <1>1, <1>2
  <2>2. ByUserAndChallenge(answers[k], a)
    BY <1>3, <2>1
  <2>3. QED BY <1>1, <1>2, <2>1, <2>2 DEF ByUserAndChallenge
<1>12. /\ Apart'
  <2>1. \A k \in 1..(answerIndex' - 1) : answers[k].user <= me
    BY <1>0, <1>1, <1>2, <1>4
  <2>2. \A j \in 1..(i - 1), k \in (answerIndex')..Len(answers) : users[j] < answers[k].user
    BY <1>0, <1>4
  <2>3. QED BY <1>0, <2>1, <2>2 DEF Apart
<1>13. CASE Scores(a)
  <2>1. /\ a.user = me /\ ~TooLate(a) /\ a.challenge # lastChallenge
        /\ score' = [score EXCEPT ![me] = @ + 100] /\ lastChallenge' = a.challenge
    BY <1>13 DEF TakeAnswer, Scores, Current
  <2>2. a.challenge \notin Counted(me, n)
    BY <1>2, <1>1, <1>5, <1>11, <2>1
  <2>3. Counted(me, n + 1) = Counted(me, n) \cup {a.challenge}
    BY <1>7, <2>1
  <2>4. Cardinality(Counted(me, n + 1)) = Cardinality(Counted(me, n)) + 1
    BY <1>9, <2>2, <2>3, FS_AddElement
  <2>5. \A u \in DOMAIN score : u # me => Counted(u, n + 1) = Counted(u, n)
    BY <1>7, <1>10
  <2>6. /\ DOMAIN score' = DOMAIN score /\ score' \in [DOMAIN score -> Nat]
        /\ score'[me] = score[me] + 100 /\ \A u \in DOMAIN score : u # me => score'[u] = score[u]
    <3>1. score \in [DOMAIN score -> Nat]
      BY <1>1 DEF TypeOK
    <3>2. QED BY <1>2, <2>1, <3>1
  <2>7. score'[me] = 100 * Cardinality(Counted(me, n + 1))
    BY <1>2, <1>6, <1>9, <2>4, <2>6
  <2>8. ScoresSoFar'
    BY <1>6, <1>8, <2>5, <2>6, <2>7 DEF ScoresSoFar
  <2>9. LastIsLast'
    <3>1. \A c \in Counted(me, n + 1) : c <= a.challenge
      BY <1>2, <1>11, <2>1, <2>3
    <3>2. a.challenge \in Counted(me, n + 1)
      BY <2>3
    <3>3. Counted(users[i], answerIndex - 1)' = Counted(me, n + 1)
      BY <1>0, <1>2 DEF Counted, TooLate
    <3>4. QED BY <1>0, <2>1, <3>1, <3>2, <3>3 DEF LastIsLast
  <2>10. TypeOK'
    <3>1. lastChallenge' \in Challenges \cup {0}
      BY <1>2, <2>1 DEF Answers
    <3>2. answerIndex' \in 1..(Len(answers') + 1)
      <4>1. answerIndex + 1 \in 1..(Len(answers) + 1)
        BY <1>1, <1>2
      <4>2. QED BY <1>0, <4>1
    <3>3. DOMAIN score' \subseteq Users /\ score' \in [DOMAIN score' -> Nat]
      BY <1>1, <2>6 DEF TypeOK
    <3>4. QED BY <1>0, <1>1, <3>1, <3>2, <3>3 DEF TypeOK
  <2>11. QED
    BY <1>0, <1>12, <2>6, <2>8, <2>9, <2>10
    DEF IInv, Fresh, ListsUsersOnce, UsersSorted, AnswersSorted, ByUserAndChallenge, Ranking
<1>14. CASE ~Scores(a)
  <2>1. UNCHANGED <<score, lastChallenge>> /\ ~(a.user = me /\ ~TooLate(a) /\ a.challenge # lastChallenge)
    BY <1>14 DEF TakeAnswer, Scores, Current
  <2>2. \A u \in DOMAIN score : Counted(u, n + 1) = Counted(u, n)
    <3>1. \A u \in DOMAIN score : u # me => Counted(u, n + 1) = Counted(u, n)
      BY <1>7, <1>10
    <3>2. CASE a.user = me /\ ~TooLate(a)
      <4>1. a.challenge = lastChallenge /\ lastChallenge \in Counted(me, n)
        BY <1>2, <1>5, <2>1, <3>2
      <4>2. Counted(me, n + 1) = Counted(me, n)
        BY <1>7, <3>2, <4>1
      <4>3. QED BY <3>1, <4>2
    <3>3. CASE ~(a.user = me /\ ~TooLate(a))
      BY <1>7, <3>1, <3>3
    <3>4. QED BY <3>2, <3>3
  <2>3. ScoresSoFar'
    BY <1>6, <1>8, <2>1, <2>2 DEF ScoresSoFar
  <2>4. LastIsLast'
    BY <1>0, <1>2, <1>5, <1>8, <2>1, <2>2 DEF LastIsLast
  <2>5. TypeOK'
    <3>1. answerIndex' \in 1..(Len(answers') + 1)
      BY <1>0, <1>1, <1>2
    <3>2. QED BY <1>0, <1>1, <2>1, <3>1 DEF TypeOK
  <2>6. QED
    BY <1>0, <1>12, <2>1, <2>3, <2>4, <2>5
    DEF IInv, Fresh, ListsUsersOnce, UsersSorted, AnswersSorted, ByUserAndChallenge, Ranking
<1>15. QED BY <1>13, <1>14

\* The walk goes on to the next user, of whom nothing was consumed yet.
LEMMA NextUserStep == IInv /\ NextUser => IInv'
<1> SUFFICES ASSUME IInv, NextUser PROVE IInv'
  OBVIOUS
<1>0. /\ stage = "merge" /\ stage' = "merge" /\ i <= Len(users)
      /\ ~(answerIndex <= Len(answers) /\ answers[answerIndex].user <= users[i])
      /\ i' = i + 1 /\ lastChallenge' = 0
      /\ UNCHANGED <<accounts, correct, users, answers, answerIndex, score, read>>
  BY DEF NextUser, Merging, InReach, Current, FirstChallenge, tables
<1>1. /\ TypeOK /\ Len(users) \in Nat /\ Len(answers) \in Nat
      /\ DOMAIN users = 1..Len(users) /\ DOMAIN answers = 1..Len(answers)
      /\ i \in 1..Len(users) /\ answerIndex \in 1..(Len(answers) + 1)
      /\ \A j \in 1..Len(users) : users[j] \in Nat
      /\ \A k \in 1..Len(answers) : answers[k].user \in Nat
  BY <1>0, WalkFacts
<1>2. TypeOK'
  BY <1>0, <1>1 DEF TypeOK
<1>3. \A u : Counted(u, answerIndex - 1)' = Counted(u, answerIndex - 1)
  BY <1>0 DEF Counted, TooLate
<1>4. ScoresSoFar'
  BY <1>0, <1>3 DEF IInv, ScoresSoFar
<1>5. \A k \in answerIndex..Len(answers) : users[i] < answers[k].user
  <2>1. TAKE k \in answerIndex..Len(answers)
  <2>2. answerIndex \in 1..Len(answers) /\ k \in 1..Len(answers)
    BY <1>1
  <2>3. users[i] < answers[answerIndex].user
    BY <1>0, <1>1, <2>2
  <2>4. k = answerIndex \/ ByUserAndChallenge(answers[answerIndex], answers[k])
    BY <1>0, <1>1, <2>2 DEF IInv, AnswersSorted
  <2>5. QED BY <1>1, <2>2, <2>3, <2>4 DEF ByUserAndChallenge
<1>6. /\ \A k \in 1..(answerIndex - 1) : answers[k].user <= users[i]
      /\ \A j \in 1..(i - 1), k \in answerIndex..Len(answers) : users[j] < answers[k].user
  BY <1>0 DEF IInv, Apart
<1>7. i + 1 <= Len(users) => \A k \in 1..(answerIndex - 1) : answers[k].user < users[i + 1]
  <2> SUFFICES ASSUME i + 1 <= Len(users), NEW k \in 1..(answerIndex - 1)
               PROVE  answers[k].user < users[i + 1]
    OBVIOUS
  <2>1. i + 1 \in 1..Len(users) /\ i < i + 1 /\ k \in 1..Len(answers)
    BY <1>1
  <2>2. users[i] < users[i + 1]
    BY <1>0, <1>1, <2>1 DEF IInv, UsersSorted
  <2>3. QED BY <1>1, <1>6, <2>1, <2>2
<1>8. Apart'
  <2>1. i' <= Len(users) => \A k \in 1..(answerIndex - 1) : answers[k].user <= users[i']
    <3> SUFFICES ASSUME i + 1 <= Len(users), NEW k \in 1..(answerIndex - 1)
                 PROVE  answers[k].user <= users[i + 1]
      BY <1>0
    <3>1. answers[k].user < users[i + 1]
      BY <1>7
    <3>2. answers[k].user \in Nat /\ users[i + 1] \in Nat
      BY <1>1
    <3>3. QED BY <3>1, <3>2
  <2>2. \A j \in 1..(i' - 1), k \in answerIndex..Len(answers) : users[j] < answers[k].user
    <3> SUFFICES ASSUME NEW j \in 1..i, NEW k \in answerIndex..Len(answers)
                 PROVE  users[j] < answers[k].user
      BY <1>0, <1>1
    <3>1. j = i \/ j \in 1..(i - 1)
      BY <1>1
    <3>2. QED BY <1>5, <1>6, <3>1
  <2>3. QED BY <1>0, <2>1, <2>2 DEF Apart
<1>9. LastIsLast'
  <2> SUFFICES ASSUME i + 1 <= Len(users) PROVE Counted(users[i + 1], answerIndex - 1) = {}
    BY <1>0, <1>3 DEF LastIsLast
  <2>1. \A k \in 1..(answerIndex - 1) : answers[k].user # users[i + 1]
    <3>1. TAKE k \in 1..(answerIndex - 1)
    <3>2. answers[k].user < users[i + 1]
      BY <1>7
    <3>3. answers[k].user \in Nat /\ users[i + 1] \in Nat
      BY <1>1
    <3>4. QED BY <3>2, <3>3
  <2>2. QED BY <2>1 DEF Counted
<1>10. QED
  BY <1>0, <1>2, <1>4, <1>8, <1>9
  DEF IInv, Fresh, ListsUsersOnce, UsersSorted, AnswersSorted, ByUserAndChallenge, Ranking

\* After the last user the scores are those of the reference, and the list is
\* sorted by them.
LEMMA RankStep == IInv /\ Rank => IInv'
<1> SUFFICES ASSUME IInv, Rank PROVE IInv'
  OBVIOUS
<1>0. /\ stage = "merge" /\ stage' = "done" /\ i > Len(users)
      /\ UNCHANGED <<accounts, correct, answers, i, answerIndex, lastChallenge, score, read>>
  BY DEF Rank, tables
<1>1. /\ TypeOK /\ Len(users) \in Nat /\ Len(answers) \in Nat
      /\ DOMAIN users = 1..Len(users) /\ DOMAIN answers = 1..Len(answers)
      /\ i \in 1..(Len(users) + 1) /\ answerIndex \in 1..(Len(answers) + 1)
      /\ \A u \in DOMAIN score : u \in Nat /\ \E j \in 1..Len(users) : users[j] = u
      /\ \A k \in 1..Len(answers) : answers[k].user \in Nat
  BY <1>0, WalkFacts
<1>2. ASSUME NEW u \in DOMAIN score PROVE score[u] = 100 * Cardinality(Solved(u))
  <2>1. PICK j \in 1..Len(users) : users[j] = u
    BY <1>1
  <2>2. j \in 1..(i - 1) /\ answerIndex - 1 \in 0..Len(answers) /\ (answerIndex - 1) + 1 = answerIndex
    BY <1>0, <1>1
  <2>3. \A k \in answerIndex..Len(answers) : answers[k].user # u
    <3>1. TAKE k \in answerIndex..Len(answers)
    <3>2. users[j] < answers[k].user
      BY <1>0, <2>2 DEF IInv, Apart
    <3>3. answers[k].user \in Nat /\ u \in Nat
      BY <1>1
    <3>4. QED BY <2>1, <3>2, <3>3
  <2>4. Counted(u, answerIndex - 1) = Counted(u, Len(answers))
    BY <1>1, <2>2, <2>3, NothingLeft
  <2>5. Counted(u, Len(answers)) = Solved(u)
    BY <1>0, <1>1, AllCounted DEF IInv, AnswersSorted
  <2>6. score[u] = 100 * Cardinality(Counted(u, answerIndex - 1))
    BY <1>0 DEF IInv, ScoresSoFar
  <2>7. QED BY <2>4, <2>5, <2>6
<1>3. ToSet(users) = DOMAIN score /\ IsFiniteSet(DOMAIN score) /\ DOMAIN score \subseteq Users
      /\ Len(users) = Cardinality(DOMAIN score)
  BY <1>0, <1>1 DEF IInv, ListsUsersOnce, TypeOK
<1>4. /\ users' \in SetToSeqs(DOMAIN score)
      /\ \A j, k \in DOMAIN users' : j < k => ByScore(users'[j], users'[k])
  BY <1>3 DEF Rank, Sorted
<1>5. /\ users' \in Seq(DOMAIN score) /\ Len(users') = Cardinality(DOMAIN score)
      /\ Len(users') \in Nat /\ DOMAIN users' = 1..Len(users') /\ ToSet(users') = DOMAIN score
      /\ \A j, k \in DOMAIN users' : j # k => users'[j] # users'[k]
  BY <1>3, <1>4, Arranged
<1>6. users' \in Seq(Users)
  BY <1>3, <1>5
<1>7. TypeOK'
  BY <1>0, <1>1, <1>3, <1>5, <1>6 DEF TypeOK
<1>8. Ranking'
  <2>1. \A u \in DOMAIN score : score'[u] = 100 * Cardinality(Solved(u))'
    BY <1>0, <1>2 DEF Solved
  <2>2. \A j, k \in DOMAIN users' : j < k => j # k
    BY <1>5
  <2>3. \A j, k \in DOMAIN users' : j < k => ByScore(users'[j], users'[k]) /\ users'[j] # users'[k]
    BY <1>4, <1>5, <2>2
  <2>4. \A j, k \in DOMAIN users' : j < k => (ByScore(users[j], users[k]) /\ users[j] # users[k])'
    BY <1>0, <2>3 DEF ByScore
  <2>5. QED BY <1>0, <2>1, <2>4 DEF Ranking
<1>9. ListsUsersOnce'
  BY <1>0, <1>3, <1>5 DEF ListsUsersOnce
<1>10. QED
  BY <1>0, <1>7, <1>8, <1>9 DEF IInv, Fresh, UsersSorted, AnswersSorted, ScoresSoFar, Apart, LastIsLast

-----------------------------------------------------------------------------
(* Theorems. *)

\* The invariant is inductive.
LEMMA StepIInv == IInv /\ [BoardNext]_boardVars => IInv'
<1> SUFFICES ASSUME IInv, [BoardNext]_boardVars PROVE IInv'
  OBVIOUS
<1>1. CASE UNCHANGED boardVars
  <2>1. UNCHANGED <<accounts, correct, stage, users, answers, i, answerIndex, lastChallenge, score, read>>
    BY <1>1 DEF boardVars, tables, loop
  <2>2. TypeOK'
    BY <2>1 DEF IInv, TypeOK
  <2>3. QED
    BY <2>1, <2>2 DEF IInv, Fresh, ListsUsersOnce, UsersSorted, AnswersSorted, ByUserAndChallenge,
                      ScoresSoFar, Counted, TooLate, Apart, LastIsLast, Ranking, Solved, ByScore
<1>2. QED
  BY <1>1, GetUsers2Step, GetUsers3Step, FailsStep, TakeAnswerStep, NextUserStep, RankStep, OthersStep
  DEF BoardNext, GetUsers, Replied

\* The inductive invariant holds in every reachable state.
THEOREM Invariance == BoardSpec => []IInv
<1>1. QED BY InitIInv, StepIInv, PTL DEF BoardSpec

\* Type correctness: both indices of calculate_user_scores stay within their
\* arrays, or one past the end.
THEOREM TypeCorrect == BoardSpec => []TypeOK
<1>1. IInv => TypeOK
  BY DEF IInv
<1>2. QED BY <1>1, Invariance, PTL

\* calculate_user_scores gives every listed user 100 for each challenge solved
\* in time, and ranks the list, whatever the tables were when they were read.
THEOREM ScoresAreReference == BoardSpec => []ScoreIsReference
<1>1. ASSUME IInv PROVE ScoreIsReference
  <2> SUFFICES ASSUME stage = "done"
               PROVE  /\ \A u \in DOMAIN score : score[u] = 100 * Cardinality(Solved(u))
                      /\ ToSet(users) = DOMAIN score /\ Len(users) = Cardinality(DOMAIN score)
                      /\ \A j \in 1..Len(users) - 1 :
                             \/ score[users[j]] > score[users[j + 1]]
                             \/ score[users[j]] = score[users[j + 1]] /\ users[j] < users[j + 1]
    BY DEF ScoreIsReference, Ranked, Solved
  <2>1. /\ \A u \in DOMAIN score : score[u] = 100 * Cardinality(Solved(u))
        /\ ToSet(users) = DOMAIN score /\ Len(users) = Cardinality(DOMAIN score)
    BY <1>1 DEF IInv, Ranking, ListsUsersOnce
  <2>2. ASSUME NEW j \in 1..Len(users) - 1
        PROVE  \/ score[users[j]] > score[users[j + 1]]
               \/ score[users[j]] = score[users[j + 1]] /\ users[j] < users[j + 1]
    <3>1. Len(users) \in Nat /\ DOMAIN users = 1..Len(users) /\ users \in Seq(Users)
      BY <1>1 DEF IInv, TypeOK
    <3>2. j \in DOMAIN users /\ j + 1 \in DOMAIN users /\ j < j + 1
      BY <3>1
    <3>3. ByScore(users[j], users[j + 1]) /\ users[j] # users[j + 1]
      BY <1>1, <3>2 DEF IInv, Ranking
    <3>4. users[j] \in Users /\ users[j + 1] \in Users
      BY <3>1, <3>2
    <3>5. users[j] \in Nat /\ users[j + 1] \in Nat
      BY <3>4, IdsArePositive
    <3>6. users[j] <= users[j + 1] => users[j] < users[j + 1]
      BY <3>3, <3>5
    <3>7. QED BY <3>3, <3>6 DEF ByScore
  <2>3. QED BY <2>1, <2>2
<1>2. QED BY <1>1, Invariance, PTL

==============================================================================
