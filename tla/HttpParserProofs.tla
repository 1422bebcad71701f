-------------------------- MODULE HttpParserProofs --------------------------
(***************************************************************************)
(* Proofs about HttpParser for streams of every length, cut in every way,  *)
(* and for all limits: recv always has room, the body is what the one      *)
(* Content-Length says, the headers are the lines of the head, and what    *)
(* comes out does not depend on how the stream was cut.                    *)
(***************************************************************************)
EXTENDS HttpChunks, SequenceTheorems, WellFoundedInduction, TLAPS

-----------------------------------------------------------------------------
(* The inductive invariant.  What the parser has learnt about the stream s  *)
(* is stated about s itself, not about the part received so far.            *)

Header == [name : Nat, nameLen : Nat, value : Nat, valueLen : Nat]

Request == [method : Nat, uri : Nat, uriLen : Nat, version : Nat,
            headers : Seq(Header), h : Header,
            contentLength : Nat, body : Nat, bodyRead : Nat]

LF(s, k) == k \in 1..Len(s) /\ s[k] = "LF"

\* Position k ends a blank line.
Blank(s, k) == LF(s, k) /\ (LF(s, k - 1) \/ (LF(s, k - 2) /\ s[k - 1] = "CR"))

\* No line ends within a..b; no blank line before b.
Unbroken(s, a, b) == \A p \in a..b : ~LF(s, p)
NoBlank(s, b) == \A k \in 1..(b - 1) : ~Blank(s, k)

Colon(h) == h.name + h.nameLen

\* The name of header h begins a line and ends at its first colon.
NameOK(s, h) ==
    /\ h.name >= 2 /\ h.nameLen >= 1
    /\ LF(s, h.name - 1)
    /\ s[Colon(h)] = "COLON"
    /\ \A p \in h.name..(Colon(h) - 1) : s[p] # "COLON"

\* The value of h is what is between the colon and e, without white space
\* around it.
ValueOK(s, h, e) ==
    \/ /\ h.value = 0 /\ h.valueLen = 0
       /\ \A p \in (Colon(h) + 1)..e : s[p] \in Whitespace
    \/ /\ h.value > Colon(h) /\ h.valueLen >= 1 /\ h.value + h.valueLen <= e + 1
       /\ s[h.value] \notin Whitespace /\ s[h.value + h.valueLen - 1] \notin Whitespace
       /\ \A p \in (Colon(h) + 1)..e :
              p < h.value \/ p >= h.value + h.valueLen => s[p] \in Whitespace

\* Header h is the line that ends at e.
Line(s, h, e) ==
    /\ NameOK(s, h)
    /\ LF(s, e) /\ Colon(h) < e
    /\ Unbroken(s, h.name, e - 1)
    /\ ValueOK(s, h, e)

\* The headers hs are the lines between the request line and the line that
\* begins at b, in order.
Lines(s, hs, b) ==
    /\ \A k \in DOMAIN hs : \E e \in 1..(b - 1) : Line(s, hs[k], e)
    /\ \A k, l \in DOMAIN hs : k < l => hs[k].name < hs[l].name
    /\ \A x \in 1..(b - 2) : LF(s, x) <=> \E k \in DOMAIN hs : hs[k].name = x + 1

\* The parts of the stream that slices denote.
Text(s, at, len) == [k \in 1..len |-> s[at + k - 1]]
NameText(s, h) == Fold(Text(s, h.name, h.nameLen))
ValueText(s, h) == Text(s, h.value, h.valueLen)

\* At most one of the headers hs is a Content-Length, and it says n.
Lengths(s, hs, n) ==
    /\ \A k \in DOMAIN hs :
           NameText(s, hs[k]) = ContentLength => LengthAfter(ValueText(s, hs[k])) = n
    /\ \A k, l \in DOMAIN hs :
           NameText(s, hs[k]) = ContentLength /\ NameText(s, hs[l]) = ContentLength => k = l
    /\ n = 0 \/ \E k \in DOMAIN hs : NameText(s, hs[k]) = ContentLength

\* The line that begins at b is a header line or the blank line.
Started(s, hs, b) == b >= 2 /\ LF(s, b - 1) /\ NoBlank(s, b) /\ Lines(s, hs, b)

\* The head of request r ends with the blank line that ends at e.
HeadRead(s, r, e) ==
    /\ e \in 2..Len(s) /\ Blank(s, e)
    /\ \E b \in {e - 1, e} : Started(s, r.headers, b) /\ Unbroken(s, b, e - 1)
    /\ Lengths(s, r.headers, r.contentLength)

Types ==
    /\ stream \in Streams
    /\ got \in 0..Len(stream) /\ i \in 1..(got + 1)
    /\ pc \in {"recv", "parse", "done"}
    /\ state \in HeadStates \cup {"BODY", "DONE", "ERROR"}
    /\ status \in Statuses
    /\ req \in Request
    /\ req.method <= got /\ req.uri <= got /\ req.version <= got
    /\ Len(req.headers) <= MaxHeaders /\ req.contentLength <= SizeMax
    /\ req.bodyRead <= req.contentLength

\* Where the loop is when it asks for more bytes, and how far the limits let
\* it go.
Positions ==
    /\ pc # "done" => state \notin {"DONE", "ERROR"}
    /\ pc = "recv" => i = got + 1 \/ state \in {"REQ_METHOD", "BODY"}
    /\ state \in HeadStates \ {"REQ_METHOD"} => i <= MaxHeaderBytes
    /\ state = "REQ_METHOD" =>
           /\ req.uri = 0 /\ req.method \in {0, 1}
           /\ req.method = 0 => i = 1 /\ (pc = "recv" => got = 0)
           /\ pc = "recv" => got = 0 \/ got < MethodPeek
           /\ pc = "parse" => i <= got
    /\ state = "REQ_URI" => req.uri < i
    /\ state \notin {"REQ_METHOD", "REQ_URI", "ERROR"} => req.uri >= 1 /\ req.uri + req.uriLen <= got

\* What has been read up to i.
Learnt ==
    /\ state \in {"REQ_METHOD", "REQ_URI", "REQ_VERSION", "REQ_LF"} =>
           req.headers = <<>> /\ req.contentLength = 0
    /\ state \in {"REQ_METHOD", "REQ_URI", "REQ_VERSION", "REQ_LF", "HEADER_KEY", "HEADER_END"} =>
           req.h = NoHeader
    /\ state \in HeadStates => req.bodyRead = 0
    /\ state \in {"REQ_URI", "REQ_VERSION", "REQ_LF"} => Unbroken(stream, 1, i - 1)
    /\ state = "HEADER_KEY" => Started(stream, req.headers, i)
    /\ state = "HEADER_END" => Started(stream, req.headers, i - 1) /\ stream[i - 1] = "CR"
    /\ state \in {"HEADER_NAME", "HEADER_VALUE", "HEADER_LF"} =>
           /\ Started(stream, req.headers, req.h.name) /\ Len(req.headers) < MaxHeaders
           /\ Unbroken(stream, req.h.name, i - 1)
    /\ state = "HEADER_NAME" =>
           /\ req.h.name < i /\ req.h.nameLen = 0 /\ req.h.value = 0 /\ req.h.valueLen = 0
           /\ \A p \in req.h.name..(i - 1) : stream[p] # "COLON"
    /\ state \in {"HEADER_VALUE", "HEADER_LF"} =>
           NameOK(stream, req.h) /\ Colon(req.h) < i /\ ValueOK(stream, req.h, i - 1)
    /\ state \in {"HEADER_KEY", "HEADER_END", "HEADER_NAME", "HEADER_VALUE"} =>
           Lengths(stream, req.headers, req.contentLength)
    /\ state = "HEADER_LF" => Lengths(stream, Append(req.headers, req.h), req.contentLength)
    /\ state = "BODY" =>
           /\ HeadRead(stream, req, req.body - 1)
           /\ req.body <= i /\ req.bodyRead < req.contentLength
           /\ req.body + req.contentLength <= MaxRequestBytes
           /\ pc = "recv" => req.bodyRead = got + 1 - req.body
           /\ pc = "parse" => req.bodyRead = i - req.body
    /\ state = "DONE" =>
           \E e \in 1..got :
               /\ HeadRead(stream, req, e)
               /\ req.bodyRead = req.contentLength /\ e + req.contentLength <= got
               /\ req.contentLength # 0 => req.body = e + 1

IInv == Types /\ Positions /\ Learnt

-----------------------------------------------------------------------------
(* Induction, as the principle of the least counterexample. *)

\* A set of naturals has a least member.
LEMMA Least ==
    ASSUME NEW T, T \subseteq Nat, T # {}
    PROVE  \E x \in T : \A y \in T : x <= y
<1> DEFINE R == OpToRel(<, Nat)
<1>1. IsWellFoundedOn(R, Nat)
  BY NatLessThanWellFounded, Zenon
<1>2. PICK x \in T : \A y \in T : <<y, x>> \notin R
  <2> HIDE DEF R
  <2> QED BY <1>1, WFMin
<1>3. \A y \in T : ~(y < x)
  BY <1>2 DEF OpToRel
<1>4. QED BY <1>3

\* f is the function on 0..n that begins with a and goes on by step.
Unfolds(f, n, S, a, step) ==
    f \in [0..n -> S] /\ f[0] = a /\ \A k \in 1..n : f[k] = step[<<k, f[k - 1]>>]

IsStep(step, n, S) == step \in [(1..n) \X S -> S]

\* A function on 0..n may be defined by recursion.
LEMMA Recursion ==
    ASSUME NEW n \in Nat, NEW S, NEW a \in S, NEW step, IsStep(step, n, S)
    PROVE  \E f : Unfolds(f, n, S, a, step)
<1> DEFINE Good(m, f) == /\ f \in [0..m -> S] /\ f[0] = a
                         /\ \A k \in 1..m : f[k] = step[<<k, f[k - 1]>>]
           Bad == {m \in 0..n : ~\E f : Good(m, f)}
<1>1. SUFFICES ASSUME Bad # {} PROVE FALSE
  <2>1. CASE Bad = {}
    <3>1. n \in 0..n
      OBVIOUS
    <3>2. PICK f : Good(n, f)
      BY <2>1, <3>1
    <3>3. QED BY <3>2 DEF Unfolds
  <2>2. QED BY <2>1
<1>2. PICK m \in Bad : \A y \in Bad : m <= y
  <2>1. Bad \subseteq Nat
    OBVIOUS
  <2> HIDE DEF Bad
  <2>2. QED BY <1>1, <2>1, Least
<1>3. m # 0
  <2>1. Good(0, [k \in {0} |-> a])
    OBVIOUS
  <2>2. QED BY <2>1
<1>4. m \in 1..n /\ m - 1 \in 0..n /\ m - 1 \notin Bad
  <2>1. m \in 0..n
    OBVIOUS
  <2> HIDE DEF Bad
  <2>2. QED BY <1>2, <1>3, <2>1
<1>5. PICK f : Good(m - 1, f)
  BY <1>4
<1> DEFINE g == [k \in 0..m |-> IF k = m THEN step[<<m, f[m - 1]>>] ELSE f[k]]
<1>6. f[m - 1] \in S /\ \A k \in 0..(m - 1) : f[k] \in S
  BY <1>4, <1>5
<1>7. <<m, f[m - 1]>> \in (1..n) \X S
  BY <1>4, <1>6
<1>8. step[<<m, f[m - 1]>>] \in S
  BY <1>7 DEF IsStep
<1>9. g \in [0..m -> S]
  BY <1>4, <1>6, <1>8
<1>10. g[0] = a
  BY <1>4, <1>5
<1>11. \A k \in 1..m : g[k] = step[<<k, g[k - 1]>>]
  <2>1. TAKE k \in 1..m
  <2>2. CASE k = m
    <3>1. m \in 0..m /\ m - 1 \in 0..m /\ m - 1 # m
      BY <1>4
    <3>2. g[m] = step[<<m, f[m - 1]>>] /\ g[m - 1] = f[m - 1]
      BY <3>1
    <3>3. QED BY <2>2, <3>2
  <2>3. CASE k # m
    <3>1. k \in 1..(m - 1) /\ k - 1 \in 0..(m - 1) /\ k - 1 # m /\ k \in 0..m /\ k - 1 \in 0..m
      BY <1>4, <2>3
    <3>2. g[k] = f[k] /\ g[k - 1] = f[k - 1]
      BY <2>3, <3>1
    <3>3. QED BY <1>5, <3>1, <3>2
  <2>4. QED BY <2>2, <2>3
<1>12. Good(m, g)
  BY <1>9, <1>10, <1>11
<1>13. QED BY <1>2, <1>12

-----------------------------------------------------------------------------
(* The digit loop. *)

\* Digits are worth 0 to 9.
LEMMA DigitFacts == \A d \in DOMAIN Digits : Digits[d] \in 0..9
BY DEF Digits

\* What one turn of the loop makes of the value v before the byte b.
Turn(v, b) ==
    IF v = -1 \/ b \notin DOMAIN Digits THEN -1
    ELSE IF v > (SizeMax - Digits[b]) \div 10 THEN -1
    ELSE v * 10 + Digits[b]

\* LengthAfter is the last of the values that the turns give.
LEMMA LengthLoop ==
    ASSUME NEW text \in Seq(STRING)
    PROVE  \E value \in [0..Len(text) -> Int] :
               /\ value[0] = 0
               /\ \A k \in 1..Len(text) : value[k] = Turn(value[k - 1], text[k])
               /\ LengthAfter(text) = value[Len(text)]
<1> DEFINE n == Len(text)
           step == [p \in (1..n) \X Int |-> Turn(p[2], text[p[1]])]
           Image(f) == [k \in 0..n |-> IF k = 0 THEN 0 ELSE Turn(f[k - 1], text[k])]
           V == CHOOSE f : f = Image(f)
<1>1. n \in Nat
  OBVIOUS
<1>2. \A v \in Int : \A b : Turn(v, b) \in Int
  BY DigitFacts, LimitsAssumption DEF Turn
<1>3. IsStep(step, n, Int)
  BY <1>2 DEF IsStep
<1>4. \A k \in 1..n, v \in Int : step[<<k, v>>] = Turn(v, text[k])
  OBVIOUS
<1>5. PICK f : f \in [0..n -> Int] /\ f[0] = 0 /\ \A k \in 1..n : f[k] = step[<<k, f[k - 1]>>]
  <2> HIDE DEF step, n
  <2>1. \E f : Unfolds(f, n, Int, 0, step)
    BY <1>1, <1>3, 0 \in Int, Recursion
  <2>2. QED BY <2>1 DEF Unfolds
<1>6. \A k \in 1..n : f[k] = Turn(f[k - 1], text[k])
  <2> HIDE DEF step, n
  <2>1. TAKE k \in 1..n
  <2>2. k - 1 \in 0..n
    BY <1>1
  <2>3. f[k - 1] \in Int
    BY <1>5, <2>2
  <2>4. QED BY <1>4, <1>5, <2>3
<1>7. f = Image(f)
  <2>1. \A k \in 0..n : f[k] = IF k = 0 THEN 0 ELSE Turn(f[k - 1], text[k])
    BY <1>1, <1>5, <1>6
  <2>2. QED BY <1>5, <2>1
<1>8. V = Image(V)
  <2> HIDE DEF Image
  <2> QED BY <1>7
<1>9. LengthAfter(text) = V[n]
  BY DEF LengthAfter, Turn
<1>10. V[0] = 0 /\ (\A k \in 1..n : V[k] = Turn(V[k - 1], text[k]))
  <2>1. \A g : Image(g)[0] = 0 /\ \A k \in 1..n : Image(g)[k] = Turn(g[k - 1], text[k])
    BY <1>1
  <2> HIDE DEF V, n, Image
  <2>2. QED BY <1>8, <2>1
<1>11. V \in [0..n -> Int]
  <2> DEFINE Bad == {k \in 0..n : V[k] \notin Int}
  <2>1. SUFFICES ASSUME Bad # {} PROVE FALSE
    <3>1. \A g : Image(g) \in [0..n -> {Image(g)[k] : k \in 0..n}]
      OBVIOUS
    <3>2. V \in [0..n -> {V[k] : k \in 0..n}]
      <4> HIDE DEF V, n, Image
      <4> QED BY <1>8, <3>1
    <3> HIDE DEF V, n
    <3>3. QED BY <3>2
  <2>2. Bad \subseteq Nat
    BY <1>1
  <2>3. PICK m \in Bad : \A y \in Bad : m <= y
    <3> HIDE DEF Bad
    <3> QED BY <2>1, <2>2, Least
  <2> HIDE DEF V, n
  <2>4. m \in 1..n /\ m - 1 \in 0..n
    BY <1>1, <1>10, <2>3
  <2>5. V[m - 1] \in Int
    BY <2>3, <2>4
  <2>6. QED BY <1>2, <1>10, <2>3, <2>4, <2>5
<1>12. QED
  <2> HIDE DEF V
  <2> QED BY <1>9, <1>10, <1>11

\* The loop computes the number that the digits denote, unless it refuses.
LEMMA LengthIsNumber ==
    ASSUME NEW text \in Seq(STRING), LengthAfter(text) # -1
    PROVE  LengthAfter(text) = Number(text) /\ LengthAfter(text) \in 0..SizeMax
<1> DEFINE n == Len(text)
<1>1. PICK value \in [0..n -> Int] :
          /\ value[0] = 0
          /\ \A k \in 1..n : value[k] = Turn(value[k - 1], text[k])
          /\ LengthAfter(text) = value[n]
  BY LengthLoop
<1>2. n \in Nat
  OBVIOUS
<1> HIDE DEF n
<1>3. \A k \in 0..n : value[k] # -1
  <2> DEFINE Bad == {j \in 0..n : value[n - j] = -1}
  <2>1. SUFFICES ASSUME Bad # {} PROVE FALSE
    <3>1. \A k \in 0..n : n - k \in 0..n /\ n - (n - k) = k
      BY <1>2
    <3>2. QED BY <3>1
  <2>2. PICK m \in Bad : \A y \in Bad : m <= y
    <3>1. Bad \subseteq Nat
      BY <1>2
    <3> HIDE DEF Bad
    <3>2. QED BY <2>1, <3>1, Least
  <2>3. m \in 0..n /\ value[n - m] = -1
    OBVIOUS
  <2>4. m # 0
    BY <1>1, <1>2, <2>3 DEF n
  <2>5. n - m + 1 \in 1..n /\ n - (m - 1) = n - m + 1 /\ (n - m + 1) - 1 = n - m /\ m - 1 \in 0..n
    BY <1>2, <2>3, <2>4
  <2>6. value[n - m + 1] = -1
    BY <1>1, <2>3, <2>5 DEF Turn
  <2>7. m - 1 \in Bad
    BY <2>5, <2>6
  <2> HIDE DEF Bad
  <2>8. QED BY <1>2, <2>2, <2>3, <2>7
<1>4. \A k \in 1..n : /\ text[k] \in DOMAIN Digits
                      /\ value[k - 1] <= (SizeMax - Digits[text[k]]) \div 10
                      /\ value[k] = value[k - 1] * 10 + Digits[text[k]]
  <2>1. TAKE k \in 1..n
  <2>2. k \in 0..n /\ k - 1 \in 0..n
    BY <1>2
  <2>3. value[k] = Turn(value[k - 1], text[k]) /\ value[k] # -1 /\ value[k - 1] \in Int
    BY <1>1, <1>3, <2>2
  <2>4. text[k] \in DOMAIN Digits
    BY <2>3 DEF Turn
  <2>5. Digits[text[k]] \in 0..9
    BY <2>4, DigitFacts
  <2>6. ~(value[k - 1] > (SizeMax - Digits[text[k]]) \div 10)
    BY <2>3, <2>4 DEF Turn
  <2>7. value[k] = value[k - 1] * 10 + Digits[text[k]]
    BY <2>3, <2>4, <2>6 DEF Turn
  <2>8. \A v \in Int, d \in 0..9 : ~(v > (SizeMax - d) \div 10) => v <= (SizeMax - d) \div 10
    BY LimitsAssumption
  <2>9. QED BY <2>3, <2>4, <2>5, <2>6, <2>7, <2>8
<1>5. \A k \in 0..n : value[k] \in 0..SizeMax
  <2> DEFINE Bad == {j \in 0..n : value[j] \notin 0..SizeMax}
  <2>1. SUFFICES ASSUME Bad # {} PROVE FALSE
    OBVIOUS
  <2>2. PICK m \in Bad : \A y \in Bad : m <= y
    <3>1. Bad \subseteq Nat
      BY <1>2
    <3> HIDE DEF Bad
    <3>2. QED BY <2>1, <3>1, Least
  <2>3. m \in 0..n /\ value[m] \notin 0..SizeMax
    OBVIOUS
  <2>4. m # 0
    BY <1>1, <2>3, LimitsAssumption
  <2>5. m \in 1..n /\ m - 1 \in 0..n
    BY <1>2, <2>3, <2>4
  <2>6. value[m - 1] \in 0..SizeMax
    BY <1>2, <2>2, <2>5
  <2>7. Digits[text[m]] \in 0..9 /\ value[m - 1] <= (SizeMax - Digits[text[m]]) \div 10
        /\ value[m] = value[m - 1] * 10 + Digits[text[m]]
    BY <1>4, <2>5, DigitFacts
  <2>8. \A v \in 0..SizeMax, d \in 0..9 : v <= (SizeMax - d) \div 10 => v * 10 + d \in 0..SizeMax
    BY LimitsAssumption
  <2>9. QED BY <2>3, <2>6, <2>7, <2>8
<1> DEFINE Image(f) == [k \in 0..n |-> IF k = 0 THEN 0 ELSE 10 * f[k - 1] + Digits[text[k]]]
           U == CHOOSE f : f = Image(f)
<1>6. value = Image(value)
  <2>1. \A k \in 0..n : value[k] = IF k = 0 THEN 0 ELSE 10 * value[k - 1] + Digits[text[k]]
    <3>1. TAKE k \in 0..n
    <3>2. CASE k = 0
      BY <1>1, <3>2
    <3>3. CASE k # 0
      <4>1. k \in 1..n /\ k - 1 \in 0..n
        BY <1>2, <3>3
      <4>2. value[k - 1] \in Int /\ Digits[text[k]] \in 0..9
        BY <1>4, <4>1, DigitFacts
      <4>3. QED BY <1>4, <3>3, <4>1, <4>2
    <3>4. QED BY <3>2, <3>3
  <2>2. QED BY <2>1
<1>7. U = Image(U)
  <2> HIDE DEF Image
  <2> QED BY <1>6
<1>8. Number(text) = U[n]
  BY DEF Number, n
<1>9. U[0] = 0 /\ \A k \in 1..n : U[k] = 10 * U[k - 1] + Digits[text[k]]
  <2>1. \A g : Image(g)[0] = 0 /\ \A k \in 1..n : Image(g)[k] = 10 * g[k - 1] + Digits[text[k]]
    BY <1>2
  <2> HIDE DEF U, Image
  <2>2. QED BY <1>7, <2>1
<1> HIDE DEF U, Image
<1>10. \A k \in 0..n : U[k] = value[k]
  <2> DEFINE Bad == {j \in 0..n : U[j] # value[j]}
  <2>1. SUFFICES ASSUME Bad # {} PROVE FALSE
    OBVIOUS
  <2>2. PICK m \in Bad : \A y \in Bad : m <= y
    <3>1. Bad \subseteq Nat
      BY <1>2
    <3> HIDE DEF Bad
    <3>2. QED BY <2>1, <3>1, Least
  <2>3. m \in 1..n /\ m - 1 \in 0..n
    BY <1>1, <1>2, <1>9
  <2>4. U[m - 1] = value[m - 1]
    BY <1>2, <2>2, <2>3
  <2>5. value[m - 1] \in Int /\ Digits[text[m]] \in 0..9
    BY <1>4, <2>3, DigitFacts
  <2>6. U[m] = value[m]
    BY <1>4, <1>9, <2>3, <2>4, <2>5
  <2>7. QED BY <2>6
<1>11. n \in 0..n
  BY <1>2
<1>12. QED BY <1>1, <1>5, <1>8, <1>10, <1>11

-----------------------------------------------------------------------------
(* What a line end adds to what is known of the stream. *)

\* A slice of what has been received is a part of the stream.
LEMMA SliceIsText ==
    ASSUME got \in Nat, NEW at \in Nat, NEW len \in Nat, at + len <= got + 1
    PROVE  Slice(at, len) = Text(stream, at, len)
BY DEF Slice, Text, Byte

\* The members of a sequence with one more.
LEMMA AppendFacts ==
    ASSUME NEW S, NEW q \in Seq(S), NEW x \in S
    PROVE  /\ Append(q, x) \in Seq(S)
           /\ Len(Append(q, x)) = Len(q) + 1
           /\ DOMAIN Append(q, x) = DOMAIN q \cup {Len(q) + 1}
           /\ \A k \in DOMAIN q : k \in 1..Len(q) /\ Append(q, x)[k] = q[k]
           /\ Append(q, x)[Len(q) + 1] = x
OBVIOUS

\* The request line ends.
LEMMA FirstLine ==
    ASSUME NEW s \in Seq(STRING), NEW e \in 1..Len(s), s[e] = "LF", Unbroken(s, 1, e - 1)
    PROVE  Started(s, <<>>, e + 1)
<1>1. \A k \in 1..(e - 1) : ~LF(s, k)
  BY DEF Unbroken
<1>2. \A k \in 1..e : ~Blank(s, k)
  BY <1>1 DEF Blank, LF
<1>3. Lines(s, <<>>, e + 1)
  BY <1>1 DEF Lines
<1>4. QED BY <1>2, <1>3 DEF Started, NoBlank, LF

\* A header line ends.
LEMMA NextLine ==
    ASSUME NEW s \in Seq(STRING), NEW hs \in Seq(Header), NEW h \in Header, NEW e \in Nat,
           Started(s, hs, h.name), NameOK(s, h), Colon(h) < e, Unbroken(s, h.name, e - 1),
           ValueOK(s, h, e - 1), LF(s, e)
    PROVE  Started(s, Append(hs, h), e + 1)
<1> DEFINE b == h.name  all == Append(hs, h)
<1>1. /\ b \in Nat /\ h.nameLen \in Nat /\ h.value \in Nat /\ h.valueLen \in Nat
      /\ b >= 2 /\ Colon(h) \in Nat /\ Colon(h) >= b + 1 /\ e >= b + 2 /\ e \in 1..Len(s)
  BY DEF Header, NameOK, Colon, LF
<1>2. \A p \in b..(e - 1) : ~LF(s, p)
  BY DEF Unbroken
<1>3. NoBlank(s, e + 1)
  <2>1. SUFFICES ASSUME NEW k \in 1..e PROVE ~Blank(s, k)
    BY <1>1 DEF NoBlank
  <2>2. CASE k < b
    BY <1>1, <2>2 DEF Started, NoBlank
  <2>3. CASE k >= b /\ k < e
    BY <1>1, <1>2, <2>3 DEF Blank
  <2>4. CASE k = e
    <3>1. e - 1 \in b..(e - 1) /\ e - 2 \in b..(e - 1)
      BY <1>1
    <3>2. QED BY <1>2, <2>4, <3>1 DEF Blank
  <2>5. QED BY <1>1, <2>2, <2>3, <2>4
<1>4. Line(s, h, e)
  <2>1. s[e] \in Whitespace
    BY DEF LF, Whitespace
  <2>2. \A p \in (Colon(h) + 1)..e : p = e \/ p \in (Colon(h) + 1)..(e - 1)
    BY <1>1
  <2>3. ValueOK(s, h, e)
    <3>1. CASE h.value = 0 /\ h.valueLen = 0 /\ \A p \in (Colon(h) + 1)..(e - 1) : s[p] \in Whitespace
      BY <2>1, <2>2, <3>1 DEF ValueOK
    <3>2. CASE /\ h.value > Colon(h) /\ h.valueLen >= 1 /\ h.value + h.valueLen <= e - 1 + 1
               /\ s[h.value] \notin Whitespace /\ s[h.value + h.valueLen - 1] \notin Whitespace
               /\ \A p \in (Colon(h) + 1)..(e - 1) :
                      p < h.value \/ p >= h.value + h.valueLen => s[p] \in Whitespace
      <4>1. h.value + h.valueLen <= e + 1
        BY <1>1, <3>2
      <4>2. QED BY <2>1, <2>2, <3>2, <4>1 DEF ValueOK
    <3>3. QED BY <3>1, <3>2 DEF ValueOK
  <2>4. QED BY <2>3 DEF Line
<1>5. /\ all \in Seq(Header) /\ DOMAIN all = DOMAIN hs \cup {Len(hs) + 1}
      /\ \A k \in DOMAIN hs : k \in 1..Len(hs) /\ all[k] = hs[k]
      /\ all[Len(hs) + 1] = h /\ Len(hs) \in Nat
  BY AppendFacts
<1>6. \A k \in DOMAIN hs : hs[k].name \in Nat /\ hs[k].name < b
  <2>1. TAKE k \in DOMAIN hs
  <2>2. hs[k] \in Header
    OBVIOUS
  <2>3. PICK f \in 1..(b - 1) : Line(s, hs[k], f)
    BY DEF Started, Lines
  <2>4. hs[k].name \in Nat /\ hs[k].nameLen \in Nat
    BY <2>2 DEF Header
  <2>5. hs[k].name + hs[k].nameLen < f
    BY <2>3 DEF Line, Colon
  <2>6. QED BY SMTT(30), <1>1, <2>4, <2>5
<1> HIDE DEF all
<1>7. \A k \in DOMAIN all : \E f \in 1..e : Line(s, all[k], f)
  <2>1. TAKE k \in DOMAIN all
  <2>2. CASE k \in DOMAIN hs
    <3>1. PICK f \in 1..(b - 1) : Line(s, hs[k], f)
      BY <2>2 DEF Started, Lines
    <3>2. f \in 1..e
      BY <1>1
    <3>3. QED BY <1>5, <2>2, <3>1, <3>2
  <2>3. QED BY <1>1, <1>4, <1>5, <2>2
<1>8. \A k, l \in DOMAIN all : k < l => all[k].name < all[l].name
  <2>1. \A k, l \in DOMAIN hs : k < l => hs[k].name < hs[l].name
    BY DEF Started, Lines
  <2>2. QED BY <1>5, <1>6, <2>1
<1>9. \A x \in 1..(e - 1) : LF(s, x) <=> \E k \in DOMAIN all : all[k].name = x + 1
  <2>1. TAKE x \in 1..(e - 1)
  <2>2. CASE x < b - 1
    <3>1. x \in 1..(b - 2) /\ x + 1 # b
      BY <1>1, <2>2
    <3>2. LF(s, x) <=> \E k \in DOMAIN hs : hs[k].name = x + 1
      BY <3>1 DEF Started, Lines
    <3>3. QED BY <1>5, <3>1, <3>2
  <2>3. CASE x = b - 1
    <3>1. LF(s, x)
      BY <2>3 DEF Started
    <3>2. all[Len(hs) + 1].name = x + 1
      BY <1>1, <1>5, <2>3
    <3>3. QED BY <1>5, <3>1, <3>2
  <2>4. CASE x >= b
    <3>1. x \in b..(e - 1)
      BY <1>1, <2>4
    <3>2. ASSUME NEW k \in DOMAIN all PROVE all[k].name # x + 1
      <4>1. CASE k \in DOMAIN hs
        <5>1. all[k] = hs[k] /\ hs[k].name \in Nat /\ hs[k].name < b
          BY <1>5, <1>6, <4>1
        <5>2. \A n \in Nat : n < b => n # x + 1
          BY <1>1, <2>4
        <5>3. QED BY <5>1, <5>2
      <4>2. CASE k \notin DOMAIN hs
        BY <1>1, <1>5, <2>4, <4>2
      <4>3. QED BY <4>1, <4>2
    <3>3. QED BY <1>2, <3>1, <3>2
  <2>5. QED BY <1>1, <2>2, <2>3, <2>4
<1>10. Lines(s, all, e + 1)
  <2>1. (e + 1) - 1 = e /\ (e + 1) - 2 = e - 1
    OBVIOUS
  <2>2. QED BY <1>7, <1>8, <1>9, <2>1 DEF Lines
<1>11. e + 1 >= 2 /\ LF(s, (e + 1) - 1)
  BY <1>1
<1>12. QED BY <1>3, <1>10, <1>11 DEF Started, all

\* A header of another name leaves the length alone.
LEMMA LengthsKept ==
    ASSUME NEW s, NEW hs \in Seq(Header), NEW h \in Header, NEW n,
           Lengths(s, hs, n), NameText(s, h) # ContentLength
    PROVE  Lengths(s, Append(hs, h), n)
<1> DEFINE all == Append(hs, h)
<1>1. /\ DOMAIN all = DOMAIN hs \cup {Len(hs) + 1}
      /\ \A k \in DOMAIN hs : all[k] = hs[k]
      /\ all[Len(hs) + 1] = h
  BY AppendFacts
<1> HIDE DEF all
<1>2. Lengths(s, all, n)
  BY <1>1 DEF Lengths
<1>3. QED BY <1>2 DEF all

\* The first Content-Length sets it.
LEMMA LengthsSet ==
    ASSUME NEW s, NEW hs \in Seq(Header), NEW h \in Header,
           \A k \in DOMAIN hs : NameText(s, hs[k]) # ContentLength,
           NameText(s, h) = ContentLength
    PROVE  Lengths(s, Append(hs, h), LengthAfter(ValueText(s, h)))
<1> DEFINE all == Append(hs, h)
<1>1. /\ DOMAIN all = DOMAIN hs \cup {Len(hs) + 1}
      /\ \A k \in DOMAIN hs : all[k] = hs[k]
      /\ all[Len(hs) + 1] = h
  BY AppendFacts
<1> HIDE DEF all
<1>2. Lengths(s, all, LengthAfter(ValueText(s, h)))
  BY <1>1 DEF Lengths
<1>3. QED BY <1>2 DEF all

-----------------------------------------------------------------------------
(* The steps. *)

\* Nothing has been parsed at the beginning.
LEMMA InitIInv == Init => IInv
<1> SUFFICES ASSUME Init PROVE IInv
  OBVIOUS
<1>1. NoHeader \in Header
  BY DEF NoHeader, Header
<1>2. Fresh \in Request
  BY <1>1 DEF Fresh, Request
<1>3. Types
  BY <1>2, LimitsAssumption, StreamsAssumption DEF Types, Init, HeadStates, Statuses, Fresh
<1>4. Positions
  BY DEF Positions, Init, Fresh, HeadStates
<1>5. Learnt
  BY DEF Learnt, Init, Fresh, HeadStates
<1>6. QED BY <1>3, <1>4, <1>5 DEF IInv

\* The limits are numbers.
LEMMA LimitFacts ==
    /\ MethodPeek \in Nat /\ MaxHeaders \in Nat /\ SizeMax \in Nat
    /\ MaxHeaderBytes \in Nat /\ MaxRequestBytes \in Nat
    /\ MethodPeek < MaxHeaderBytes /\ MaxHeaderBytes < MaxRequestBytes
BY LimitsAssumption

\* What the types say, field by field.
Typed ==
    /\ stream \in Seq(STRING) /\ Len(stream) \in Nat
    /\ got \in Nat /\ i \in Nat /\ got <= Len(stream) /\ i >= 1 /\ i <= got + 1
    /\ req.headers \in Seq(Header) /\ Len(req.headers) \in Nat /\ req.h \in Header
    /\ req.h.name \in Nat /\ req.h.nameLen \in Nat
    /\ req.h.value \in Nat /\ req.h.valueLen \in Nat
    /\ req.method \in Nat /\ req.uri \in Nat /\ req.uriLen \in Nat /\ req.version \in Nat
    /\ req.contentLength \in Nat /\ req.body \in Nat /\ req.bodyRead \in Nat

\* The numbers of a state are natural numbers.
LEMMA TypeFacts == ASSUME Types PROVE Typed
<1>1. stream \in Seq(STRING)
  BY StreamsAssumption DEF Types
<1>2. req.headers \in Seq(Header) /\ req.h \in Header
  BY DEF Types, Request
<1>3. QED BY <1>1, <1>2 DEF Types, Request, Header, Typed

\* A refused request keeps what was known.
LEMMA FailStep ==
    ASSUME IInv, NEW s \in Statuses, Fail(s)
    PROVE  IInv'
<1>1. Types'
  BY DEF Fail, Return, Keep, IInv, Types
<1>2. Positions'
  BY DEF Fail, Return, Keep, Positions, HeadStates
<1>3. Learnt'
  BY DEF Fail, Return, Keep, Learnt, HeadStates
<1>4. QED BY <1>1, <1>2, <1>3 DEF IInv

\* recv delivers a piece of the stream.
LEMMA RecvStep ==
    ASSUME IInv, NEW n \in 1..Len(stream), Recv(n)
    PROVE  IInv'
<1> USE DEF Recv
<1>0. Types /\ Positions /\ Learnt
  BY DEF IInv
<1> Typed
  BY <1>0, TypeFacts
<1>1. Types'
  <2>1. n \in Nat /\ got + n \in 0..Len(stream) /\ got + 1 \in 1..(got + n + 1) /\ got <= got + n
    BY <1>0 DEF Typed
  <2>2. \A x \in Nat : x <= got => x <= got + n
    BY <1>0, <2>1 DEF Typed
  <2>3. got' \in 0..Len(stream') /\ i' \in 1..(got' + 1)
    BY <2>1
  <2>4. req'.method <= got' /\ req'.uri <= got' /\ req'.version <= got'
    BY <1>0, <2>2 DEF Types, Typed
  <2>5. QED BY <1>0, <2>3, <2>4 DEF Types
<1>2. i = got + 1 \/ state \in {"REQ_METHOD", "BODY"}
  BY <1>0 DEF Positions
<1>3. Positions'
  <2>1. state = "REQ_METHOD" => req.method \in {0, 1} /\ (req.method = 0 => got = 0)
    BY <1>0 DEF Positions
  <2>2. state = "REQ_URI" => i' = i
    BY <1>2
  <2>3. state \in HeadStates \ {"REQ_METHOD"} => i' = i
    BY <1>2 DEF HeadStates
  <2>0. n \in Nat /\ n >= 1 /\ got \in Nat
    BY DEF Typed
  <2>4. got + 1 <= got + n /\ \A x \in Nat : x <= got => x <= got + n
    BY <2>0
  <2>5. state \notin {"REQ_METHOD", "REQ_URI", "ERROR"} => req.uri >= 1 /\ req.uri + req.uriLen <= got + n
    BY <1>0, <2>4 DEF Positions, Typed
  <2>6. QED BY <1>0, <2>1, <2>2, <2>3, <2>4, <2>5 DEF Positions
<1>4. Learnt'
  <2>1. CASE state \in HeadStates \ {"REQ_METHOD"}
    BY <1>0, <1>2, <2>1 DEF Learnt, HeadStates
  <2>2. CASE state = "REQ_METHOD"
    BY <1>0, <2>2 DEF Learnt, HeadStates
  <2>3. CASE state = "BODY"
    <3>1. req.body <= got + 1
      BY <1>0, <2>3 DEF Learnt, Typed
    <3>2. /\ HeadRead(stream, req, req.body - 1)
          /\ req.bodyRead < req.contentLength
          /\ req.body + req.contentLength <= MaxRequestBytes
          /\ req.bodyRead = got + 1 - req.body
      BY <1>0, <2>3 DEF Learnt
    <3>3. got \in Nat /\ req.body \in Nat /\ req.bodyRead \in Nat
      BY DEF Typed
    <3>4. i' = got + 1 /\ req' = req /\ stream' = stream /\ pc' = "parse" /\ state' = "BODY"
      BY <2>3
    <3>5. req'.body <= i' /\ req'.bodyRead = i' - req'.body
      BY <3>1, <3>2, <3>3, <3>4
    <3>6. QED BY <3>2, <3>4, <3>5 DEF Learnt, HeadStates
  <2>4. state \notin {"DONE", "ERROR"}
    BY <1>0 DEF Positions
  <2>5. QED BY <1>0, <2>1, <2>2, <2>3, <2>4 DEF Types
<1>5. QED BY <1>1, <1>3, <1>4 DEF IInv

\* Steps that only change where the loop is.
LEMMA QuietStep ==
    ASSUME IInv, RecvNothing \/ RecvFails \/ ChunkEnds \/ UNCHANGED vars
    PROVE  IInv'
<1>0. Types /\ Positions /\ Learnt
  BY DEF IInv
<1> Typed
  BY <1>0, TypeFacts
<1>1. CASE RecvNothing \/ RecvFails
  <2> USE DEF RecvNothing, RecvFails, Return
  <2>1. Types'
    BY <1>0, <1>1 DEF Types, Statuses
  <2>2. Positions'
    BY <1>0, <1>1 DEF Positions
  <2>3. Learnt'
    BY <1>0, <1>1 DEF Learnt, Positions
  <2>4. QED BY <2>1, <2>2, <2>3 DEF IInv
<1>2. CASE ChunkEnds
  <2> USE DEF ChunkEnds
  <2>1. Types'
    BY <1>0, <1>2 DEF Types
  <2>2. i = got + 1
    BY <1>0, <1>2 DEF Typed
  <2>3. Positions'
    BY <1>0, <1>2, <2>2 DEF Positions, Typed
  <2>4. Learnt'
    <3>0. state = "BODY" => req.bodyRead = i - req.body
      BY <1>0, <1>2 DEF Learnt
    <3>1. state = "BODY" => req.bodyRead = got + 1 - req.body
      <4>1. got \in Nat /\ req.body \in Nat
        BY DEF Typed
      <4>2. QED BY <2>2, <3>0, <4>1
    <3>2. state # "DONE"
      BY <1>0, <1>2 DEF Positions
    <3>3. QED BY <1>0, <1>2, <3>1, <3>2 DEF Learnt
  <2>5. QED BY <2>1, <2>3, <2>4 DEF IInv
<1>3. CASE UNCHANGED vars
  BY <1>3 DEF vars, IInv, Types, Positions, Learnt
<1>4. QED BY <1>1, <1>2, <1>3

\* A request r that may take the place of req.
Fits(r) ==
    /\ r \in Request
    /\ r.method <= got /\ r.uri <= got /\ r.version <= got
    /\ Len(r.headers) <= MaxHeaders /\ r.contentLength <= SizeMax
    /\ r.bodyRead <= r.contentLength

\* The URI of r has been read.
HasUri(r) == r.uri >= 1 /\ r.uri + r.uriLen <= got

\* The loop goes on to the next byte.
LEMMA GoStep ==
    ASSUME IInv, pc = "parse", i <= got, NEW r, Fits(r),
           NEW s \in (HeadStates \ {"REQ_METHOD"}) \cup {"BODY"},
           s \in HeadStates => i < MaxHeaderBytes,
           IF s = "REQ_URI" THEN r.uri <= i ELSE HasUri(r),
           Go(s, r)
    PROVE  Types' /\ Positions'
<1> USE DEF Go, Keep
<1>0. Types /\ Positions /\ Typed
  BY TypeFacts DEF IInv
<1>1. got \in Nat /\ i \in Nat /\ i >= 1
  BY <1>0 DEF Typed
<1>2. i' \in 1..(got' + 1) /\ got' \in 0..Len(stream')
  BY <1>0, <1>1 DEF Types
<1>3. s \in HeadStates \cup {"BODY", "DONE", "ERROR"} /\ s \notin {"DONE", "ERROR", "REQ_METHOD"}
  BY DEF HeadStates
<1>4. Types'
  BY <1>0, <1>2, <1>3 DEF Types, Fits
<1>5. s \in HeadStates => i' <= MaxHeaderBytes
  BY <1>1, LimitFacts
<1>6. s = "REQ_URI" => r.uri < i'
  <2>1. r.uri \in Nat
    BY DEF Fits, Request
  <2>2. QED BY <1>1, <2>1
<1>7. Positions'
  BY <1>3, <1>5, <1>6 DEF Positions, HasUri
<1>8. QED BY <1>4, <1>7

\* Every part of a stream has one of the three statuses.
LEMMA UriStatus ==
    \A s \in Streams : \A a \in 1..Len(s) : \A n \in 0..(Len(s) - a + 1) :
        NormalizeUri(Text(s, a, n)) \in {200, 400, 414}
BY NormalizeUriAssumption, Zenon DEF Text

\* parse_chunk has the whole request.
LEMMA CompleteStep ==
    ASSUME IInv, NEW r, Fits(r), HasUri(r), Complete(r),
           \E e \in 1..got : /\ HeadRead(stream, r, e)
                             /\ r.bodyRead = r.contentLength /\ e + r.contentLength <= got
                             /\ r.contentLength # 0 => r.body = e + 1
    PROVE  IInv'
<1> USE DEF Complete, Keep, Return
<1>0. Types /\ Positions /\ Typed
  BY TypeFacts DEF IInv
<1>1. got \in Nat /\ Len(stream) \in Nat /\ got <= Len(stream) /\ r.uri \in Nat /\ r.uriLen \in Nat
  BY <1>0 DEF Typed, Fits, Request
<1>2. r.uri \in 1..Len(stream) /\ r.uriLen \in 0..(Len(stream) - r.uri + 1) /\ r.uri + r.uriLen <= got + 1
  BY <1>1 DEF HasUri
<1>3. Slice(r.uri, r.uriLen) = Text(stream, r.uri, r.uriLen)
  BY <1>1, <1>2, SliceIsText
<1>4. stream \in Streams
  BY <1>0 DEF Types
<1>5. NormalizeUri(Text(stream, r.uri, r.uriLen)) \in {200, 400, 414}
  BY <1>2, <1>4, UriStatus
<1>6. status' \in Statuses
  BY <1>3, <1>5 DEF Statuses
<1>7. Types'
  BY <1>0, <1>6 DEF Types, Fits
<1>8. Positions'
  BY DEF Positions, HasUri, HeadStates
<1>9. Learnt'
  BY DEF Learnt, HeadStates
<1>10. QED BY <1>7, <1>8, <1>9 DEF IInv

\* A method found at the beginning of the window is followed by no line end.
LEMMA MethodText ==
    ASSUME Typed, MethodPeek <= got, NEW m \in ParseMethod(Slice(1, MethodPeek))
    PROVE  /\ Len(m) \in Nat /\ Len(m) < MethodPeek
           /\ Unbroken(stream, 1, Len(m) + 1)
<1> DEFINE w == Slice(1, MethodPeek)
           n == Len(m)
<1>1. /\ m \in Methods /\ SubSeq(w, 1, Len(m) + 1) = Append(m, "SP")
  BY DEF ParseMethod
<1>2. m \in Seq(STRING) /\ n \in Nat /\ n < MethodPeek /\ \A k \in 1..n : m[k] # "LF"
  <2>1. m \in Seq(STRING) /\ Len(m) < MethodPeek /\ \A k \in DOMAIN m : m[k] \notin {"SP", "LF"}
    BY <1>1, MethodsAssumption
  <2>2. QED BY <2>1
<1>3. got \in Nat /\ MethodPeek \in Nat
  BY LimitFacts DEF Typed
<1>4. \A p \in 1..(n + 1) : p \in 1..MethodPeek /\ p <= got /\ 1 + p - 1 = p /\ p \in Nat
  BY <1>2, <1>3
<1>5. \A p \in 1..(n + 1) : w[p] = stream[p]
  BY <1>4 DEF Slice, Byte
<1>6. \A p \in 1..(n + 1) : SubSeq(w, 1, n + 1)[p] = w[p]
  <2>1. \A q : \A a \in Nat : \A p \in 1..a : SubSeq(q, 1, a)[p] = q[p]
    OBVIOUS
  <2> HIDE DEF w, n
  <2>2. QED BY <1>2, <2>1
<1>7. \A p \in 1..(n + 1) : Append(m, "SP")[p] # "LF"
  <2>1. \A p \in 1..(n + 1) : Append(m, "SP")[p] = IF p = n + 1 THEN "SP" ELSE m[p]
    BY <1>2
  <2>2. \A p \in 1..(n + 1) : p = n + 1 \/ p \in 1..n
    BY <1>2
  <2>3. QED BY <1>2, <2>1, <2>2
<1> HIDE DEF w, n
<1>8. \A p \in 1..(n + 1) : stream[p] # "LF"
  BY <1>1, <1>5, <1>6, <1>7 DEF n
<1>9. QED BY <1>2, <1>8 DEF Unbroken, LF, n

\* REQ_METHOD.
LEMMA ReqMethodStep ==
    ASSUME IInv, ReqMethod
    PROVE  IInv'
<1>0. Types /\ Positions /\ Learnt /\ Typed
  BY TypeFacts DEF IInv
<1>1. pc = "parse" /\ i <= got /\ state = "REQ_METHOD" /\ i < MaxHeaderBytes
  BY DEF ReqMethod, At, HeadStates
<1>2. got \in Nat /\ i \in Nat /\ i >= 1 /\ Len(stream) \in Nat /\ got <= Len(stream)
  BY <1>0 DEF Typed
<1>3. (IF req.method = 0 THEN i ELSE req.method) = 1
  BY <1>0, <1>1 DEF Positions
<1> DEFINE r == [req EXCEPT !.method = 1]
<1>4. /\ Fits(r) /\ r.uri = 0
      /\ r.headers = <<>> /\ r.contentLength = 0 /\ r.h = NoHeader /\ r.bodyRead = 0 /\ r.method = 1
  <2>1. req.headers = <<>> /\ req.contentLength = 0 /\ req.h = NoHeader /\ req.bodyRead = 0
    BY <1>0, <1>1 DEF Learnt, HeadStates
  <2>2. req \in Request /\ req.uri = 0 /\ req.version <= got /\ 1 <= got
    BY <1>0, <1>1, <1>2 DEF Types, Positions
  <2>3. r \in Request
    BY <2>2 DEF Request
  <2>4. QED BY <1>2, <2>1, <2>2, <2>3, <1>0 DEF Fits, Types, Request
<1>5. \/ /\ NotAllArrived(1) /\ pc' = "recv" /\ Keep(r) /\ UNCHANGED <<i, state, status>>
      \/ Fail(501)
      \/ /\ ~NotAllArrived(1)
         /\ \E m \in ParseMethod(Slice(1, MethodPeek)) : i' = 1 + Len(m) + 1
         /\ state' = "REQ_URI" /\ Keep(r) /\ UNCHANGED <<pc, status>>
  BY <1>3, Zenon DEF ReqMethod
<1> HIDE DEF r
<1>6. CASE NotAllArrived(1) /\ pc' = "recv" /\ Keep(r) /\ UNCHANGED <<i, state, status>>
  <2> USE <1>6 DEF Keep
  <2>1. Types'
    BY <1>0, <1>4 DEF Types, Fits
  <2>2. got < MethodPeek
    BY <1>2, LimitFacts DEF NotAllArrived
  <2>3. Positions'
    BY <1>1, <1>4, <2>2 DEF Positions, HeadStates
  <2>4. Learnt'
    BY <1>1, <1>4 DEF Learnt, HeadStates
  <2>5. QED BY <2>1, <2>3, <2>4 DEF IInv
<1>7. CASE Fail(501)
  BY <1>7, FailStep DEF Statuses
<1>8. CASE /\ ~NotAllArrived(1)
           /\ \E m \in ParseMethod(Slice(1, MethodPeek)) : i' = 1 + Len(m) + 1
           /\ state' = "REQ_URI" /\ Keep(r) /\ UNCHANGED <<pc, status>>
  <2> USE DEF Keep
  <2>1. MethodPeek <= got
    BY <1>2, <1>8, LimitFacts DEF NotAllArrived
  <2>2. PICK m \in ParseMethod(Slice(1, MethodPeek)) : i' = 1 + Len(m) + 1
    BY <1>8
  <2>3. Len(m) \in Nat /\ Len(m) < MethodPeek /\ Unbroken(stream, 1, Len(m) + 1)
    BY <1>0, <2>1, MethodText
  <2>4. i' - 1 = Len(m) + 1 /\ i' \in 1..(got + 1) /\ i' <= MaxHeaderBytes /\ 0 < i'
    BY <1>2, <2>1, <2>2, <2>3, LimitFacts
  <2>5. Types'
    BY <1>0, <1>4, <1>8, <2>4 DEF Types, Fits, HeadStates
  <2>6. Positions'
    BY <1>1, <1>4, <1>8, <2>4 DEF Positions, HeadStates
  <2>7. Unbroken(stream', 1, i' - 1)
    BY <1>8, <2>3, <2>4
  <2>8. Learnt'
    BY <1>4, <1>8, <2>7 DEF Learnt, HeadStates
  <2>9. QED BY <2>5, <2>6, <2>8 DEF IInv
<1>9. QED BY <1>5, <1>6, <1>7, <1>8

\* A byte that ends no line makes the line longer.
LEMMA LongerLine ==
    ASSUME NEW s, NEW a \in Nat, NEW j \in Nat, Unbroken(s, a, j - 1), s[j] # "LF"
    PROVE  Unbroken(s, a, (j + 1) - 1)
<1>1. \A p \in a..((j + 1) - 1) : p = j \/ p \in a..(j - 1)
  OBVIOUS
<1>2. QED BY <1>1 DEF Unbroken, LF

\* r differs from req only in what the request line says.
SameHead(r) == /\ r.headers = req.headers /\ r.h = req.h
               /\ r.contentLength = req.contentLength /\ r.bodyRead = req.bodyRead

\* A byte of the request line that does not end it.
LEMMA RequestLineByte ==
    ASSUME IInv, pc = "parse", i <= got, i < MaxHeaderBytes,
           state \in {"REQ_URI", "REQ_VERSION", "REQ_LF"}, stream[i] # "LF",
           NEW r, Fits(r), SameHead(r),
           NEW s \in {"REQ_URI", "REQ_VERSION", "REQ_LF"},
           IF s = "REQ_URI" THEN r.uri <= i ELSE HasUri(r),
           Go(s, r)
    PROVE  IInv'
<1>0. Types /\ Positions /\ Learnt /\ Typed
  BY TypeFacts DEF IInv
<1>1. s \in HeadStates \ {"REQ_METHOD"}
  BY DEF HeadStates
<1>2. Types' /\ Positions'
  BY <1>1, GoStep
<1>3. Unbroken(stream, 1, (i + 1) - 1)
  <2>1. Unbroken(stream, 1, i - 1)
    BY <1>0 DEF Learnt
  <2>2. i \in Nat /\ 1 \in Nat
    BY <1>0 DEF Typed
  <2>3. QED BY <2>1, <2>2, LongerLine
<1>4. r.headers = <<>> /\ r.contentLength = 0 /\ r.h = NoHeader /\ r.bodyRead = 0
  BY <1>0 DEF Learnt, SameHead, HeadStates
<1>5. Learnt'
  BY <1>3, <1>4 DEF Learnt, HeadStates, Go, Keep
<1>6. QED BY <1>2, <1>5 DEF IInv

\* The byte that ends the request line.
LEMMA RequestLineEnd ==
    ASSUME IInv, pc = "parse", i <= got, i < MaxHeaderBytes,
           state \in {"REQ_VERSION", "REQ_LF"}, stream[i] = "LF",
           NEW r, Fits(r), SameHead(r), HasUri(r),
           Go("HEADER_KEY", r)
    PROVE  IInv'
<1>0. Types /\ Positions /\ Learnt /\ Typed
  BY TypeFacts DEF IInv
<1>1. Types' /\ Positions'
  <2>1. "HEADER_KEY" \in HeadStates \ {"REQ_METHOD"} /\ "HEADER_KEY" # "REQ_URI"
    BY DEF HeadStates
  <2>2. QED BY <2>1, GoStep
<1>2. r.headers = <<>> /\ r.contentLength = 0 /\ r.h = NoHeader /\ r.bodyRead = 0
  BY <1>0 DEF Learnt, SameHead, HeadStates
<1>3. Started(stream, <<>>, i + 1)
  <2>1. Unbroken(stream, 1, i - 1)
    BY <1>0 DEF Learnt
  <2>2. stream \in Seq(STRING) /\ i \in 1..Len(stream)
    BY <1>0 DEF Typed
  <2>3. QED BY <2>1, <2>2, FirstLine
<1>4. Lengths(stream, <<>>, 0)
  BY DEF Lengths
<1>5. Learnt'
  BY <1>2, <1>3, <1>4 DEF Learnt, HeadStates, Go, Keep
<1>6. QED BY <1>1, <1>5 DEF IInv

\* REQ_URI.
LEMMA ReqUriStep ==
    ASSUME IInv, ReqUri
    PROVE  IInv'
<1>0. Types /\ Positions /\ Learnt /\ Typed
  BY TypeFacts DEF IInv
<1>1. pc = "parse" /\ i <= got /\ state = "REQ_URI" /\ i < MaxHeaderBytes
  BY DEF ReqUri, At, HeadStates
<1> DEFINE r == [req EXCEPT !.uri = IF @ = 0 THEN i ELSE @]
           q == [r EXCEPT !.uriLen = i - r.uri]
<1>2. /\ got \in Nat /\ i \in Nat /\ i >= 1 /\ req.uri \in Nat /\ req.uri < i
      /\ req \in Request
  BY <1>0, <1>1 DEF Typed, Positions, Types
<1>3. r.uri \in Nat /\ r.uri >= 1 /\ r.uri <= i /\ i - r.uri \in Nat
  BY <1>2 DEF Request
<1>4. r \in Request /\ SameHead(r) /\ r.method = req.method /\ r.version = req.version
  BY <1>2 DEF Request, SameHead
<1>5. Fits(r)
  BY <1>0, <1>1, <1>2, <1>3, <1>4 DEF Fits, Types, SameHead
<1>6. \/ Fail(400)
      \/ stream[i] = "SP" /\ Go("REQ_VERSION", q)
      \/ stream[i] \notin {"SP", "CR", "LF"} /\ Go("REQ_URI", r)
  BY Zenon DEF ReqUri
<1>7. CASE Fail(400)
  BY <1>7, FailStep DEF Statuses
<1>8. CASE stream[i] = "SP" /\ Go("REQ_VERSION", q)
  <2> HIDE DEF r
  <2>1. q \in Request /\ SameHead(q) /\ q.uri = r.uri /\ q.uriLen = i - r.uri
        /\ q.method = r.method /\ q.version = r.version
    BY <1>3, <1>4 DEF Request, SameHead
  <2> HIDE DEF q
  <2>2. HasUri(q)
    BY <1>1, <1>2, <1>3, <2>1 DEF HasUri
  <2>3. Fits(q)
    BY <1>5, <2>1, <1>4 DEF Fits, SameHead
  <2>4. QED BY <1>1, <1>8, <2>1, <2>2, <2>3, RequestLineByte
<1>9. CASE stream[i] \notin {"SP", "CR", "LF"} /\ Go("REQ_URI", r)
  <2> HIDE DEF r
  <2> QED BY <1>1, <1>3, <1>4, <1>5, <1>9, RequestLineByte
<1>10. QED BY <1>6, <1>7, <1>8, <1>9

\* REQ_VERSION.
LEMMA ReqVersionStep ==
    ASSUME IInv, ReqVersion
    PROVE  IInv'
<1>0. Types /\ Positions /\ Learnt /\ Typed
  BY TypeFacts DEF IInv
<1>1. pc = "parse" /\ i <= got /\ state = "REQ_VERSION" /\ i < MaxHeaderBytes
  BY DEF ReqVersion, At, HeadStates
<1> DEFINE r == [req EXCEPT !.version = IF @ = 0 THEN i ELSE @]
<1>2. /\ i \in Nat /\ i >= 1 /\ req.version \in Nat /\ req.version <= got
      /\ req \in Request /\ HasUri(req)
  BY <1>0, <1>1 DEF Typed, Positions, Types, HasUri
<1>3. r.version \in Nat /\ r.version <= got
  BY <1>1, <1>2 DEF Request
<1>4. r \in Request /\ SameHead(r) /\ r.method = req.method /\ r.uri = req.uri /\ r.uriLen = req.uriLen
  BY <1>2 DEF Request, SameHead
<1>5. Fits(r) /\ HasUri(r)
  BY <1>0, <1>2, <1>3, <1>4 DEF Fits, Types, SameHead, HasUri
<1>6. \/ Fail(505)
      \/ stream[i] = "CR" /\ Go("REQ_LF", r)
      \/ stream[i] = "LF" /\ Go("HEADER_KEY", r)
      \/ stream[i] \notin {"CR", "LF"} /\ Go("REQ_VERSION", r)
  BY Zenon DEF ReqVersion
<1> HIDE DEF r
<1>7. CASE Fail(505)
  BY <1>7, FailStep DEF Statuses
<1>8. CASE stream[i] = "CR" /\ Go("REQ_LF", r)
  BY <1>1, <1>4, <1>5, <1>8, RequestLineByte
<1>9. CASE stream[i] = "LF" /\ Go("HEADER_KEY", r)
  BY <1>1, <1>4, <1>5, <1>9, RequestLineEnd
<1>10. CASE stream[i] \notin {"CR", "LF"} /\ Go("REQ_VERSION", r)
  BY <1>1, <1>4, <1>5, <1>10, RequestLineByte
<1>11. QED BY <1>6, <1>7, <1>8, <1>9, <1>10

\* REQ_LF.
LEMMA ReqLfStep ==
    ASSUME IInv, ReqLf
    PROVE  IInv'
<1>0. Types /\ Positions
  BY DEF IInv
<1>1. pc = "parse" /\ i <= got /\ state = "REQ_LF" /\ i < MaxHeaderBytes
  BY DEF ReqLf, At, HeadStates
<1>2. Fits(req) /\ SameHead(req) /\ HasUri(req)
  BY <1>0, <1>1 DEF Fits, SameHead, HasUri, Types, Positions
<1>3. CASE stream[i] = "LF" /\ Go("HEADER_KEY", req)
  BY <1>1, <1>2, <1>3, RequestLineEnd
<1>4. CASE Fail(400)
  BY <1>4, FailStep DEF Statuses
<1>5. QED BY <1>3, <1>4 DEF ReqLf

\* The blank line has been read.
LEMMA EnterBodyStep ==
    ASSUME IInv, pc = "parse", i <= got, i < MaxHeaderBytes,
           state \in {"HEADER_KEY", "HEADER_END"},
           HeadRead(stream, req, i), EnterBody
    PROVE  IInv'
<1>0. Types /\ Positions /\ Learnt /\ Typed
  BY TypeFacts DEF IInv
<1>1. Fits(req) /\ HasUri(req) /\ req.bodyRead = 0
  BY <1>0 DEF Fits, Types, HasUri, Positions, Learnt, HeadStates
<1>2. got \in Nat /\ i \in Nat /\ i >= 1 /\ req.contentLength \in Nat
  BY <1>0 DEF Typed
<1> DEFINE r == [req EXCEPT !.body = i + 1]
<1>3. \/ Fail(413)
      \/ req.contentLength = 0 /\ Complete(req)
      \/ req.contentLength < MaxRequestBytes - i /\ req.contentLength # 0 /\ Go("BODY", r)
  BY Zenon DEF EnterBody
<1>4. CASE Fail(413)
  BY <1>4, FailStep DEF Statuses
<1>5. CASE req.contentLength = 0 /\ Complete(req)
  <2>1. i \in 1..got /\ i + req.contentLength <= got
    BY <1>2, <1>5
  <2>2. QED BY <1>1, <1>5, <2>1, CompleteStep
<1>6. CASE req.contentLength < MaxRequestBytes - i /\ req.contentLength # 0 /\ Go("BODY", r)
  <2>1. /\ r \in Request /\ r.body = i + 1 /\ r.headers = req.headers /\ r.h = req.h
        /\ r.contentLength = req.contentLength /\ r.bodyRead = 0
        /\ r.method = req.method /\ r.uri = req.uri /\ r.uriLen = req.uriLen /\ r.version = req.version
    BY <1>1, <1>2 DEF Fits, Request
  <2> HIDE DEF r
  <2>2. Fits(r) /\ HasUri(r)
    BY <1>1, <2>1 DEF Fits, HasUri
  <2>3. Types' /\ Positions'
    <3>1. "BODY" \notin HeadStates
      BY DEF HeadStates
    <3>2. QED BY <1>6, <2>2, <3>1, GoStep
  <2>4. HeadRead(stream, r, r.body - 1)
    <3>1. r.body - 1 = i
      BY <1>2, <2>1
    <3>2. HeadRead(stream, r, i)
      BY <2>1 DEF HeadRead
    <3>3. QED BY <3>1, <3>2
  <2>5. /\ r.body <= i + 1 /\ r.bodyRead < r.contentLength
        /\ r.body + r.contentLength <= MaxRequestBytes /\ r.bodyRead = (i + 1) - r.body
    BY <1>2, <1>6, <2>1, LimitFacts
  <2>6. Learnt'
    BY <1>6, <2>4, <2>5 DEF Learnt, HeadStates, Go, Keep
  <2>7. QED BY <2>3, <2>6 DEF IInv
<1>7. QED BY <1>3, <1>4, <1>5, <1>6

\* HEADER_KEY.
LEMMA HeaderKeyStep ==
    ASSUME IInv, HeaderKey
    PROVE  IInv'
<1>0. Types /\ Positions /\ Learnt /\ Typed
  BY TypeFacts DEF IInv
<1>1. pc = "parse" /\ i <= got /\ state = "HEADER_KEY" /\ i < MaxHeaderBytes
  BY DEF HeaderKey, At, HeadStates
<1>2. /\ got \in Nat /\ i \in Nat /\ i >= 1 /\ i \in 1..Len(stream) /\ req \in Request
      /\ (i + 1) - 1 = i /\ i < i + 1
  <2>1. got \in Nat /\ i \in Nat /\ i >= 1 /\ Len(stream) \in Nat /\ got <= Len(stream)
    BY <1>0 DEF Typed
  <2>2. req \in Request
    BY <1>0 DEF Types
  <2>3. QED BY <1>1, <2>1, <2>2
<1>3. /\ Fits(req) /\ HasUri(req) /\ req.bodyRead = 0 /\ req.h = NoHeader
      /\ Started(stream, req.headers, i) /\ Lengths(stream, req.headers, req.contentLength)
  BY <1>0, <1>1 DEF Fits, Types, HasUri, Positions, Learnt, HeadStates
<1> DEFINE r == [req EXCEPT !.h.name = i]
<1>4. \/ Fail(400) \/ Fail(431)
      \/ stream[i] = "CR" /\ Go("HEADER_END", req)
      \/ stream[i] = "LF" /\ EnterBody
      \/ stream[i] \notin {"CR", "LF", "COLON"} /\ Len(req.headers) < MaxHeaders /\ Go("HEADER_NAME", r)
  BY Zenon DEF HeaderKey
<1>5. CASE Fail(400) \/ Fail(431)
  BY <1>5, FailStep DEF Statuses
<1>6. CASE stream[i] = "CR" /\ Go("HEADER_END", req)
  <2>1. Types' /\ Positions'
    <3>1. "HEADER_END" \in HeadStates \ {"REQ_METHOD"} /\ "HEADER_END" # "REQ_URI"
      BY DEF HeadStates
    <3>2. QED BY <1>1, <1>3, <1>6, <3>1, GoStep
  <2>2. Started(stream, req.headers, (i + 1) - 1) /\ stream[(i + 1) - 1] = "CR"
    BY <1>2, <1>3, <1>6
  <2>3. Learnt'
    BY <1>3, <1>6, <2>2 DEF Learnt, HeadStates, Go, Keep
  <2>4. QED BY <2>1, <2>3 DEF IInv
<1>7. CASE stream[i] = "LF" /\ EnterBody
  <2>1. i >= 2 /\ LF(stream, i - 1)
    BY <1>3 DEF Started
  <2>2. Blank(stream, i) /\ i \in 2..Len(stream)
    BY <1>2, <1>7, <2>1 DEF Blank, LF
  <2>3. Unbroken(stream, i, i - 1)
    BY <1>2 DEF Unbroken
  <2>4. HeadRead(stream, req, i)
    BY <1>3, <2>2, <2>3 DEF HeadRead
  <2>5. QED BY <1>1, <1>7, <2>4, EnterBodyStep
<1>8. CASE /\ stream[i] \notin {"CR", "LF", "COLON"} /\ Len(req.headers) < MaxHeaders
           /\ Go("HEADER_NAME", r)
  <2>1. /\ r \in Request /\ r.h.name = i /\ r.h.nameLen = 0 /\ r.h.value = 0 /\ r.h.valueLen = 0
        /\ r.headers = req.headers /\ r.contentLength = req.contentLength /\ r.bodyRead = 0
        /\ r.method = req.method /\ r.uri = req.uri /\ r.uriLen = req.uriLen /\ r.version = req.version
    <3>1. req \in [method : Nat, uri : Nat, uriLen : Nat, version : Nat,
                   headers : Seq(Header), h : Header,
                   contentLength : Nat, body : Nat, bodyRead : Nat]
      BY <1>2 DEF Request
    <3>2. r.h = [req.h EXCEPT !.name = i]
      BY <3>1
    <3>3. [req.h EXCEPT !.name = i] = [name |-> i, nameLen |-> 0, value |-> 0, valueLen |-> 0]
      BY <1>3 DEF NoHeader
    <3>4. r.h \in Header
      BY <1>2, <3>2, <3>3 DEF Header
    <3>5. r \in Request
      BY <3>1, <3>4 DEF Request
    <3>6. QED BY <1>3, <3>1, <3>2, <3>3, <3>5
  <2> HIDE DEF r
  <2>2. Fits(r) /\ HasUri(r)
    BY <1>3, <2>1 DEF Fits, HasUri
  <2>3. Types' /\ Positions'
    <3>1. "HEADER_NAME" \in HeadStates \ {"REQ_METHOD"} /\ "HEADER_NAME" # "REQ_URI"
      BY DEF HeadStates
    <3>2. QED BY <1>1, <1>8, <2>2, <3>1, GoStep
  <2>4. \A p \in i..((i + 1) - 1) : p = i
    BY <1>2
  <2>5. Unbroken(stream, r.h.name, (i + 1) - 1)
    BY <1>8, <2>1, <2>4 DEF Unbroken, LF
  <2>6. \A p \in r.h.name..((i + 1) - 1) : stream[p] # "COLON"
    BY <1>8, <2>1, <2>4
  <2>7. Started(stream, r.headers, r.h.name) /\ Lengths(stream, r.headers, r.contentLength) /\ r.h.name < i + 1
    BY <1>2, <1>3, <2>1
  <2>8. Learnt'
    BY <1>8, <2>1, <2>5, <2>6, <2>7 DEF Learnt, HeadStates, Go, Keep
  <2>9. QED BY <2>3, <2>8 DEF IInv
<1>9. QED BY <1>4, <1>5, <1>6, <1>7, <1>8

\* HEADER_NAME.
LEMMA HeaderNameStep ==
    ASSUME IInv, HeaderName
    PROVE  IInv'
<1>0. Types /\ Positions /\ Learnt /\ Typed
  BY TypeFacts DEF IInv
<1>1. pc = "parse" /\ i <= got /\ state = "HEADER_NAME" /\ i < MaxHeaderBytes
  BY DEF HeaderName, At, HeadStates
<1>2. /\ i \in Nat /\ i >= 1 /\ req \in Request /\ req.h.name \in Nat /\ req.h \in Header
      /\ (i + 1) - 1 = i /\ i < i + 1
  BY <1>0, <1>1 DEF Typed, Types
<1>3. /\ Fits(req) /\ HasUri(req) /\ req.bodyRead = 0
      /\ Started(stream, req.headers, req.h.name) /\ Len(req.headers) < MaxHeaders
      /\ Unbroken(stream, req.h.name, i - 1)
      /\ req.h.name < i /\ req.h.nameLen = 0 /\ req.h.value = 0 /\ req.h.valueLen = 0
      /\ \A p \in req.h.name..(i - 1) : stream[p] # "COLON"
      /\ Lengths(stream, req.headers, req.contentLength)
  BY <1>0, <1>1 DEF Fits, Types, HasUri, Positions, Learnt, HeadStates
<1> DEFINE r == [req EXCEPT !.h.nameLen = i - req.h.name]
<1>4. \/ Fail(400)
      \/ stream[i] = "COLON" /\ Go("HEADER_VALUE", r)
      \/ stream[i] \notin Whitespace \cup {"COLON"} /\ Go("HEADER_NAME", req)
  BY Zenon DEF HeaderName
<1>5. CASE Fail(400)
  BY <1>5, FailStep DEF Statuses
<1>6. CASE stream[i] = "COLON" /\ Go("HEADER_VALUE", r)
  <2>1. /\ r \in Request /\ r.h.name = req.h.name /\ r.h.nameLen = i - req.h.name
        /\ r.h.value = 0 /\ r.h.valueLen = 0
        /\ r.headers = req.headers /\ r.contentLength = req.contentLength /\ r.bodyRead = 0
        /\ r.method = req.method /\ r.uri = req.uri /\ r.uriLen = req.uriLen /\ r.version = req.version
    <3>1. req \in [method : Nat, uri : Nat, uriLen : Nat, version : Nat,
                   headers : Seq(Header), h : Header,
                   contentLength : Nat, body : Nat, bodyRead : Nat]
      BY <1>2 DEF Request
    <3>2. r.h = [req.h EXCEPT !.nameLen = i - req.h.name]
      BY <3>1
    <3>3. /\ [req.h EXCEPT !.nameLen = i - req.h.name] \in Header
          /\ [req.h EXCEPT !.nameLen = i - req.h.name].nameLen = i - req.h.name
      BY <1>2, <1>3 DEF Header
    <3>4. r \in Request
      BY <3>1, <3>2, <3>3 DEF Request
    <3>5. /\ r.headers = req.headers /\ r.contentLength = req.contentLength /\ r.bodyRead = req.bodyRead
          /\ r.method = req.method /\ r.uri = req.uri /\ r.uriLen = req.uriLen /\ r.version = req.version
      BY <3>1
    <3>6. r.h.name = req.h.name /\ r.h.value = req.h.value /\ r.h.valueLen = req.h.valueLen
      BY <1>2, <3>2 DEF Header
    <3>7. QED BY <1>3, <3>2, <3>3, <3>4, <3>5, <3>6
  <2> HIDE DEF r
  <2>2. Fits(r) /\ HasUri(r)
    BY <1>3, <2>1 DEF Fits, HasUri
  <2>3. Types' /\ Positions'
    <3>1. "HEADER_VALUE" \in HeadStates \ {"REQ_METHOD"} /\ "HEADER_VALUE" # "REQ_URI"
      BY DEF HeadStates
    <3>2. QED BY <1>1, <1>6, <2>2, <3>1, GoStep
  <2>4. Unbroken(stream, r.h.name, (i + 1) - 1)
    BY <1>2, <1>3, <1>6, <2>1, LongerLine
  <2>5. Colon(r.h) = i /\ r.h.nameLen >= 1
    BY <1>2, <1>3, <2>1 DEF Colon
  <2>6. NameOK(stream, r.h)
    <3>1. r.h.name >= 2 /\ LF(stream, r.h.name - 1)
      BY <1>3, <2>1 DEF Started
    <3>2. QED BY <1>3, <1>6, <2>1, <2>5, <3>1 DEF NameOK
  <2>7. ValueOK(stream, r.h, (i + 1) - 1)
    <3>1. \A p \in (Colon(r.h) + 1)..((i + 1) - 1) : FALSE
      BY <1>2, <2>5
    <3>2. QED BY <2>1, <3>1 DEF ValueOK
  <2>8. Started(stream, r.headers, r.h.name) /\ Lengths(stream, r.headers, r.contentLength) /\ Colon(r.h) < i + 1
    BY <1>2, <1>3, <2>1, <2>5
  <2>9. Learnt'
    BY <1>3, <1>6, <2>1, <2>4, <2>6, <2>7, <2>8 DEF Learnt, HeadStates, Go, Keep
  <2>10. QED BY <2>3, <2>9 DEF IInv
<1>7. CASE stream[i] \notin Whitespace \cup {"COLON"} /\ Go("HEADER_NAME", req)
  <2>1. Types' /\ Positions'
    <3>1. "HEADER_NAME" \in HeadStates \ {"REQ_METHOD"} /\ "HEADER_NAME" # "REQ_URI"
      BY DEF HeadStates
    <3>2. QED BY <1>1, <1>3, <1>7, <3>1, GoStep
  <2>2. Unbroken(stream, req.h.name, (i + 1) - 1)
    BY <1>2, <1>3, <1>7, LongerLine DEF Whitespace
  <2>3. \A p \in req.h.name..((i + 1) - 1) : stream[p] # "COLON"
    <3>1. \A p \in req.h.name..((i + 1) - 1) : p = i \/ p \in req.h.name..(i - 1)
      BY <1>2
    <3>2. QED BY <1>3, <1>7, <3>1
  <2>4. req.h.name < i + 1
    BY <1>2, <1>3
  <2>5. Learnt'
    BY <1>3, <1>7, <2>2, <2>3, <2>4 DEF Learnt, HeadStates, Go, Keep
  <2>6. QED BY <2>1, <2>5 DEF IInv
<1>8. QED BY <1>4, <1>5, <1>6, <1>7

\* The name of a header read so far is a part of what has been received.
LEMMA NameOfLine ==
    ASSUME Typed, NEW h \in Header, NEW b \in Nat, b <= got + 1, Colon(h) < b
    PROVE  NameOf(h) = NameText(stream, h)
<1>1. h.name \in Nat /\ h.nameLen \in Nat /\ got \in Nat
  BY DEF Header, Typed
<1>2. h.name + h.nameLen <= got + 1
  BY <1>1 DEF Colon
<1>3. QED BY <1>1, <1>2, SliceIsText DEF NameOf, NameText

\* So is its value.
LEMMA ValueOfLine ==
    ASSUME Typed, NEW h \in Header, NEW e \in Nat, e <= got, ValueOK(stream, h, e)
    PROVE  Slice(h.value, h.valueLen) = ValueText(stream, h) /\ ValueText(stream, h) \in Seq(STRING)
<1>1. /\ h.name \in Nat /\ h.nameLen \in Nat /\ h.value \in Nat /\ h.valueLen \in Nat
      /\ got \in Nat /\ Len(stream) \in Nat /\ got <= Len(stream) /\ stream \in Seq(STRING)
  BY DEF Header, Typed
<1>2. (h.value = 0 /\ h.valueLen = 0) \/ (h.value > Colon(h) /\ h.value + h.valueLen <= e + 1)
  BY Zenon DEF ValueOK
<1>3. h.value + h.valueLen <= got + 1 /\ (h.valueLen = 0 \/ h.value >= 1)
  BY <1>1, <1>2 DEF Colon
<1>4. \A k \in 1..h.valueLen : h.value + k - 1 \in 1..Len(stream)
  BY <1>1, <1>3
<1>5. \A k \in 1..h.valueLen : stream[h.value + k - 1] \in STRING
  BY <1>1, <1>4
<1>6. ValueText(stream, h) \in Seq(STRING)
  <2>1. \A n \in Nat : \A f \in [1..n -> STRING] : f \in Seq(STRING)
    BY SeqDef
  <2>2. ValueText(stream, h) \in [1..h.valueLen -> STRING]
    BY <1>5 DEF ValueText, Text
  <2>3. QED BY <1>1, <2>1, <2>2
<1>7. QED BY <1>1, <1>3, <1>6, SliceIsText DEF ValueText

\* What parse_header takes in: the length the headers say, and nothing else.
LEMMA ParsedHeader ==
    ASSUME IInv, state = "HEADER_VALUE", i <= got, NEW r \in ParseHeader(req)
    PROVE  /\ Fits(r) /\ r.h = req.h /\ r.headers = req.headers /\ r.bodyRead = 0
           /\ r.uri = req.uri /\ r.uriLen = req.uriLen
           /\ Lengths(stream, Append(req.headers, req.h), r.contentLength)
<1>0. Types /\ Positions /\ Learnt /\ Typed
  BY TypeFacts DEF IInv
<1>1. got \in Nat /\ i \in Nat /\ i >= 1 /\ req.h.name \in Nat
  BY <1>0 DEF Typed
<1>2. req.h \in Header /\ req.headers \in Seq(Header) /\ req \in Request
  BY <1>0 DEF Typed, Types
<1>3. /\ Fits(req) /\ req.bodyRead = 0
      /\ Started(stream, req.headers, req.h.name)
      /\ NameOK(stream, req.h) /\ Colon(req.h) < i /\ ValueOK(stream, req.h, i - 1)
      /\ Lengths(stream, req.headers, req.contentLength)
  BY <1>0 DEF Fits, Types, Learnt, HeadStates
<1>4. NameOf(req.h) = NameText(stream, req.h)
  <2>1. i <= got + 1
    BY <1>1
  <2>2. QED BY <1>0, <1>1, <1>2, <1>3, <2>1, NameOfLine
<1>5. \A k \in DOMAIN req.headers : NameOf(req.headers[k]) = NameText(stream, req.headers[k])
  <2>1. TAKE k \in DOMAIN req.headers
  <2>2. PICK e \in 1..(req.h.name - 1) : Line(stream, req.headers[k], e)
    BY <1>3 DEF Started, Lines
  <2>3. req.headers[k] \in Header
    BY <1>2
  <2>4. Colon(req.headers[k]) < e
    BY <2>2 DEF Line
  <2>5. e \in Nat /\ e <= got + 1
    <3>1. req.h.nameLen \in Nat /\ req.h.name + req.h.nameLen < i
      BY <1>0, <1>3 DEF Colon, Typed
    <3>2. QED BY <1>1, <3>1
  <2>6. QED BY <1>0, <2>3, <2>4, <2>5, NameOfLine
<1>6. Slice(req.h.value, req.h.valueLen) = ValueText(stream, req.h) /\ ValueText(stream, req.h) \in Seq(STRING)
  <2>1. i - 1 \in Nat /\ i - 1 <= got
    BY <1>1
  <2>2. QED BY <1>0, <1>2, <1>3, <2>1, ValueOfLine
<1> DEFINE n == LengthAfter(ValueText(stream, req.h))
           q == [req EXCEPT !.contentLength = n]
<1>7. \/ /\ NameText(stream, req.h) = ContentLength /\ GetHeader(ContentLength) = {}
         /\ n # -1 /\ r = q
      \/ NameText(stream, req.h) # ContentLength /\ r = req
  BY <1>4, <1>6, Zenon DEF ParseHeader
<1>8. CASE /\ NameText(stream, req.h) = ContentLength /\ GetHeader(ContentLength) = {}
           /\ n # -1 /\ r = q
  <2>1. n \in 0..SizeMax
    BY <1>6, <1>8, LengthIsNumber
  <2> HIDE DEF n
  <2>2. n \in Nat /\ n <= SizeMax /\ 0 <= n
    BY <2>1, LimitFacts
  <2>3. /\ r \in Request /\ r.contentLength = n /\ r.headers = req.headers /\ r.h = req.h /\ r.bodyRead = 0
        /\ r.method = req.method /\ r.uri = req.uri /\ r.uriLen = req.uriLen /\ r.version = req.version
    BY <1>2, <1>3, <1>8, <2>2 DEF Request
  <2>4. Fits(r)
    BY <1>3, <2>2, <2>3 DEF Fits
  <2>5. \A k \in DOMAIN req.headers : NameText(stream, req.headers[k]) # ContentLength
    BY <1>5, <1>8 DEF GetHeader
  <2>6. Lengths(stream, Append(req.headers, req.h), n)
    BY <1>2, <1>8, <2>5, LengthsSet DEF n
  <2>7. QED BY <2>3, <2>4, <2>6
<1>9. CASE NameText(stream, req.h) # ContentLength /\ r = req
  BY <1>2, <1>3, <1>9, LengthsKept
<1>10. QED BY <1>7, <1>8, <1>9

\* White space after the value changes nothing.
LEMMA ValueKept ==
    ASSUME NEW s, NEW h \in Header, NEW j \in Nat, j >= 1,
           ValueOK(s, h, j - 1), s[j] \in Whitespace
    PROVE  ValueOK(s, h, (j + 1) - 1)
<1>1. h.name \in Nat /\ h.nameLen \in Nat /\ h.value \in Nat /\ h.valueLen \in Nat /\ Colon(h) \in Nat
  BY DEF Header, Colon
<1>2. \A p \in (Colon(h) + 1)..((j + 1) - 1) : p = j \/ p \in (Colon(h) + 1)..(j - 1)
  BY <1>1
<1>3. CASE h.value = 0 /\ h.valueLen = 0 /\ \A p \in (Colon(h) + 1)..(j - 1) : s[p] \in Whitespace
  BY <1>2, <1>3 DEF ValueOK
<1>4. CASE /\ h.value > Colon(h) /\ h.valueLen >= 1 /\ h.value + h.valueLen <= j - 1 + 1
           /\ s[h.value] \notin Whitespace /\ s[h.value + h.valueLen - 1] \notin Whitespace
           /\ \A p \in (Colon(h) + 1)..(j - 1) :
                  p < h.value \/ p >= h.value + h.valueLen => s[p] \in Whitespace
  <2>1. h.value + h.valueLen <= ((j + 1) - 1) + 1
    BY <1>1, <1>4
  <2>2. QED BY <1>2, <1>4, <2>1 DEF ValueOK
<1>5. QED BY <1>3, <1>4 DEF ValueOK

\* Any other byte is the value's last so far.
LEMMA ValueGrows ==
    ASSUME NEW s, NEW h \in Header, NEW g \in Header, NEW j \in Nat, j >= 1,
           Colon(h) < j, ValueOK(s, h, j - 1), s[j] \notin Whitespace,
           g.name = h.name, g.nameLen = h.nameLen,
           g.value = (IF h.value = 0 THEN j ELSE h.value), g.valueLen = j - g.value + 1
    PROVE  ValueOK(s, g, (j + 1) - 1)
<1>1. /\ h.name \in Nat /\ h.nameLen \in Nat /\ h.value \in Nat /\ h.valueLen \in Nat /\ Colon(h) \in Nat
      /\ g.value \in Nat /\ g.valueLen \in Nat
  BY DEF Header, Colon
<1>2. Colon(g) = Colon(h) /\ (j + 1) - 1 = j /\ j \in Int
  BY DEF Colon
<1>3. CASE h.value = 0 /\ h.valueLen = 0 /\ \A p \in (Colon(h) + 1)..(j - 1) : s[p] \in Whitespace
  <2>1. g.value = j /\ g.valueLen = 1
    BY <1>3
  <2>2. \A p \in (Colon(h) + 1)..j : p < j => p \in (Colon(h) + 1)..(j - 1)
    BY <1>1
  <2>3. \A p \in (Colon(h) + 1)..j : ~(p >= j + 1)
    BY <1>1
  <2>4. \A p \in (Colon(g) + 1)..j : p < g.value \/ p >= g.value + g.valueLen => s[p] \in Whitespace
    BY <1>2, <1>3, <2>1, <2>2, <2>3
  <2>5. g.value > Colon(g) /\ g.valueLen >= 1 /\ g.value + g.valueLen <= j + 1 /\ g.value + g.valueLen - 1 = j
    BY <1>1, <1>2, <2>1
  <2>6. QED BY <1>2, <2>1, <2>4, <2>5 DEF ValueOK
<1>4. CASE /\ h.value > Colon(h) /\ h.valueLen >= 1 /\ h.value + h.valueLen <= j - 1 + 1
           /\ s[h.value] \notin Whitespace /\ s[h.value + h.valueLen - 1] \notin Whitespace
           /\ \A p \in (Colon(h) + 1)..(j - 1) :
                  p < h.value \/ p >= h.value + h.valueLen => s[p] \in Whitespace
  <2>1. g.value = h.value /\ g.valueLen = j - h.value + 1 /\ h.value < j
    BY <1>1, <1>4
  <2>2. /\ g.value > Colon(g) /\ g.valueLen >= 1 /\ g.value + g.valueLen <= j + 1
        /\ g.value + g.valueLen - 1 = j /\ g.value + g.valueLen = j + 1
    BY <1>1, <1>2, <1>4, <2>1
  <2>3. \A p \in (Colon(h) + 1)..j : p < h.value => p \in (Colon(h) + 1)..(j - 1)
    BY <1>1, <2>1
  <2>4. \A p \in (Colon(h) + 1)..j : ~(p >= j + 1)
    BY <1>1
  <2>5. \A p \in (Colon(g) + 1)..j : p < g.value \/ p >= g.value + g.valueLen => s[p] \in Whitespace
    BY <1>2, <1>4, <2>1, <2>2, <2>3, <2>4
  <2>6. QED BY <1>2, <1>4, <2>1, <2>2, <2>5 DEF ValueOK
<1>5. QED BY <1>3, <1>4 DEF ValueOK

\* What holds while the value of a header is read.
InValue(e) ==
    /\ Fits(req) /\ HasUri(req) /\ req.bodyRead = 0
    /\ Started(stream, req.headers, req.h.name) /\ Len(req.headers) < MaxHeaders
    /\ Unbroken(stream, req.h.name, e)
    /\ NameOK(stream, req.h) /\ Colon(req.h) < i /\ ValueOK(stream, req.h, e)

\* The end of a header line, seen in HEADER_VALUE or HEADER_LF.
LEMMA HeaderLineEnd ==
    ASSUME IInv, pc = "parse", i <= got, i < MaxHeaderBytes, InValue(i - 1), stream[i] = "LF",
           NEW r, Fits(r), r.h = req.h, r.headers = req.headers, r.bodyRead = 0,
           r.uri = req.uri, r.uriLen = req.uriLen,
           Lengths(stream, Append(req.headers, req.h), r.contentLength),
           Go("HEADER_KEY", NextHeader(r))
    PROVE  IInv'
<1>0. Typed
  BY TypeFacts DEF IInv
<1>1. req.headers \in Seq(Header) /\ req.h \in Header /\ Len(req.headers) \in Nat /\ stream \in Seq(STRING)
  BY <1>0 DEF Typed
<1>2. i \in Nat /\ LF(stream, i)
  <2>1. i \in Nat /\ i >= 1 /\ got \in Nat /\ Len(stream) \in Nat /\ got <= Len(stream)
    BY <1>0 DEF Typed
  <2>2. i \in 1..Len(stream)
    BY <2>1
  <2>3. QED BY <2>1, <2>2 DEF LF
<1> DEFINE hs == Append(req.headers, req.h)
           q == NextHeader(r)
<1>3. hs \in Seq(Header) /\ Len(hs) = Len(req.headers) + 1
  BY <1>1, AppendFacts
<1>4. Len(hs) <= MaxHeaders
  BY <1>1, <1>3, LimitFacts DEF InValue
<1>5. Started(stream, hs, i + 1)
  <2> USE DEF InValue
  <2> HIDE DEF hs
  <2>1. Started(stream, Append(req.headers, req.h), i + 1)
    BY <1>1, <1>2, NextLine
  <2>2. QED BY <2>1 DEF hs
<1>6. r.headers = req.headers /\ r.h = req.h /\ r \in Request
  BY DEF Fits
<1> HIDE DEF hs
<1>7. /\ q \in Request /\ q.headers = hs /\ q.h = NoHeader
      /\ q.contentLength = r.contentLength /\ q.bodyRead = r.bodyRead
      /\ q.method = r.method /\ q.uri = r.uri /\ q.uriLen = r.uriLen /\ q.version = r.version
  <2>1. NoHeader \in Header
    BY DEF NoHeader, Header
  <2>2. Append(r.headers, r.h) = hs
    BY <1>6 DEF hs
  <2>3. QED BY <1>3, <1>6, <2>1, <2>2 DEF NextHeader, Request
<1> HIDE DEF q
<1>8. Fits(q) /\ HasUri(q)
  BY <1>4, <1>7 DEF Fits, HasUri, InValue
<1>9. Types' /\ Positions'
  <2>1. "HEADER_KEY" \in HeadStates \ {"REQ_METHOD"} /\ "HEADER_KEY" # "REQ_URI"
    BY DEF HeadStates
  <2>2. Go("HEADER_KEY", q)
    BY DEF q
  <2>3. QED BY <1>8, <2>1, <2>2, GoStep
<1>10. state' = "HEADER_KEY" /\ req' = q /\ stream' = stream /\ i' = i + 1
  BY DEF Go, Keep, q
<1>11. Lengths(stream, q.headers, q.contentLength)
  BY <1>7 DEF hs
<1>12. Learnt'
  BY <1>5, <1>7, <1>10, <1>11 DEF Learnt, HeadStates
<1>13. QED BY <1>9, <1>12 DEF IInv

\* HEADER_VALUE.
LEMMA HeaderValueStep ==
    ASSUME IInv, HeaderValue
    PROVE  IInv'
<1>0. Types /\ Positions /\ Learnt /\ Typed
  BY TypeFacts DEF IInv
<1>1. pc = "parse" /\ i <= got /\ state = "HEADER_VALUE" /\ i < MaxHeaderBytes
  BY DEF HeaderValue, At, HeadStates
<1>2. InValue(i - 1) /\ Lengths(stream, req.headers, req.contentLength)
  BY <1>0, <1>1 DEF InValue, Fits, Types, HasUri, Positions, Learnt, HeadStates
<1>3. /\ i \in Nat /\ i >= 1 /\ req.h \in Header /\ req.h.name \in Nat /\ req.h.value \in Nat
      /\ Colon(req.h) \in Nat
  <2>1. /\ i \in Nat /\ i >= 1 /\ req.h \in Header /\ req.h.name \in Nat
        /\ req.h.nameLen \in Nat /\ req.h.value \in Nat
    BY <1>0 DEF Typed
  <2>2. QED BY <2>1 DEF Colon
<1>4. req \in Request
  BY <1>0 DEF Types
<1> DEFINE v == IF req.h.value = 0 THEN i ELSE req.h.value
           w == [req EXCEPT !.h.value = v, !.h.valueLen = i - v + 1]
<1>5. \/ Fail(400)
      \/ stream[i] = "CR" /\ \E r \in ParseHeader(req) : Go("HEADER_LF", r)
      \/ stream[i] = "LF" /\ \E r \in ParseHeader(req) : Go("HEADER_KEY", NextHeader(r))
      \/ stream[i] \in Whitespace \ {"CR", "LF"} /\ Go("HEADER_VALUE", req)
      \/ stream[i] \notin Whitespace /\ Go("HEADER_VALUE", w)
  BY Zenon DEF HeaderValue
<1>6. "HEADER_LF" \in HeadStates \ {"REQ_METHOD"} /\ "HEADER_VALUE" \in HeadStates \ {"REQ_METHOD"}
      /\ "HEADER_LF" # "REQ_URI" /\ "HEADER_VALUE" # "REQ_URI"
  BY DEF HeadStates
<1>7. stream[i] # "LF" => Unbroken(stream, req.h.name, (i + 1) - 1)
  BY <1>2, <1>3, LongerLine DEF InValue
<1>8. Colon(req.h) < i + 1
  BY <1>2, <1>3 DEF InValue
<1>9. CASE Fail(400)
  BY <1>9, FailStep DEF Statuses
<1>10. CASE stream[i] = "CR" /\ \E r \in ParseHeader(req) : Go("HEADER_LF", r)
  <2>1. PICK r \in ParseHeader(req) : Go("HEADER_LF", r)
    BY <1>10
  <2>2. /\ Fits(r) /\ r.h = req.h /\ r.headers = req.headers /\ r.bodyRead = 0
        /\ r.uri = req.uri /\ r.uriLen = req.uriLen
        /\ Lengths(stream, Append(req.headers, req.h), r.contentLength)
    BY <1>1, ParsedHeader
  <2>3. HasUri(r)
    BY <1>2, <2>2 DEF InValue, HasUri
  <2>4. Types' /\ Positions'
    BY <1>1, <1>6, <2>1, <2>2, <2>3, GoStep
  <2>5. ValueOK(stream, req.h, (i + 1) - 1)
    <3>1. stream[i] \in Whitespace
      BY <1>10 DEF Whitespace
    <3>2. QED BY <1>2, <1>3, <3>1, ValueKept DEF InValue
  <2>6. Unbroken(stream, req.h.name, (i + 1) - 1)
    BY <1>7, <1>10
  <2>7. state' = "HEADER_LF" /\ req' = r /\ stream' = stream /\ i' = i + 1
    BY <2>1 DEF Go, Keep
  <2>8. Learnt'
    BY <1>2, <1>8, <2>2, <2>5, <2>6, <2>7 DEF Learnt, HeadStates, InValue
  <2>9. QED BY <2>4, <2>8 DEF IInv
<1>11. CASE stream[i] = "LF" /\ \E r \in ParseHeader(req) : Go("HEADER_KEY", NextHeader(r))
  <2>1. PICK r \in ParseHeader(req) : Go("HEADER_KEY", NextHeader(r))
    BY <1>11
  <2>2. /\ Fits(r) /\ r.h = req.h /\ r.headers = req.headers /\ r.bodyRead = 0
        /\ r.uri = req.uri /\ r.uriLen = req.uriLen
        /\ Lengths(stream, Append(req.headers, req.h), r.contentLength)
    BY <1>1, ParsedHeader
  <2>3. QED BY <1>1, <1>2, <1>11, <2>1, <2>2, HeaderLineEnd
<1>12. CASE stream[i] \in Whitespace \ {"CR", "LF"} /\ Go("HEADER_VALUE", req)
  <2>1. Types' /\ Positions'
    BY <1>1, <1>2, <1>6, <1>12, GoStep DEF InValue
  <2>2. ValueOK(stream, req.h, (i + 1) - 1)
    BY <1>2, <1>3, <1>12, ValueKept DEF InValue
  <2>3. Unbroken(stream, req.h.name, (i + 1) - 1)
    BY <1>7, <1>12
  <2>4. state' = "HEADER_VALUE" /\ req' = req /\ stream' = stream /\ i' = i + 1
    BY <1>12 DEF Go, Keep
  <2>5. Learnt'
    BY <1>2, <1>8, <2>2, <2>3, <2>4 DEF Learnt, HeadStates, InValue
  <2>6. QED BY <2>1, <2>5 DEF IInv
<1>13. CASE stream[i] \notin Whitespace /\ Go("HEADER_VALUE", w)
  <2>1. v \in Nat /\ v <= i /\ i - v + 1 \in Nat
    <3>1. req.h.value = 0 \/ req.h.value + req.h.valueLen <= i - 1 + 1
      BY <1>2, Zenon DEF InValue, ValueOK
    <3>2. req.h.valueLen \in Nat
      BY <1>0 DEF Typed
    <3>3. QED BY <1>3, <3>1, <3>2
  <2> HIDE DEF v
  <2>2. req \in [method : Nat, uri : Nat, uriLen : Nat, version : Nat,
                 headers : Seq(Header), h : Header,
                 contentLength : Nat, body : Nat, bodyRead : Nat]
    BY <1>4 DEF Request
  <2>3. w.h = [req.h EXCEPT !.value = v, !.valueLen = i - v + 1]
    BY <2>2
  <2>4. /\ w.h \in Header /\ w.h.name = req.h.name /\ w.h.nameLen = req.h.nameLen
        /\ w.h.value = v /\ w.h.valueLen = i - v + 1
    BY ZenonT(40), <1>3, <2>1, <2>3 DEF Header
  <2>5. /\ w \in Request
        /\ w.headers = req.headers /\ w.contentLength = req.contentLength /\ w.bodyRead = req.bodyRead
        /\ w.method = req.method /\ w.uri = req.uri /\ w.uriLen = req.uriLen /\ w.version = req.version
    BY <2>2, <2>4 DEF Request
  <2> HIDE DEF w
  <2>6. Fits(w) /\ HasUri(w)
    BY <1>2, <2>5 DEF Fits, HasUri, InValue
  <2>7. Types' /\ Positions'
    BY <1>1, <1>6, <1>13, <2>6, GoStep
  <2>8. ValueOK(stream, w.h, (i + 1) - 1)
    BY <1>2, <1>3, <1>13, <2>4, ValueGrows DEF InValue, v
  <2>9. Unbroken(stream, w.h.name, (i + 1) - 1)
    BY <1>7, <1>13, <2>4 DEF Whitespace
  <2>10. Colon(w.h) = Colon(req.h)
    BY <2>4 DEF Colon
  <2>11. NameOK(stream, w.h)
    BY <1>2, <2>4, <2>10 DEF NameOK, InValue
  <2>12. state' = "HEADER_VALUE" /\ req' = w /\ stream' = stream /\ i' = i + 1
    BY <1>13 DEF Go, Keep
  <2>13. Learnt'
    BY <1>2, <1>8, <2>4, <2>5, <2>8, <2>9, <2>10, <2>11, <2>12 DEF Learnt, HeadStates, InValue
  <2>14. QED BY <2>7, <2>13 DEF IInv
<1>14. QED BY <1>5, <1>9, <1>10, <1>11, <1>12, <1>13

\* HEADER_LF.
LEMMA HeaderLfStep ==
    ASSUME IInv, HeaderLf
    PROVE  IInv'
<1>0. Types /\ Positions /\ Learnt /\ Typed
  BY TypeFacts DEF IInv
<1>1. pc = "parse" /\ i <= got /\ state = "HEADER_LF" /\ i < MaxHeaderBytes
  BY DEF HeaderLf, At, HeadStates
<1>2. InValue(i - 1) /\ Lengths(stream, Append(req.headers, req.h), req.contentLength)
  BY <1>0, <1>1 DEF InValue, Fits, Types, HasUri, Positions, Learnt, HeadStates
<1>3. CASE stream[i] = "LF" /\ Go("HEADER_KEY", NextHeader(req))
  BY <1>1, <1>2, <1>3, HeaderLineEnd DEF InValue
<1>4. CASE Fail(400)
  BY <1>4, FailStep DEF Statuses
<1>5. QED BY <1>3, <1>4, Zenon DEF HeaderLf

\* HEADER_END.
LEMMA HeaderEndStep ==
    ASSUME IInv, HeaderEnd
    PROVE  IInv'
<1>0. Types /\ Positions /\ Learnt /\ Typed
  BY TypeFacts DEF IInv
<1>1. pc = "parse" /\ i <= got /\ state = "HEADER_END" /\ i < MaxHeaderBytes
  BY DEF HeaderEnd, At, HeadStates
<1>2. /\ Started(stream, req.headers, i - 1) /\ stream[i - 1] = "CR"
      /\ Lengths(stream, req.headers, req.contentLength)
  BY <1>0, <1>1 DEF Learnt
<1>3. i \in Nat /\ i >= 1 /\ i \in 1..Len(stream)
  <2>1. i \in Nat /\ i >= 1 /\ got \in Nat /\ Len(stream) \in Nat /\ got <= Len(stream)
    BY <1>0 DEF Typed
  <2>2. QED BY <1>1, <2>1
<1>4. CASE stream[i] = "LF" /\ EnterBody
  <2>1. i - 1 >= 2 /\ LF(stream, (i - 1) - 1) /\ (i - 1) - 1 = i - 2
    BY <1>2, <1>3 DEF Started
  <2>2. Blank(stream, i) /\ i \in 2..Len(stream)
    BY <1>2, <1>3, <1>4, <2>1 DEF Blank, LF
  <2>3. \A p \in (i - 1)..(i - 1) : p = i - 1
    BY <1>3
  <2>4. Unbroken(stream, i - 1, i - 1)
    BY <1>2, <2>3 DEF Unbroken, LF
  <2>5. HeadRead(stream, req, i)
    BY <1>2, <2>2, <2>4 DEF HeadRead
  <2>6. QED BY <1>1, <1>4, <2>5, EnterBodyStep
<1>5. CASE Fail(400)
  BY <1>5, FailStep DEF Statuses
<1>6. QED BY <1>4, <1>5, Zenon DEF HeaderEnd

\* BODY: as much of the chunk as is missing.
LEMMA BodyStep ==
    ASSUME IInv, Body
    PROVE  IInv'
<1>0. Types /\ Positions /\ Learnt /\ Typed
  BY TypeFacts DEF IInv
<1>1. pc = "parse" /\ i <= got /\ state = "BODY"
  BY DEF Body, At
<1>2. /\ got \in Nat /\ i \in Nat /\ i >= 1 /\ req.body \in Nat
      /\ req.contentLength \in Nat /\ req.bodyRead \in Nat
  BY <1>0 DEF Typed
<1>3. /\ Fits(req) /\ HasUri(req) /\ HeadRead(stream, req, req.body - 1)
      /\ req.body <= i /\ req.bodyRead < req.contentLength
      /\ req.body + req.contentLength <= MaxRequestBytes
      /\ req.bodyRead = i - req.body
  BY <1>0, <1>1 DEF Fits, Types, HasUri, Positions, Learnt
<1> DEFINE remaining == req.contentLength - req.bodyRead
           available == got - i + 1
           read == req.bodyRead + (IF available < remaining THEN available ELSE remaining)
           r == [req EXCEPT !.bodyRead = read]
<1>4. \/ read = req.contentLength /\ Complete(r)
      \/ read # req.contentLength /\ pc' = "recv" /\ Keep(r) /\ UNCHANGED <<i, state, status>>
  BY Zenon DEF Body
<1>5. /\ read \in Nat /\ read <= req.contentLength
      /\ read = req.contentLength => req.body + req.contentLength <= got + 1
      /\ read # req.contentLength => read = (got + 1) - req.body /\ read < req.contentLength
  BY <1>1, <1>2, <1>3
<1> HIDE DEF read
<1>6. /\ r \in Request /\ r.body = req.body /\ r.headers = req.headers /\ r.bodyRead = read
      /\ r.contentLength = req.contentLength
      /\ r.method = req.method /\ r.uri = req.uri /\ r.uriLen = req.uriLen /\ r.version = req.version
  BY <1>3, <1>5 DEF Fits, Request
<1> HIDE DEF r
<1>7. Fits(r) /\ HasUri(r) /\ HeadRead(stream, r, r.body - 1)
  BY <1>3, <1>5, <1>6 DEF Fits, HasUri, HeadRead
<1>8. CASE read = req.contentLength /\ Complete(r)
  <2>1. r.body - 1 \in 2..Len(stream)
    BY <1>7 DEF HeadRead
  <2>2. /\ r.body - 1 \in 1..got /\ (r.body - 1) + r.contentLength <= got
        /\ r.body = (r.body - 1) + 1 /\ r.bodyRead = r.contentLength
    <3>1. Len(stream) \in Nat
      BY <1>0 DEF Typed
    <3>2. QED BY SMTT(30), <1>2, <1>3, <1>5, <1>6, <1>8, <2>1, <3>1
  <2>3. \E e \in 1..got : /\ HeadRead(stream, r, e)
                          /\ r.bodyRead = r.contentLength /\ e + r.contentLength <= got
                          /\ r.contentLength # 0 => r.body = e + 1
    BY <1>7, <2>2, Zenon
  <2>4. QED BY <1>7, <1>8, <2>3, CompleteStep
<1>9. CASE read # req.contentLength /\ pc' = "recv" /\ Keep(r) /\ UNCHANGED <<i, state, status>>
  <2> USE DEF Keep
  <2>1. Types'
    BY <1>0, <1>7, <1>9 DEF Types, Fits
  <2>2. Positions'
    BY <1>1, <1>7, <1>9 DEF Positions, HasUri, HeadStates
  <2>3. r.bodyRead = got + 1 - r.body /\ r.bodyRead < r.contentLength /\ r.body <= i
        /\ r.body + r.contentLength <= MaxRequestBytes
    BY <1>2, <1>3, <1>5, <1>6, <1>9
  <2>4. Learnt'
    BY <1>1, <1>7, <1>9, <2>3 DEF Learnt, HeadStates
  <2>5. QED BY <2>1, <2>2, <2>4 DEF IInv
<1>10. QED BY <1>4, <1>8, <1>9

-----------------------------------------------------------------------------
(* The theorems. *)

\* Every step keeps what is known of the stream true.
LEMMA NextIInv == IInv /\ [Next]_vars => IInv'
<1> SUFFICES ASSUME IInv, [Next]_vars PROVE IInv'
  OBVIOUS
<1>1. CASE HeaderTooLarge
  BY <1>1, FailStep DEF HeaderTooLarge, Statuses
<1>2. CASE \E n \in 1..Len(stream) : Recv(n)
  BY <1>2, RecvStep
<1>3. CASE Returned
  BY <1>3, QuietStep DEF Returned
<1>4. QED
  BY <1>1, <1>2, <1>3, QuietStep, ReqMethodStep, ReqUriStep, ReqVersionStep, ReqLfStep,
     HeaderKeyStep, HeaderNameStep, HeaderValueStep, HeaderLfStep, HeaderEndStep, BodyStep
     DEF Next, ParseByte

\* The inductive invariant holds of every stream, however it is cut.
THEOREM Invariance == Spec => []IInv
<1>1. QED BY InitIInv, NextIInv, PTL DEF Spec

\* Cursors and slices stay within what has been received (parse_chunk).
THEOREM TypeCorrect == Spec => []TypeOK
<1>1. IInv => TypeOK
  <2> SUFFICES ASSUME IInv PROVE TypeOK
    OBVIOUS
  <2>1. Types /\ Typed
    BY TypeFacts DEF IInv
  <2>2. /\ req.method \in Nat /\ req.uri \in Nat /\ req.version \in Nat /\ got \in Nat
        /\ Len(req.headers) \in Nat /\ req.contentLength \in Nat /\ req.bodyRead \in Nat
    BY <2>1 DEF Typed
  <2>3. QED BY <2>1, <2>2, LimitFacts DEF Types, TypeOK
<1>2. QED BY <1>1, Invariance, PTL

\* recv always has room: the limit on the head keeps the cursor below
\* MAX_HEADER_BYTES and a body is only entered when it fits (http_request.c:160, 456).
THEOREM RecvHasRoom == Spec => []RoomToReceive
<1>1. IInv => RoomToReceive
  <2> SUFFICES ASSUME IInv, pc = "recv" PROVE got < MaxRequestBytes
    BY DEF RoomToReceive
  <2>1. Types /\ Positions /\ Learnt /\ Typed
    BY TypeFacts DEF IInv
  <2>2. got \in Nat /\ i \in Nat /\ req.body \in Nat /\ req.contentLength \in Nat /\ req.bodyRead \in Nat
    BY <2>1 DEF Typed
  <2>3. CASE state = "REQ_METHOD"
    <3>1. got = 0 \/ got < MethodPeek
      BY <2>1, <2>3 DEF Positions
    <3>2. QED BY <2>2, <3>1, LimitFacts
  <2>4. CASE state = "BODY"
    <3>1. /\ req.bodyRead < req.contentLength /\ req.body + req.contentLength <= MaxRequestBytes
          /\ req.bodyRead = got + 1 - req.body
      BY <2>1, <2>4 DEF Learnt
    <3>2. QED BY <2>2, <3>1, LimitFacts
  <2>5. CASE state \in HeadStates \ {"REQ_METHOD"}
    <3>1. i = got + 1 /\ i <= MaxHeaderBytes
      BY <2>1, <2>5 DEF Positions, HeadStates
    <3>2. QED BY <2>2, <3>1, LimitFacts
  <2>6. QED BY <2>1, <2>3, <2>4, <2>5 DEF Types, Positions
<1>2. QED BY <1>1, Invariance, PTL

\* The blank line that the parser found is the first one.
LEMMA FirstBlank ==
    ASSUME Typed, NEW e \in 1..got, HeadRead(stream, req, e)
    PROVE  HeadEnds # {} /\ HeadEnd = e
<1>1. got \in Nat /\ Len(stream) \in Nat /\ got <= Len(stream)
  BY DEF Typed
<1>2. \A k \in 1..got : k \in LineEnds <=> LF(stream, k)
  BY <1>1 DEF LineEnds, LF
<1>3. \A k \in Int : k <= got /\ LF(stream, k) => k \in LineEnds
  BY <1>1 DEF LineEnds, LF
<1>4. \A k \in LineEnds : k \in 1..got /\ LF(stream, k)
  BY <1>1 DEF LineEnds, LF
<1>5. e \in HeadEnds
  <2>1. LF(stream, e) /\ (LF(stream, e - 1) \/ (LF(stream, e - 2) /\ stream[e - 1] = "CR"))
    BY DEF HeadRead, Blank
  <2>2. e - 1 \in Int /\ e - 1 <= got /\ e - 2 \in Int /\ e - 2 <= got
    BY <1>1
  <2>3. e \in LineEnds /\ (e - 1 \in LineEnds \/ (stream[e - 1] = "CR" /\ e - 2 \in LineEnds))
    BY <1>2, <1>3, <2>1, <2>2
  <2>4. QED BY <2>3 DEF HeadEnds
<1>6. \A k \in HeadEnds : k \in 1..got /\ Blank(stream, k)
  BY <1>4 DEF HeadEnds, Blank
<1>7. \A k \in HeadEnds : e <= k
  <2>1. SUFFICES ASSUME NEW k \in HeadEnds, k < e PROVE FALSE
    BY <1>1, <1>6
  <2>2. PICK b \in {e - 1, e} : NoBlank(stream, b) /\ Unbroken(stream, b, e - 1)
    BY DEF HeadRead, Started
  <2>3. k \in 1..got /\ Blank(stream, k) /\ LF(stream, k)
    BY <1>6 DEF Blank
  <2>4. k \in 1..(b - 1) \/ k \in b..(e - 1)
    BY <1>1, <2>1, <2>3
  <2>5. QED BY <2>2, <2>3, <2>4 DEF NoBlank, Unbroken
<1>8. HeadEnd \in HeadEnds /\ \A l \in HeadEnds : HeadEnd <= l
  BY <1>5, <1>7, Zenon DEF HeadEnd
<1>9. HeadEnd \in 1..got /\ e <= HeadEnd /\ HeadEnd <= e
  BY <1>5, <1>6, <1>7, <1>8
<1>10. QED BY <1>1, <1>5, <1>9

\* The headers of a completed head lie before it.
LEMMA HeadLines ==
    ASSUME Typed, NEW e \in 1..got, HeadRead(stream, req, e), NEW k \in DOMAIN req.headers
    PROVE  /\ req.headers[k] \in Header
           /\ \E f \in 1..(e - 1) : Line(stream, req.headers[k], f)
           /\ NameOf(req.headers[k]) = NameText(stream, req.headers[k])
<1>1. got \in Nat /\ req.headers \in Seq(Header)
  BY DEF Typed
<1>2. req.headers[k] \in Header
  BY <1>1
<1>3. PICK b \in {e - 1, e} : Lines(stream, req.headers, b)
  BY DEF HeadRead, Started
<1>4. PICK f \in 1..(b - 1) : Line(stream, req.headers[k], f)
  BY <1>3 DEF Lines
<1>5. f \in 1..(e - 1) /\ f \in Nat /\ f <= got + 1
  BY <1>1, <1>3
<1>6. NameOf(req.headers[k]) = NameText(stream, req.headers[k])
  BY <1>2, <1>4, <1>5, NameOfLine DEF Line
<1>7. QED BY <1>2, <1>4, <1>5, <1>6

\* A completed request has exactly the body its one Content-Length says, all
\* of it received, right after the first blank line (parse_chunk,
\* parse_header).
THEOREM BodiesAreFramed == Spec => []BodyIsFramed
<1>1. IInv => BodyIsFramed
  <2> SUFFICES ASSUME IInv, Accepted PROVE BodyIsFramed
    BY DEF BodyIsFramed
  <2>1. Types /\ Learnt /\ Typed
    BY TypeFacts DEF IInv
  <2>2. got \in Nat /\ req.contentLength \in Nat /\ Len(req.headers) \in Nat
    BY <2>1 DEF Typed
  <2>3. PICK e \in 1..got :
          /\ HeadRead(stream, req, e)
          /\ req.bodyRead = req.contentLength /\ e + req.contentLength <= got
          /\ req.contentLength # 0 => req.body = e + 1
    BY <2>1 DEF Learnt, Accepted
  <2>4. HeadEnds # {} /\ HeadEnd = e
    BY <2>1, <2>3, FirstBlank
  <2> DEFINE lengths == GetHeader(ContentLength)
             text(k) == Slice(req.headers[k].value, req.headers[k].valueLen)
  <2>5. Lengths(stream, req.headers, req.contentLength)
    BY <2>3 DEF HeadRead
  <2>6. \A k \in DOMAIN req.headers : k \in lengths <=> NameText(stream, req.headers[k]) = ContentLength
    BY <2>1, <2>3, HeadLines DEF GetHeader
  <2>7. lengths \subseteq DOMAIN req.headers
    BY DEF GetHeader
  <2>8. \A k \in lengths : req.contentLength = Number(text(k))
    <3>1. TAKE k \in lengths
    <3>2. k \in DOMAIN req.headers
      BY <2>7
    <3> DEFINE h == req.headers[k]
    <3>3. h \in Header /\ \E f \in 1..(e - 1) : Line(stream, h, f)
      BY <2>1, <2>3, <3>2, HeadLines
    <3>4. PICK f \in 1..(e - 1) : Line(stream, h, f)
      BY <3>3
    <3> HIDE DEF h
    <3>5. f \in Nat /\ f <= got /\ ValueOK(stream, h, f)
      BY <2>2, <3>4 DEF Line
    <3>6. Slice(h.value, h.valueLen) = ValueText(stream, h) /\ ValueText(stream, h) \in Seq(STRING)
      BY <2>1, <3>3, <3>5, ValueOfLine
    <3>7. LengthAfter(ValueText(stream, h)) = req.contentLength
      BY <2>5, <2>6, <3>2 DEF Lengths, h
    <3>8. LengthAfter(ValueText(stream, h)) # -1
      BY <2>2, <3>7
    <3>9. Number(ValueText(stream, h)) = req.contentLength
      BY <3>6, <3>7, <3>8, LengthIsNumber
    <3>10. QED BY <3>6, <3>9 DEF h
  <2>9. \A k, l \in lengths : k = l
    BY <2>5, <2>6, <2>7 DEF Lengths
  <2>10. lengths = {} => req.contentLength = 0
    BY <2>5, <2>6 DEF Lengths
  <2> HIDE DEF lengths, text
  <2>11. req.contentLength \in IF lengths = {} THEN {0} ELSE {Number(text(k)) : k \in lengths}
    BY <2>8, <2>10
  <2>12. QED
    BY <2>3, <2>4, <2>9, <2>11, Zenon DEF BodyIsFramed, lengths, text
<1>2. QED BY <1>1, Invariance, PTL

\* The positions of a header's line that are not white space.
Ink(h, e) == {p \in (Colon(h) + 1)..e : stream[p] \notin Whitespace}

Lowest(S) == CHOOSE p \in S : \A q \in S : p <= q
Highest(S) == CHOOSE p \in S : \A q \in S : p >= q

\* The value of a header line spans its ink.
LEMMA ValueSpansInk ==
    ASSUME NEW h \in Header, NEW e \in Nat, ValueOK(stream, h, e)
    PROVE  IF Ink(h, e) = {} THEN h.valueLen = 0
           ELSE /\ h.value = Lowest(Ink(h, e))
                /\ h.valueLen = Highest(Ink(h, e)) - Lowest(Ink(h, e)) + 1
<1> DEFINE T == Ink(h, e)
           first == Lowest(T)
           last == Highest(T)
<1>1. h.name \in Nat /\ h.nameLen \in Nat /\ h.value \in Nat /\ h.valueLen \in Nat /\ Colon(h) \in Nat
  BY DEF Header, Colon
<1>2. T \subseteq Nat
  BY <1>1 DEF Ink
<1>3. CASE h.value = 0 /\ h.valueLen = 0 /\ \A p \in (Colon(h) + 1)..e : stream[p] \in Whitespace
  BY <1>3 DEF Ink
<1>4. CASE /\ h.value > Colon(h) /\ h.valueLen >= 1 /\ h.value + h.valueLen <= e + 1
           /\ stream[h.value] \notin Whitespace /\ stream[h.value + h.valueLen - 1] \notin Whitespace
           /\ \A p \in (Colon(h) + 1)..e :
                  p < h.value \/ p >= h.value + h.valueLen => stream[p] \in Whitespace
  <2> DEFINE a == h.value  z == h.value + h.valueLen - 1
  <2>1. a \in (Colon(h) + 1)..e /\ z \in (Colon(h) + 1)..e
    BY <1>1, <1>4
  <2>2. a \in T /\ z \in T
    BY <1>4, <2>1 DEF Ink
  <2>3. \A p \in T : p \in Nat /\ ~(p < h.value \/ p >= h.value + h.valueLen)
    BY <1>2, <1>4 DEF Ink
  <2>4. \A p \in T : a <= p /\ z >= p
    BY <1>1, <2>3
  <2> HIDE DEF T, a, z
  <2>5. first \in T /\ \A q \in T : first <= q
    BY <2>2, <2>4, Zenon DEF Lowest
  <2>6. last \in T /\ \A q \in T : last >= q
    BY <2>2, <2>4, Zenon DEF Highest
  <2> HIDE DEF first, last
  <2>7. first = a /\ last = z
    BY <1>2, <2>2, <2>4, <2>5, <2>6
  <2>8. T # {} /\ h.value = first /\ h.valueLen = last - first + 1
    BY <1>1, <2>2, <2>7 DEF a, z
  <2>9. QED BY <2>8, Zenon DEF T, first, last
<1>5. QED BY <1>3, <1>4 DEF ValueOK

\* The headers of a completed request are the lines of its head, in order,
\* each cut at its first colon and trimmed (parse_chunk).
THEOREM HeadersAreLines == Spec => []HeadersAreTheLines
<1>1. IInv => HeadersAreTheLines
  <2> SUFFICES ASSUME IInv, Accepted PROVE HeadersAreTheLines
    BY DEF HeadersAreTheLines
  <2>1. Types /\ Learnt /\ Typed
    BY TypeFacts DEF IInv
  <2>2. /\ got \in Nat /\ Len(stream) \in Nat /\ got <= Len(stream)
        /\ Len(req.headers) \in Nat /\ req.headers \in Seq(Header)
    BY <2>1 DEF Typed
  <2>3. PICK e \in 1..got : HeadRead(stream, req, e)
    BY <2>1 DEF Learnt, Accepted
  <2>4. HeadEnd = e
    BY <2>1, <2>3, FirstBlank
  <2>5. PICK b \in {e - 1, e} : Started(stream, req.headers, b) /\ Unbroken(stream, b, e - 1)
    BY <2>3 DEF HeadRead
  <2>6. \A k \in Int : k \in LineEnds <=> k <= got /\ LF(stream, k)
    BY <2>2 DEF LineEnds, LF
  <2>7. LineEnds \subseteq 1..got
    BY DEF LineEnds
  <2> DEFINE hs == req.headers
             start(k) == req.headers[k].name
             eol(k) == CHOOSE x \in LineEnds :
                         x > start(k) /\ \A f \in LineEnds : f > start(k) => x <= f
             colon(k) == start(k) + req.headers[k].nameLen
             text(k) == {p \in (colon(k) + 1)..eol(k) : stream[p] \notin Whitespace}
             first(k) == CHOOSE p \in text(k) : \A q \in text(k) : p <= q
             last(k) == CHOOSE p \in text(k) : \A q \in text(k) : p >= q
  <2>8. \A k \in DOMAIN hs :
          /\ hs[k] \in Header /\ start(k) \in Nat /\ colon(k) \in Nat /\ start(k) >= 2
          /\ colon(k) = Colon(hs[k]) /\ eol(k) \in Nat /\ eol(k) \in 1..(b - 1)
          /\ start(k) < colon(k) /\ Line(stream, hs[k], eol(k))
    <3>1. TAKE k \in DOMAIN hs
    <3>2. hs[k] \in Header /\ start(k) \in Nat /\ hs[k].nameLen \in Nat
      <4>1. hs[k] \in Header
        BY <2>2
      <4> HIDE DEF hs
      <4>2. hs[k].name \in Nat /\ hs[k].nameLen \in Nat
        BY <4>1 DEF Header
      <4>3. QED BY <4>1, <4>2 DEF hs
    <3>3. PICK f \in 1..(b - 1) : Line(stream, hs[k], f)
      BY <2>5 DEF Started, Lines
    <3>4. /\ start(k) >= 2 /\ hs[k].nameLen >= 1 /\ LF(stream, f) /\ colon(k) < f
          /\ Unbroken(stream, start(k), f - 1)
      BY <3>3 DEF Line, NameOK, Colon
    <3>5. f \in LineEnds
      BY <2>2, <2>6, <3>4
    <3>6. f > start(k)
      BY <3>2, <3>4
    <3>7. \A x \in LineEnds : x > start(k) => f <= x
      <4>1. TAKE x \in LineEnds
      <4>2. x \in Nat /\ LF(stream, x)
        BY <2>6, <2>7
      <4>3. x > start(k) /\ x < f => x \in start(k)..(f - 1)
        BY <3>2, <4>2
      <4>4. QED BY <3>4, <4>2, <4>3 DEF Unbroken
    <3>8. eol(k) \in LineEnds /\ eol(k) > start(k) /\ \A x \in LineEnds : x > start(k) => eol(k) <= x
      BY <3>5, <3>6, <3>7, Zenon
    <3> HIDE DEF eol
    <3>9. eol(k) = f
      <4>1. f \in Nat /\ eol(k) \in Nat
        <5>1. LineEnds \subseteq Nat
          BY <2>2, <2>7
        <5>2. QED BY <3>5, <3>8, <5>1
      <4>2. f <= eol(k) /\ eol(k) <= f
        BY <3>5, <3>6, <3>7, <3>8
      <4>3. QED BY <4>1, <4>2
    <3>10. QED BY <3>2, <3>3, <3>4, <3>9 DEF Colon
  <2> HIDE DEF eol
  <2>9. \A k \in DOMAIN hs :
          IF text(k) = {} THEN hs[k].valueLen = 0
          ELSE hs[k].value = first(k) /\ hs[k].valueLen = last(k) - first(k) + 1
    <3>1. TAKE k \in DOMAIN hs
    <3>2. text(k) = Ink(hs[k], eol(k))
      BY DEF Ink, Colon
    <3>3. hs[k] \in Header /\ eol(k) \in Nat /\ ValueOK(stream, hs[k], eol(k))
      BY <2>8 DEF Line
    <3>4. IF Ink(hs[k], eol(k)) = {} THEN hs[k].valueLen = 0
          ELSE /\ hs[k].value = Lowest(Ink(hs[k], eol(k)))
               /\ hs[k].valueLen = Highest(Ink(hs[k], eol(k))) - Lowest(Ink(hs[k], eol(k))) + 1
      BY <3>3, ValueSpansInk
    <3> HIDE DEF text
    <3>5. QED BY <3>2, <3>4, Zenon DEF Lowest, Highest
  <2>10. \A k \in DOMAIN hs : /\ stream[colon(k)] = "COLON"
                              /\ \A p \in start(k)..(colon(k) - 1) : stream[p] # "COLON"
                              /\ colon(k) < eol(k) /\ LF(stream, start(k) - 1)
    BY <2>8 DEF Line, NameOK, Colon
  <2>11. \A k \in DOMAIN hs : \A l \in 1..(k - 1) : start(l) < start(k)
    <3>1. \A k, l \in DOMAIN hs : l < k => hs[l].name < hs[k].name
      BY <2>5 DEF Started, Lines
    <3>2. \A k \in DOMAIN hs : \A l \in 1..(k - 1) : l \in DOMAIN hs /\ l < k
      BY <2>2
    <3>3. QED BY <3>1, <3>2
  <2>12. {start(k) - 1 : k \in DOMAIN hs} = {x \in LineEnds : \E f \in LineEnds : x < f /\ f < HeadEnd}
    <3>1. ASSUME NEW k \in DOMAIN hs
          PROVE  start(k) - 1 \in {x \in LineEnds : \E f \in LineEnds : x < f /\ f < HeadEnd}
      <4>1. start(k) \in Nat /\ start(k) >= 2 /\ start(k) < colon(k) /\ colon(k) \in Nat /\ colon(k) < eol(k)
            /\ eol(k) \in 1..(b - 1) /\ LF(stream, start(k) - 1)
        BY <2>8, <2>10
      <4>2. LF(stream, b - 1)
        BY <2>5 DEF Started
      <4>3. b - 1 \in LineEnds /\ start(k) - 1 \in LineEnds
        <5>1. b - 1 \in Int /\ b - 1 <= got /\ start(k) - 1 \in Int /\ start(k) - 1 <= got
          BY <2>2, <2>5, <4>1
        <5>2. QED BY <2>6, <4>1, <4>2, <5>1
      <4>4. start(k) - 1 < b - 1 /\ b - 1 < HeadEnd
        BY <2>2, <2>4, <2>5, <4>1
      <4>5. QED BY <4>3, <4>4
    <3>2. ASSUME NEW x \in LineEnds, NEW f \in LineEnds, x < f, f < HeadEnd
          PROVE  \E k \in DOMAIN hs : x = start(k) - 1
      <4>1. x \in 1..got /\ f \in 1..got /\ LF(stream, x) /\ LF(stream, f)
        BY <2>6, <2>7
      <4>2. ~(f \in b..(e - 1))
        BY <2>5, <4>1 DEF Unbroken
      <4>3. x \in 1..(b - 2)
        BY <2>2, <2>4, <2>5, <3>2, <4>1, <4>2
      <4>4. PICK k \in DOMAIN hs : hs[k].name = x + 1
        BY <2>5, <4>1, <4>3 DEF Started, Lines
      <4>5. x = start(k) - 1
        BY <4>1, <4>4
      <4>6. QED BY <4>5
    <3>3. QED BY <3>1, <3>2
  <2>13. QED
    BY <2>9, <2>10, <2>11, <2>12, Zenon DEF HeadersAreTheLines, eol
<1>2. QED BY <1>1, Invariance, PTL

-----------------------------------------------------------------------------
(* Chunks.  The head of a stream, read byte by byte, is a function of the   *)
(* stream alone: it goes through the configurations Run(s), and a run of    *)
(* the parser, however the stream is cut, is always at one of them.         *)

\* The configuration of the parser, without its position.
Conf == [state |-> state, status |-> status, req |-> req]

\* The bytes of s that can be received.
All(s) == IF Len(s) < MaxRequestBytes THEN Len(s) ELSE MaxRequestBytes

Refused(c, n) == [state |-> "ERROR", status |-> n, req |-> c.req]
Onward(c, st, r) == [state |-> st, status |-> c.status, req |-> r]
Finished(s, r) == [state |-> "DONE", status |-> NormalizeUri(Text(s, r.uri, r.uriLen)), req |-> r]

\* What byte k of s makes of configuration c, by the state of c.
OnUri(s, c, k) ==
    LET r == [c.req EXCEPT !.uri = IF @ = 0 THEN k ELSE @]
    IN  IF s[k] = "SP"
        THEN IF k = r.uri THEN Refused(c, 400)
             ELSE Onward(c, "REQ_VERSION", [r EXCEPT !.uriLen = k - r.uri])
        ELSE IF s[k] \in {"CR", "LF"} THEN Refused(c, 400)
        ELSE Onward(c, "REQ_URI", r)

OnVersion(s, c, k) ==
    LET r == [c.req EXCEPT !.version = IF @ = 0 THEN k ELSE @]
        known == Text(s, r.version, k - r.version) \in Versions
    IN  IF s[k] \in {"CR", "LF"} /\ ~known THEN Refused(c, 505)
        ELSE IF s[k] = "CR" THEN Onward(c, "REQ_LF", r)
        ELSE IF s[k] = "LF" THEN Onward(c, "HEADER_KEY", r)
        ELSE Onward(c, "REQ_VERSION", r)

OnLf(s, c, k) == IF s[k] = "LF" THEN Onward(c, "HEADER_KEY", c.req) ELSE Refused(c, 400)

OnBlankLine(s, c, k) ==
    IF c.req.contentLength >= MaxRequestBytes - k THEN Refused(c, 413)
    ELSE IF c.req.contentLength = 0 THEN Finished(s, c.req)
    ELSE Onward(c, "BODY", [c.req EXCEPT !.body = k + 1])

OnKey(s, c, k) ==
    IF s[k] = "CR" THEN Onward(c, "HEADER_END", c.req)
    ELSE IF s[k] = "LF" THEN OnBlankLine(s, c, k)
    ELSE IF s[k] = "COLON" THEN Refused(c, 400)
    ELSE IF Len(c.req.headers) >= MaxHeaders THEN Refused(c, 431)
    ELSE Onward(c, "HEADER_NAME", [c.req EXCEPT !.h.name = k])

OnName(s, c, k) ==
    IF s[k] \in Whitespace THEN Refused(c, 400)
    ELSE IF s[k] = "COLON"
    THEN Onward(c, "HEADER_VALUE", [c.req EXCEPT !.h.nameLen = k - c.req.h.name])
    ELSE Onward(c, "HEADER_NAME", c.req)

\* parse_header on the text of the stream.
Taken(s, r) ==
    LET length == LengthAfter(ValueText(s, r.h))
    IN  IF NameText(s, r.h) = ContentLength
        THEN IF \/ r.h.valueLen = 0
                \/ \E k \in DOMAIN r.headers : NameText(s, r.headers[k]) = ContentLength
                \/ length = -1
             THEN {}
             ELSE {[r EXCEPT !.contentLength = length]}
        ELSE IF NameText(s, r.h) = TransferEncoding THEN {} ELSE {r}

OnValue(s, c, k) ==
    LET value == IF c.req.h.value = 0 THEN k ELSE c.req.h.value
        r == CHOOSE r \in Taken(s, c.req) : TRUE
    IN  IF s[k] \in {"CR", "LF"}
        THEN IF Taken(s, c.req) = {} THEN Refused(c, 400)
             ELSE IF s[k] = "CR" THEN Onward(c, "HEADER_LF", r)
             ELSE Onward(c, "HEADER_KEY", NextHeader(r))
        ELSE IF s[k] \in Whitespace THEN Onward(c, "HEADER_VALUE", c.req)
        ELSE Onward(c, "HEADER_VALUE", [c.req EXCEPT !.h.value = value, !.h.valueLen = k - value + 1])

OnLineEnd(s, c, k) ==
    IF s[k] = "LF" THEN Onward(c, "HEADER_KEY", NextHeader(c.req)) ELSE Refused(c, 400)

OnHeadEnd(s, c, k) == IF s[k] = "LF" THEN OnBlankLine(s, c, k) ELSE Refused(c, 400)

OnByte(s, c, k) ==
    IF c.state \notin HeadStates THEN c
    ELSE IF k >= MaxHeaderBytes THEN Refused(c, 431)
    ELSE IF c.state = "REQ_URI" THEN OnUri(s, c, k)
    ELSE IF c.state = "REQ_VERSION" THEN OnVersion(s, c, k)
    ELSE IF c.state = "REQ_LF" THEN OnLf(s, c, k)
    ELSE IF c.state = "HEADER_KEY" THEN OnKey(s, c, k)
    ELSE IF c.state = "HEADER_NAME" THEN OnName(s, c, k)
    ELSE IF c.state = "HEADER_VALUE" THEN OnValue(s, c, k)
    ELSE IF c.state = "HEADER_LF" THEN OnLineEnd(s, c, k)
    ELSE OnHeadEnd(s, c, k)

\* A step that consumes byte i, or ends the parsing at it.
Consumes(c) ==
    /\ Conf' = c /\ stream' = stream /\ got' = got
    /\ \/ /\ pc' = "parse" /\ i' = i + 1 /\ status' = status
          /\ state' \notin {"DONE", "ERROR", "REQ_METHOD"}
          /\ state' = "BODY" => req'.body = i + 1
       \/ pc' = "done" /\ state' \in {"DONE", "ERROR"}

\* A refusal is such a step.
LEMMA FailConsumes ==
    ASSUME NEW n, Fail(n) PROVE Consumes(Refused(Conf, n))
BY DEF Fail, Return, Keep, Consumes, Refused, Conf

\* So is a byte passed.
LEMMA GoConsumes ==
    ASSUME pc = "parse", NEW st, st \notin {"DONE", "ERROR", "REQ_METHOD"}, NEW r, Go(st, r),
           st = "BODY" => r.body = i + 1
    PROVE  Consumes(Onward(Conf, st, r))
BY DEF Go, Keep, Consumes, Onward, Conf

\* So is a completed request.
LEMMA CompleteConsumes ==
    ASSUME Typed, NEW r \in Request, HasUri(r), Complete(r)
    PROVE  Consumes(Finished(stream, r))
<1>1. got \in Nat /\ r.uri \in Nat /\ r.uriLen \in Nat /\ r.uri + r.uriLen <= got + 1
  BY DEF Typed, Request, HasUri
<1>2. Slice(r.uri, r.uriLen) = Text(stream, r.uri, r.uriLen)
  BY <1>1, SliceIsText
<1>3. QED BY <1>2 DEF Complete, Return, Keep, Consumes, Finished, Conf

\* REQ_URI reads what OnUri says.
LEMMA UriConsumes ==
    ASSUME ReqUri PROVE Consumes(OnUri(stream, Conf, i))
<1> DEFINE r == [req EXCEPT !.uri = IF @ = 0 THEN i ELSE @]
<1>1. pc = "parse"
  BY DEF ReqUri, At
<1>2. Conf.req = req
  BY DEF Conf
<1>3. \/ stream[i] = "SP" /\ i = r.uri /\ Fail(400)
      \/ stream[i] = "SP" /\ i # r.uri /\ Go("REQ_VERSION", [r EXCEPT !.uriLen = i - r.uri])
      \/ stream[i] \in {"CR", "LF"} /\ Fail(400)
      \/ stream[i] \notin {"SP", "CR", "LF"} /\ Go("REQ_URI", r)
  BY DEF ReqUri
<1>4. OnUri(stream, Conf, i) =
        IF stream[i] = "SP"
        THEN IF i = r.uri THEN Refused(Conf, 400)
             ELSE Onward(Conf, "REQ_VERSION", [r EXCEPT !.uriLen = i - r.uri])
        ELSE IF stream[i] \in {"CR", "LF"} THEN Refused(Conf, 400)
        ELSE Onward(Conf, "REQ_URI", r)
  BY <1>2 DEF OnUri
<1> HIDE DEF r
<1>5. QED BY <1>1, <1>3, <1>4, FailConsumes, GoConsumes

\* REQ_VERSION reads what OnVersion says.
LEMMA VersionConsumes ==
    ASSUME IInv, ReqVersion PROVE Consumes(OnVersion(stream, Conf, i))
<1> DEFINE r == [req EXCEPT !.version = IF @ = 0 THEN i ELSE @]
           known == Text(stream, r.version, i - r.version) \in Versions
<1>1. pc = "parse" /\ i <= got
  BY DEF ReqVersion, At
<1>2. Conf.req = req
  BY DEF Conf
<1>3. Slice(r.version, i - r.version) = Text(stream, r.version, i - r.version)
  <2>1. got \in Nat /\ i \in Nat /\ req \in Request /\ req.version \in Nat
    BY TypeFacts DEF IInv, Typed, Types
  <2>2. r.version \in Nat
    BY <2>1 DEF Request
  <2> DEFINE n == i - r.version
  <2>3. \A k \in 1..n : r.version + k - 1 <= got
    BY <1>1, <2>1, <2>2
  <2>4. QED BY <2>3 DEF Slice, Text, Byte
<1>4. \/ stream[i] = "CR" /\ known /\ Go("REQ_LF", r)
      \/ stream[i] = "LF" /\ known /\ Go("HEADER_KEY", r)
      \/ stream[i] \in {"CR", "LF"} /\ ~known /\ Fail(505)
      \/ stream[i] \notin {"CR", "LF"} /\ Go("REQ_VERSION", r)
  BY <1>3 DEF ReqVersion
<1>5. OnVersion(stream, Conf, i) =
        IF stream[i] \in {"CR", "LF"} /\ ~known THEN Refused(Conf, 505)
        ELSE IF stream[i] = "CR" THEN Onward(Conf, "REQ_LF", r)
        ELSE IF stream[i] = "LF" THEN Onward(Conf, "HEADER_KEY", r)
        ELSE Onward(Conf, "REQ_VERSION", r)
  BY <1>2 DEF OnVersion
<1> HIDE DEF r, known
<1>6. QED BY <1>1, <1>4, <1>5, FailConsumes, GoConsumes

\* REQ_LF, HEADER_LF.
LEMMA LfConsumes ==
    ASSUME ReqLf PROVE Consumes(OnLf(stream, Conf, i))
<1>1. pc = "parse" /\ Conf.req = req
  BY DEF ReqLf, At, Conf
<1>2. (stream[i] = "LF" /\ Go("HEADER_KEY", req)) \/ (stream[i] # "LF" /\ Fail(400))
  BY DEF ReqLf
<1>3. QED BY <1>1, <1>2, FailConsumes, GoConsumes DEF OnLf

\* HEADER_LF reads what OnLineEnd says.
LEMMA LineEndConsumes ==
    ASSUME HeaderLf PROVE Consumes(OnLineEnd(stream, Conf, i))
<1>1. pc = "parse" /\ Conf.req = req
  BY DEF HeaderLf, At, Conf
<1>2. (stream[i] = "LF" /\ Go("HEADER_KEY", NextHeader(req))) \/ (stream[i] # "LF" /\ Fail(400))
  BY DEF HeaderLf
<1>3. QED BY <1>1, <1>2, FailConsumes, GoConsumes DEF OnLineEnd

\* The end of the head.
LEMMA BlankLineConsumes ==
    ASSUME IInv, pc = "parse", state \in {"HEADER_KEY", "HEADER_END"}, EnterBody
    PROVE  Consumes(OnBlankLine(stream, Conf, i))
<1>1. Types /\ Positions /\ Typed
  BY TypeFacts DEF IInv
<1>2. req \in Request /\ HasUri(req) /\ Conf.req = req /\ i \in Nat /\ req.contentLength \in Nat
  BY <1>1 DEF Types, Positions, HasUri, Conf, Typed
<1>3. \/ req.contentLength >= MaxRequestBytes - i /\ Fail(413)
      \/ ~(req.contentLength >= MaxRequestBytes - i) /\ req.contentLength = 0 /\ Complete(req)
      \/ /\ ~(req.contentLength >= MaxRequestBytes - i) /\ req.contentLength # 0
         /\ Go("BODY", [req EXCEPT !.body = i + 1])
  <2>1. req.contentLength < MaxRequestBytes - i => ~(req.contentLength >= MaxRequestBytes - i)
    BY <1>2, LimitFacts
  <2>2. QED BY <2>1 DEF EnterBody
<1>4. [req EXCEPT !.body = i + 1].body = i + 1
  BY <1>2 DEF Request
<1>5. QED BY <1>1, <1>2, <1>3, <1>4, FailConsumes, GoConsumes, CompleteConsumes DEF OnBlankLine

\* HEADER_END reads what OnHeadEnd says.
LEMMA HeadEndConsumes ==
    ASSUME IInv, HeaderEnd PROVE Consumes(OnHeadEnd(stream, Conf, i))
<1>1. pc = "parse" /\ state = "HEADER_END"
  BY DEF HeaderEnd, At
<1>2. (stream[i] = "LF" /\ EnterBody) \/ (stream[i] # "LF" /\ Fail(400))
  BY DEF HeaderEnd
<1>3. QED BY <1>1, <1>2, FailConsumes, BlankLineConsumes DEF OnHeadEnd

\* HEADER_KEY reads what OnKey says.
LEMMA KeyConsumes ==
    ASSUME IInv, HeaderKey PROVE Consumes(OnKey(stream, Conf, i))
<1>1. pc = "parse" /\ state = "HEADER_KEY" /\ Conf.req = req
  BY DEF HeaderKey, At, Conf
<1>2. Len(req.headers) \in Nat /\ MaxHeaders \in Nat
  BY TypeFacts, LimitFacts DEF IInv, Typed
<1> DEFINE r == [req EXCEPT !.h.name = i]
<1>3. \/ stream[i] = "CR" /\ Go("HEADER_END", req)
      \/ stream[i] = "LF" /\ EnterBody
      \/ stream[i] = "COLON" /\ Fail(400)
      \/ stream[i] \notin {"CR", "LF", "COLON"} /\ Len(req.headers) >= MaxHeaders /\ Fail(431)
      \/ stream[i] \notin {"CR", "LF", "COLON"} /\ ~(Len(req.headers) >= MaxHeaders) /\ Go("HEADER_NAME", r)
  <2>1. Len(req.headers) < MaxHeaders => ~(Len(req.headers) >= MaxHeaders)
    BY <1>2
  <2>2. QED BY <2>1 DEF HeaderKey
<1>4. OnKey(stream, Conf, i) =
        IF stream[i] = "CR" THEN Onward(Conf, "HEADER_END", req)
        ELSE IF stream[i] = "LF" THEN OnBlankLine(stream, Conf, i)
        ELSE IF stream[i] = "COLON" THEN Refused(Conf, 400)
        ELSE IF Len(req.headers) >= MaxHeaders THEN Refused(Conf, 431)
        ELSE Onward(Conf, "HEADER_NAME", r)
  BY <1>1 DEF OnKey
<1> HIDE DEF r
<1>5. QED BY <1>1, <1>3, <1>4, FailConsumes, GoConsumes, BlankLineConsumes

\* HEADER_NAME reads what OnName says.
LEMMA NameConsumes ==
    ASSUME HeaderName PROVE Consumes(OnName(stream, Conf, i))
<1>1. pc = "parse" /\ Conf.req = req
  BY DEF HeaderName, At, Conf
<1> DEFINE r == [req EXCEPT !.h.nameLen = i - req.h.name]
<1>2. \/ stream[i] \in Whitespace /\ Fail(400)
      \/ stream[i] = "COLON" /\ stream[i] \notin Whitespace /\ Go("HEADER_VALUE", r)
      \/ stream[i] # "COLON" /\ stream[i] \notin Whitespace /\ Go("HEADER_NAME", req)
  <2>1. "COLON" \notin Whitespace
    BY DEF Whitespace
  <2>2. QED BY <2>1, Zenon DEF HeaderName
<1>3. OnName(stream, Conf, i) =
        IF stream[i] \in Whitespace THEN Refused(Conf, 400)
        ELSE IF stream[i] = "COLON" THEN Onward(Conf, "HEADER_VALUE", r)
        ELSE Onward(Conf, "HEADER_NAME", req)
  BY <1>1 DEF OnName
<1> HIDE DEF r
<1>4. QED BY <1>1, <1>2, <1>3, FailConsumes, GoConsumes

\* The slices parse_header reads are parts of the stream.
LEMMA ParseHeaderIsTaken ==
    ASSUME IInv, state = "HEADER_VALUE", i <= got PROVE ParseHeader(req) = Taken(stream, req)
<1>0. Types /\ Learnt /\ Typed
  BY TypeFacts DEF IInv
<1>1. got \in Nat /\ i \in Nat /\ i >= 1 /\ req.h.name \in Nat /\ req.h \in Header /\ req.headers \in Seq(Header)
  BY <1>0 DEF Typed
<1>2. /\ Started(stream, req.headers, req.h.name)
      /\ Colon(req.h) < i /\ ValueOK(stream, req.h, i - 1)
  BY <1>0 DEF Learnt
<1>3. NameOf(req.h) = NameText(stream, req.h)
  <2>1. i <= got + 1
    BY <1>1
  <2>2. QED BY <1>0, <1>1, <1>2, <2>1, NameOfLine
<1>4. \A k \in DOMAIN req.headers : NameOf(req.headers[k]) = NameText(stream, req.headers[k])
  <2>1. TAKE k \in DOMAIN req.headers
  <2>2. PICK e \in 1..(req.h.name - 1) : Line(stream, req.headers[k], e)
    BY <1>2 DEF Started, Lines
  <2>3. req.headers[k] \in Header
    BY <1>1
  <2>4. Colon(req.headers[k]) < e
    BY <2>2 DEF Line
  <2>5. e \in Nat /\ e <= got + 1
    <3>1. req.h.nameLen \in Nat /\ req.h.name + req.h.nameLen < i
      BY <1>0, <1>2 DEF Colon, Typed
    <3>2. QED BY <1>1, <3>1
  <2>6. QED BY <1>0, <2>3, <2>4, <2>5, NameOfLine
<1>5. Slice(req.h.value, req.h.valueLen) = ValueText(stream, req.h)
  <2>1. i - 1 \in Nat /\ i - 1 <= got
    BY <1>1
  <2>2. QED BY <1>0, <1>1, <1>2, <2>1, ValueOfLine
<1>6. GetHeader(ContentLength) # {} <=>
         \E k \in DOMAIN req.headers : NameText(stream, req.headers[k]) = ContentLength
  BY <1>4 DEF GetHeader
<1>7. QED BY <1>3, <1>5, <1>6, Zenon DEF ParseHeader, Taken

\* HEADER_VALUE reads what OnValue says.
LEMMA ValueConsumes ==
    ASSUME IInv, HeaderValue PROVE Consumes(OnValue(stream, Conf, i))
<1>1. pc = "parse" /\ state = "HEADER_VALUE" /\ i <= got /\ Conf.req = req
  BY DEF HeaderValue, At, Conf
<1> DEFINE T == Taken(stream, req)
           t == CHOOSE r \in T : TRUE
           v == IF req.h.value = 0 THEN i ELSE req.h.value
           w == [req EXCEPT !.h.value = v, !.h.valueLen = i - v + 1]
<1>2. ParseHeader(req) = T
  BY <1>1, ParseHeaderIsTaken
<1>3. \A r \in T : r = t
  BY Zenon DEF Taken
<1>4. \/ stream[i] \in {"CR", "LF"} /\ T = {} /\ Fail(400)
      \/ stream[i] = "CR" /\ \E r \in T : Go("HEADER_LF", r)
      \/ stream[i] = "LF" /\ \E r \in T : Go("HEADER_KEY", NextHeader(r))
      \/ stream[i] \in Whitespace \ {"CR", "LF"} /\ Go("HEADER_VALUE", req)
      \/ stream[i] \notin Whitespace /\ Go("HEADER_VALUE", w)
  BY <1>2, Zenon DEF HeaderValue
<1>5. OnValue(stream, Conf, i) =
        IF stream[i] \in {"CR", "LF"}
        THEN IF T = {} THEN Refused(Conf, 400)
             ELSE IF stream[i] = "CR" THEN Onward(Conf, "HEADER_LF", t)
             ELSE Onward(Conf, "HEADER_KEY", NextHeader(t))
        ELSE IF stream[i] \in Whitespace THEN Onward(Conf, "HEADER_VALUE", req)
        ELSE Onward(Conf, "HEADER_VALUE", w)
  BY <1>1 DEF OnValue
<1> HIDE DEF T, t, w
<1>6. {"CR", "LF"} \subseteq Whitespace
  BY DEF Whitespace
<1>7. \/ stream[i] \in {"CR", "LF"} /\ T = {} /\ Fail(400)
      \/ stream[i] = "CR" /\ T # {} /\ Go("HEADER_LF", t)
      \/ stream[i] = "LF" /\ T # {} /\ Go("HEADER_KEY", NextHeader(t))
      \/ stream[i] \in Whitespace \ {"CR", "LF"} /\ Go("HEADER_VALUE", req)
      \/ stream[i] \notin Whitespace /\ Go("HEADER_VALUE", w)
  BY <1>3, <1>4, Zenon
<1>8. QED BY <1>1, <1>5, <1>6, <1>7, FailConsumes, GoConsumes

\* Every state of the head but the first reads its byte as OnByte says.
LEMMA HeadConsumes ==
    ASSUME IInv, pc = "parse", state \in HeadStates \ {"REQ_METHOD"}, ParseByte
    PROVE  i <= got /\ Consumes(OnByte(stream, Conf, i))
<1>1. Conf.state = state /\ "BODY" \notin HeadStates
  BY DEF Conf, HeadStates
<1>2. i \in Nat /\ MaxHeaderBytes \in Nat
  BY TypeFacts, LimitFacts DEF IInv, Typed
<1>3. CASE HeaderTooLarge
  <2>1. i <= got /\ i >= MaxHeaderBytes /\ Fail(431)
    BY <1>3 DEF HeaderTooLarge
  <2>2. QED BY <1>1, <2>1, FailConsumes DEF OnByte
<1>4. CASE ~HeaderTooLarge
  <2>1. i <= got /\ i < MaxHeaderBytes /\ ~(i >= MaxHeaderBytes)
    <3>1. i <= got /\ i < MaxHeaderBytes
      BY <1>1, <1>4 DEF ParseByte, ReqMethod, ReqUri, ReqVersion, ReqLf, HeaderKey, HeaderName,
                        HeaderValue, HeaderLf, HeaderEnd, Body, At
    <3>2. QED BY <1>2, <3>1
  <2>2. \/ state = "REQ_URI" /\ ReqUri
        \/ state = "REQ_VERSION" /\ ReqVersion
        \/ state = "REQ_LF" /\ ReqLf
        \/ state = "HEADER_KEY" /\ HeaderKey
        \/ state = "HEADER_NAME" /\ HeaderName
        \/ state = "HEADER_VALUE" /\ HeaderValue
        \/ state = "HEADER_LF" /\ HeaderLf
        \/ state = "HEADER_END" /\ HeaderEnd
    BY <1>1, <1>4 DEF ParseByte, ReqMethod, ReqUri, ReqVersion, ReqLf, HeaderKey, HeaderName,
                      HeaderValue, HeaderLf, HeaderEnd, Body, At
  <2>3. QED BY <1>1, <2>1, <2>2, UriConsumes, VersionConsumes, LfConsumes, KeyConsumes, NameConsumes,
               ValueConsumes, LineEndConsumes, HeadEndConsumes DEF OnByte
<1>5. QED BY <1>3, <1>4

\* The methods a stream begins with, and the position after the method.
Found(s) == ParseMethod(Text(s, 1, MethodPeek))
Known(s) == MethodPeek <= All(s) /\ Found(s) # {}
Begin(s) == Len(CHOOSE m \in Found(s) : TRUE) + 2

Opening == [state |-> "REQ_URI", status |-> 0, req |-> [Fresh EXCEPT !.method = 1]]

\* f[k] is the configuration after k bytes that follow the method.
IsRun(f, s) ==
    /\ f[0] = Opening
    /\ \A k \in 1..(All(s) + 1 - Begin(s)) : f[k] = OnByte(s, f[k - 1], Begin(s) + k - 1)

Run(s) == CHOOSE f : IsRun(f, s)

\* The configuration before byte p.
RunAt(s, p) == Run(s)[p - Begin(s)]

\* What comes out when there is no byte after those received.
Settled(s, c) ==
    IF c.state = "BODY"
    THEN IF c.req.body + c.req.contentLength <= All(s) + 1
         THEN Finished(s, [c.req EXCEPT !.bodyRead = c.req.contentLength])
         ELSE [c EXCEPT !.status = 400]
    ELSE IF c.state \in HeadStates THEN [c EXCEPT !.status = 400] ELSE c

Verdict(s) ==
    IF All(s) < MethodPeek THEN [state |-> "REQ_METHOD", status |-> 400, req |-> Fresh]
    ELSE IF Found(s) = {} THEN [state |-> "ERROR", status |-> 501, req |-> Fresh]
    ELSE Settled(s, RunAt(s, All(s) + 1))

Agrees(c, s) ==
    /\ c.status = Verdict(s).status /\ c.state = Verdict(s).state
    /\ c.state = "DONE" => c.req = Verdict(s).req

\* A property of the numbers up to n, by induction.
LEMMA UpTo ==
    ASSUME NEW n \in Nat, NEW G, 0 \in G, \A k \in 0..(n - 1) : k \in G => k + 1 \in G
    PROVE  \A k \in 0..n : k \in G
<1> SUFFICES ASSUME \E k \in 0..n : k \notin G PROVE FALSE
  OBVIOUS
<1> DEFINE B == {k \in 0..n : k \notin G}
<1>1. B # {} /\ B \subseteq Nat
  OBVIOUS
<1>2. PICK k \in B : \A j \in B : k <= j
  <2> HIDE DEF B
  <2>1. \E k \in B : \A j \in B : k <= j
    BY <1>1, Least
  <2>2. QED BY <2>1
<1>3. k # 0 /\ k \in 1..n
  OBVIOUS
<1>4. k - 1 \in 0..(n - 1) /\ k - 1 \in 0..n /\ k - 1 < k /\ (k - 1) + 1 = k
  BY <1>3
<1>5. k - 1 \in G
  BY <1>2, <1>4
<1>6. QED BY <1>4, <1>5

\* The method is unique: it has no space in it, and a space follows.
LEMMA MethodUnique ==
    ASSUME NEW s \in Seq(STRING), NEW m \in Found(s), NEW q \in Found(s) PROVE Len(m) = Len(q)
<1> DEFINE w == Text(s, 1, MethodPeek)
<1>1. ASSUME NEW a \in Found(s)
      PROVE  /\ Len(a) \in Nat /\ w[Len(a) + 1] = "SP" /\ \A k \in 1..Len(a) : w[k] # "SP"
  <2>1. a \in Methods /\ SubSeq(w, 1, Len(a) + 1) = Append(a, "SP")
    BY <1>1 DEF Found, ParseMethod
  <2>2. a \in Seq(STRING) /\ Len(a) \in Nat /\ \A k \in 1..Len(a) : a[k] # "SP"
    <3>1. a \in Seq(STRING) /\ \A k \in DOMAIN a : a[k] \notin {"SP", "LF"}
      BY <2>1, MethodsAssumption
    <3>2. QED BY <3>1
  <2> HIDE DEF w
  <2>3. \A x : \A n \in Nat : \A p \in 1..n : SubSeq(x, 1, n)[p] = x[p]
    OBVIOUS
  <2> DEFINE n == Len(a)
  <2>4. n + 1 \in Nat /\ n \in Nat /\ n + 1 \in 1..(n + 1) /\ \A k \in 1..n : k \in 1..(n + 1) /\ k # n + 1
    BY <2>2
  <2>5. \A p \in 1..(n + 1) : Append(a, "SP")[p] = IF p = n + 1 THEN "SP" ELSE a[p]
    BY <2>2
  <2>6. \A p \in 1..(n + 1) : w[p] = Append(a, "SP")[p]
    <3>1. \A p \in 1..(n + 1) : SubSeq(w, 1, n + 1)[p] = w[p]
      <4> HIDE DEF n
      <4> QED BY <2>3, <2>4
    <3>2. QED BY <2>1, <3>1
  <2> HIDE DEF n
  <2>7. w[n + 1] = "SP" /\ \A k \in 1..n : w[k] = a[k]
    BY <2>4, <2>5, <2>6
  <2>8. QED BY <2>2, <2>7 DEF n
<1> HIDE DEF w
<1>2. /\ Len(m) \in Nat /\ w[Len(m) + 1] = "SP" /\ \A k \in 1..Len(m) : w[k] # "SP"
      /\ Len(q) \in Nat /\ w[Len(q) + 1] = "SP" /\ \A k \in 1..Len(q) : w[k] # "SP"
  BY <1>1
<1>3. \A a, b \in Nat : a < b => a + 1 \in 1..b
  OBVIOUS
<1>4. ~(Len(m) < Len(q)) /\ ~(Len(q) < Len(m))
  BY <1>2, <1>3
<1>5. QED BY <1>2, <1>4

\* The position after the method is within what can be received.
LEMMA BeginFacts ==
    ASSUME NEW s \in Seq(STRING), Known(s)
    PROVE  /\ All(s) \in Nat /\ Begin(s) \in Nat /\ Begin(s) >= 2 /\ Begin(s) <= All(s) + 1
           /\ All(s) + 1 - Begin(s) \in Nat
           /\ \A m \in Found(s) : Begin(s) = Len(m) + 2
<1> DEFINE m == CHOOSE m \in Found(s) : TRUE
<1>1. m \in Found(s)
  BY DEF Known
<1>2. m \in Methods
  BY <1>1 DEF Found, ParseMethod
<1> HIDE DEF m
<1>3. m \in Seq(STRING) /\ Len(m) < MethodPeek
  BY <1>2, MethodsAssumption
<1>4. Len(m) \in Nat /\ All(s) \in Nat /\ MethodPeek \in Nat /\ MethodPeek <= All(s)
  BY <1>3, LimitFacts DEF All, Known
<1>5. Begin(s) = Len(m) + 2
  BY DEF Begin, m
<1>6. \A q \in Found(s) : Begin(s) = Len(q) + 2
  BY <1>1, <1>5, MethodUnique
<1>7. QED BY <1>3, <1>4, <1>5, <1>6

\* The run of a stream exists.
LEMMA RunExists ==
    ASSUME NEW s \in Seq(STRING), Known(s) PROVE IsRun(Run(s), s)
<1> DEFINE n == All(s) + 1 - Begin(s)
           b == Begin(s)
           Good(m, f) == f[0] = Opening /\ \A k \in 1..m : f[k] = OnByte(s, f[k - 1], b + k - 1)
           G == {m \in 0..n : \E f : Good(m, f)}
<1>1. n \in Nat
  BY BeginFacts
<1> HIDE DEF n
<1>2. 0 \in G
  <2>1. Good(0, [k \in {0} |-> Opening])
    OBVIOUS
  <2> HIDE DEF Good
  <2>2. QED BY <1>1, <2>1
<1>3. ASSUME NEW m \in 0..(n - 1), m \in G PROVE m + 1 \in G
  <2>1. PICK f : Good(m, f)
    BY <1>3
  <2> DEFINE g == [k \in 0..(m + 1) |-> IF k = m + 1 THEN OnByte(s, f[m], b + m) ELSE f[k]]
  <2>2. m \in Nat /\ m + 1 \in 0..n /\ 0 # m + 1 /\ 0 \in 0..(m + 1)
    BY <1>1
  <2>3. g[0] = Opening
    BY <2>1, <2>2
  <2>4. ASSUME NEW k \in 1..(m + 1) PROVE g[k] = OnByte(s, g[k - 1], b + k - 1)
    <3>1. k \in 0..(m + 1) /\ k - 1 \in 0..(m + 1) /\ k - 1 # m + 1
      BY <2>2
    <3>2. CASE k = m + 1
      <4>1. k - 1 = m /\ b + k - 1 = b + m
        <5>1. b \in Int
          BY BeginFacts
        <5> HIDE DEF b
        <5>2. QED BY <2>2, <3>2, <5>1
      <4>2. g[k] = OnByte(s, f[m], b + m) /\ g[k - 1] = f[m]
        BY <3>1, <3>2, <4>1
      <4> HIDE DEF g, b
      <4>3. QED BY <4>1, <4>2
    <3>3. CASE k # m + 1
      <4>1. k \in 1..m
        BY <2>2, <3>3
      <4>2. g[k] = f[k] /\ g[k - 1] = f[k - 1]
        BY <3>1, <3>3
      <4>3. f[k] = OnByte(s, f[k - 1], b + k - 1)
        BY <2>1, <4>1
      <4> HIDE DEF g, b
      <4>4. QED BY <4>2, <4>3
    <3>4. QED BY <3>2, <3>3
  <2>5. Good(m + 1, g)
    <3> HIDE DEF g
    <3> QED BY <2>3, <2>4
  <2> HIDE DEF g, Good
  <2>6. QED BY <2>2, <2>5
<1>4. n \in G
  <2> HIDE DEF G
  <2>1. \A k \in 0..n : k \in G
    BY <1>1, <1>2, <1>3, UpTo
  <2>2. QED BY <1>1, <2>1
<1>5. \E f : Good(n, f)
  BY <1>4
<1>6. \E f : IsRun(f, s)
  BY <1>5, Zenon DEF IsRun, n
<1>7. QED BY <1>6 DEF Run

\* The run byte by byte.
LEMMA RunFacts ==
    ASSUME NEW s \in Seq(STRING), Known(s)
    PROVE  /\ RunAt(s, Begin(s)) = Opening
           /\ \A p \in Begin(s)..All(s) : RunAt(s, p + 1) = OnByte(s, RunAt(s, p), p)
<1> DEFINE f == Run(s)
           b == Begin(s)
           a == All(s)
<1>1. IsRun(f, s)
  BY RunExists
<1>2. a \in Nat /\ b \in Nat
  BY BeginFacts
<1>3. f[0] = Opening /\ \A k \in 1..(a + 1 - b) : f[k] = OnByte(s, f[k - 1], b + k - 1)
  BY <1>1 DEF IsRun
<1>4. RunAt(s, Begin(s)) = f[b - b] /\ \A p : RunAt(s, p) = f[p - b]
  BY DEF RunAt
<1> HIDE DEF f, a, b
<1>5. b - b = 0
  BY <1>2
<1>6. ASSUME NEW p \in b..a PROVE f[(p + 1) - b] = OnByte(s, f[p - b], p)
  <2>1. (p + 1) - b \in 1..(a + 1 - b) /\ ((p + 1) - b) - 1 = p - b /\ b + ((p + 1) - b) - 1 = p
    BY <1>2
  <2>2. QED BY <1>3, <2>1
<1>7. RunAt(s, Begin(s)) = Opening
  BY <1>3, <1>4, <1>5
<1>8. ASSUME NEW p \in b..a PROVE RunAt(s, p + 1) = OnByte(s, RunAt(s, p), p)
  <2>1. RunAt(s, p + 1) = f[(p + 1) - b] /\ RunAt(s, p) = f[p - b]
    BY DEF RunAt, f, b
  <2>2. QED BY <1>6, <2>1
<1>9. QED BY <1>7, <1>8 DEF a, b

\* Outside of the head nothing changes any more.
LEMMA RunStops ==
    ASSUME NEW s \in Seq(STRING), Known(s), NEW p \in Begin(s)..(All(s) + 1),
           RunAt(s, p).state \notin HeadStates
    PROVE  RunAt(s, All(s) + 1) = RunAt(s, p)
<1> DEFINE a == All(s)
           n == a + 1 - p
           G == {k \in 0..n : RunAt(s, p + k) = RunAt(s, p)}
<1>1. a \in Nat /\ Begin(s) \in Nat /\ p \in Nat /\ n \in Nat /\ p + n = a + 1 /\ p + 0 = p
  BY BeginFacts
<1>2. 0 \in G
  BY <1>1
<1>3. ASSUME NEW k \in 0..(n - 1), k \in G PROVE k + 1 \in G
  <2>1. p + k \in Begin(s)..a /\ p + (k + 1) = (p + k) + 1 /\ k + 1 \in 0..n
    BY <1>1
  <2>2. RunAt(s, (p + k) + 1) = OnByte(s, RunAt(s, p + k), p + k)
    BY <2>1, RunFacts
  <2>3. RunAt(s, p + k) = RunAt(s, p)
    BY <1>3
  <2>4. RunAt(s, (p + k) + 1) = RunAt(s, p)
    BY <2>2, <2>3 DEF OnByte
  <2>5. QED BY <2>1, <2>4
<1>4. n \in G
  <2> HIDE DEF G, n
  <2>1. \A k \in 0..n : k \in G
    BY <1>1, <1>2, <1>3, UpTo
  <2>2. QED BY <1>1, <2>1
<1>5. QED BY <1>1, <1>4

\* Where a run of the parser is in the run of its stream.
Follows ==
    /\ got <= All(stream)
    /\ pc # "done" => status = 0
    /\ pc # "done" /\ state = "REQ_METHOD" =>
           /\ req \in {Fresh, [Fresh EXCEPT !.method = 1]}
           /\ pc = "parse" => i <= MethodPeek
    /\ pc # "done" /\ state \in HeadStates \ {"REQ_METHOD"} =>
           Known(stream) /\ i >= Begin(stream) /\ RunAt(stream, i) = Conf
    /\ pc # "done" /\ state = "BODY" =>
           /\ Known(stream) /\ req.body \in Begin(stream)..(All(stream) + 1)
           /\ RunAt(stream, req.body) = [Conf EXCEPT !.req.bodyRead = 0]

\* A run that has not returned follows the run of its stream, and returns what
\* that leads to.
Right == Follows /\ (pc = "done" => Agrees(Conf, stream))

\* The numbers of a stream.
LEMMA AllFacts ==
    ASSUME Typed PROVE All(stream) \in Nat /\ All(stream) <= Len(stream) /\ All(stream) <= MaxRequestBytes
BY LimitFacts DEF All, Typed

\* recv.
LEMMA RecvFollows ==
    ASSUME IInv, Follows, NEW n \in 1..Len(stream), Recv(n) PROVE Right'
<1> USE DEF Recv
<1>1. Typed /\ Positions
  BY TypeFacts DEF IInv
<1>2. got \in Nat /\ i \in Nat /\ n \in Nat /\ Len(stream) \in Nat
  BY <1>1 DEF Typed
<1>3. got' <= All(stream')
  BY <1>2, LimitFacts DEF All
<1>4. ASSUME state = "REQ_METHOD" PROVE i' <= MethodPeek
  <2>1. got = 0 \/ got < MethodPeek
    BY <1>1, <1>4 DEF Positions
  <2>2. QED BY <1>2, <2>1, LimitsAssumption
<1>5. ASSUME state \in HeadStates \ {"REQ_METHOD"} PROVE i' = i
  <2>1. state \notin {"REQ_METHOD", "BODY"}
    BY <1>5 DEF HeadStates
  <2>2. QED BY <1>1, <2>1 DEF Positions
<1>6. Conf' = Conf
  BY DEF Conf
<1>7. QED BY <1>3, <1>4, <1>5, <1>6 DEF Follows, Right

\* The end of a chunk.
LEMMA ChunkEndsFollows ==
    ASSUME IInv, Follows, ChunkEnds PROVE Right'
<1>1. Conf' = Conf
  BY DEF Conf, ChunkEnds
<1>2. QED BY <1>1 DEF Follows, ChunkEnds, Right

\* The stream ends.
LEMMA NothingFollows ==
    ASSUME IInv, Follows, RecvNothing PROVE Right'
<1> USE DEF RecvNothing, Return
<1>0. Types /\ Typed /\ Positions /\ Learnt
  BY TypeFacts DEF IInv
<1>1. got \in Nat /\ got = All(stream)
  BY <1>0, AllFacts, LimitFacts DEF Typed, Follows, All
<1>2. Follows'
  BY DEF Follows
<1>3. Conf' = [Conf EXCEPT !.status = 400] /\ Conf'.state = state /\ Conf'.status = 400 /\ stream' = stream
  BY DEF Conf
<1>4. CASE state = "REQ_METHOD"
  <2>1. got < MethodPeek
    BY <1>0, <1>4, LimitsAssumption DEF Positions
  <2>2. QED BY <1>1, <1>2, <1>3, <1>4, <2>1 DEF Verdict, Agrees, Right
<1>5. CASE state \in HeadStates \ {"REQ_METHOD"}
  <2>1. i = All(stream) + 1
    BY <1>0, <1>1, <1>5 DEF Positions, HeadStates
  <2>2. Known(stream) /\ RunAt(stream, All(stream) + 1) = Conf
    BY <1>5, <2>1 DEF Follows
  <2>3. Verdict(stream) = Settled(stream, Conf)
    BY <1>0, <2>2, AllFacts, LimitFacts DEF Verdict, Known
  <2>4. Settled(stream, Conf) = [Conf EXCEPT !.status = 400]
    BY <1>5 DEF Settled, Conf, HeadStates
  <2>5. QED BY <1>2, <1>3, <2>3, <2>4 DEF Agrees, Right
<1>6. CASE state = "BODY"
  <2> DEFINE c == [Conf EXCEPT !.req.bodyRead = 0]
  <2>1. /\ Known(stream) /\ req.body \in Begin(stream)..(All(stream) + 1)
        /\ RunAt(stream, req.body) = c
    BY <1>6 DEF Follows
  <2>2. /\ c.state = "BODY" /\ c.req.body = req.body /\ c.req.contentLength = req.contentLength
        /\ "BODY" \notin HeadStates
    BY <1>0, <1>6 DEF Conf, Types, Request, HeadStates
  <2> HIDE DEF c
  <2>3. RunAt(stream, All(stream) + 1) = c
    BY <1>0, <2>1, <2>2, RunStops DEF Typed
  <2>4. Verdict(stream) = Settled(stream, c)
    BY <1>0, <2>1, <2>3, AllFacts, LimitFacts DEF Verdict, Known
  <2>5. ~(req.body + req.contentLength <= All(stream) + 1)
    <3>1. /\ req.bodyRead < req.contentLength /\ req.bodyRead = got + 1 - req.body
          /\ req.body \in Nat /\ req.contentLength \in Nat
      BY <1>0, <1>6 DEF Learnt, Typed
    <3>2. QED BY <1>1, <3>1
  <2>6. Settled(stream, c) = [c EXCEPT !.status = 400]
    BY <2>2, <2>5 DEF Settled
  <2>7. [c EXCEPT !.status = 400].state = "BODY" /\ [c EXCEPT !.status = 400].status = 400
    BY <1>6 DEF c, Conf
  <2>8. Verdict(stream).state = "BODY" /\ Verdict(stream).status = 400
    BY <2>4, <2>6, <2>7
  <2>9. QED BY <1>2, <1>3, <1>6, <2>8 DEF Agrees, Right
<1>7. state \notin {"DONE", "ERROR"}
  BY <1>0 DEF Positions
<1>8. QED BY <1>0, <1>4, <1>5, <1>6, <1>7 DEF Types

\* A byte of the head after the method.
LEMMA HeadFollows ==
    ASSUME IInv, Follows, pc = "parse", state \in HeadStates \ {"REQ_METHOD"}, ParseByte
    PROVE  Right'
<1>0. Types /\ Typed /\ Positions /\ Learnt
  BY TypeFacts DEF IInv
<1> DEFINE s == stream
<1>1. i <= got /\ Consumes(OnByte(s, Conf, i))
  BY HeadConsumes
<1>2. Known(s) /\ i >= Begin(s) /\ RunAt(s, i) = Conf /\ got <= All(s) /\ status = 0
  BY DEF Follows
<1>3. /\ All(s) \in Nat /\ i \in Nat /\ got \in Nat /\ Begin(s) \in Nat /\ s \in Seq(STRING)
      /\ All(s) <= Len(s) /\ i \in Begin(s)..All(s)
      /\ i + 1 \in Begin(s)..(All(s) + 1)
  <2>1. All(s) \in Nat /\ i \in Nat /\ got \in Nat /\ s \in Seq(STRING) /\ All(s) <= Len(s)
    BY <1>0, AllFacts DEF Typed
  <2>2. Begin(s) \in Nat
    BY <1>2, <2>1, BeginFacts
  <2>3. QED BY <1>1, <1>2, <2>1, <2>2
<1>4. RunAt(s, i + 1) = OnByte(s, Conf, i)
  BY <1>2, <1>3, RunFacts
<1>5. RunAt(s, i + 1) = Conf' /\ stream' = s /\ got' = got
  BY <1>1, <1>4 DEF Consumes
<1>6. CASE /\ pc' = "parse" /\ i' = i + 1 /\ status' = status
           /\ state' \notin {"DONE", "ERROR", "REQ_METHOD"}
           /\ state' = "BODY" => req'.body = i + 1
  <2>1. RunAt(s, i') = Conf' /\ status' = 0 /\ i' >= Begin(s)
    BY <1>2, <1>3, <1>5, <1>6
  <2>2. ASSUME state' = "BODY"
        PROVE  /\ req'.body \in Begin(s)..(All(s) + 1)
               /\ RunAt(s, req'.body) = [Conf EXCEPT !.req.bodyRead = 0]'
    <3>1. req'.body = i + 1
      BY <1>6, <2>2
    <3>2. Next /\ IInv'
      BY NextIInv DEF Next
    <3>3. req' \in Request /\ req'.bodyRead = i' - req'.body
      BY <1>6, <2>2, <3>2 DEF IInv, Types, Learnt
    <3>4. req'.bodyRead = 0
      BY <1>3, <1>6, <3>1, <3>3
    <3>5. [req' EXCEPT !.bodyRead = 0] = req'
      BY <3>3, <3>4 DEF Request
    <3>6. [Conf EXCEPT !.req.bodyRead = 0]' = Conf'
      BY <3>5 DEF Conf
    <3>7. QED BY <1>3, <1>5, <3>1, <3>6
  <2>3. Follows'
    BY <1>2, <1>5, <1>6, <2>1, <2>2 DEF Follows
  <2>4. QED BY <1>6, <2>3 DEF Right
<1>7. CASE pc' = "done" /\ state' \in {"DONE", "ERROR"}
  <2>1. Conf'.state \notin HeadStates /\ Conf'.state \notin {"BODY"}
    BY <1>7 DEF Conf, HeadStates
  <2>2. RunAt(s, All(s) + 1) = Conf'
    <3>1. RunAt(s, i + 1).state \notin HeadStates
      BY <1>5, <2>1
    <3>2. RunAt(s, All(s) + 1) = RunAt(s, i + 1)
      BY <1>2, <1>3, <3>1, RunStops
    <3>3. QED BY <1>5, <3>2
  <2>3. Verdict(s) = Settled(s, Conf')
    BY <1>2, <1>3, <2>2, LimitFacts DEF Verdict, Known
  <2>4. Settled(s, Conf') = Conf'
    BY <2>1 DEF Settled
  <2>5. Agrees(Conf', s)
    BY <2>3, <2>4 DEF Agrees
  <2>6. Follows'
    BY <1>2, <1>5, <1>7 DEF Follows
  <2>7. QED BY <1>5, <2>5, <2>6 DEF Right
<1>8. QED BY <1>1, <1>6, <1>7 DEF Consumes

\* The method.
LEMMA MethodFollows ==
    ASSUME IInv, Follows, pc = "parse", state = "REQ_METHOD", ParseByte
    PROVE  Right'
<1>0. Types /\ Typed /\ Positions /\ Learnt
  BY TypeFacts DEF IInv
<1>1. /\ got \in Nat /\ i \in Nat /\ i >= 1 /\ stream \in Seq(STRING) /\ All(stream) \in Nat
      /\ got <= All(stream) /\ status = 0 /\ i <= MethodPeek
  BY <1>0, AllFacts DEF Typed, Follows
<1>2. ReqMethod
  <2>1. ~(i >= MaxHeaderBytes)
    BY <1>1, LimitFacts
  <2>2. QED BY <2>1 DEF ParseByte, HeaderTooLarge, ReqUri, ReqVersion, ReqLf, HeaderKey, HeaderName,
                         HeaderValue, HeaderLf, HeaderEnd, Body, At
<1>3. (IF req.method = 0 THEN i ELSE req.method) = 1
  BY <1>0 DEF Positions
<1> DEFINE r == [req EXCEPT !.method = 1]
<1>4. r = [Fresh EXCEPT !.method = 1]
  <2>1. req = Fresh \/ req = [Fresh EXCEPT !.method = 1]
    BY DEF Follows
  <2>2. QED BY <2>1 DEF Fresh
<1>5. \/ NotAllArrived(1) /\ pc' = "recv" /\ Keep(r) /\ UNCHANGED <<i, state, status>>
      \/ ~NotAllArrived(1) /\ ParseMethod(Slice(1, MethodPeek)) = {} /\ Fail(501)
      \/ /\ ~NotAllArrived(1)
         /\ \E m \in ParseMethod(Slice(1, MethodPeek)) : i' = 1 + Len(m) + 1
         /\ state' = "REQ_URI" /\ Keep(r) /\ UNCHANGED <<pc, status>>
  <2> DEFINE at == IF req.method = 0 THEN i ELSE req.method
  <2>1. \/ NotAllArrived(at) /\ pc' = "recv" /\ Keep([req EXCEPT !.method = at])
           /\ UNCHANGED <<i, state, status>>
        \/ ~NotAllArrived(at) /\ ParseMethod(Slice(at, MethodPeek)) = {} /\ Fail(501)
        \/ /\ ~NotAllArrived(at)
           /\ \E m \in ParseMethod(Slice(at, MethodPeek)) : i' = at + Len(m) + 1
           /\ state' = "REQ_URI" /\ Keep([req EXCEPT !.method = at]) /\ UNCHANGED <<pc, status>>
    BY <1>2, Zenon DEF ReqMethod
  <2>2. at = 1
    BY <1>3
  <2> HIDE DEF at
  <2>3. \/ NotAllArrived(1) /\ pc' = "recv" /\ Keep([req EXCEPT !.method = 1])
           /\ UNCHANGED <<i, state, status>>
        \/ ~NotAllArrived(1) /\ ParseMethod(Slice(1, MethodPeek)) = {} /\ Fail(501)
        \/ /\ ~NotAllArrived(1)
           /\ \E m \in ParseMethod(Slice(1, MethodPeek)) : i' = 1 + Len(m) + 1
           /\ state' = "REQ_URI" /\ Keep([req EXCEPT !.method = 1]) /\ UNCHANGED <<pc, status>>
    BY <2>1, <2>2
  <2>4. QED BY <2>3
<1> HIDE DEF r
<1>6. ASSUME ~NotAllArrived(1)
      PROVE  MethodPeek <= All(stream) /\ Found(stream) = ParseMethod(Slice(1, MethodPeek))
  <2>1. MethodPeek <= got
    BY <1>1, <1>6, LimitFacts DEF NotAllArrived
  <2>2. Slice(1, MethodPeek) = Text(stream, 1, MethodPeek)
    <3>1. 1 + MethodPeek <= got + 1
      BY <1>1, <2>1, LimitFacts
    <3>2. QED BY <1>1, <3>1, LimitFacts, SliceIsText
  <2>3. MethodPeek <= All(stream)
    BY <1>1, <2>1, LimitFacts
  <2>4. QED BY <2>2, <2>3 DEF Found
<1>7. CASE NotAllArrived(1) /\ pc' = "recv" /\ Keep(r) /\ UNCHANGED <<i, state, status>>
  BY <1>1, <1>4, <1>7 DEF Follows, Right, Keep, HeadStates
<1>8. CASE ~NotAllArrived(1) /\ ParseMethod(Slice(1, MethodPeek)) = {} /\ Fail(501)
  <2>1. Verdict(stream) = [state |-> "ERROR", status |-> 501, req |-> Fresh]
    BY <1>1, <1>6, <1>8, LimitFacts DEF Verdict
  <2>2. Conf'.state = "ERROR" /\ Conf'.status = 501 /\ stream' = stream /\ pc' = "done" /\ got' = got
    BY <1>8 DEF Conf, Fail, Return, Keep
  <2>3. Agrees(Conf', stream)
    BY <2>1, <2>2 DEF Agrees
  <2>4. Follows'
    BY <1>1, <2>2 DEF Follows
  <2>5. QED BY <2>2, <2>3, <2>4 DEF Right
<1>9. CASE /\ ~NotAllArrived(1)
           /\ \E m \in ParseMethod(Slice(1, MethodPeek)) : i' = 1 + Len(m) + 1
           /\ state' = "REQ_URI" /\ Keep(r) /\ UNCHANGED <<pc, status>>
  <2>1. PICK m \in Found(stream) : i' = 1 + Len(m) + 1
    BY <1>6, <1>9
  <2>2. Known(stream)
    BY <1>6, <1>9, <2>1 DEF Known
  <2>3. Begin(stream) = Len(m) + 2 /\ Begin(stream) \in Nat /\ Begin(stream) >= 2
    BY <1>1, <2>1, <2>2, BeginFacts
  <2>4. i' = Begin(stream) /\ i' >= Begin(stream)
    <3>1. Len(m) \in Int
      <4>1. m \in Methods
        BY <2>1 DEF Found, ParseMethod
      <4>2. QED BY <4>1, MethodsAssumption
    <3>2. QED BY <2>1, <2>3, <3>1
  <2>5. Conf' = Opening
    BY <1>1, <1>4, <1>9 DEF Conf, Opening, Keep
  <2>6. RunAt(stream, i') = Conf'
    BY <1>1, <2>2, <2>4, <2>5, RunFacts
  <2>7. /\ pc' = "parse" /\ state' = "REQ_URI" /\ stream' = stream /\ got' = got /\ status' = 0
    BY <1>1, <1>9 DEF Keep
  <2>8. QED BY <1>1, <2>2, <2>4, <2>6, <2>7 DEF Follows, Right
<1>10. QED BY <1>5, <1>7, <1>8, <1>9

\* The body.
LEMMA BodyFollows ==
    ASSUME IInv, Follows, pc = "parse", state = "BODY", ParseByte
    PROVE  Right'
<1>0. Types /\ Typed /\ Positions /\ Learnt
  BY TypeFacts DEF IInv
<1> DEFINE s == stream
           c == [Conf EXCEPT !.req.bodyRead = 0]
<1>1. Body
  BY DEF ParseByte, HeaderTooLarge, ReqMethod, ReqUri, ReqVersion, ReqLf, HeaderKey, HeaderName,
         HeaderValue, HeaderLf, HeaderEnd, At, HeadStates
<1>2. /\ Known(s) /\ req.body \in Begin(s)..(All(s) + 1) /\ RunAt(s, req.body) = c
      /\ got <= All(s) /\ status = 0
  BY DEF Follows
<1>3. /\ got \in Nat /\ i \in Nat /\ req.body \in Nat /\ req.contentLength \in Nat /\ req.bodyRead \in Nat
      /\ s \in Seq(STRING) /\ All(s) \in Nat
  BY <1>0, AllFacts DEF Typed
<1>4. /\ req \in Request /\ HasUri(req) /\ i <= got
      /\ req.bodyRead < req.contentLength /\ req.bodyRead = i - req.body /\ req.body <= i
  BY <1>0, <1>1 DEF Types, HasUri, Positions, Learnt, Body, At
<1> DEFINE remaining == req.contentLength - req.bodyRead
           available == got - i + 1
           read == req.bodyRead + (IF available < remaining THEN available ELSE remaining)
           r == [req EXCEPT !.bodyRead = read]
<1>5. \/ read = req.contentLength /\ Complete(r)
      \/ read # req.contentLength /\ pc' = "recv" /\ Keep(r) /\ UNCHANGED <<i, state, status>>
  BY <1>1, Zenon DEF Body
<1>6. /\ read \in Nat
      /\ read = req.contentLength => req.body + req.contentLength <= got + 1
  <2>1. \A g, k, b, l, d \in Nat :
          k <= g /\ d < l /\ b <= k /\ d = k - b =>
              LET t == d + (IF g - k + 1 < l - d THEN g - k + 1 ELSE l - d)
              IN  t \in Nat /\ (t = l => b + l <= g + 1)
    OBVIOUS
  <2>2. QED BY <1>3, <1>4, <2>1
<1> HIDE DEF read
<1>7. /\ r \in Request /\ HasUri(r) /\ r.body = req.body
      /\ [r EXCEPT !.bodyRead = 0] = [req EXCEPT !.bodyRead = 0]
  BY <1>4, <1>6 DEF Request, HasUri
<1>8. /\ c.state = "BODY" /\ c.status = 0 /\ c.req = [req EXCEPT !.bodyRead = 0]
      /\ c.req.body = req.body /\ c.req.contentLength = req.contentLength
      /\ "BODY" \notin HeadStates
  BY <1>2, <1>4 DEF Conf, Request, HeadStates
<1>9. CASE read = req.contentLength /\ Complete(r)
  <2>1. r = [c.req EXCEPT !.bodyRead = c.req.contentLength]
    BY <1>4, <1>8, <1>9 DEF Request
  <2> HIDE DEF r, c
  <2>2. Consumes(Finished(s, r))
    BY <1>0, <1>7, <1>9, CompleteConsumes
  <2>3. RunAt(s, All(s) + 1) = c
    BY <1>2, <1>3, <1>8, RunStops
  <2>4. Verdict(s) = Settled(s, c)
    BY <1>2, <1>3, <2>3, LimitFacts DEF Verdict, Known
  <2>5. req.body + req.contentLength <= All(s) + 1
    BY <1>2, <1>3, <1>6, <1>9
  <2>6. Settled(s, c) = Finished(s, r)
    BY <1>8, <2>1, <2>5 DEF Settled
  <2>7. Conf' = Finished(s, r) /\ stream' = s /\ got' = got /\ pc' = "done"
    BY <1>9, <2>2 DEF Consumes, Complete, Return
  <2>8. Agrees(Conf', s)
    BY <2>4, <2>6, <2>7 DEF Agrees
  <2>9. Follows'
    BY <1>2, <2>7 DEF Follows
  <2>10. QED BY <2>7, <2>8, <2>9 DEF Right
<1>10. CASE read # req.contentLength /\ pc' = "recv" /\ Keep(r) /\ UNCHANGED <<i, state, status>>
  <2>1. stream' = s /\ got' = got /\ state' = "BODY" /\ status' = 0 /\ req' = r /\ pc' = "recv"
    BY <1>2, <1>10 DEF Keep
  <2> HIDE DEF r
  <2>2. [Conf EXCEPT !.req.bodyRead = 0]' = c
    BY <1>2, <1>7, <2>1 DEF Conf
  <2>3. req'.body = req.body
    BY <1>7, <2>1
  <2> HIDE DEF c
  <2>4. Follows'
    BY <1>2, <1>8, <2>1, <2>2, <2>3 DEF Follows, HeadStates
  <2>5. QED BY <2>1, <2>4 DEF Right
<1>11. QED BY <1>5, <1>9, <1>10

\* What holds of the two runs.
ChunkIInv ==
    /\ IInv
    /\ Follows
    /\ pc = "done" => Agrees(Conf, stream) \/ (status = 500 /\ once # NotYet)
    /\ once # NotYet => Agrees(once, stream)

\* A byte in any state.
LEMMA ParseByteFollows ==
    ASSUME IInv, Follows, ParseByte PROVE Right'
<1>1. pc = "parse"
  BY DEF ParseByte, HeaderTooLarge, ReqMethod, ReqUri, ReqVersion, ReqLf, HeaderKey, HeaderName,
         HeaderValue, HeaderLf, HeaderEnd, Body, At
<1>2. Types /\ Positions
  BY DEF IInv
<1>3. state \in (HeadStates \ {"REQ_METHOD"}) \cup {"REQ_METHOD", "BODY"}
  BY <1>1, <1>2 DEF Types, Positions
<1>4. QED BY <1>1, <1>3, HeadFollows, MethodFollows, BodyFollows

\* The first run begins.
LEMMA ChunksBegin == ChunksInit => ChunkIInv
<1> SUFFICES ASSUME ChunksInit PROVE ChunkIInv
  OBVIOUS
<1>1. IInv
  BY InitIInv DEF ChunksInit
<1>2. All(stream) \in Nat
  BY <1>1, TypeFacts, AllFacts DEF IInv
<1>3. QED BY <1>1, <1>2, LimitsAssumption DEF ChunksInit, Init, ChunkIInv, Follows, HeadStates

\* A step of the first run.
LEMMA UncutKeeps == ASSUME ChunkIInv, Uncut PROVE ChunkIInv'
<1>1. IInv /\ Follows /\ once' = once /\ once = NotYet
  BY DEF ChunkIInv, Uncut
<1>2. Types /\ Typed
  BY <1>1, TypeFacts DEF IInv
<1>3. CASE AllAtOnce # 0 /\ Recv(AllAtOnce)
  <2>1. AllAtOnce \in 1..Len(stream)
    BY <1>2, <1>3, LimitFacts DEF AllAtOnce, Typed
  <2>2. Right'
    BY <1>1, <1>3, <2>1, RecvFollows
  <2>3. Next
    BY <1>3, <2>1 DEF Next
  <2>4. IInv'
    BY <1>1, <2>3, NextIInv
  <2>5. QED BY <1>1, <2>2, <2>4 DEF Right, ChunkIInv
<1>4. CASE RecvNothing \/ ChunkEnds \/ ParseByte
  <2>1. Right'
    BY <1>1, <1>4, NothingFollows, ChunkEndsFollows, ParseByteFollows
  <2>2. Next
    BY <1>4 DEF Next
  <2>3. IInv'
    BY <1>1, <2>2, NextIInv
  <2>4. QED BY <1>1, <2>1, <2>3 DEF Right, ChunkIInv
<1>5. QED BY <1>3, <1>4 DEF Uncut

\* The second run begins.
LEMMA AgainKeeps == ASSUME ChunkIInv, Again PROVE ChunkIInv'
<1>1. IInv /\ Follows /\ once = NotYet /\ pc = "done" /\ stream' = stream /\ Agrees(Conf, stream)
  BY DEF ChunkIInv, Again
<1>2. Types /\ Typed
  BY <1>1, TypeFacts DEF IInv
<1>3. Init'
  BY <1>1, <1>2 DEF Init, Again, Types
<1>4. IInv'
  BY <1>3, InitIInv, PTL
<1>5. Agrees(once', stream)
  BY <1>1 DEF Again, Agrees, Conf
<1>6. All(stream') \in Nat
  BY <1>1, <1>2, AllFacts
<1>7. QED BY <1>1, <1>3, <1>4, <1>5, <1>6, LimitsAssumption DEF Init, ChunkIInv, Follows, HeadStates

\* A step of the second run.
LEMMA CutKeeps == ASSUME ChunkIInv, Cut PROVE ChunkIInv'
<1>1. IInv /\ Follows /\ once' = once /\ once # NotYet /\ Next /\ Agrees(once, stream)
  BY DEF ChunkIInv, Cut
<1>2. IInv'
  BY <1>1, NextIInv
<1>3. stream' = stream
  BY <1>1 DEF Next, Recv, RecvNothing, RecvFails, ChunkEnds, Returned, vars, ParseByte, HeaderTooLarge,
       ReqMethod, ReqUri, ReqVersion, ReqLf, HeaderKey, HeaderName, HeaderValue, HeaderLf, HeaderEnd,
       Body, EnterBody, Go, Fail, Complete, Keep
<1>4. CASE Right'
  BY <1>1, <1>2, <1>3, <1>4 DEF Right, ChunkIInv
<1>5. CASE RecvFails
  <2>1. Follows' /\ status' = 500
    BY <1>1, <1>5 DEF RecvFails, Return, Follows
  <2>2. QED BY <1>1, <1>2, <1>3, <2>1 DEF ChunkIInv
<1>6. CASE Returned
  <2>1. Follows' /\ Conf' = Conf
    BY <1>1, <1>6 DEF Returned, vars, Follows, Conf
  <2>2. QED BY <1>1, <1>2, <1>3, <1>6, <2>1 DEF ChunkIInv, Returned, vars
<1>7. QED BY <1>1, <1>4, <1>5, <1>6, RecvFollows, NothingFollows, ChunkEndsFollows, ParseByteFollows DEF Next

\* What holds of the two runs holds of every stream, however it is cut.
THEOREM ChunksInvariance == ChunksSpec => []ChunkIInv
<1>1. ChunkIInv /\ [ChunksNext]_<<vars, once>> => ChunkIInv'
  <2> SUFFICES ASSUME ChunkIInv, [ChunksNext]_<<vars, once>> PROVE ChunkIInv'
    OBVIOUS
  <2>1. CASE UNCHANGED <<vars, once>>
    <3>1. IInv'
      BY <2>1, NextIInv DEF ChunkIInv
    <3>2. Follows' /\ Conf' = Conf /\ stream' = stream /\ once' = once /\ pc' = pc /\ status' = status
      BY <2>1 DEF ChunkIInv, vars, Follows, Conf
    <3>3. QED BY <3>1, <3>2 DEF ChunkIInv
  <2>2. QED BY <2>1, UncutKeeps, AgainKeeps, CutKeeps DEF ChunksNext
<1>2. QED BY <1>1, ChunksBegin, PTL DEF ChunksSpec

\* What a request means does not depend on how the network cuts it up: both
\* runs return what the stream alone determines (parse_chunk,
\* http_request.c:155-470).
THEOREM ChunksAreIrrelevant == ChunksSpec => []ChunksDoNotMatter
<1>1. ChunkIInv => ChunksDoNotMatter
  <2> SUFFICES ASSUME ChunkIInv, once # NotYet, pc = "done", status # 500
               PROVE  /\ status = once.status /\ state = once.state
                      /\ Accepted => req = once.req
    BY DEF ChunksDoNotMatter
  <2>1. Agrees(Conf, stream) /\ Agrees(once, stream)
    BY DEF ChunkIInv
  <2>2. /\ status = Verdict(stream).status /\ state = Verdict(stream).state
        /\ state = "DONE" => req = Verdict(stream).req
    BY <2>1 DEF Agrees, Conf
  <2>3. QED BY <2>1, <2>2 DEF Agrees, Accepted
<1>2. QED BY <1>1, ChunksInvariance, PTL
=============================================================================
