------------------------------ MODULE WebProofs ------------------------------
(***************************************************************************)
(* Proofs about what a browser is answered: its handshake, however it is   *)
(* cut and in whatever order its headers come (module WsHttp), its frames, *)
(* however they are cut (module WsFrames), and its picture (module Draw).  *)
(***************************************************************************)
EXTENDS WsHttp, WsFrames, Draw, SequenceTheorems, WellFoundedInduction, TLAPS

\* There is a lowest of any numbers.
LEMMA LowestNumber ==
    ASSUME NEW S \in SUBSET Nat, S # {}
    PROVE  \E f \in S : \A g \in S : f <= g
<1> DEFINE R == OpToRel(<, Nat)
<1>1. IsWellFoundedOn(R, Nat)
  BY NatLessThanWellFounded
<1>2. \A f, g \in Nat : <<g, f>> \in R <=> g < f
  BY DEF OpToRel
<1> HIDE DEF R
<1>3. PICK f \in S : \A g \in S : <<g, f>> \notin R
  BY <1>1, WFMin
<1>4. ASSUME NEW g \in S
      PROVE  f <= g
  <2>1. f \in Nat /\ g \in Nat /\ ~(g < f)
    BY <1>2, <1>3
  <2>2. QED
    BY <2>1
<1>5. QED
  BY <1>4

-----------------------------------------------------------------------------
(* The handshake: reading a text                                           *)

\* What a text is made of.
Char == Known \cup Names \cup
    {"none", "/x", "SP", "TAB", "CR", "LF", ":", "COMMA", "x", "13", "websocket", "upgrade",
     "GET", "POST", "HTTP/1.1", "HTTP/1.0"}

\* The states before and after each character of s, from w.
Reads(h, w, s) ==
    /\ DOMAIN h = 0..Len(s) /\ h[0] = w
    /\ \A i \in 1..Len(s) : h[i] = ProcessChar(h[i - 1], s[i])

\* As one function.
ReadsAll(h, w, s) ==
    h = [i \in 0..Len(s) |-> IF i = 0 THEN w ELSE ProcessChar(h[i - 1], s[i])]

\* As many of them as there are characters up to the nth.
ReadsUpTo(h, s, n) == \A i \in 1..n : h[i] = ProcessChar(h[i - 1], s[i])

\* There are such states for every text.
LEMMA ReadsExists ==
    ASSUME NEW w, NEW s \in Seq(Char)
    PROVE  \E h : Reads(h, w, s) /\ ReadsAll(h, w, s)
<1> DEFINE n == Len(s)
           Rule(h, i) == IF i = 0 THEN w ELSE ProcessChar(h[i - 1], s[i])
           Q(h, k) == h = [i \in 0..k |-> Rule(h, i)]
           P(k) == \E h : Q(h, k)
           S == {k \in Nat : ~P(k)}
<1>1. n \in Nat
  OBVIOUS
<1>2. ASSUME NEW k \in Nat PROVE P(k)
  <2>1. SUFFICES ASSUME S # {} PROVE FALSE
    BY <2>1
  <2>2. PICK m \in S : \A g \in S : m <= g
    <3>1. S \in SUBSET Nat
      OBVIOUS
    <3> HIDE DEF S
    <3>2. QED
      BY <2>1, <3>1, LowestNumber
  <2>3. m \in Nat /\ ~P(m)
    BY <2>2
  <2>4. m # 0
    <3> DEFINE h0 == [i \in 0..0 |-> w]
    <3>1. h0 = [i \in 0..0 |-> Rule(h0, i)]
      OBVIOUS
    <3> HIDE DEF h0
    <3>2. P(0)
      BY <3>1
    <3>3. QED
      BY <2>3, <3>2
  <2>5. m - 1 \in Nat /\ ~(m <= m - 1)
    BY <2>3, <2>4
  <2>6. P(m - 1)
    BY <2>2, <2>5
  <2>7. PICK h : Q(h, m - 1)
    BY <2>6
  <2> DEFINE g == [i \in 0..m |-> IF i = m THEN ProcessChar(h[m - 1], s[m]) ELSE h[i]]
  <2>8. ASSUME NEW i \in 0..m PROVE g[i] = Rule(g, i)
    <3>1. CASE i = 0
      <4>1. g[i] = h[0] /\ 0 \in 0..m - 1
        BY <2>3, <2>4, <3>1
      <4> HIDE DEF g
      <4>2. QED
        BY <2>7, <3>1, <4>1
    <3>2. CASE i # 0 /\ i # m
      <4>1. g[i] = h[i] /\ g[i - 1] = h[i - 1] /\ i \in 0..m - 1
        BY <2>3, <3>2
      <4> HIDE DEF g
      <4>2. QED
        BY <2>7, <3>2, <4>1
    <3>3. CASE i = m
      <4>1. g[i] = ProcessChar(h[m - 1], s[m]) /\ g[m - 1] = h[m - 1]
        BY <2>3, <2>4, <3>3
      <4> HIDE DEF g
      <4>2. QED
        BY <2>4, <3>3, <4>1
    <3>4. QED
      BY <3>1, <3>2, <3>3
  <2>9. g = [i \in 0..m |-> g[i]]
    OBVIOUS
  <2> HIDE DEF g
  <2>10. g = [i \in 0..m |-> Rule(g, i)]
    BY <2>8, <2>9
  <2>11. QED
    BY <2>3, <2>10
<1>3. PICK h : Q(h, n)
  BY <1>1, <1>2
<1>4. DOMAIN h = 0..n /\ \A i \in 0..n : h[i] = Rule(h, i)
  BY <1>3
<1>5. Reads(h, w, s)
  BY <1>1, <1>4 DEF Reads
<1>6. ReadsAll(h, w, s)
  BY <1>3 DEF ReadsAll
<1>7. QED
  BY <1>5, <1>6

\* What is read from w is the last of them.
LEMMA ChunkReads ==
    ASSUME NEW w, NEW s \in Seq(Char)
    PROVE  \E h : Reads(h, w, s) /\ ProcessHeaderChunk(w, s) = h[Len(s)]
<1> DEFINE c == CHOOSE h : ReadsAll(h, w, s)
<1>1. \E h : ReadsAll(h, w, s)
  BY ReadsExists
<1>2. ReadsAll(c, w, s)
  BY <1>1
<1>3. ProcessHeaderChunk(w, s) = c[Len(s)]
  BY DEF ProcessHeaderChunk, ReadsAll
<1>4. Len(s) \in Nat
  OBVIOUS
<1>5. ASSUME NEW h, ReadsAll(h, w, s) PROVE Reads(h, w, s)
  <2>1. DOMAIN h = 0..Len(s)
    BY <1>5 DEF ReadsAll
  <2>2. \A i \in 0..Len(s) : h[i] = IF i = 0 THEN w ELSE ProcessChar(h[i - 1], s[i])
    BY <1>5 DEF ReadsAll
  <2>3. QED
    BY <1>4, <2>1, <2>2 DEF Reads
<1>6. Reads(c, w, s)
  BY <1>2, <1>5
<1> HIDE DEF c
<1>7. QED
  BY <1>3, <1>6

\* There is only one way to read a text.
LEMMA ReadsSame ==
    ASSUME NEW s \in Seq(Char), NEW n \in 0..Len(s), NEW g, NEW h,
           g[0] = h[0], ReadsUpTo(g, s, n), ReadsUpTo(h, s, n)
    PROVE  \A i \in 0..n : g[i] = h[i]
<1> DEFINE S == {i \in 0..n : g[i] # h[i]}
<1>1. SUFFICES ASSUME S # {} PROVE FALSE
  BY <1>1
<1>2. PICK m \in S : \A i \in S : m <= i
  <2>1. S \in SUBSET Nat
    OBVIOUS
  <2> HIDE DEF S
  <2>2. QED
    BY <1>1, <2>1, LowestNumber
<1>3. m \in 1..n /\ m - 1 \in 0..n /\ ~(m <= m - 1)
  BY <1>2
<1>4. g[m - 1] = h[m - 1]
  BY <1>2, <1>3
<1>5. QED
  BY <1>2, <1>3, <1>4 DEF ReadsUpTo

\* A text can be read in two parts.
LEMMA ReadsBoth ==
    ASSUME NEW w, NEW s \in Seq(Char), NEW t \in Seq(Char)
    PROVE  /\ s \o t \in Seq(Char)
           /\ ProcessHeaderChunk(w, s \o t) = ProcessHeaderChunk(ProcessHeaderChunk(w, s), t)
<1> DEFINE u == s \o t
           m == Len(s)
           n == Len(t)
<1>1. /\ u \in Seq(Char) /\ Len(u) = m + n /\ m \in Nat /\ n \in Nat
      /\ \A i \in 1..m + n : u[i] = IF i <= m THEN s[i] ELSE t[i - m]
  BY ConcatProperties
<1>2. PICK a : Reads(a, w, s) /\ ProcessHeaderChunk(w, s) = a[m]
  BY ChunkReads
<1>3. PICK b : Reads(b, a[m], t) /\ ProcessHeaderChunk(a[m], t) = b[n]
  BY ChunkReads
<1> HIDE DEF u
<1>4. PICK c : Reads(c, w, u) /\ ProcessHeaderChunk(w, u) = c[Len(u)]
  BY <1>1, ChunkReads
<1> HIDE DEF m, n
<1>5. c[m] = a[m]
  <2>1. ReadsUpTo(c, s, m)
    <3>1. \A i \in 1..m : i \in 1..m + n /\ i <= m
      BY <1>1
    <3>2. QED
      BY <1>1, <1>4, <3>1 DEF Reads, ReadsUpTo
  <2>2. ReadsUpTo(a, s, m)
    BY <1>2 DEF Reads, ReadsUpTo, m
  <2>3. c[0] = a[0]
    BY <1>2, <1>4 DEF Reads
  <2>4. m \in 0..Len(s) /\ m \in 0..m
    BY <1>1 DEF m
  <2>5. \A i \in 0..m : c[i] = a[i]
    BY <2>1, <2>2, <2>3, <2>4, ReadsSame
  <2>6. QED
    BY <2>4, <2>5
<1>6. c[m + n] = b[n]
  <2> DEFINE d == [i \in 0..n |-> c[m + i]]
  <2>1. \A i \in 1..n : /\ i \in 0..n /\ i - 1 \in 0..n /\ m + i \in 1..m + n
                        /\ ~(m + i <= m) /\ m + i - m = i /\ m + i - 1 = m + (i - 1)
    BY <1>1
  <2>2. \A i \in 1..n : c[m + i] = ProcessChar(c[m + (i - 1)], t[i])
    BY <1>1, <1>4, <2>1 DEF Reads
  <2>3. ReadsUpTo(d, t, n)
    BY <2>1, <2>2 DEF ReadsUpTo
  <2>4. ReadsUpTo(b, t, n)
    BY <1>3 DEF Reads, ReadsUpTo, n
  <2>5. d[0] = b[0]
    <3>1. 0 \in 0..n /\ m + 0 = m
      BY <1>1
    <3>2. QED
      BY <1>3, <1>5, <3>1 DEF Reads
  <2>6. n \in 0..Len(t) /\ n \in 0..n
    BY <1>1 DEF n
  <2>7. d[n] = c[m + n]
    BY <2>6
  <2> HIDE DEF d
  <2>8. \A i \in 0..n : d[i] = b[i]
    BY <2>3, <2>4, <2>5, <2>6, ReadsSame
  <2>9. QED
    BY <2>6, <2>7, <2>8
<1>7. QED
  BY <1>1, <1>2, <1>3, <1>4, <1>6 DEF u

LEMMA SingleText ==
    ASSUME NEW S, NEW c \in S
    PROVE  <<c>> \in Seq(S)
OBVIOUS

\* Nothing, and one character.
LEMMA ReadsNone ==
    ASSUME NEW w
    PROVE  ProcessHeaderChunk(w, << >>) = w
<1> DEFINE e == << >>
<1>1. e \in Seq(Char) /\ Len(e) = 0
  OBVIOUS
<1> HIDE DEF e
<1>2. PICK h : Reads(h, w, e) /\ ProcessHeaderChunk(w, e) = h[Len(e)]
  BY <1>1, ChunkReads
<1>3. h[0] = w
  BY <1>2 DEF Reads
<1>4. ProcessHeaderChunk(w, e) = w
  BY <1>1, <1>2, <1>3
<1>5. QED
  BY <1>4 DEF e

LEMMA ReadsOne ==
    ASSUME NEW w, NEW c \in Char
    PROVE  <<c>> \in Seq(Char) /\ ProcessHeaderChunk(w, <<c>>) = ProcessChar(w, c)
<1>1. Len(<<c>>) = 1 /\ <<c>>[1] = c /\ 1 \in 1..1 /\ 1 - 1 = 0
  OBVIOUS
<1> DEFINE s == <<c>>
<1> HIDE DEF s
<1>2. s \in Seq(Char) /\ Len(s) = 1 /\ s[1] = c
  BY <1>1, SingleText DEF s
<1>3. PICK h : Reads(h, w, s) /\ ProcessHeaderChunk(w, s) = h[Len(s)]
  BY <1>2, ChunkReads
<1>4. h[1] = ProcessChar(w, c)
  BY <1>1, <1>2, <1>3 DEF Reads
<1>5. s \in Seq(Char) /\ ProcessHeaderChunk(w, s) = ProcessChar(w, c)
  BY <1>2, <1>3, <1>4
<1>6. QED
  BY <1>5 DEF s

\* A character before a text.
LEMMA ReadsNext ==
    ASSUME NEW w, NEW c \in Char, NEW s \in Seq(Char)
    PROVE  /\ <<c>> \o s \in Seq(Char)
           /\ ProcessHeaderChunk(w, <<c>> \o s) = ProcessHeaderChunk(ProcessChar(w, c), s)
<1>1. <<c>> \in Seq(Char) /\ ProcessHeaderChunk(w, <<c>>) = ProcessChar(w, c)
  BY ReadsOne
<1> DEFINE one == <<c>>
<1>2. one \in Seq(Char) /\ ProcessHeaderChunk(w, one) = ProcessChar(w, c)
  BY <1>1
<1> HIDE DEF one
<1>3. one \o s \in Seq(Char) /\ ProcessHeaderChunk(w, one \o s) = ProcessHeaderChunk(ProcessChar(w, c), s)
  BY <1>2, ReadsBoth
<1>4. QED
  BY <1>3 DEF one

\* Two characters.
LEMMA PairText ==
    ASSUME NEW S, NEW a \in S, NEW b \in S
    PROVE  <<a, b>> \in Seq(S) /\ <<a, b>> = <<a>> \o <<b>>
<1>1. <<a>> \in Seq(S) /\ <<b>> \in Seq(S) /\ Len(<<a>>) = 1 /\ Len(<<b>>) = 1
      /\ <<a>>[1] = a /\ <<b>>[1] = b
  OBVIOUS
<1>2. <<a, b>> \in Seq(S) /\ Len(<<a, b>>) = 2 /\ <<a, b>>[1] = a /\ <<a, b>>[2] = b
  OBVIOUS
<1> DEFINE p == <<a>>
           q == <<b>>
           r == <<a, b>>
<1> HIDE DEF p, q, r
<1>3. p \in Seq(S) /\ q \in Seq(S) /\ Len(p) = 1 /\ Len(q) = 1 /\ p[1] = a /\ q[1] = b
  BY <1>1 DEF p, q
<1>4. r \in Seq(S) /\ Len(r) = 2 /\ r[1] = a /\ r[2] = b
  BY <1>2 DEF r
<1>5. Len(p \o q) = 2 /\ p \o q \in Seq(S)
      /\ \A i \in 1..2 : (p \o q)[i] = IF i <= 1 THEN p[i] ELSE q[i - 1]
  BY <1>3, ConcatProperties
<1>6. (p \o q)[1] = a /\ (p \o q)[2] = b
  BY <1>3, <1>5
<1>7. \A i \in 1..Len(r) : r[i] = (p \o q)[i]
  <2>1. \A i \in 1..Len(r) : i = 1 \/ i = 2
    BY <1>4
  <2>2. QED
    BY <1>4, <1>6, <2>1
<1>8. r = p \o q
  BY <1>4, <1>5, <1>7, SeqEqual
<1>9. QED
  BY <1>4, <1>8 DEF p, q, r

LEMMA ReadsTwo ==
    ASSUME NEW w, NEW c \in Char, NEW d \in Char
    PROVE  /\ <<c, d>> \in Seq(Char)
           /\ ProcessHeaderChunk(w, <<c, d>>) = ProcessChar(ProcessChar(w, c), d)
<1> DEFINE one == <<c>>
           two == <<d>>
           both == <<c, d>>
<1>1. both \in Seq(Char) /\ both = one \o two
  BY PairText
<1>2. one \in Seq(Char) /\ ProcessHeaderChunk(w, one) = ProcessChar(w, c)
  BY ReadsOne
<1>3. two \in Seq(Char) /\ \A v : ProcessHeaderChunk(v, two) = ProcessChar(v, d)
  BY ReadsOne
<1> HIDE DEF one, two, both
<1>4. ProcessHeaderChunk(w, both) = ProcessHeaderChunk(ProcessHeaderChunk(w, one), two)
  BY <1>1, <1>2, <1>3, ReadsBoth
<1>5. both \in Seq(Char) /\ ProcessHeaderChunk(w, both) = ProcessChar(ProcessChar(w, c), d)
  BY <1>1, <1>2, <1>3, <1>4
<1>6. QED
  BY <1>5 DEF both

\* What was answered is not changed by what comes later.
LEMMA ReadsNoMore ==
    ASSUME NEW w, NEW s \in Seq(Char), w.ret # "none"
    PROVE  ProcessHeaderChunk(w, s) = w
<1>1. PICK h : Reads(h, w, s) /\ ProcessHeaderChunk(w, s) = h[Len(s)]
  BY ChunkReads
<1>2. ReadsUpTo(h, s, Len(s))
  BY <1>1 DEF Reads, ReadsUpTo
<1> DEFINE g == [i \in 0..Len(s) |-> w]
<1>3. \A c : ProcessChar(w, c) = w
  BY DEF ProcessChar
<1>4. ReadsUpTo(g, s, Len(s))
  BY <1>3 DEF ReadsUpTo
<1>5. g[0] = h[0] /\ g[Len(s)] = w
  BY <1>1 DEF Reads
<1>6. Len(s) \in 0..Len(s)
  OBVIOUS
<1> HIDE DEF g
<1>7. \A i \in 0..Len(s) : g[i] = h[i]
  BY <1>2, <1>4, <1>5, <1>6, ReadsSame
<1>8. QED
  BY <1>1, <1>5, <1>6, <1>7

LEMMA Associative ==
    ASSUME NEW S, NEW a \in Seq(S), NEW b \in Seq(S), NEW c \in Seq(S)
    PROVE  (a \o b) \o c = a \o (b \o c)
BY ConcatAssociative

\* One more element of a text behind others.
LEMMA PrefixAppend ==
    ASSUME NEW S, NEW s \in Seq(S), NEW b \in Seq(S), NEW k \in 1..Len(s)
    PROVE  /\ SubSeq(s, 1, k - 1) \in Seq(S) /\ Len(SubSeq(s, 1, k - 1)) = k - 1
           /\ Append(b \o SubSeq(s, 1, k - 1), s[k]) = b \o SubSeq(s, 1, k)
<1> DEFINE p == SubSeq(s, 1, k - 1)
           q == SubSeq(s, 1, k)
           o == <<s[k]>>
<1>1. Len(s) \in Nat /\ k \in Nat /\ 1 <= k /\ k <= Len(s) /\ s[k] \in S
  BY ElementOfSeq
<1>2. p \in Seq(S) /\ Len(p) = k - 1
  <2>1. \A i \in 1..k - 1 : s[i] \in S
    BY <1>1, ElementOfSeq
  <2>2. QED
    BY <1>1, <2>1, SubSeqProperties
<1>3. q = p \o o
  BY <1>1, SubSeqRecursiveSecond
<1>4. o \in Seq(S)
  BY <1>1, SingleText
<1> HIDE DEF p, q, o
<1>5. b \o q = (b \o p) \o o
  <2>1. (b \o p) \o o = b \o (p \o o)
    BY <1>2, <1>4, Associative, SMTT(40)
  <2>2. QED
    BY <1>3, <2>1
<1>6. b \o p \in Seq(S)
  BY <1>2, ConcatProperties
<1>7. Append(b \o p, s[k]) = (b \o p) \o o
  BY <1>1, <1>6, AppendIsConcat DEF o
<1>8. QED
  BY <1>2, <1>5, <1>7 DEF p, q

-----------------------------------------------------------------------------
(* The handshake: characters                                               *)

Futures == {"none", "skip", "start", "plainStart", "lf", "plainLf", "lfLast"}
Http == [tokenEnd : {"space", "colon", "line", "plainLine"}, future : Futures,
         process : {"method", "path", "version", "field", "value"},
         buf : Seq(Char), field : Char, path : Char, key : Seq(Char), hasKey : BOOLEAN,
         handshake : SUBSET Names, ret : {"none", "400", "501", "505", "headers"}]

\* The characters a token ends with.
Ends(w) == CASE w.tokenEnd = "space" -> {"SP", "CR", "LF"}
             [] w.tokenEnd = "colon" -> {":", "CR", "LF"}
             [] OTHER -> {"CR", "LF"}

\* Inside a token, perhaps before its first character.
In(w) == w \in Http /\ w.ret = "none" /\ w.future \in {"none", "skip"}

\* Other characters are added as long as there is room.
LEMMA Adds ==
    ASSUME NEW w, In(w), NEW c \in Char \ Ends(w), w.future = "skip" => c \notin Blank,
           Len(w.buf) < BufSize - 1
    PROVE  ProcessChar(w, c) = [w EXCEPT !.buf = Append(@, c), !.future = "none"]
<1>1. Tokenizer(w, c) = Is(w, "none", "add")
  BY DEF Tokenizer, InToken, Ends, In, Http
<1>2. Is(w, "none", "add").http = [w EXCEPT !.future = "none"] /\ Is(w, "none", "add").what = "add"
  BY DEF Is
<1>3. [w EXCEPT !.future = "none"].ret = "none" /\ [w EXCEPT !.future = "none"].buf = w.buf
  BY DEF In, Http
<1>4. TokenRound(w, c) = [[w EXCEPT !.future = "none"] EXCEPT !.buf = Append(@, c)]
  <2>1. ~(Len(w.buf) >= BufSize - 1)
    <3>1. Len(w.buf) \in Nat /\ BufSize \in Nat
      BY WsHttpAssumption DEF In, Http
    <3>2. QED
      BY <3>1
  <2>2. QED
    BY <1>1, <1>2, <2>1 DEF TokenRound
<1>5. ProcessChar(w, c) = TokenRound(w, c)
  BY <1>1, <1>2, <1>4 DEF ProcessChar, In
<1>6. [[w EXCEPT !.future = "none"] EXCEPT !.buf = Append(@, c)]
      = [w EXCEPT !.buf = Append(@, c), !.future = "none"]
  BY DEF In, Http
<1>7. QED
  BY <1>4, <1>5, <1>6

LEMMA Overflows ==
    ASSUME NEW w, In(w), NEW c \in Char \ Ends(w), w.future = "skip" => c \notin Blank,
           ~(Len(w.buf) < BufSize - 1)
    PROVE  ProcessChar(w, c).ret = "400"
<1>1. Tokenizer(w, c) = Is(w, "none", "add")
  BY DEF Tokenizer, InToken, Ends, In, Http
<1>2. Is(w, "none", "add").http = [w EXCEPT !.future = "none"] /\ Is(w, "none", "add").what = "add"
  BY DEF Is
<1>3. [w EXCEPT !.future = "none"] \in Http
  BY DEF In, Http, Futures
<1>4. Len(w.buf) >= BufSize - 1
  <2>1. Len(w.buf) \in Nat /\ BufSize \in Nat
    BY WsHttpAssumption DEF In, Http
  <2>2. QED
    BY <2>1
<1>5. TokenRound(w, c) = [[w EXCEPT !.future = "none"] EXCEPT !.ret = "400"]
  BY <1>1, <1>2, <1>4 DEF TokenRound, Refused
<1>6. TokenRound(w, c).ret = "400"
  BY <1>3, <1>5 DEF Http
<1>7. QED
  BY <1>1, <1>2, <1>6 DEF ProcessChar, In

\* Blanks are left out where they mean nothing.
LEMMA Skips ==
    ASSUME NEW w, In(w), w.future = "skip", NEW c \in Blank
    PROVE  ProcessChar(w, c) = w
<1>1. Tokenizer(w, c) = Is(w, "skip", "skip")
  BY DEF Tokenizer
<1>2. Is(w, "skip", "skip").http = w /\ Is(w, "skip", "skip").what = "skip"
  BY DEF Is, In, Http
<1>3. TokenRound(w, c) = w
  BY <1>1, <1>2 DEF TokenRound
<1>4. QED
  BY <1>1, <1>2, <1>3 DEF ProcessChar

\* The end of a line in a value, which may go on in the next one, and of the
\* request line.
LEMMA LineEnds ==
    ASSUME NEW w, In(w), w.tokenEnd \in {"line", "plainLine"}, NEW end \in LineEnd
    PROVE  /\ end \in Seq(Char)
           /\ ProcessHeaderChunk(w, end) =
                  [w EXCEPT !.future = IF w.tokenEnd = "line" THEN "start" ELSE "plainStart"]
<1> DEFINE s == IF w.tokenEnd = "line" THEN "start" ELSE "plainStart"
           l == IF w.tokenEnd = "line" THEN "lf" ELSE "plainLf"
           wl == [w EXCEPT !.future = l]
           ws == [w EXCEPT !.future = s]
<1>1. "CR" \in Char /\ "LF" \in Char
  BY DEF Char
<1>2. ProcessChar(w, "LF") = ws
  <2>1. Tokenizer(w, "LF") = Is(w, s, "skip")
    BY DEF Tokenizer, InToken, In, Http, Blank
  <2>2. Is(w, s, "skip").http = ws /\ Is(w, s, "skip").what = "skip"
    BY DEF Is
  <2> HIDE DEF ws, s
  <2>3. TokenRound(w, "LF") = ws
    BY <2>1, <2>2 DEF TokenRound
  <2>4. QED
    BY <2>1, <2>2, <2>3 DEF ProcessChar, In
<1>3. ProcessChar(w, "CR") = wl
  <2>1. Tokenizer(w, "CR") = Is(w, l, "skip")
    BY DEF Tokenizer, InToken, In, Http, Blank
  <2>2. Is(w, l, "skip").http = wl /\ Is(w, l, "skip").what = "skip"
    BY DEF Is
  <2> HIDE DEF wl, l
  <2>3. TokenRound(w, "CR") = wl
    BY <2>1, <2>2 DEF TokenRound
  <2>4. QED
    BY <2>1, <2>2, <2>3 DEF ProcessChar, In
<1>4. ProcessChar(wl, "LF") = ws
  <2>0. wl \in Http /\ wl.ret = "none" /\ wl.future = l
    BY DEF In, Http, Futures
  <2>1. Tokenizer(wl, "LF") = Is(wl, s, "skip")
    BY <2>0 DEF Tokenizer, MandatoryLf, Blank
  <2>2. Is(wl, s, "skip").http = ws /\ Is(wl, s, "skip").what = "skip"
    BY DEF Is, In, Http
  <2> HIDE DEF wl, ws, l, s
  <2>3. TokenRound(wl, "LF") = ws
    BY <2>1, <2>2 DEF TokenRound
  <2>4. QED
    BY <2>0, <2>1, <2>2, <2>3 DEF ProcessChar
<1> HIDE DEF wl, ws
<1>5. CASE end = <<"LF">>
  BY <1>1, <1>2, <1>5, ReadsOne DEF ws
<1>6. CASE end = <<"CR", "LF">>
  BY <1>1, <1>3, <1>4, <1>6, ReadsTwo DEF ws
<1>7. QED
  BY <1>5, <1>6 DEF LineEnd

\* A word is added, or refused where there is no room for it.
LEMMA ReadsWord ==
    ASSUME NEW w, In(w), NEW s \in Seq(Char), Len(s) > 0,
           \A i \in 1..Len(s) : s[i] \notin Ends(w), w.future = "skip" => s[1] \notin Blank
    PROVE  IF Len(w.buf) + Len(s) <= BufSize - 1
           THEN ProcessHeaderChunk(w, s) = [w EXCEPT !.buf = @ \o s, !.future = "none"]
           ELSE ProcessHeaderChunk(w, s).ret = "400"
<1> DEFINE m == Len(w.buf)
           n == Len(s)
           A(i) == [w EXCEPT !.buf = @ \o SubSeq(s, 1, i), !.future = "none"]
<1>1. m \in Nat /\ n \in Nat /\ n > 0 /\ BufSize \in Nat /\ BufSize > 8 /\ w.buf \in Seq(Char)
  BY WsHttpAssumption DEF In, Http
<1>2. PICK h : Reads(h, w, s) /\ ProcessHeaderChunk(w, s) = h[n]
  BY ChunkReads
<1>3. h[0] = w /\ \A i \in 1..n : h[i] = ProcessChar(h[i - 1], s[i])
  BY <1>2 DEF Reads
<1>4. ASSUME NEW i \in 0..n
      PROVE  /\ SubSeq(s, 1, i) \in Seq(Char) /\ Len(SubSeq(s, 1, i)) = i
             /\ w.buf \o SubSeq(s, 1, i) \in Seq(Char) /\ Len(w.buf \o SubSeq(s, 1, i)) = m + i
  <2>1. \A j \in 1..i : s[j] \in Char
    BY <1>1, ElementOfSeq
  <2>2. SubSeq(s, 1, i) \in Seq(Char) /\ Len(SubSeq(s, 1, i)) = i
    BY <1>1, <2>1, SubSeqProperties
  <2>3. QED
    BY <1>1, <2>2, ConcatProperties, ZenonT(40)
<1>5. ASSUME NEW i \in 0..n
      PROVE  /\ In(A(i)) /\ A(i).future = "none" /\ A(i).buf = w.buf \o SubSeq(s, 1, i)
             /\ Ends(A(i)) = Ends(w)
  <2>1. w.buf \o SubSeq(s, 1, i) \in Seq(Char)
    BY <1>4
  <2>2. QED
    BY <2>1 DEF In, Http, Futures, Ends
<1>6. \A i \in 1..n : s[i] \in Char \ Ends(w)
  BY ElementOfSeq
<1>7. ASSUME NEW k \in 1..n
      PROVE  m + k <= BufSize - 1 => h[k] = A(k)
  <2> DEFINE P(i) == m + i <= BufSize - 1 => h[i] = A(i)
             S == {i \in 1..n : ~P(i)}
  <2>1. SUFFICES ASSUME S # {} PROVE FALSE
    BY <2>1
  <2>2. PICK i \in S : \A g \in S : i <= g
    <3> HIDE DEF P
    <3>1. S \in SUBSET Nat
      BY <1>1
    <3> HIDE DEF S
    <3>2. QED
      BY <2>1, <3>1, LowestNumber
  <2>3. i \in 1..n /\ m + i <= BufSize - 1 /\ h[i] # A(i)
    BY <2>2
  <2>4. h[i] = ProcessChar(h[i - 1], s[i]) /\ s[i] \in Char \ Ends(w)
    BY <1>3, <1>6, <2>3
  <2>5. /\ SubSeq(s, 1, i - 1) \in Seq(Char)
        /\ Append(w.buf \o SubSeq(s, 1, i - 1), s[i]) = w.buf \o SubSeq(s, 1, i)
    BY <1>1, <2>3, PrefixAppend
  <2>6. CASE i = 1
    <3>1. SubSeq(s, 1, 0) = << >> /\ w.buf \o << >> = w.buf
      BY <1>1, ConcatEmptySeq, SubSeqEmpty
    <3>2. Append(w.buf, s[1]) = w.buf \o SubSeq(s, 1, 1)
      BY <2>5, <2>6, <3>1
    <3>3. h[0] = w /\ Len(w.buf) < BufSize - 1
      BY <1>1, <1>3, <2>3, <2>6
    <3>4. ProcessChar(w, s[1]) = [w EXCEPT !.buf = Append(@, s[1]), !.future = "none"]
      BY <2>4, <2>6, <3>3, Adds, ZenonT(40)
    <3>5. h[1] = A(1)
      BY <2>4, <2>6, <3>2, <3>3, <3>4
    <3>6. QED
      BY <2>3, <2>6, <3>5
  <2>7. CASE i # 1
    <3>1. i - 1 \in 1..n /\ i - 1 \in 0..n /\ m + (i - 1) <= BufSize - 1 /\ ~(i <= i - 1)
      BY <1>1, <2>3, <2>7
    <3>2. h[i - 1] = A(i - 1)
      BY <2>2, <3>1
    <3>3. /\ In(A(i - 1)) /\ A(i - 1).future = "none" /\ A(i - 1).buf = w.buf \o SubSeq(s, 1, i - 1)
          /\ Ends(A(i - 1)) = Ends(w) /\ Len(A(i - 1).buf) < BufSize - 1
      <4>1. Len(w.buf \o SubSeq(s, 1, i - 1)) = m + (i - 1)
        BY <1>4, <3>1
      <4>2. m + (i - 1) < BufSize - 1
        BY <1>1, <2>3
      <4>3. QED
        BY <1>5, <3>1, <4>1, <4>2
    <3>4. [A(i - 1) EXCEPT !.buf = Append(@, s[i]), !.future = "none"] = A(i)
      <4>1. [A(i - 1) EXCEPT !.buf = Append(@, s[i]), !.future = "none"]
            = [w EXCEPT !.buf = Append(w.buf \o SubSeq(s, 1, i - 1), s[i]), !.future = "none"]
        BY DEF In, Http
      <4>2. QED
        BY <2>5, <4>1
    <3> HIDE DEF A
    <3>5. ProcessChar(A(i - 1), s[i]) = [A(i - 1) EXCEPT !.buf = Append(@, s[i]), !.future = "none"]
      BY <2>4, <3>3, Adds
    <3>6. QED
      BY <2>3, <2>4, <3>2, <3>4, <3>5
  <2>8. QED
    BY <2>6, <2>7
<1>8. CASE m + n <= BufSize - 1
  <2>1. n \in 1..n
    BY <1>1
  <2>2. h[n] = A(n)
    BY <1>7, <1>8, <2>1
  <2>3. SubSeq(s, 1, n) = s
    BY SubSeqFull
  <2>4. QED
    BY <1>2, <1>8, <2>2, <2>3
<1>9. CASE ~(m + n <= BufSize - 1)
  <2> DEFINE k == IF m >= BufSize - 1 THEN 0 ELSE BufSize - 1 - m
  <2>1. k \in Nat /\ k < n /\ m + k >= BufSize - 1 /\ (k > 0 => m + k <= BufSize - 1)
    <3> HIDE DEF m, n
    <3>1. CASE m >= BufSize - 1
      BY <1>1, <3>1
    <3>2. CASE ~(m >= BufSize - 1)
      BY <1>1, <1>9, <3>2
    <3>3. QED
      BY <3>1, <3>2
  <2> HIDE DEF k
  <2>2. k + 1 \in 1..n /\ (k + 1) - 1 = k /\ k \in 0..n
    BY <1>1, <2>1
  <2>3. /\ In(h[k]) /\ Len(h[k].buf) = m + k /\ Ends(h[k]) = Ends(w)
        /\ h[k].future = "skip" => k = 0 /\ h[k] = w
    <3>1. CASE k = 0
      BY <1>1, <1>3, <3>1
    <3>2. CASE k # 0
      <4>1. k \in 1..n /\ m + k <= BufSize - 1
        BY <2>1, <3>2
      <4>2. h[k] = A(k)
        BY <1>7, <4>1
      <4>3. Len(w.buf \o SubSeq(s, 1, k)) = m + k
        BY <1>4, <2>2
      <4>4. /\ In(A(k)) /\ A(k).future = "none" /\ A(k).buf = w.buf \o SubSeq(s, 1, k)
            /\ Ends(A(k)) = Ends(w)
        BY <1>5, <2>2
      <4> HIDE DEF A
      <4>5. QED
        BY <4>2, <4>3, <4>4
    <3>3. QED
      BY <3>1, <3>2
  <2>4. h[k + 1].ret = "400"
    <3>1. h[k + 1] = ProcessChar(h[k], s[k + 1]) /\ s[k + 1] \in Char \ Ends(h[k])
      BY <1>3, <1>6, <2>2, <2>3
    <3>2. ~(Len(h[k].buf) < BufSize - 1)
      BY <1>1, <2>1, <2>3
    <3>3. h[k].future = "skip" => s[k + 1] \notin Blank
      BY <2>3
    <3>4. QED
      BY <2>3, <3>1, <3>2, <3>3, Overflows
  <2> DEFINE S == {i \in k + 1..n : h[i].ret # "400"}
  <2>5. S = {}
    <3>1. SUFFICES ASSUME S # {} PROVE FALSE
      BY <3>1
    <3>2. PICK i \in S : \A g \in S : i <= g
      <4>1. S \in SUBSET Nat
        BY <2>1
      <4> HIDE DEF S
      <4>2. QED
        BY <3>1, <4>1, LowestNumber
    <3>3. i \in k + 1..n /\ h[i].ret # "400" /\ i # k + 1
      BY <2>4, <3>2
    <3>4. i - 1 \in k + 1..n /\ i \in 1..n /\ ~(i <= i - 1)
      BY <1>1, <2>1, <3>3
    <3>5. h[i - 1].ret = "400"
      BY <3>2, <3>4
    <3>6. h[i] = ProcessChar(h[i - 1], s[i])
      BY <1>3, <3>4
    <3>7. ProcessChar(h[i - 1], s[i]) = h[i - 1]
      BY <3>5 DEF ProcessChar
    <3>8. QED
      BY <3>3, <3>5, <3>6, <3>7
  <2>6. n \in k + 1..n
    BY <1>1, <2>1
  <2>7. h[n].ret = "400"
    BY <2>5, <2>6
  <2>8. QED
    BY <1>2, <1>9, <2>7
<1>10. QED
  BY <1>8, <1>9

\* A continuation line starts with one blank.
LEMMA Folds ==
    ASSUME NEW w \in Http, w.ret = "none", w.future = "start", Len(w.buf) < BufSize - 1
    PROVE  /\ <<"SP", "TAB">> \in Seq(Char)
           /\ ProcessHeaderChunk(w, <<"SP", "TAB">>)
                  = [w EXCEPT !.buf = Append(@, "SP"), !.future = "skip"]
<1> DEFINE v == [w EXCEPT !.buf = Append(@, "SP"), !.future = "skip"]
           u == [w EXCEPT !.future = "skip"]
<1>1. "SP" \in Char /\ "TAB" \in Char
  BY DEF Char
<1>2. ProcessChar(w, "SP") = v
  <2>1. Tokenizer(w, "SP") = Is(w, "skip", "blank")
    BY DEF Tokenizer, StartOfLine, Blank
  <2>2. Is(w, "skip", "blank").http = u /\ Is(w, "skip", "blank").what = "blank"
    BY DEF Is
  <2>3. ~(Len(w.buf) >= BufSize - 1)
    <3>1. Len(w.buf) \in Nat /\ BufSize \in Nat
      BY WsHttpAssumption DEF Http
    <3>2. QED
      BY <3>1
  <2>4. [u EXCEPT !.buf = Append(@, "SP")] = v
    BY DEF Http
  <2> HIDE DEF u, v
  <2>5. TokenRound(w, "SP") = v
    BY <2>1, <2>2, <2>3, <2>4 DEF TokenRound
  <2>6. QED
    BY <2>1, <2>2, <2>5 DEF ProcessChar
<1>3. In(v) /\ v.future = "skip"
  <2>1. Append(w.buf, "SP") \in Seq(Char)
    BY <1>1, AppendProperties DEF Http
  <2>2. QED
    BY <2>1 DEF In, Http, Futures
<1> HIDE DEF v
<1>4. ProcessChar(v, "TAB") = v
  BY <1>3, Skips DEF Blank
<1>5. QED
  BY <1>1, <1>2, <1>4, ReadsTwo DEF v

NoBlankLast(s) == Len(s) > 0 => s[Len(s)] \notin Blank

\* Rstrip removes the blanks at the end and nothing else.
LEMMA Stripped ==
    ASSUME NEW s \in Seq(Char), Len(s) > 0 => s[Len(s)] \notin Blank
    PROVE  Rstrip(s) = s /\ Rstrip(Append(s, "SP")) = s
<1> DEFINE Stop(t, n) == /\ n > 0 => t[n] \notin Blank
                         /\ \A i \in n + 1..Len(t) : t[i] \in Blank
           u == Append(s, "SP")
<1>1. Len(s) \in Nat /\ Len(s) \in 0..Len(s)
  OBVIOUS
<1>2. /\ u \in Seq(Char) /\ Len(u) = Len(s) + 1 /\ u[Len(s) + 1] = "SP"
      /\ \A i \in 1..Len(s) : u[i] = s[i]
  <2>1. "SP" \in Char
    BY DEF Char
  <2>2. QED
    BY <2>1, AppendProperties
<1> HIDE DEF u
<1>3. Stop(s, Len(s)) /\ \A n \in 0..Len(s) : Stop(s, n) => n = Len(s)
  <2>1. Stop(s, Len(s))
    BY <1>1
  <2>2. ASSUME NEW n \in 0..Len(s), Stop(s, n), n # Len(s) PROVE FALSE
    <3>1. Len(s) \in n + 1..Len(s) /\ Len(s) > 0
      BY <1>1, <2>2
    <3>2. QED
      BY <2>2, <3>1
  <2>3. QED
    BY <2>1, <2>2
<1>4. Stop(u, Len(s)) /\ \A n \in 0..Len(u) : Stop(u, n) => n = Len(s)
  <2>1. Stop(u, Len(s))
    <3>1. Len(s) > 0 => u[Len(s)] \notin Blank
      BY <1>1, <1>2
    <3>2. \A i \in Len(s) + 1..Len(u) : u[i] \in Blank
      BY <1>1, <1>2 DEF Blank
    <3>3. QED
      BY <3>1, <3>2
  <2>2. ASSUME NEW n \in 0..Len(u), Stop(u, n), n # Len(s) PROVE FALSE
    <3>1. CASE n = Len(s) + 1
      BY <1>1, <1>2, <2>2, <3>1 DEF Blank
    <3>2. CASE n # Len(s) + 1
      <4>1. Len(s) \in n + 1..Len(u) /\ Len(s) > 0 /\ Len(s) \in 1..Len(s)
        BY <1>1, <1>2, <2>2, <3>2
      <4>2. u[Len(s)] \notin Blank
        BY <1>2, <4>1
      <4>3. QED
        BY <2>2, <4>1, <4>2
    <3>3. QED
      BY <3>1, <3>2
  <2>3. QED
    BY <2>1, <2>2
<1>5. Len(s) \in 0..Len(u)
  BY <1>1, <1>2
<1>6. SubSeq(s, 1, Len(s)) = s /\ SubSeq(u, 1, Len(s)) = s
  <2>1. u = s \o <<"SP">> /\ <<"SP">> \in Seq(Char)
    <3>1. "SP" \in Char
      BY DEF Char
    <3>2. QED
      BY <3>1, AppendIsConcat, SingleText DEF u
  <2>2. SubSeq(s, 1, Len(s)) = s
    BY SubSeqFull
  <2>3. CASE Len(s) = 0
    BY <1>1, <2>2, <2>3, SubSeqEmpty
  <2>4. CASE Len(s) # 0
    <3> DEFINE o == <<"SP">>
    <3> HIDE DEF o
    <3>1. o \in Seq(Char) /\ u = s \o o
      BY <2>1 DEF o
    <3>2. 1 \in 1..Len(s) /\ Len(s) \in 1..Len(s)
      BY <1>1, <2>4
    <3>3. SubSeq(s \o o, 1, Len(s)) = SubSeq(s, 1, Len(s))
      BY <3>1, <3>2, SubSeqOfConcat1
    <3>4. QED
      BY <2>2, <3>1, <3>3
  <2>5. QED
    BY <2>2, <2>3, <2>4
<1>7. Rstrip(s) = s
  <2> DEFINE m == CHOOSE n \in 0..Len(s) : Stop(s, n)
  <2>1. Rstrip(s) = SubSeq(s, 1, m)
    BY DEF Rstrip
  <2> HIDE DEF Stop
  <2>2. m = Len(s)
    BY <1>1, <1>3
  <2>3. QED
    BY <1>6, <2>1, <2>2
<1>8. Rstrip(u) = s
  <2> DEFINE m == CHOOSE n \in 0..Len(u) : Stop(u, n)
  <2>1. Rstrip(u) = SubSeq(u, 1, m)
    BY DEF Rstrip
  <2> HIDE DEF Stop
  <2>2. m = Len(s)
    BY <1>4, <1>5
  <2>3. QED
    BY <1>6, <2>1, <2>2
<1>9. QED
  BY <1>7, <1>8 DEF u

-----------------------------------------------------------------------------
(* The handshake: headers                                                  *)

\* Before the first character of a name.
Ready(d) ==
    /\ d \in Http /\ d.ret = "none" /\ d.future = "none" /\ d.buf = << >>
    /\ d.process = "field" /\ d.tokenEnd = "colon"

\* In the value of a header, after the lines that led to d.
InValue(d, name, b, f) ==
    [d EXCEPT !.field = name, !.process = "value", !.tokenEnd = "line", !.buf = b, !.future = f]

LEMMA InValueIs ==
    ASSUME NEW d, Ready(d), NEW name \in Char, NEW b \in Seq(Char), NEW f \in Futures
    PROVE  /\ InValue(d, name, b, f) \in Http
           /\ InValue(d, name, b, f).ret = "none"
           /\ InValue(d, name, b, f).process = "value"
           /\ InValue(d, name, b, f).tokenEnd = "line"
           /\ InValue(d, name, b, f).field = name
           /\ InValue(d, name, b, f).buf = b
           /\ InValue(d, name, b, f).future = f
           /\ InValue(d, name, b, f).path = d.path
           /\ InValue(d, name, b, f).hasKey = d.hasKey
           /\ InValue(d, name, b, f).handshake = d.handshake
           /\ Ends(InValue(d, name, b, f)) = {"CR", "LF"}
<1> DEFINE v == InValue(d, name, b, f)
<1>1. /\ v \in Http /\ v.ret = "none" /\ v.process = "value" /\ v.tokenEnd = "line"
      /\ v.field = name /\ v.buf = b /\ v.future = f /\ v.path = d.path
      /\ v.hasKey = d.hasKey /\ v.handshake = d.handshake
  BY DEF InValue, Ready, Http, Futures
<1>2. Ends(v) = {"CR", "LF"}
  BY <1>1 DEF Ends
<1>3. QED
  BY <1>1, <1>2

\* From the first character of the name to the colon.
LEMMA NameRead ==
    ASSUME NEW d, Ready(d), NEW name \in Char \ {":", "SP", "TAB", "CR", "LF"},
           NEW before \in {<< >>, <<"SP">>}
    PROVE  /\ before \in Seq(Char)
           /\ ProcessChar(ProcessHeaderChunk([d EXCEPT !.buf = <<name>>], before), ":")
                  = InValue(d, name, << >>, "skip")
<1> DEFINE b == <<name>>
           W(c) == [d EXCEPT !.buf = c]
           o == Append(b, "SP")
<1>1. b \in Seq(Char) /\ Len(b) = 1 /\ b[1] = name
  BY SingleText
<1> HIDE DEF b
<1>2. "SP" \in Char /\ ":" \in Char
  BY DEF Char
<1>3. o \in Seq(Char)
  BY <1>1, <1>2, AppendProperties
<1> HIDE DEF o
<1>4. ASSUME NEW c \in Seq(Char)
      PROVE  In(W(c)) /\ W(c).buf = c /\ W(c).future = "none" /\ W(c).tokenEnd = "colon"
             /\ W(c).process = "field"
  BY DEF In, Ready, Http
<1>5. ASSUME NEW c \in Seq(Char), Rstrip(c) = b
      PROVE  ProcessChar(W(c), ":") = InValue(d, name, << >>, "skip")
  <2> DEFINE u == [W(c) EXCEPT !.future = "skip"]
             x == [u EXCEPT !.field = name, !.process = "value", !.tokenEnd = "line"]
  <2>1. Tokenizer(W(c), ":") = Is(W(c), "skip", "end")
    BY <1>4 DEF Tokenizer, InToken
  <2>2. Is(W(c), "skip", "end").http = u /\ Is(W(c), "skip", "end").what = "end"
    BY DEF Is
  <2>3. u.buf = c /\ u.process = "field" /\ u.ret = "none"
    BY DEF Ready, Http
  <2>4. x.ret = "none" /\ [x EXCEPT !.buf = << >>] = InValue(d, name, << >>, "skip")
    BY DEF Ready, Http, InValue
  <2> HIDE DEF W, u
  <2>5. ProcessField(u) = x
    BY <1>1, <1>5, <2>3 DEF ProcessField
  <2> HIDE DEF x
  <2>6. Process(u) = [x EXCEPT !.buf = << >>]
    BY <2>3, <2>4, <2>5 DEF Process
  <2>7. TokenRound(W(c), ":") = Process(u)
    BY <2>1, <2>2 DEF TokenRound
  <2>8. QED
    BY <1>4, <2>1, <2>2, <2>4, <2>6, <2>7 DEF ProcessChar, In
<1>6. Rstrip(b) = b /\ Rstrip(o) = b
  BY <1>1, Stripped DEF o, Blank
<1>7. CASE before = << >>
  <2>1. ProcessHeaderChunk(W(b), before) = W(b)
    BY <1>7, ReadsNone
  <2>2. ProcessChar(W(b), ":") = InValue(d, name, << >>, "skip")
    BY <1>1, <1>5, <1>6
  <2>3. before \in Seq(Char)
    BY <1>7
  <2> HIDE DEF W
  <2>4. ProcessChar(ProcessHeaderChunk(W(b), before), ":") = InValue(d, name, << >>, "skip")
    BY <2>1, <2>2
  <2>5. QED
    BY <2>3, <2>4 DEF b, W
<1>8. CASE before = <<"SP">>
  <2>1. before \in Seq(Char) /\ ProcessHeaderChunk(W(b), before) = ProcessChar(W(b), "SP")
    BY <1>2, <1>8, ReadsOne
  <2>2. Len(b) < BufSize - 1
    BY <1>1, WsHttpAssumption
  <2>3. "SP" \in Char \ Ends(W(b))
    BY <1>1, <1>2, <1>4 DEF Ends
  <2>4. [W(b) EXCEPT !.buf = Append(@, "SP"), !.future = "none"] = W(o)
    BY DEF Ready, Http, o
  <2>5. In(W(b)) /\ W(b).buf = b /\ W(b).future = "none"
    BY <1>1, <1>4
  <2>6. ProcessChar(W(b), "SP") = W(o)
    <3> HIDE DEF W
    <3>1. QED
      BY <2>2, <2>3, <2>4, <2>5, Adds
  <2>7. QED
    BY <1>3, <1>5, <1>6, <2>1, <2>6 DEF b
<1>9. QED
  BY <1>7, <1>8

\* Blanks before a value.
LEMMA BlanksRead ==
    ASSUME NEW d, Ready(d), NEW name \in Char, NEW after \in {<< >>, <<"TAB", "SP">>}
    PROVE  /\ after \in Seq(Char)
           /\ ProcessHeaderChunk(InValue(d, name, << >>, "skip"), after)
                  = InValue(d, name, << >>, "skip")
<1> DEFINE v == InValue(d, name, << >>, "skip")
<1>1. "SP" \in Char /\ "TAB" \in Char /\ "SP" \in Blank /\ "TAB" \in Blank
  BY DEF Char, Blank
<1>2. v \in Http /\ v.ret = "none" /\ v.future = "skip"
  <2> DEFINE e == << >>
  <2>1. e \in Seq(Char) /\ "skip" \in Futures
    BY DEF Futures
  <2> HIDE DEF e
  <2>2. /\ InValue(d, name, e, "skip") \in Http /\ InValue(d, name, e, "skip").ret = "none"
        /\ InValue(d, name, e, "skip").future = "skip"
    BY <2>1, InValueIs
  <2>3. QED
    BY <2>2 DEF e, v
<1> HIDE DEF v
<1>3. ProcessChar(v, "TAB") = v /\ ProcessChar(v, "SP") = v
  BY <1>1, <1>2, Skips DEF In
<1>4. CASE after = << >>
  BY <1>4, ReadsNone DEF v
<1>5. CASE after = <<"TAB", "SP">>
  BY <1>1, <1>3, <1>5, ReadsTwo DEF v
<1>6. QED
  BY <1>4, <1>5

\* Words of a value.
Words(s) ==
    /\ s \in Seq(Char) /\ Len(s) > 0 /\ s[1] \notin Blank
    /\ \A i \in 1..Len(s) : s[i] \notin {"CR", "LF"}

LEMMA WordsRead ==
    ASSUME NEW d, Ready(d), NEW name \in Char, NEW b \in Seq(Char),
           NEW f \in {"none", "skip"}, NEW s, Words(s)
    PROVE  /\ b \o s \in Seq(Char)
           /\ Len(b) + Len(s) <= BufSize - 1 =>
                  ProcessHeaderChunk(InValue(d, name, b, f), s) = InValue(d, name, b \o s, "none")
           /\ ~(Len(b) + Len(s) <= BufSize - 1) =>
                  ProcessHeaderChunk(InValue(d, name, b, f), s).ret = "400"
<1> DEFINE v == InValue(d, name, b, f)
<1>0. s \in Seq(Char) /\ Len(s) > 0 /\ s[1] \notin Blank /\ \A i \in 1..Len(s) : s[i] \notin {"CR", "LF"}
  BY DEF Words
<1>1. b \o s \in Seq(Char)
  BY <1>0, ConcatProperties
<1>2. f \in Futures /\ "none" \in Futures
  BY DEF Futures
<1>3. In(v) /\ v.buf = b /\ Ends(v) = {"CR", "LF"}
  BY <1>1, <1>2, InValueIs DEF In
<1>31. [v EXCEPT !.buf = b \o s, !.future = "none"] = InValue(d, name, b \o s, "none")
  BY DEF InValue, Ready, Http
<1> HIDE DEF v
<1>4. IF Len(v.buf) + Len(s) <= BufSize - 1
      THEN ProcessHeaderChunk(v, s) = [v EXCEPT !.buf = @ \o s, !.future = "none"]
      ELSE ProcessHeaderChunk(v, s).ret = "400"
  BY <1>0, <1>3, ReadsWord
<1>5. QED
  BY <1>1, <1>3, <1>31, <1>4 DEF v

\* A continuation of the value in the next line.
LEMMA FoldingRead ==
    ASSUME NEW d, Ready(d), NEW name \in Char, NEW b \in Seq(Char), Len(b) <= 7,
           NEW f \in {"none", "skip"}, NEW end \in LineEnd
    PROVE  /\ Folding(end) \in Seq(Char) /\ Append(b, "SP") \in Seq(Char)
           /\ ProcessHeaderChunk(InValue(d, name, b, f), Folding(end))
                  = InValue(d, name, Append(b, "SP"), "skip")
<1> DEFINE v == InValue(d, name, b, f)
           u == InValue(d, name, b, "start")
           c == Append(b, "SP")
           t == <<"SP", "TAB">>
<1>1. c \in Seq(Char)
  <2>1. "SP" \in Char
    BY DEF Char
  <2>2. QED
    BY <2>1, AppendProperties
<1>2. f \in Futures /\ "start" \in Futures /\ "skip" \in Futures
  BY DEF Futures
<1>3. In(v) /\ v.tokenEnd = "line"
  BY <1>2, InValueIs DEF In
<1>31. [v EXCEPT !.future = "start"] = u
  BY DEF InValue, Ready, Http
<1>4. u \in Http /\ u.ret = "none" /\ u.future = "start" /\ u.buf = b
  BY <1>2, InValueIs
<1>5. [u EXCEPT !.buf = c, !.future = "skip"] = InValue(d, name, c, "skip")
  BY DEF InValue, Ready, Http
<1> HIDE DEF v, u
<1>6. end \in Seq(Char) /\ ProcessHeaderChunk(v, end) = u
  BY <1>3, <1>31, LineEnds
<1>7. Len(b) < BufSize - 1
  <2>1. Len(b) \in Nat /\ BufSize \in Nat /\ BufSize > 8
    BY WsHttpAssumption
  <2>2. QED
    BY <2>1
<1>8. t \in Seq(Char) /\ ProcessHeaderChunk(u, t) = InValue(d, name, c, "skip")
  BY <1>4, <1>5, <1>7, Folds
<1> HIDE DEF t
<1>9. end \o t \in Seq(Char) /\ ProcessHeaderChunk(v, end \o t) = InValue(d, name, c, "skip")
  BY <1>6, <1>8, ReadsBoth
<1>10. QED
  BY <1>1, <1>9 DEF v, t, Folding

\* What is looked for in a value.
Accepts(name, val) ==
    CASE name = "upgrade" -> val = <<"websocket">>
      [] name = "connection" -> FindValueToken(val, "upgrade")
      [] name = "version" -> val = <<"13">>
      [] OTHER -> TRUE

\* How a value is kept by the tokenizer: some text of at most six words that
\* does not end with a blank and is accepted if the value is a good one.
Kept(d, name, end, value, val) ==
    /\ val \in Seq(Char) /\ Len(val) <= 6
    /\ Len(val) > 0 => val[Len(val)] \notin Blank
    /\ Accepts(name, val) <=> value \in Good(name, end)
    /\ ProcessHeaderChunk(InValue(d, name, << >>, "skip"), value)
           = InValue(d, name, val, IF val = << >> THEN "skip" ELSE "none")

\* Values without a continuation line and with room enough.
LEMMA PlainKept ==
    ASSUME NEW d, Ready(d), NEW name \in Char, NEW end, NEW value, Words(value),
           Len(value) <= 4, value[Len(value)] \notin Blank,
           Accepts(name, value) <=> value \in Good(name, end)
    PROVE  Kept(d, name, end, value, value)
<1> DEFINE e == << >>
<1>1. value \in Seq(Char) /\ e \in Seq(Char) /\ Len(e) = 0 /\ e \o value = value
  BY ConcatEmptySeq DEF Words
<1>2. Len(value) > 0 /\ Len(value) <= 6 /\ value # e
  BY DEF Words
<1> HIDE DEF e
<1>3. Len(e) + Len(value) <= BufSize - 1
  <2>1. Len(value) \in Nat /\ BufSize \in Nat /\ BufSize > 8
    BY <1>1, WsHttpAssumption
  <2>2. QED
    BY <1>1, <2>1
<1>4. ProcessHeaderChunk(InValue(d, name, e, "skip"), value) = InValue(d, name, e \o value, "none")
  <2>1. e \in Seq(Char) /\ Words(value) /\ name \in Char /\ Ready(d)
    BY <1>1
  <2>2. QED
    BY <1>3, <2>1, WordsRead
<1>5. ProcessHeaderChunk(InValue(d, name, << >>, "skip"), value) = InValue(d, name, value, "none")
  BY <1>1, <1>4 DEF e
<1>6. value # << >>
  BY <1>2 DEF e
<1>7. QED
  BY <1>1, <1>2, <1>5, <1>6 DEF Kept

LEMMA Tuples ==
    ASSUME NEW S, NEW a \in S, NEW b \in S, NEW c \in S, NEW d \in S
    PROVE  /\ <<a>> \in Seq(S) /\ Len(<<a>>) = 1 /\ <<a>>[1] = a
           /\ <<a, b>> \in Seq(S) /\ Len(<<a, b>>) = 2 /\ <<a, b>>[1] = a /\ <<a, b>>[2] = b
           /\ <<a, b, c>> \in Seq(S) /\ Len(<<a, b, c>>) = 3
           /\ <<a, b, c>>[1] = a /\ <<a, b, c>>[2] = b /\ <<a, b, c>>[3] = c
           /\ <<a, b, c, d>> \in Seq(S) /\ Len(<<a, b, c, d>>) = 4
           /\ <<a, b, c, d>>[1] = a /\ <<a, b, c, d>>[2] = b /\ <<a, b, c, d>>[3] = c
           /\ <<a, b, c, d>>[4] = d
OBVIOUS

LEMMA FoldingIs ==
    ASSUME NEW end \in LineEnd
    PROVE  end \in Seq(Char) /\ Folding(end) \in Seq(Char) /\ Len(Folding(end)) >= 2
<1> DEFINE t == <<"SP", "TAB">>
<1>1. "CR" \in Char /\ "LF" \in Char /\ "SP" \in Char /\ "TAB" \in Char
  BY DEF Char
<1>2. t \in Seq(Char) /\ Len(t) = 2
  BY <1>1, Tuples
<1>3. <<"LF">> \in Seq(Char) /\ <<"CR", "LF">> \in Seq(Char)
  BY <1>1, Tuples
<1>4. end \in Seq(Char)
  BY <1>3 DEF LineEnd
<1> HIDE DEF t
<1>5. end \o t \in Seq(Char) /\ Len(end \o t) = Len(end) + Len(t)
  BY <1>2, <1>4, ConcatProperties
<1>6. Len(end) \in Nat
  BY <1>4
<1>7. Len(end \o t) >= 2
  BY <1>2, <1>5, <1>6
<1>8. QED
  BY <1>4, <1>5, <1>7 DEF Folding, t

\* Values of one word.
LEMMA WordKept ==
    ASSUME NEW d, Ready(d), NEW name \in Char, NEW end \in LineEnd,
           NEW c \in {"websocket", "x", "upgrade", "13"},
           Accepts(name, <<c>>) <=> <<c>> \in Good(name, end)
    PROVE  <<c>> \in Seq(Char) /\ Kept(d, name, end, <<c>>, <<c>>)
<1> DEFINE value == <<c>>
<1>1. c \in Char
  BY DEF Char
<1>2. value \in Seq(Char) /\ Len(value) = 1 /\ value[1] = c
  BY <1>1, SingleText
<1>3. Accepts(name, value) <=> value \in Good(name, end)
  OBVIOUS
<1> HIDE DEF value
<1>4. Kept(d, name, end, value, value)
  <2>1. Len(value) <= 4 /\ value[Len(value)] \notin Blank
    BY <1>2 DEF Blank
  <2>2. Words(value)
    BY <1>2 DEF Words, Blank
  <2>3. QED
    BY <1>2, <1>3, <2>1, <2>2, PlainKept
<1>5. QED
  BY <1>2, <1>4 DEF value

LEMMA UpgradeKept ==
    ASSUME NEW d, Ready(d), NEW end \in LineEnd, NEW value \in Values("upgrade", end)
    PROVE  value \in Seq(Char) /\ \E val : Kept(d, "upgrade", end, value, val)
<1>1. "upgrade" \in Char
  BY DEF Char
<1>2. CASE value = <<"websocket">>
  <2>1. Accepts("upgrade", <<"websocket">>) <=> <<"websocket">> \in Good("upgrade", end)
    BY DEF Accepts, Good
  <2>2. QED
    BY <1>1, <1>2, <2>1, WordKept
<1>3. CASE value = <<"x">>
  <2>1. Accepts("upgrade", <<"x">>) <=> <<"x">> \in Good("upgrade", end)
    BY DEF Accepts, Good
  <2>2. QED
    BY <1>1, <1>3, <2>1, WordKept
<1>4. CASE value = Folding(end) \o <<"websocket">>
  <2> DEFINE e == << >>
             sp == Append(e, "SP")
             ws == <<"websocket">>
             f == Folding(end)
  <2>1. e \in Seq(Char) /\ Len(e) = 0 /\ Len(e) <= 7 /\ "skip" \in {"none", "skip"}
    OBVIOUS
  <2>2. sp \in Seq(Char) /\ Len(sp) = 1 /\ sp[1] = "SP"
    <3>1. "SP" \in Char
      BY DEF Char
    <3> HIDE DEF e
    <3>2. QED
      BY <2>1, <3>1, AppendProperties
  <2>3. ws \in Seq(Char) /\ Len(ws) = 1 /\ ws[1] = "websocket" /\ "websocket" \notin Blank
    <3>1. "websocket" \in Char
      BY DEF Char
    <3>2. QED
      BY <3>1, SingleText DEF Blank
  <2> HIDE DEF e
  <2>4. f \in Seq(Char) /\ ProcessHeaderChunk(InValue(d, "upgrade", e, "skip"), f)
                               = InValue(d, "upgrade", sp, "skip")
    BY <1>1, <2>1, FoldingRead
  <2> HIDE DEF sp, ws, f
  <2>5. sp \o ws \in Seq(Char) /\ Len(sp \o ws) = 2 /\ (sp \o ws)[1] = "SP"
        /\ (sp \o ws)[2] = "websocket"
    <3>1. /\ sp \o ws \in Seq(Char) /\ Len(sp \o ws) = 2
          /\ \A i \in 1..2 : (sp \o ws)[i] = IF i <= 1 THEN sp[i] ELSE ws[i - 1]
      BY <2>2, <2>3, ConcatProperties
    <3>2. QED
      BY <2>2, <2>3, <3>1
  <2>6. ProcessHeaderChunk(InValue(d, "upgrade", sp, "skip"), ws)
            = InValue(d, "upgrade", sp \o ws, "none")
    <3>1. Len(sp) + Len(ws) <= BufSize - 1
      BY <2>2, <2>3, WsHttpAssumption
    <3>2. Words(ws)
      BY <2>3 DEF Words
    <3>3. QED
      BY <1>1, <2>2, <3>1, <3>2, WordsRead, ZenonT(40)
  <2>7. value \in Seq(Char) /\ ProcessHeaderChunk(InValue(d, "upgrade", e, "skip"), value)
                                   = InValue(d, "upgrade", sp \o ws, "none")
    <3>1. value = f \o ws
      BY <1>4 DEF f, ws
    <3>2. QED
      BY <2>3, <2>4, <2>6, <3>1, ReadsBoth
  <2>8. ~Accepts("upgrade", sp \o ws) /\ value \notin Good("upgrade", end)
    <3>1. <<"websocket">>[1] = "websocket" /\ "websocket" # "SP"
      OBVIOUS
    <3>2. sp \o ws # <<"websocket">>
      BY <2>5, <3>1
    <3>3. Len(value) > 1
      <4>1. value = f \o ws
        BY <1>4 DEF f, ws
      <4>2. Len(f \o ws) = Len(f) + Len(ws)
        BY <2>3, <2>4, ConcatProperties
      <4>3. Len(f) >= 2
        BY FoldingIs DEF f
      <4>4. Len(f) \in Nat
        BY <2>4
      <4>5. QED
        BY <2>3, <4>1, <4>2, <4>3, <4>4
    <3>4. value # ws
      <4>0. Len(value) \in Nat
        BY <2>7
      <4>1. Len(value) # 1
        <5>1. \A n \in Nat : n > 1 => n # 1
          OBVIOUS
        <5>2. QED
          BY <3>3, <4>0, <5>1
      <4>2. QED
        BY <2>3, <4>1
    <3>5. QED
      BY <3>2, <3>4 DEF Accepts, Good, ws
  <2>9. Kept(d, "upgrade", end, value, sp \o ws)
    <3>1. sp \o ws # << >> /\ (sp \o ws)[Len(sp \o ws)] \notin Blank
      BY <2>3, <2>5
    <3>2. QED
      BY <2>5, <2>7, <2>8, <3>1 DEF Kept, e
  <2>10. QED
    BY <2>7, <2>9
<1>5. QED
  BY <1>2, <1>3, <1>4 DEF Values

LEMMA VersionKept ==
    ASSUME NEW d, Ready(d), NEW end \in LineEnd, NEW value \in Values("version", end)
    PROVE  value \in Seq(Char) /\ \E val : Kept(d, "version", end, value, val)
<1>1. "version" \in Char
  BY DEF Char, Names
<1>2. CASE value = <<"13">>
  <2>1. Accepts("version", <<"13">>) <=> <<"13">> \in Good("version", end)
    BY DEF Accepts, Good
  <2>2. QED
    BY <1>1, <1>2, <2>1, WordKept
<1>3. CASE value = <<"x">>
  <2>1. Accepts("version", <<"x">>) <=> <<"x">> \in Good("version", end)
    BY DEF Accepts, Good
  <2>2. QED
    BY <1>1, <1>3, <2>1, WordKept
<1>4. QED
  BY <1>2, <1>3 DEF Values

LEMMA KeyKept ==
    ASSUME NEW d, Ready(d), NEW end \in LineEnd, NEW value \in Values("key", end)
    PROVE  value \in Seq(Char) /\ \E val : Kept(d, "key", end, value, val)
<1>1. "key" \in Char
  BY DEF Char, Names
<1>2. value = <<"x">>
  BY DEF Values
<1>3. Accepts("key", <<"x">>) <=> <<"x">> \in Good("key", end)
  BY DEF Accepts, Good
<1>4. QED
  BY <1>1, <1>2, <1>3, WordKept

\* A value that is too long is refused; it is none of the good ones.
LEMMA OtherKept ==
    ASSUME NEW d, Ready(d), NEW end \in LineEnd, NEW value \in Values("other", end)
    PROVE  /\ value \in Seq(Char)
           /\ \/ \E val : Kept(d, "other", end, value, val)
              \/ /\ value \notin Good("other", end)
                 /\ ProcessHeaderChunk(InValue(d, "other", << >>, "skip"), value).ret = "400"
<1>1. "other" \in Char /\ "x" \in Char
  BY DEF Char, Names
<1>2. CASE value = <<"x", "x">>
  <2> DEFINE v == <<"x", "x">>
  <2>1. v \in Seq(Char) /\ Len(v) = 2 /\ v[1] = "x" /\ v[2] = "x"
    BY <1>1, Tuples
  <2>2. Accepts("other", v) <=> v \in Good("other", end)
    BY DEF Accepts, Good
  <2> HIDE DEF v
  <2>3. Words(v) /\ Len(v) <= 4 /\ v[Len(v)] \notin Blank
    BY <2>1 DEF Words, Blank
  <2>4. Kept(d, "other", end, v, v)
    BY <1>1, <2>2, <2>3, PlainKept
  <2>5. QED
    BY <1>2, <2>1, <2>4 DEF v
<1>3. CASE value = << >>
  <2>1. value \in Seq(Char) /\ Len(value) = 0
    BY <1>3
  <2>2. Accepts("other", value) /\ value \in Good("other", end)
    BY <1>3 DEF Accepts, Good
  <2>3. ProcessHeaderChunk(InValue(d, "other", << >>, "skip"), value)
            = InValue(d, "other", value, "skip")
    BY <1>3, ReadsNone
  <2>4. Kept(d, "other", end, value, value)
    BY <1>3, <2>1, <2>2, <2>3 DEF Kept
  <2>5. QED
    BY <2>1, <2>4
<1>4. CASE value = [i \in 1..BufSize |-> "x"]
  <2> DEFINE e == << >>
  <2>1. BufSize \in Nat /\ BufSize > 8
    BY WsHttpAssumption
  <2>2. value \in Seq(Char) /\ Len(value) = BufSize /\ \A i \in 1..BufSize : value[i] = "x"
    BY <1>1, <1>4, <2>1
  <2>3. Words(value)
    BY <2>1, <2>2 DEF Words, Blank
  <2>4. e \in Seq(Char) /\ Len(e) = 0
    OBVIOUS
  <2>5. ~(Len(e) + Len(value) <= BufSize - 1)
    BY <2>1, <2>2, <2>4
  <2> HIDE DEF e
  <2>6. ProcessHeaderChunk(InValue(d, "other", e, "skip"), value).ret = "400"
    BY <1>1, <2>3, <2>4, <2>5, WordsRead
  <2>7. value \notin Good("other", end)
    <3>1. Len(<<"x", "x">>) = 2 /\ Len(<< >>) = 0
      OBVIOUS
    <3>2. value # <<"x", "x">> /\ value # << >>
      BY <2>1, <2>2, <3>1
    <3>3. QED
      BY <3>2 DEF Good
  <2>8. QED
    BY <2>2, <2>6, <2>7 DEF e
<1>5. QED
  BY <1>2, <1>3, <1>4 DEF Values

LEMMA ConnectionKept ==
    ASSUME NEW d, Ready(d), NEW end \in LineEnd, NEW value \in Values("connection", end)
    PROVE  value \in Seq(Char) /\ \E val : Kept(d, "connection", end, value, val)
<1>1. /\ "connection" \in Char /\ "x" \in Char /\ "COMMA" \in Char /\ "SP" \in Char
      /\ "upgrade" \in Char
  BY DEF Char, Names
<1> DEFINE list == <<"x", "COMMA", "SP", "upgrade">>
           two == <<"upgrade", "x">>
           begin == <<"x", "COMMA">>
           rest == <<"upgrade", "COMMA", "x">>
<1>2. /\ list \in Seq(Char) /\ Len(list) = 4 /\ list[1] = "x" /\ list[2] = "COMMA"
      /\ list[3] = "SP" /\ list[4] = "upgrade"
  BY <1>1, Tuples
<1>3. two \in Seq(Char) /\ Len(two) = 2 /\ two[1] = "upgrade" /\ two[2] = "x"
  BY <1>1, Tuples
<1>4. begin \in Seq(Char) /\ Len(begin) = 2 /\ begin[1] = "x" /\ begin[2] = "COMMA"
  BY <1>1, Tuples
<1>5. /\ rest \in Seq(Char) /\ Len(rest) = 3 /\ rest[1] = "upgrade" /\ rest[2] = "COMMA"
      /\ rest[3] = "x"
  BY <1>1, Tuples
<1>6. /\ <<"upgrade">> \in Seq(Char) /\ Len(<<"upgrade">>) = 1 /\ <<"upgrade">>[1] = "upgrade"
      /\ <<"x">> \in Seq(Char) /\ Len(<<"x">>) = 1 /\ <<"x">>[1] = "x"
  BY <1>1, SingleText
<1>7. value \in {<<"upgrade">>, list, <<"x">>, Folded(end), two}
  BY DEF Values
<1>8. Good("connection", end) = {<<"upgrade">>, list, Folded(end)}
  BY DEF Good
<1>9. \A val : Accepts("connection", val) <=> FindValueToken(val, "upgrade")
  BY DEF Accepts
<1>10. Folded(end) \in Seq(Char) /\ Len(Folded(end)) >= 7
  <2> DEFINE f == Folding(end)
  <2>1. f \in Seq(Char) /\ Len(f) >= 2
    BY FoldingIs
  <2> HIDE DEF f, begin, rest
  <2>2. begin \o f \in Seq(Char) /\ Len(begin \o f) = Len(begin) + Len(f)
    BY <1>4, <2>1, ConcatProperties
  <2>3. (begin \o f) \o rest \in Seq(Char)
        /\ Len((begin \o f) \o rest) = Len(begin \o f) + Len(rest)
    BY <1>5, <2>2, ConcatProperties
  <2>4. Len(f) \in Nat
    BY <2>1
  <2>5. Len((begin \o f) \o rest) >= 7
    BY <1>4, <1>5, <2>1, <2>2, <2>3, <2>4
  <2>6. QED
    BY <2>3, <2>5 DEF Folded, f, begin, rest
<1> HIDE DEF list, two, begin, rest
<1>11. CASE value = <<"upgrade">>
  <2> DEFINE v == <<"upgrade">>
  <2> HIDE DEF v
  <2>1. FindValueToken(v, "upgrade")
    BY <1>6 DEF FindValueToken, v
  <2>2. Accepts("connection", <<"upgrade">>) <=> <<"upgrade">> \in Good("connection", end)
    BY <1>8, <1>9, <2>1 DEF v
  <2>3. QED
    BY <1>1, <1>11, <2>2, WordKept
<1>12. CASE value = <<"x">>
  <2> DEFINE v == <<"x">>
  <2> HIDE DEF v
  <2>1. v \in Seq(Char) /\ Len(v) = 1 /\ v[1] = "x"
    BY <1>6 DEF v
  <2>2. ~FindValueToken(v, "upgrade")
    BY <2>1 DEF FindValueToken
  <2>3. v # list
    BY <1>2, <2>1
  <2>4. v # Folded(end)
    <3>1. Len(Folded(end)) # 1
      <4>1. Len(Folded(end)) \in Nat
        BY <1>10
      <4>2. \A n \in Nat : n >= 7 => n # 1
        OBVIOUS
      <4>3. QED
        BY <1>10, <4>1, <4>2
    <3>2. QED
      BY <2>1, <3>1
  <2>5. v # <<"upgrade">>
    BY <1>6, <2>1
  <2>6. Accepts("connection", <<"x">>) <=> <<"x">> \in Good("connection", end)
    BY <1>8, <1>9, <2>2, <2>3, <2>4, <2>5 DEF v
  <2>7. QED
    BY <1>1, <1>12, <2>6, WordKept
<1>13. CASE value = two
  <2>1. ~FindValueToken(two, "upgrade")
    BY <1>3 DEF FindValueToken
  <2>2. two # list
    BY <1>2, <1>3
  <2>3. two # Folded(end)
    <3>1. Len(Folded(end)) # 2
      <4>1. Len(Folded(end)) \in Nat
        BY <1>10
      <4>2. QED
        BY <1>10, <4>1, SMTT(40)
    <3>2. QED
      BY <1>3, <3>1
  <2>4. two # <<"upgrade">>
    BY <1>3, <1>6
  <2>5. Accepts("connection", two) <=> two \in Good("connection", end)
    BY <1>8, <1>9, <2>1, <2>2, <2>3, <2>4
  <2>6. Words(two) /\ Len(two) <= 4 /\ two[Len(two)] \notin Blank
    BY <1>3 DEF Words, Blank
  <2>7. Kept(d, "connection", end, two, two)
    BY <1>1, <2>5, <2>6, PlainKept
  <2>8. QED
    BY <1>3, <1>13, <2>7
<1>14. CASE value = list
  <2>1. FindValueToken(list, "upgrade")
    <3>1. 4 \in DOMAIN list /\ ~(4 < Len(list)) /\ 2 \in 0..4 - 1
      BY <1>2
    <3>2. \A k \in 2 + 1..4 - 1 : list[k] \in Blank
      BY <1>2 DEF Blank
    <3>3. QED
      BY <1>2, <3>1, <3>2 DEF FindValueToken
  <2>2. Accepts("connection", list) <=> list \in Good("connection", end)
    BY <1>8, <1>9, <2>1
  <2>3. Words(list) /\ Len(list) <= 4 /\ list[Len(list)] \notin Blank
    BY <1>2 DEF Words, Blank
  <2>4. Kept(d, "connection", end, list, list)
    BY <1>1, <2>2, <2>3, PlainKept
  <2>5. QED
    BY <1>2, <1>14, <2>4
<1>15. CASE value = Folded(end)
  <2> DEFINE e == << >>
             f == Folding(end)
             sp == Append(begin, "SP")
             val == sp \o rest
  <2>0. e \o begin = begin
    BY <1>4, ConcatEmptySeq
  <2>1. e \in Seq(Char) /\ Len(e) = 0
    OBVIOUS
  <2> HIDE DEF e
  <2>2. sp \in Seq(Char) /\ Len(sp) = 3 /\ sp[1] = "x" /\ sp[2] = "COMMA" /\ sp[3] = "SP"
    <3>1. /\ sp \in Seq(Char) /\ Len(sp) = Len(begin) + 1 /\ sp[Len(begin) + 1] = "SP"
          /\ \A i \in 1..Len(begin) : sp[i] = begin[i]
      <4>1. begin \in Seq(Char) /\ "SP" \in Char
        BY <1>1, <1>4
      <4>2. QED
        BY <4>1, AppendProperties
    <3> HIDE DEF sp
    <3>2. Len(begin) + 1 = 3 /\ 1 \in 1..Len(begin) /\ 2 \in 1..Len(begin)
      BY <1>4
    <3>3. QED
      BY <1>4, <3>1, <3>2
  <2>3. Words(begin) /\ Words(rest)
    BY <1>4, <1>5 DEF Words, Blank
  <2>4. ProcessHeaderChunk(InValue(d, "connection", e, "skip"), begin)
            = InValue(d, "connection", begin, "none")
    <3>1. Len(e) + Len(begin) <= BufSize - 1
      BY <1>4, <2>1, WsHttpAssumption
    <3>2. ProcessHeaderChunk(InValue(d, "connection", e, "skip"), begin)
              = InValue(d, "connection", e \o begin, "none")
      <4>1. e \in Seq(Char) /\ Words(begin)
        BY <2>1, <2>3
      <4>2. QED
        BY <1>1, <3>1, <4>1, WordsRead
    <3>3. QED
      BY <2>0, <3>2
  <2>5. f \in Seq(Char) /\ ProcessHeaderChunk(InValue(d, "connection", begin, "none"), f)
                               = InValue(d, "connection", sp, "skip")
    <3>1. Len(begin) <= 7
      BY <1>4
    <3>2. QED
      BY <1>1, <1>4, <3>1, FoldingRead
  <2> HIDE DEF f, sp
  <2>6. val \in Seq(Char) /\ Len(val) = 6
        /\ \A i \in 1..6 : val[i] = IF i <= 3 THEN sp[i] ELSE rest[i - 3]
    <3>1. val \in Seq(Char) /\ Len(val) = Len(sp) + Len(rest)
          /\ \A i \in 1..Len(sp) + Len(rest) :
                val[i] = IF i <= Len(sp) THEN sp[i] ELSE rest[i - Len(sp)]
      BY <1>5, <2>2, ConcatProperties
    <3> HIDE DEF val
    <3>2. Len(sp) + Len(rest) = 6
      BY <1>5, <2>2
    <3>3. QED
      BY <2>2, <3>1, <3>2
  <2>7. /\ val[1] = "x" /\ val[2] = "COMMA" /\ val[3] = "SP" /\ val[4] = "upgrade"
        /\ val[5] = "COMMA" /\ val[6] = "x"
    BY <1>5, <2>2, <2>6
  <2>8. ProcessHeaderChunk(InValue(d, "connection", sp, "skip"), rest)
            = InValue(d, "connection", val, "none")
    <3>1. Len(sp) + Len(rest) <= BufSize - 1
      BY <1>5, <2>2, WsHttpAssumption
    <3>2. ProcessHeaderChunk(InValue(d, "connection", sp, "skip"), rest)
              = InValue(d, "connection", sp \o rest, "none")
      <4>1. sp \in Seq(Char) /\ Words(rest)
        BY <2>2, <2>3
      <4>2. QED
        BY <1>1, <3>1, <4>1, WordsRead
    <3>3. QED
      BY <3>2
  <2>9. value = (begin \o f) \o rest
    BY <1>15 DEF Folded, f, begin, rest
  <2>10. begin \o f \in Seq(Char)
         /\ ProcessHeaderChunk(InValue(d, "connection", e, "skip"), begin \o f)
                = InValue(d, "connection", sp, "skip")
    BY <1>4, <2>4, <2>5, ReadsBoth
  <2> HIDE DEF val
  <2>11. value \in Seq(Char)
         /\ ProcessHeaderChunk(InValue(d, "connection", e, "skip"), value)
                = InValue(d, "connection", val, "none")
    <3> DEFINE g == begin \o f
               v == InValue(d, "connection", e, "skip")
    <3>1. rest \in Seq(Char) /\ g \in Seq(Char) /\ value = g \o rest
          /\ ProcessHeaderChunk(v, g) = InValue(d, "connection", sp, "skip")
      BY <1>5, <2>9, <2>10
    <3> HIDE DEF g, v
    <3>2. g \o rest \in Seq(Char)
          /\ ProcessHeaderChunk(v, g \o rest) = ProcessHeaderChunk(ProcessHeaderChunk(v, g), rest)
      BY <3>1, ReadsBoth
    <3>3. QED
      BY <2>8, <3>1, <3>2 DEF v
  <2>12. FindValueToken(val, "upgrade")
    <3>1. 4 \in DOMAIN val /\ 4 < Len(val) /\ 2 \in 0..4 - 1
      BY <2>6
    <3>2. \A k \in 2 + 1..4 - 1 : val[k] \in Blank
      BY <2>7 DEF Blank
    <3>3. QED
      BY <2>7, <3>1, <3>2 DEF FindValueToken
  <2>13. Accepts("connection", val) <=> value \in Good("connection", end)
    BY <1>8, <1>9, <1>15, <2>12
  <2>14. val # << >> /\ val[Len(val)] \notin Blank
    <3>1. val # << >>
      <4>1. Len(e) = 0 /\ Len(val) # 0
        BY <2>1, <2>6
      <4>2. val # e
        BY <4>1, Zenon
      <4>3. QED
        BY <4>2 DEF e
    <3>2. val[Len(val)] = "x" /\ "x" \notin Blank
      BY <2>6, <2>7 DEF Blank
    <3>3. QED
      BY <3>1, <3>2
  <2>15. Kept(d, "connection", end, value, val)
    BY <2>6, <2>11, <2>13, <2>14 DEF Kept, e
  <2>16. QED
    BY <2>11, <2>15
<1>16. QED
  BY <1>7, <1>11, <1>12, <1>13, <1>14, <1>15

LEMMA ValueKept ==
    ASSUME NEW d, Ready(d), NEW name \in Names, NEW end \in LineEnd, NEW value \in Values(name, end)
    PROVE  /\ value \in Seq(Char)
           /\ \/ \E val : Kept(d, name, end, value, val)
              \/ /\ value \notin Good(name, end)
                 /\ ProcessHeaderChunk(InValue(d, name, << >>, "skip"), value).ret = "400"
<1>1. CASE name = "upgrade"
  BY <1>1, UpgradeKept
<1>2. CASE name = "connection"
  BY <1>2, ConnectionKept
<1>3. CASE name = "version"
  BY <1>3, VersionKept
<1>4. CASE name = "key"
  BY <1>4, KeyKept
<1>5. CASE name = "other"
  BY <1>5, OtherKept
<1>6. QED
  BY <1>1, <1>2, <1>3, <1>4, <1>5 DEF Names

-----------------------------------------------------------------------------
(* The handshake: lines                                                    *)

\* What a line that was read leads to, once the next one does not continue it.
Line(v) == Process([v EXCEPT !.future = "none"])

\* What was kept of the headers seen so far.
Data(d, r) ==
    /\ d.handshake = r.seen \cap {"upgrade", "connection", "version"}
    /\ d.hasKey = ("key" \in r.seen) /\ d.path = r.path

\* At the start of a line, after what r stands for.
AtLine(v, r) ==
    /\ v \in Http /\ v.ret = "none" /\ v.future \in {"start", "plainStart"}
    /\ Line(v).ret = r.wrong
    /\ r.wrong = "none" => /\ Ready(Line(v)) /\ Data(Line(v), r)
                           /\ r.seen = {} => v.future = "plainStart"

\* A character that starts a line ends the one before and is then the first of
\* a name.
LEMMA NameStarts ==
    ASSUME NEW v, NEW r, AtLine(v, r), NEW c \in Char \ {":", "SP", "TAB", "CR", "LF"}
    PROVE  ProcessChar(v, c) = IF r.wrong = "none" THEN [Line(v) EXCEPT !.buf = <<c>>] ELSE Line(v)
<1> DEFINE u == [v EXCEPT !.future = "none"]
           d == Line(v)
<1>1. v.ret = "none" /\ d.ret = r.wrong
  BY DEF AtLine
<1>2. Tokenizer(v, c) = Is(v, "none", "endBefore")
  BY DEF AtLine, Tokenizer, StartOfLine, Blank
<1>3. Is(v, "none", "endBefore").http = u /\ Is(v, "none", "endBefore").what = "endBefore"
  BY DEF Is
<1>4. d = Process(u)
  BY DEF Line
<1> HIDE DEF u, d
<1>5. TokenRound(v, c) = d
  BY <1>2, <1>3, <1>4 DEF TokenRound
<1>6. ProcessChar(v, c) = IF d.ret = "none" THEN TokenRound(d, c) ELSE d
  BY <1>1, <1>2, <1>3, <1>5 DEF ProcessChar
<1>7. CASE r.wrong # "none"
  BY <1>1, <1>6, <1>7 DEF d
<1>8. CASE r.wrong = "none"
  <2>1. Ready(d)
    BY <1>8 DEF AtLine, d
  <2>2. In(d) /\ d.future = "none" /\ d.buf = << >> /\ c \in Char \ Ends(d)
    BY <2>1 DEF Ready, In, Ends
  <2>3. Len(d.buf) < BufSize - 1
    BY <2>2, WsHttpAssumption
  <2>4. ProcessChar(d, c) = [d EXCEPT !.buf = Append(@, c), !.future = "none"]
    BY <2>2, <2>3, Adds
  <2>5. ProcessChar(d, c) = TokenRound(d, c)
    <3>1. Tokenizer(d, c) = Is(d, "none", "add")
      BY <2>1 DEF Ready, Tokenizer, InToken
    <3>2. QED
      BY <2>1, <3>1 DEF ProcessChar, Ready, Is
  <2>6. [d EXCEPT !.buf = Append(@, c), !.future = "none"] = [d EXCEPT !.buf = <<c>>]
    <3>1. Append(d.buf, c) = <<c>>
      BY <2>2
    <3>2. QED
      BY <2>1, <3>1 DEF Ready, Http
  <2>7. QED
    BY <1>1, <1>6, <1>8, <2>4, <2>5, <2>6 DEF d
<1>9. QED
  BY <1>7, <1>8

\* An empty line ends the request, but for what the line before it leads to.
LEMMA LastLine ==
    ASSUME NEW v, NEW r, AtLine(v, r), NEW end \in LineEnd
    PROVE  /\ end \in Seq(Char)
           /\ ProcessHeaderChunk(v, end) = IF r.wrong = "none" THEN [Line(v) EXCEPT !.ret = "headers"]
                                           ELSE Line(v)
<1> DEFINE u == [v EXCEPT !.future = "none"]
           l == [v EXCEPT !.future = "lfLast"]
           d == Line(v)
           last == IF d.ret = "none" THEN [d EXCEPT !.ret = "headers"] ELSE d
<1>1. v.ret = "none" /\ d.ret = r.wrong
  BY DEF AtLine
<1>2. Tokenizer(v, "LF") = Is(v, "none", "last") /\ Tokenizer(v, "CR") = Is(v, "lfLast", "skip")
  BY DEF AtLine, Tokenizer, StartOfLine, Blank
<1>3. /\ Is(v, "none", "last").http = u /\ Is(v, "none", "last").what = "last"
      /\ Is(v, "lfLast", "skip").http = l /\ Is(v, "lfLast", "skip").what = "skip"
  BY DEF Is
<1>4. Tokenizer(l, "LF") = Is(l, "none", "last") /\ l.ret = "none"
  BY DEF AtLine, Http, Tokenizer, MandatoryLf, Blank
<1>5. Is(l, "none", "last").http = u /\ Is(l, "none", "last").what = "last"
  BY DEF Is, AtLine, Http
<1>6. d = Process(u)
  BY DEF Line
<1> HIDE DEF u, l, d
<1>7. ProcessChar(v, "LF") = last
  <2>1. TokenRound(v, "LF") = last
    BY <1>2, <1>3, <1>6 DEF TokenRound, Refused
  <2> HIDE DEF last
  <2>2. QED
    BY <1>1, <1>2, <1>3, <2>1 DEF ProcessChar
<1>8. ProcessChar(v, "CR") = l
  <2>1. TokenRound(v, "CR") = l
    BY <1>2, <1>3 DEF TokenRound
  <2>2. QED
    BY <1>1, <1>2, <1>3, <2>1 DEF ProcessChar
<1>9. ProcessChar(l, "LF") = last
  <2>1. TokenRound(l, "LF") = last
    BY <1>4, <1>5, <1>6 DEF TokenRound, Refused
  <2> HIDE DEF last
  <2>2. QED
    BY <1>4, <1>5, <2>1 DEF ProcessChar
<1>10. "CR" \in Char /\ "LF" \in Char
  BY DEF Char
<1>11. last = IF r.wrong = "none" THEN [d EXCEPT !.ret = "headers"] ELSE d
  BY <1>1
<1> HIDE DEF last
<1>12. CASE end = <<"LF">>
  <2>1. end \in Seq(Char) /\ ProcessHeaderChunk(v, end) = ProcessChar(v, "LF")
    BY <1>10, <1>12, ReadsOne
  <2>2. QED
    BY <1>7, <1>11, <2>1 DEF d
<1>13. CASE end = <<"CR", "LF">>
  <2>1. end \in Seq(Char) /\ ProcessHeaderChunk(v, end) = ProcessChar(ProcessChar(v, "CR"), "LF")
    BY <1>10, <1>13, ReadsTwo
  <2>2. QED
    BY <1>8, <1>9, <1>11, <2>1 DEF d
<1>14. QED
  BY <1>12, <1>13 DEF LineEnd

Serves(d, name, val) == IF name = "key" THEN ~d.hasKey ELSE Accepts(name, val)

Padded(b, val) == b \in {val, Append(val, "SP")}

Keeps(e, d, name) ==
    /\ Ready(e) /\ e.path = d.path /\ e.hasKey = (d.hasKey \/ name = "key")
    /\ e.handshake = d.handshake \cup ({name} \cap {"upgrade", "connection", "version"})

\* What the value of a header leads to when its line has ended.
LEMMA ValueEnds ==
    ASSUME NEW d, Ready(d), NEW name \in Names, NEW val \in Seq(Char),
           NoBlankLast(val), NEW b, Padded(b, val),
           NEW e, e = Line(InValue(d, name, b, "start"))
    PROVE  /\ b \in Seq(Char)
           /\ Serves(d, name, val) => Keeps(e, d, name)
           /\ ~Serves(d, name, val) => e.ret = "400"
<1> DEFINE u == InValue(d, name, b, "none")
           serves == IF name = "key" THEN ~d.hasKey ELSE Accepts(name, val)
           p == CASE ~serves -> Refused(u, "400")
                  [] serves /\ name = "key" -> ToField([u EXCEPT !.key = val, !.hasKey = TRUE])
                  [] serves /\ name \in {"upgrade", "connection", "version"} ->
                         ToField([u EXCEPT !.handshake = @ \cup {name}])
                  [] OTHER -> ToField(u)
<1>1. b \in Seq(Char) /\ Rstrip(b) = val
  <2>1. "SP" \in Char
    BY DEF Char
  <2>2. Append(val, "SP") \in Seq(Char)
    BY <2>1, AppendProperties
  <2>3. QED
    BY <2>2, Stripped DEF NoBlankLast, Padded
<1>2. name \in Char /\ "none" \in Futures
  BY DEF Char, Futures
<1>3. /\ u \in Http /\ u.ret = "none" /\ u.process = "value" /\ u.field = name /\ u.buf = b
      /\ u.future = "none" /\ u.path = d.path /\ u.hasKey = d.hasKey /\ u.handshake = d.handshake
  BY <1>1, <1>2, InValueIs
<1>4. [InValue(d, name, b, "start") EXCEPT !.future = "none"] = u
  BY DEF InValue, Ready, Http
<1> HIDE DEF u
<1>5. e = Process(u)
  BY <1>4 DEF Line
<1>6. ProcessValue(u) = p
  <2>1. CASE name = "upgrade"
    BY <1>1, <1>3, <2>1 DEF ProcessValue, Accepts
  <2>2. CASE name = "connection"
    BY <1>1, <1>3, <2>2 DEF ProcessValue, Accepts
  <2>3. CASE name = "version"
    BY <1>1, <1>3, <2>3 DEF ProcessValue, Accepts
  <2>4. CASE name = "key"
    BY <1>1, <1>3, <2>4 DEF ProcessValue, Accepts
  <2>5. CASE name = "other"
    BY <1>1, <1>3, <2>5 DEF ProcessValue, Accepts
  <2>6. QED
    BY <2>1, <2>2, <2>3, <2>4, <2>5 DEF Names
<1>7. e = [p EXCEPT !.buf = IF p.ret = "none" THEN << >> ELSE @]
  <2> HIDE DEF p
  <2>1. Process(u) = [ProcessValue(u) EXCEPT !.buf = IF ProcessValue(u).ret = "none" THEN << >> ELSE @]
    BY <1>3 DEF Process
  <2>2. QED
    BY <1>5, <1>6, <2>1
<1>8. CASE ~serves
  <2>1. p = [u EXCEPT !.ret = "400"]
    BY <1>8 DEF Refused
  <2>2. p \in Http /\ p.ret = "400"
    BY <1>3, <2>1, ZenonT(40) DEF Http
  <2> HIDE DEF p
  <2>3. e.ret = "400"
    BY <1>7, <2>2 DEF Http
  <2>4. QED
    BY <1>1, <1>8, <2>3 DEF Serves
<1>9. CASE serves
  <2> DEFINE hs == d.handshake \cup ({name} \cap {"upgrade", "connection", "version"})
             hk == d.hasKey \/ name = "key"
  <2>1. p \in Http /\ p.ret = "none" /\ p.process = "field" /\ p.tokenEnd = "colon"
        /\ p.future = "none" /\ p.path = d.path /\ p.hasKey = hk /\ p.handshake = hs
    <3>1. CASE name = "key"
      <4>1. p = [[u EXCEPT !.key = val, !.hasKey = TRUE] EXCEPT !.process = "field", !.tokenEnd = "colon"]
        BY <1>9, <3>1 DEF ToField
      <4> HIDE DEF p
      <4>2. hs = d.handshake /\ hk = TRUE
        BY <3>1
      <4>3. QED
        BY <1>3, <4>1, <4>2 DEF Http
    <3>2. CASE name \in {"upgrade", "connection", "version"}
      <4>1. p = [[u EXCEPT !.handshake = @ \cup {name}] EXCEPT !.process = "field", !.tokenEnd = "colon"]
        BY <1>9, <3>2 DEF ToField
      <4> HIDE DEF p
      <4>2. hs = d.handshake \cup {name} /\ hk = d.hasKey
        BY <1>3, <3>2 DEF Http
      <4>3. QED
        BY <1>3, <4>1, <4>2, ZenonT(40) DEF Http
    <3>3. CASE name = "other"
      <4>1. p = [u EXCEPT !.process = "field", !.tokenEnd = "colon"]
        BY <1>9, <3>3 DEF ToField
      <4> HIDE DEF p
      <4>2. hs = d.handshake /\ hk = d.hasKey
        BY <1>3, <3>3 DEF Http
      <4>3. QED
        BY <1>3, <4>1, <4>2 DEF Http
    <3>4. QED
      BY <3>1, <3>2, <3>3 DEF Names
  <2> HIDE DEF p
  <2>2. e = [p EXCEPT !.buf = << >>]
    BY <1>7, <2>1
  <2>3. << >> \in Seq(Char)
    OBVIOUS
  <2>4. Ready(e) /\ e.path = d.path /\ e.hasKey = hk /\ e.handshake = hs
    BY <2>1, <2>2, <2>3 DEF Ready, Http
  <2>5. QED
    BY <1>1, <1>9, <2>4 DEF Serves, Keeps
<1>10. QED
  BY <1>8, <1>9

Requests == [begun : BOOLEAN, path : Known \cup {"/x", "none"}, seen : SUBSET Names,
             wrong : {"none", "400", "501", "505"}, ended : BOOLEAN]

\* From the end of a value to the start of the next line.
LEMMA LineRead ==
    ASSUME NEW d, Ready(d), NEW name \in Names, NEW val \in Seq(Char), Len(val) <= 6,
           NEW before \in {<< >>, <<"SP">>}, NEW end \in LineEnd
    PROVE  /\ before \in Seq(Char) /\ end \in Seq(Char)
           /\ \E b \in {val, Append(val, "SP")} :
                 /\ b \in Seq(Char)
                 /\ ProcessHeaderChunk(
                        ProcessHeaderChunk(
                            InValue(d, name, val, IF val = << >> THEN "skip" ELSE "none"), before),
                        end) = InValue(d, name, b, "start")
<1> DEFINE f == IF val = << >> THEN "skip" ELSE "none"
           v == InValue(d, name, val, f)
           o == Append(val, "SP")
<1>1. name \in Char /\ "SP" \in Char /\ f \in Futures /\ f \in {"none", "skip"}
  BY DEF Char, Futures
<1>2. o \in Seq(Char)
  BY <1>1, AppendProperties
<1>3. In(v) /\ v.buf = val /\ v.future = f /\ Ends(v) = {"CR", "LF"}
  BY <1>1, InValueIs DEF In
<1>4. ASSUME NEW b \in Seq(Char), NEW g \in {"none", "skip"}
      PROVE  /\ end \in Seq(Char)
             /\ ProcessHeaderChunk(InValue(d, name, b, g), end) = InValue(d, name, b, "start")
  <2> DEFINE x == InValue(d, name, b, g)
  <2>1. g \in Futures
    BY DEF Futures
  <2>2. In(x) /\ x.tokenEnd = "line"
    BY <1>1, <2>1, InValueIs DEF In
  <2>3. [x EXCEPT !.future = "start"] = InValue(d, name, b, "start")
    BY DEF InValue, Ready, Http
  <2> HIDE DEF x
  <2>4. end \in Seq(Char) /\ ProcessHeaderChunk(x, end) = [x EXCEPT !.future = "start"]
    BY <2>2, LineEnds
  <2>5. QED
    BY <2>3, <2>4 DEF x
<1>5. CASE before = << >>
  <2>1. ProcessHeaderChunk(v, before) = v /\ before \in Seq(Char)
    BY <1>5, ReadsNone
  <2>2. end \in Seq(Char) /\ ProcessHeaderChunk(v, end) = InValue(d, name, val, "start")
    BY <1>1, <1>4
  <2> HIDE DEF v
  <2>3. ProcessHeaderChunk(ProcessHeaderChunk(v, before), end) = InValue(d, name, val, "start")
    BY <2>1, <2>2
  <2>4. QED
    BY <2>1, <2>2, <2>3 DEF v
<1>6. CASE before = <<"SP">>
  <2>1. before \in Seq(Char) /\ ProcessHeaderChunk(v, before) = ProcessChar(v, "SP")
    BY <1>1, <1>6, ReadsOne
  <2>2. CASE val = << >>
    <3>1. ProcessChar(v, "SP") = v
      <4>1. "SP" \in Blank /\ v.future = "skip"
        BY <1>3, <2>2 DEF Blank
      <4> HIDE DEF v
      <4>2. QED
        BY <1>3, <4>1, Skips
    <3>2. end \in Seq(Char) /\ ProcessHeaderChunk(v, end) = InValue(d, name, val, "start")
      BY <1>1, <1>4
    <3> HIDE DEF v
    <3>3. ProcessHeaderChunk(ProcessHeaderChunk(v, before), end) = InValue(d, name, val, "start")
      BY <2>1, <3>1, <3>2
    <3>4. QED
      BY <2>1, <3>2, <3>3 DEF v
  <2>3. CASE val # << >>
    <3>1. ProcessChar(v, "SP") = [v EXCEPT !.buf = Append(@, "SP"), !.future = "none"]
      <4>1. Len(v.buf) < BufSize - 1
        <5>1. Len(val) \in Nat /\ BufSize \in Nat /\ BufSize > 8
          BY WsHttpAssumption
        <5>2. QED
          BY <1>3, <5>1
      <4>2. "SP" \in Char \ Ends(v) /\ v.future = "none"
        BY <1>1, <1>3, <2>3
      <4> HIDE DEF v
      <4>3. QED
        BY <1>3, <4>1, <4>2, Adds
    <3>2. [v EXCEPT !.buf = Append(@, "SP"), !.future = "none"] = InValue(d, name, o, "none")
      BY DEF InValue, Ready, Http
    <3>3. end \in Seq(Char) /\ ProcessHeaderChunk(InValue(d, name, o, "none"), end)
                                   = InValue(d, name, o, "start")
      BY <1>2, <1>4
    <3> HIDE DEF v
    <3>4. ProcessHeaderChunk(ProcessHeaderChunk(v, before), end) = InValue(d, name, o, "start")
      BY <2>1, <3>1, <3>2, <3>3
    <3>5. QED
      BY <1>2, <2>1, <3>3, <3>4 DEF v
  <2>4. QED
    BY <2>2, <2>3
<1>7. QED
  BY <1>5, <1>6

\* Blanks before and after the colon.
Befores == {<< >>, <<"SP">>}
Afters == {<< >>, <<"TAB", "SP">>}

\* A header, and what it adds to what the request amounts to.
HeaderText(name, before, after, value, end) ==
    <<name>> \o before \o <<":">> \o after \o value \o before \o end

HeaderSeen(r, name, value, end) ==
    [r EXCEPT !.seen = @ \cup {name},
        !.wrong = IF \/ value \notin Good(name, end)
                     \/ name = "key" /\ name \in r.seen
                  THEN "400" ELSE "none"]

LEMMA HeaderRead ==
    ASSUME NEW v, NEW r \in Requests, AtLine(v, r), r.wrong = "none",
           NEW name \in Names, NEW end \in LineEnd, NEW value \in Values(name, end),
           NEW before \in Befores, NEW after \in Afters,
           NEW text, text = HeaderText(name, before, after, value, end),
           NEW q, q = HeaderSeen(r, name, value, end)
    PROVE  /\ text \in Seq(Char)
           /\ \/ AtLine(ProcessHeaderChunk(v, text), q)
              \/ ProcessHeaderChunk(v, text).ret = q.wrong /\ q.wrong # "none"
<1> DEFINE d == Line(v)
           t1 == <<name>>
           t3 == <<":">>
           v1 == ProcessHeaderChunk(v, t1)
           v2 == ProcessHeaderChunk(v1, before)
           v3 == ProcessHeaderChunk(v2, t3)
           v4 == ProcessHeaderChunk(v3, after)
           v5 == ProcessHeaderChunk(v4, value)
           v6 == ProcessHeaderChunk(v5, before)
           v7 == ProcessHeaderChunk(v6, end)
<1>0. before \in {<< >>, <<"SP">>} /\ after \in {<< >>, <<"TAB", "SP">>}
  BY DEF Befores, Afters
<1>1. Ready(d) /\ Data(d, r)
  BY DEF AtLine
<1>2. name \in Char \ {":", "SP", "TAB", "CR", "LF"} /\ ":" \in Char /\ name \in Char
  BY DEF Char, Names
<1>3. t1 \in Seq(Char) /\ v1 = [d EXCEPT !.buf = <<name>>]
  BY <1>2, ReadsOne, NameStarts
<1>4. t3 \in Seq(Char) /\ v3 = ProcessChar(v2, ":")
  BY <1>2, ReadsOne
<1> HIDE DEF d, t1, t3, v1, v2, v3, v4, v5, v6, v7
<1>5. before \in Seq(Char) /\ v3 = InValue(d, name, << >>, "skip")
  BY <1>0, <1>1, <1>2, <1>3, <1>4, NameRead DEF v2
<1>6. after \in Seq(Char) /\ v4 = InValue(d, name, << >>, "skip")
  BY <1>0, <1>1, <1>2, <1>5, BlanksRead DEF v4
<1>7. /\ value \in Seq(Char)
      /\ \/ \E val : Kept(d, name, end, value, val)
         \/ value \notin Good(name, end) /\ v5.ret = "400"
  BY <1>1, <1>6, ValueKept DEF v5
<1>8. end \in Seq(Char)
  BY FoldingIs
<1>9. text \in Seq(Char) /\ ProcessHeaderChunk(v, text) = v7
  <2> DEFINE s2 == t1 \o before
             s3 == s2 \o t3
             s4 == s3 \o after
             s5 == s4 \o value
             s6 == s5 \o before
             s7 == s6 \o end
  <2>1. text = s7
    BY DEF t1, t3, HeaderText
  <2> HIDE DEF s2, s3, s4, s5, s6, s7
  <2>2. s2 \in Seq(Char) /\ ProcessHeaderChunk(v, s2) = v2
    <3>1. t1 \in Seq(Char) /\ before \in Seq(Char)
      BY <1>3, <1>5
    <3>2. t1 \o before \in Seq(Char)
          /\ ProcessHeaderChunk(v, t1 \o before) = ProcessHeaderChunk(ProcessHeaderChunk(v, t1), before)
      BY <3>1, ReadsBoth
    <3>3. QED
      BY <3>2 DEF s2, v1, v2
  <2>3. s3 \in Seq(Char) /\ ProcessHeaderChunk(v, s3) = v3
    BY <1>4, <2>2, ReadsBoth DEF s3, v3
  <2>4. s4 \in Seq(Char) /\ ProcessHeaderChunk(v, s4) = v4
    BY <1>6, <2>3, ReadsBoth DEF s4, v4
  <2>5. s5 \in Seq(Char) /\ ProcessHeaderChunk(v, s5) = v5
    BY <1>7, <2>4, ReadsBoth DEF s5, v5
  <2>6. s6 \in Seq(Char) /\ ProcessHeaderChunk(v, s6) = v6
    BY <1>5, <2>5, ReadsBoth DEF s6, v6
  <2>7. s7 \in Seq(Char) /\ ProcessHeaderChunk(v, s7) = v7
    BY <1>8, <2>6, ReadsBoth DEF s7, v7
  <2>8. QED
    BY <2>1, <2>7
<1>10. q.seen = r.seen \cup {name}
       /\ q.wrong = (IF value \notin Good(name, end) \/ (name = "key" /\ name \in r.seen)
                     THEN "400" ELSE "none")
       /\ q.path = r.path
  BY DEF Requests, HeaderSeen
<1>11. ASSUME value \notin Good(name, end), v5.ret = "400"
       PROVE  v7.ret = q.wrong /\ q.wrong # "none"
  <2>1. v6 = v5
    BY <1>5, <1>11, ReadsNoMore DEF v6
  <2>2. v7 = v6
    BY <1>8, <1>11, <2>1, ReadsNoMore DEF v7
  <2>3. QED
    BY <1>10, <1>11, <2>1, <2>2
<1>12. ASSUME NEW val, Kept(d, name, end, value, val)
       PROVE  AtLine(v7, q)
  <2>1. /\ val \in Seq(Char) /\ Len(val) <= 6
        /\ Len(val) > 0 => val[Len(val)] \notin Blank
        /\ Accepts(name, val) <=> value \in Good(name, end)
        /\ v5 = InValue(d, name, val, IF val = << >> THEN "skip" ELSE "none")
    BY <1>6, <1>12 DEF Kept, v5
  <2>2. PICK b \in {val, Append(val, "SP")} : b \in Seq(Char) /\ v7 = InValue(d, name, b, "start")
    <3> DEFINE f == IF val = << >> THEN "skip" ELSE "none"
               w == InValue(d, name, val, f)
    <3>1. \E b \in {val, Append(val, "SP")} :
              /\ b \in Seq(Char)
              /\ ProcessHeaderChunk(ProcessHeaderChunk(w, before), end) = InValue(d, name, b, "start")
      <4>1. val \in Seq(Char) /\ Len(val) <= 6
        BY <2>1
      <4>2. QED
        BY <1>0, <1>1, <4>1, LineRead
    <3>2. v5 = w
      BY <2>1
    <3> HIDE DEF f, w
    <3>3. v7 = ProcessHeaderChunk(ProcessHeaderChunk(w, before), end)
      BY <3>2 DEF v6, v7
    <3>4. QED
      BY <3>1, <3>3
  <2> DEFINE e == Line(v7)
  <2>3. /\ Serves(d, name, val) => Keeps(e, d, name)
        /\ ~Serves(d, name, val) => e.ret = "400"
    <3>1. e = Line(InValue(d, name, b, "start"))
      BY <2>2
    <3>2. val \in Seq(Char) /\ NoBlankLast(val)
      BY <2>1 DEF NoBlankLast
    <3>3. Padded(b, val)
      BY <2>2 DEF Padded
    <3> HIDE DEF e
    <3>4. QED
      BY <1>1, <3>1, <3>2, <3>3, ValueEnds
  <2>4. v7 \in Http /\ v7.ret = "none" /\ v7.future = "start"
    <3>1. "start" \in Futures
      BY DEF Futures
    <3>2. QED
      BY <1>1, <1>2, <2>2, <3>1, InValueIs
  <2>5. name = "key" => Accepts(name, val)
    BY DEF Accepts
  <2>6. Serves(d, name, val) <=> q.wrong = "none"
    <3>1. d.hasKey <=> "key" \in r.seen
      BY <1>1, Zenon DEF Data
    <3>2. CASE name = "key"
      BY <1>10, <2>1, <2>5, <3>1, <3>2 DEF Serves
    <3>3. CASE name # "key"
      BY <1>10, <2>1, <3>3 DEF Serves
    <3>4. QED
      BY <3>2, <3>3
  <2> HIDE DEF e
  <2>7. e.ret = q.wrong
    BY <1>10, <2>3, <2>6 DEF Ready, Keeps
  <2>8. q.wrong = "none" => Ready(e) /\ Data(e, q)
    <3>1. SUFFICES ASSUME q.wrong = "none" PROVE Ready(e) /\ Data(e, q)
      BY <3>1
    <3>2. /\ Ready(e) /\ e.path = d.path /\ e.hasKey = (d.hasKey \/ name = "key")
          /\ e.handshake = d.handshake \cup ({name} \cap {"upgrade", "connection", "version"})
      BY <2>3, <2>6, <3>1 DEF Keeps
    <3>3. e.handshake = q.seen \cap {"upgrade", "connection", "version"}
      BY <1>1, <1>10, <3>2 DEF Data
    <3>4. e.hasKey = ("key" \in q.seen)
      <4>1. d.hasKey = ("key" \in r.seen)
        BY <1>1 DEF Data
      <4>2. (("key" \in r.seen) \/ name = "key") = ("key" \in q.seen)
        BY <1>10
      <4>3. QED
        BY <3>2, <4>1, <4>2, Zenon
    <3>5. QED
      BY <1>1, <1>10, <3>2, <3>3, <3>4 DEF Data
  <2>9. q.seen # {}
    BY <1>10
  <2>10. QED
    BY <2>4, <2>7, <2>8, <2>9 DEF AtLine, e
<1>13. QED
  BY <1>7, <1>9, <1>11, <1>12

\* Four characters.
LEMMA ReadsFour ==
    ASSUME NEW w, NEW a \in Char, NEW b \in Char, NEW c \in Char, NEW d \in Char
    PROVE  /\ <<a, b, c, d>> \in Seq(Char)
           /\ ProcessHeaderChunk(w, <<a, b, c, d>>) =
                  ProcessChar(ProcessChar(ProcessChar(ProcessChar(w, a), b), c), d)
<1> DEFINE s == <<a, b>>
           t == <<c, d>>
           u == <<a, b, c, d>>
<1>1. u = s \o t
  OBVIOUS
<1>2. s \in Seq(Char) /\ ProcessHeaderChunk(w, s) = ProcessChar(ProcessChar(w, a), b)
  BY ReadsTwo
<1>3. t \in Seq(Char) /\ \A v : ProcessHeaderChunk(v, t) = ProcessChar(ProcessChar(v, c), d)
  BY ReadsTwo
<1> HIDE DEF s, t, u
<1>4. s \o t \in Seq(Char)
      /\ ProcessHeaderChunk(w, s \o t) = ProcessHeaderChunk(ProcessHeaderChunk(w, s), t)
  BY <1>2, <1>3, ReadsBoth
<1>5. u \in Seq(Char) /\ ProcessHeaderChunk(w, u) =
                             ProcessChar(ProcessChar(ProcessChar(ProcessChar(w, a), b), c), d)
  BY <1>1, <1>2, <1>3, <1>4
<1>6. QED
  BY <1>5 DEF u

\* An error of the tokenizer, and a state that has its answer.
LEMMA Aborts ==
    ASSUME NEW w \in Http, w.ret = "none", NEW c, NEW f \in Futures,
           Tokenizer(w, c) = Is(w, f, "abort")
    PROVE  ProcessChar(w, c).ret = "400"
<1> DEFINE u == [w EXCEPT !.future = f]
<1>1. Is(w, f, "abort").http = u /\ Is(w, f, "abort").what = "abort"
  BY DEF Is
<1>2. [u EXCEPT !.ret = "400"].ret = "400"
  BY DEF Http
<1> HIDE DEF u
<1>3. TokenRound(w, c) = [u EXCEPT !.ret = "400"]
  BY <1>1 DEF TokenRound, Refused
<1>4. ProcessChar(w, c) = TokenRound(w, c)
  BY <1>1, <1>2, <1>3 DEF ProcessChar
<1>5. QED
  BY <1>2, <1>3, <1>4

LEMMA Answered ==
    ASSUME NEW w, w.ret # "none", NEW c
    PROVE  ProcessChar(w, c) = w
BY DEF ProcessChar

\* Lines that are refused.
LEMMA BadLineRead ==
    ASSUME NEW v, NEW r \in Requests, AtLine(v, r),
           NEW text, \/ text = <<"x", "LF">>
                     \/ text = <<"x", ":", "CR", "x">>
                     \/ text = <<"SP", "x", ":", "LF">> /\ r.seen = {} /\ r.wrong = "none"
    PROVE  /\ text \in Seq(Char)
           /\ ProcessHeaderChunk(v, text).ret = IF r.wrong = "none" THEN "400" ELSE r.wrong
<1> DEFINE d == Line(v)
           w == [d EXCEPT !.buf = <<"x">>]
           x == InValue(d, "x", << >>, "skip")
<1>1. /\ "x" \in Char /\ ":" \in Char /\ "CR" \in Char /\ "LF" \in Char /\ "SP" \in Char
      /\ "x" \in Char \ {":", "SP", "TAB", "CR", "LF"}
  BY DEF Char
<1>2. ProcessChar(v, "x") = IF r.wrong = "none" THEN w ELSE d
  BY <1>1, NameStarts
<1>3. d.ret = r.wrong
  BY DEF AtLine
<1>4. CASE r.wrong # "none" /\ text = <<"x", "LF">>
  <2>1. text \in Seq(Char) /\ ProcessHeaderChunk(v, text) = ProcessChar(ProcessChar(v, "x"), "LF")
    BY <1>1, <1>4, ReadsTwo
  <2> HIDE DEF d
  <2>2. ProcessHeaderChunk(v, text) = d
    BY <1>2, <1>3, <1>4, <2>1, Answered
  <2>3. QED
    BY <1>3, <1>4, <2>1, <2>2
<1>5. CASE r.wrong # "none" /\ text = <<"x", ":", "CR", "x">>
  <2>1. text \in Seq(Char)
        /\ ProcessHeaderChunk(v, text) =
               ProcessChar(ProcessChar(ProcessChar(ProcessChar(v, "x"), ":"), "CR"), "x")
    BY <1>1, <1>5, ReadsFour
  <2> HIDE DEF d
  <2>2. ProcessHeaderChunk(v, text) = d
    BY <1>2, <1>3, <1>5, <2>1, Answered
  <2>3. QED
    BY <1>3, <1>5, <2>1, <2>2
<1>6. CASE r.wrong = "none" /\ text = <<"x", "LF">>
  <2>1. text \in Seq(Char) /\ ProcessHeaderChunk(v, text) = ProcessChar(ProcessChar(v, "x"), "LF")
    BY <1>1, <1>6, ReadsTwo
  <2>2. Ready(d)
    BY <1>6 DEF AtLine
  <2>3. w \in Http /\ w.ret = "none" /\ w.future = "none" /\ w.tokenEnd = "colon"
    <3>1. <<"x">> \in Seq(Char)
      BY <1>1, SingleText
    <3>2. QED
      BY <2>2, <3>1 DEF Ready, Http
  <2> HIDE DEF d, w
  <2>4. Tokenizer(w, "LF") = Is(w, "none", "abort") /\ "none" \in Futures
    BY <2>3 DEF Tokenizer, InToken, Futures
  <2>5. ProcessChar(w, "LF").ret = "400"
    BY <2>3, <2>4, Aborts
  <2>6. QED
    BY <1>2, <1>6, <2>1, <2>5
<1>7. CASE r.wrong = "none" /\ text = <<"x", ":", "CR", "x">>
  <2>1. text \in Seq(Char)
        /\ ProcessHeaderChunk(v, text) =
               ProcessChar(ProcessChar(ProcessChar(ProcessChar(v, "x"), ":"), "CR"), "x")
    BY <1>1, <1>7, ReadsFour
  <2>2. Ready(d)
    BY <1>7 DEF AtLine
  <2>3. ProcessChar(w, ":") = x
    <3> DEFINE e == << >>
    <3>1. e \in {<< >>, <<"SP">>} /\ ProcessHeaderChunk(w, e) = w
      BY ReadsNone
    <3> HIDE DEF e, d
    <3>2. ProcessChar(ProcessHeaderChunk([d EXCEPT !.buf = <<"x">>], e), ":")
              = InValue(d, "x", << >>, "skip")
      BY <1>1, <2>2, <3>1, NameRead
    <3>3. QED
      BY <3>1, <3>2
  <2>4. x \in Http /\ x.ret = "none" /\ x.future = "skip" /\ x.tokenEnd = "line"
    <3> DEFINE e == << >>
    <3>1. e \in Seq(Char) /\ "skip" \in Futures
      BY DEF Futures
    <3> HIDE DEF e, d
    <3>2. /\ InValue(d, "x", e, "skip") \in Http /\ InValue(d, "x", e, "skip").ret = "none"
          /\ InValue(d, "x", e, "skip").future = "skip"
          /\ InValue(d, "x", e, "skip").tokenEnd = "line"
      BY <1>1, <2>2, <3>1, InValueIs
    <3>3. QED
      BY <3>2 DEF e
  <2> DEFINE y == [x EXCEPT !.future = "lf"]
  <2> HIDE DEF d, w, x
  <2>5. ProcessChar(x, "CR") = y
    <3>1. Tokenizer(x, "CR") = Is(x, "lf", "skip")
      BY <2>4 DEF Tokenizer, InToken, Blank
    <3>2. Is(x, "lf", "skip").http = y /\ Is(x, "lf", "skip").what = "skip"
      BY DEF Is
    <3> HIDE DEF y
    <3>3. TokenRound(x, "CR") = y
      BY <3>1, <3>2 DEF TokenRound
    <3>4. QED
      BY <2>4, <3>1, <3>2, <3>3 DEF ProcessChar
  <2>6. y \in Http /\ y.ret = "none" /\ y.future = "lf"
    BY <2>4 DEF Http, Futures
  <2> HIDE DEF y
  <2>7. Tokenizer(y, "x") = Is(y, "none", "abort") /\ "none" \in Futures
    BY <2>6 DEF Tokenizer, MandatoryLf, Futures, Blank
  <2>8. ProcessChar(y, "x").ret = "400"
    BY <2>6, <2>7, Aborts
  <2>9. QED
    BY <1>2, <1>7, <2>1, <2>3, <2>5, <2>8
<1>8. CASE text = <<"SP", "x", ":", "LF">> /\ r.seen = {} /\ r.wrong = "none"
  <2>1. text \in Seq(Char)
        /\ ProcessHeaderChunk(v, text) =
               ProcessChar(ProcessChar(ProcessChar(ProcessChar(v, "SP"), "x"), ":"), "LF")
    BY <1>1, <1>8, ReadsFour
  <2>2. v \in Http /\ v.ret = "none" /\ v.future = "plainStart"
    BY <1>8 DEF AtLine
  <2>3. Tokenizer(v, "SP") = Is(v, "plainStart", "abort") /\ "plainStart" \in Futures
    BY <2>2 DEF Tokenizer, StartOfLine, Blank, Futures
  <2> DEFINE z == ProcessChar(v, "SP")
  <2>4. z.ret = "400"
    BY <2>2, <2>3, Aborts
  <2> HIDE DEF z
  <2>5. ProcessChar(z, "x") = z /\ ProcessChar(z, ":") = z /\ ProcessChar(z, "LF") = z
    BY <2>4, Answered
  <2>6. QED
    BY <1>8, <2>1, <2>4, <2>5 DEF z
<1>9. QED
  BY <1>4, <1>5, <1>6, <1>7, <1>8

-----------------------------------------------------------------------------
(* The handshake: the request line                                         *)

Fresh == [tokenEnd |-> "space", future |-> "none", process |-> "method",
          buf |-> << >>, field |-> "none", path |-> "none", key |-> << >>,
          hasKey |-> FALSE, handshake |-> {}, ret |-> "none"]

\* Before the version of HTTP, with the path, and in the tokens before it.
AtVersion(path, b) ==
    [Fresh EXCEPT !.path = path, !.process = "version", !.tokenEnd = "plainLine", !.buf = b]

InLine(p, b) == [Fresh EXCEPT !.process = p, !.buf = b]

LEMMA FreshIs ==
    /\ Fresh \in Http
    /\ \A p \in {"method", "path"}, b \in Seq(Char) :
          /\ In(InLine(p, b)) /\ InLine(p, b).buf = b /\ InLine(p, b).process = p
          /\ InLine(p, b).tokenEnd = "space" /\ InLine(p, b).future = "none"
          /\ InLine(p, b).ret = "none"
    /\ \A path \in Char, b \in Seq(Char) :
          /\ In(AtVersion(path, b)) /\ AtVersion(path, b).buf = b
          /\ AtVersion(path, b).process = "version" /\ AtVersion(path, b).tokenEnd = "plainLine"
          /\ AtVersion(path, b).future = "none" /\ AtVersion(path, b).ret = "none"
<1>1. "none" \in Char
  BY DEF Char
<1>2. Fresh \in Http
  <2> DEFINE e == << >>
  <2>1. e \in Seq(Char)
    OBVIOUS
  <2>2. Fresh = [tokenEnd |-> "space", future |-> "none", process |-> "method",
                 buf |-> e, field |-> "none", path |-> "none", key |-> e,
                 hasKey |-> FALSE, handshake |-> {}, ret |-> "none"]
    BY DEF Fresh
  <2> HIDE DEF e
  <2>3. QED
    BY <1>1, <2>1, <2>2 DEF Http, Futures
<1>3. Fresh.future = "none" /\ Fresh.ret = "none" /\ Fresh.tokenEnd = "space"
  BY DEF Fresh
<1>4. ASSUME NEW p \in {"method", "path"}, NEW b \in Seq(Char)
      PROVE  /\ In(InLine(p, b)) /\ InLine(p, b).buf = b /\ InLine(p, b).process = p
             /\ InLine(p, b).tokenEnd = "space" /\ InLine(p, b).future = "none"
             /\ InLine(p, b).ret = "none"
  BY <1>2, <1>3 DEF InLine, In, Http
<1>5. ASSUME NEW path \in Char, NEW b \in Seq(Char)
      PROVE  /\ In(AtVersion(path, b)) /\ AtVersion(path, b).buf = b
             /\ AtVersion(path, b).process = "version" /\ AtVersion(path, b).tokenEnd = "plainLine"
             /\ AtVersion(path, b).future = "none" /\ AtVersion(path, b).ret = "none"
  BY <1>2, <1>3 DEF AtVersion, In, Http
<1>6. QED
  BY <1>2, <1>4, <1>5

\* A blank ends a token of the request line.
LEMMA BlankEnds ==
    ASSUME NEW w, In(w), w.future = "none", w.tokenEnd = "space"
    PROVE  ProcessChar(w, "SP") = Process(w)
<1>1. Tokenizer(w, "SP") = Is(w, "none", "end")
  BY DEF Tokenizer, InToken
<1>2. Is(w, "none", "end").http = w /\ Is(w, "none", "end").what = "end"
  BY DEF Is, In, Http
<1>3. TokenRound(w, "SP") = Process(w)
  BY <1>1, <1>2 DEF TokenRound
<1>4. QED
  BY <1>1, <1>2, <1>3 DEF ProcessChar, In

\* The first word of a token.
LEMMA FirstWord ==
    ASSUME NEW w, In(w), w.future = "none", w.buf = << >>, NEW c \in Char \ Ends(w)
    PROVE  ProcessChar(w, c) = [w EXCEPT !.buf = <<c>>]
<1>1. Len(w.buf) < BufSize - 1
  BY WsHttpAssumption
<1>2. ProcessChar(w, c) = [w EXCEPT !.buf = Append(@, c), !.future = "none"]
  BY <1>1, Adds
<1>3. Append(w.buf, c) = <<c>>
  OBVIOUS
<1>4. [w EXCEPT !.buf = Append(@, c), !.future = "none"] = [w EXCEPT !.buf = <<c>>]
  BY <1>3 DEF In, Http
<1>5. QED
  BY <1>2, <1>4

LEMMA MethodRead ==
    ASSUME NEW method \in {"GET", "POST"}
    PROVE  /\ <<method, "SP">> \in Seq(Char)
           /\ method = "GET" =>
                 ProcessHeaderChunk(Fresh, <<method, "SP">>) = InLine("path", << >>)
           /\ method # "GET" => ProcessHeaderChunk(Fresh, <<method, "SP">>).ret = "501"
<1> DEFINE e == << >>
           m == <<method>>
           v == InLine("method", e)
           w == InLine("method", m)
<1>1. method \in Char /\ "SP" \in Char /\ e \in Seq(Char) /\ m \in Seq(Char)
  BY SingleText DEF Char
<1>2. m = <<"GET">> <=> method = "GET"
  OBVIOUS
<1>3. v = Fresh
  <2>1. Fresh.process = "method" /\ Fresh.buf = e
    BY DEF Fresh
  <2>2. Fresh \in Http
    BY FreshIs
  <2> HIDE DEF e
  <2>3. [Fresh EXCEPT !.process = "method", !.buf = e] = Fresh
    BY <2>1, <2>2 DEF Http
  <2>4. QED
    BY <2>3 DEF InLine
<1>4. /\ <<method, "SP">> \in Seq(Char)
      /\ ProcessHeaderChunk(Fresh, <<method, "SP">>) = ProcessChar(ProcessChar(Fresh, method), "SP")
  BY <1>1, ReadsTwo
<1> HIDE DEF e, m
<1>5. In(v) /\ v.future = "none" /\ v.buf = e /\ v.tokenEnd = "space" /\ v.process = "method"
  BY <1>1, FreshIs
<1>6. In(w) /\ w.future = "none" /\ w.buf = m /\ w.tokenEnd = "space" /\ w.process = "method"
      /\ w.ret = "none"
  BY <1>1, FreshIs
<1>7. ProcessChar(v, method) = w
  <2>1. [v EXCEPT !.buf = m] = w
    BY FreshIs DEF InLine, Http
  <2> HIDE DEF v, w
  <2>2. method \in Char \ Ends(v)
    BY <1>1, <1>5 DEF Ends
  <2>3. ProcessChar(v, method) = [v EXCEPT !.buf = m]
    BY <1>5, <2>2, FirstWord DEF m, e
  <2>4. QED
    BY <2>1, <2>3
<1>8. CASE method = "GET"
  <2> DEFINE x == [w EXCEPT !.process = "path"]
  <2>1. x.ret = "none"
    BY <1>6 DEF In, Http
  <2>2. [x EXCEPT !.buf = e] = InLine("path", e)
    BY FreshIs DEF InLine, Http
  <2> HIDE DEF v, w
  <2>3. ProcessMethod(w) = x
    BY <1>2, <1>6, <1>8 DEF ProcessMethod
  <2> HIDE DEF x
  <2>4. Process(w) = [x EXCEPT !.buf = e]
    BY <1>6, <2>1, <2>3 DEF Process, e
  <2>5. ProcessChar(w, "SP") = InLine("path", e)
    BY <1>6, <2>2, <2>4, BlankEnds
  <2>6. QED
    BY <1>3, <1>4, <1>7, <1>8, <2>5 DEF e
<1>9. CASE method # "GET"
  <2> HIDE DEF v, w
  <2> DEFINE x == [w EXCEPT !.ret = "501"]
  <2>1. x.ret = "501" /\ [x EXCEPT !.buf = @].ret = "501"
    BY <1>6 DEF In, Http
  <2>2. ProcessMethod(w) = x
    BY <1>2, <1>6, <1>9 DEF ProcessMethod, Refused
  <2> HIDE DEF x
  <2>3. Process(w) = [x EXCEPT !.buf = @]
    BY <1>6, <2>1, <2>2 DEF Process
  <2>4. ProcessChar(w, "SP").ret = "501"
    BY <1>6, <2>1, <2>3, BlankEnds
  <2>5. QED
    BY <1>3, <1>4, <1>7, <1>9, <2>4
<1>10. QED
  BY <1>8, <1>9

\* The path, or none, and the blank behind it.
PathText(path) == IF path = "none" THEN << >> ELSE <<path>>

LEMMA PathRead ==
    ASSUME NEW path \in Known \cup {"/x", "none"}
    PROVE  /\ PathText(path) \in Seq(Char)
           /\ ProcessChar(ProcessHeaderChunk(InLine("path", << >>), PathText(path)), "SP")
                  = AtVersion(path, << >>)
<1> DEFINE e == << >>
           m == PathText(path)
           v == InLine("path", e)
           w == InLine("path", m)
<1>1. path \in Char /\ "SP" \in Char /\ e \in Seq(Char)
  BY DEF Char
<1>2. m \in Seq(Char) /\ path = (IF m = e THEN "none" ELSE m[1])
  <2>1. CASE path = "none"
    BY <2>1 DEF PathText
  <2>2. CASE path # "none"
    <3>1. m = <<path>> /\ <<path>> # << >> /\ <<path>>[1] = path
      BY <2>2 DEF PathText
    <3>2. <<path>> \in Seq(Char)
      BY <1>1, SingleText
    <3>3. QED
      BY <3>1, <3>2
  <2>3. QED
    BY <2>1, <2>2
<1> HIDE DEF e
<1>3. In(v) /\ v.future = "none" /\ v.buf = e /\ v.tokenEnd = "space" /\ v.process = "path"
  BY <1>1, FreshIs
<1>4. In(w) /\ w.future = "none" /\ w.buf = m /\ w.tokenEnd = "space" /\ w.process = "path"
      /\ w.ret = "none"
  BY <1>1, <1>2, FreshIs
<1>5. ProcessHeaderChunk(v, m) = w
  <2>1. CASE path = "none"
    <3>1. m = << >> /\ m = e
      BY <2>1 DEF PathText, e
    <3>2. QED
      BY <3>1, ReadsNone
  <2>2. CASE path # "none"
    <3>1. m = <<path>>
      BY <2>2 DEF PathText
    <3>2. ProcessHeaderChunk(v, m) = ProcessChar(v, path)
      BY <1>1, <3>1, ReadsOne
    <3>3. [v EXCEPT !.buf = m] = w
      BY FreshIs DEF InLine, Http
    <3> HIDE DEF v, w, m
    <3>4. path \in Char \ Ends(v)
      BY <1>1, <1>3, <2>2, WsHttpAssumption DEF Ends
    <3>5. ProcessChar(v, path) = [v EXCEPT !.buf = m]
      BY <1>3, <3>1, <3>4, FirstWord DEF e
    <3>6. QED
      BY <3>2, <3>3, <3>5
  <2>3. QED
    BY <2>1, <2>2
<1>6. ProcessChar(w, "SP") = AtVersion(path, e)
  <2> DEFINE x == [w EXCEPT !.path = path, !.process = "version", !.tokenEnd = "plainLine"]
  <2>1. x.ret = "none"
    BY <1>4 DEF In, Http
  <2>2. [x EXCEPT !.buf = e] = AtVersion(path, e)
    BY FreshIs, ZenonT(40) DEF InLine, AtVersion, Http
  <2> HIDE DEF v, w, m
  <2>3. ProcessPath(w) = x
    BY <1>2, <1>4 DEF ProcessPath, e
  <2> HIDE DEF x
  <2>4. Process(w) = [x EXCEPT !.buf = e]
    BY <1>4, <2>1, <2>3 DEF Process, e
  <2>5. QED
    BY <1>4, <2>2, <2>4, BlankEnds
<1>7. QED
  BY <1>2, <1>5, <1>6 DEF e

LEMMA VersionRead ==
    ASSUME NEW path \in Char, NEW version \in {"HTTP/1.1", "HTTP/1.0"}, NEW end \in LineEnd,
           NEW r, r.path = path, r.seen = {},
           r.wrong = IF version # "HTTP/1.1" THEN "505" ELSE "none"
    PROVE  /\ end \in Seq(Char)
           /\ AtLine(ProcessHeaderChunk(ProcessChar(AtVersion(path, << >>), version), end), r)
<1> DEFINE e == << >>
           m == <<version>>
           v == AtVersion(path, e)
           w == AtVersion(path, m)
           u == [w EXCEPT !.future = "plainStart"]
<1>1. version \in Char /\ e \in Seq(Char) /\ m \in Seq(Char)
  BY SingleText DEF Char
<1>2. m = <<"HTTP/1.1">> <=> version = "HTTP/1.1"
  OBVIOUS
<1> HIDE DEF e, m
<1>3. /\ In(v) /\ v.buf = e /\ v.process = "version" /\ v.tokenEnd = "plainLine"
      /\ v.future = "none" /\ v.ret = "none"
  BY <1>1, FreshIs
<1>4. /\ In(w) /\ w.buf = m /\ w.process = "version" /\ w.tokenEnd = "plainLine"
      /\ w.future = "none" /\ w.ret = "none"
  BY <1>1, FreshIs
<1>5. ProcessChar(v, version) = w
  <2>1. Fresh \in Http
    BY FreshIs
  <2>2. [v EXCEPT !.buf = m] = w
    BY <2>1 DEF AtVersion, Http
  <2> HIDE DEF v, w
  <2>3. version \in Char \ Ends(v)
    BY <1>1, <1>3 DEF Ends
  <2>4. ProcessChar(v, version) = [v EXCEPT !.buf = m]
    BY <1>3, <2>3, FirstWord DEF m, e
  <2>5. QED
    BY <2>2, <2>4
<1>6. w.handshake = {} /\ w.hasKey = FALSE /\ w.path = path
  <2>1. Fresh \in Http
    BY FreshIs
  <2>2. Fresh.handshake = {} /\ Fresh.hasKey = FALSE
    BY DEF Fresh
  <2>3. QED
    BY <2>1, <2>2 DEF AtVersion, Http
<1> HIDE DEF v, w
<1>7. end \in Seq(Char) /\ ProcessHeaderChunk(w, end) = u
  BY <1>4, LineEnds
<1>8. u \in Http /\ u.ret = "none" /\ u.future = "plainStart" /\ [u EXCEPT !.future = "none"] = w
  BY <1>4 DEF In, Http, Futures
<1> HIDE DEF u
<1>9. Line(u) = Process(w)
  BY <1>8 DEF Line
<1>10. CASE version = "HTTP/1.1"
  <2> DEFINE x == [w EXCEPT !.process = "field", !.tokenEnd = "colon"]
             y == [x EXCEPT !.buf = e]
  <2>1. x.ret = "none"
    BY <1>4 DEF In, Http
  <2>2. Ready(y) /\ y.handshake = {} /\ y.hasKey = FALSE /\ y.path = path
    BY <1>1, <1>4, <1>6 DEF In, Http, Ready, e
  <2>3. ProcessHttpVer(w) = x
    BY <1>2, <1>4, <1>10 DEF ProcessHttpVer, ToField
  <2> HIDE DEF x
  <2>4. Process(w) = y
    BY <1>4, <2>1, <2>3 DEF Process, e
  <2> HIDE DEF y
  <2>5. Line(u) = y /\ r.wrong = "none"
    BY <1>9, <1>10, <2>4
  <2>6. y.hasKey = ("key" \in r.seen)
    <3>1. ("key" \in r.seen) = FALSE
      OBVIOUS
    <3>2. QED
      BY <2>2, <3>1, Zenon
  <2>7. Data(y, r)
    BY <2>2, <2>6 DEF Data
  <2>8. y.ret = "none"
    BY <2>2 DEF Ready
  <2>9. AtLine(u, r)
    BY <1>8, <2>2, <2>5, <2>7, <2>8 DEF AtLine
  <2>10. QED
    BY <1>5, <1>7, <2>9 DEF v, e
<1>11. CASE version # "HTTP/1.1"
  <2> DEFINE x == [w EXCEPT !.ret = "505"]
  <2>1. x.ret = "505" /\ [x EXCEPT !.buf = @].ret = "505"
    BY <1>4 DEF In, Http
  <2>2. ProcessHttpVer(w) = x
    BY <1>2, <1>4, <1>11 DEF ProcessHttpVer, Refused
  <2> HIDE DEF x
  <2>3. Process(w) = [x EXCEPT !.buf = @]
    BY <1>4, <2>1, <2>2 DEF Process
  <2>4. Line(u).ret = "505" /\ r.wrong = "505"
    BY <1>9, <1>11, <2>1, <2>3
  <2>5. AtLine(u, r)
    BY <1>8, <2>4 DEF AtLine
  <2>6. QED
    BY <1>5, <1>7, <2>5 DEF v, e
<1>12. QED
  BY <1>10, <1>11

\* A whole request line, and what the request amounts to.
LineText(method, path, version, end) ==
    <<method, "SP">> \o PathText(path) \o <<"SP", version>> \o end

LineWrong(method, version) ==
    IF method # "GET" THEN "501" ELSE IF version # "HTTP/1.1" THEN "505" ELSE "none"

LEMMA RequestLineRead ==
    ASSUME NEW method \in {"GET", "POST"}, NEW path \in Known \cup {"/x", "none"},
           NEW version \in {"HTTP/1.1", "HTTP/1.0"}, NEW end \in LineEnd,
           NEW r, r.path = path, r.seen = {}, r.wrong = LineWrong(method, version),
           NEW text, text = LineText(method, path, version, end)
    PROVE  /\ text \in Seq(Char)
           /\ \/ AtLine(ProcessHeaderChunk(Fresh, text), r)
              \/ ProcessHeaderChunk(Fresh, text).ret = r.wrong /\ r.wrong # "none"
<1> DEFINE s1 == <<method, "SP">>
           s2 == PathText(path)
           s3 == <<"SP", version>>
           v1 == ProcessHeaderChunk(Fresh, s1)
           v2 == ProcessHeaderChunk(v1, s2)
           v3 == ProcessHeaderChunk(v2, s3)
           v4 == ProcessHeaderChunk(v3, end)
<1>1. s1 \in Seq(Char) /\ (method = "GET" => v1 = InLine("path", << >>))
      /\ (method # "GET" => v1.ret = "501")
  BY MethodRead
<1>2. s2 \in Seq(Char)
      /\ ProcessChar(ProcessHeaderChunk(InLine("path", << >>), s2), "SP") = AtVersion(path, << >>)
  BY PathRead
<1>3. s3 \in Seq(Char) /\ v3 = ProcessChar(ProcessChar(v2, "SP"), version)
  <2>1. "SP" \in Char /\ version \in Char
    BY DEF Char
  <2> HIDE DEF v2
  <2>2. QED
    BY <2>1, ReadsTwo
<1>4. end \in Seq(Char)
  BY FoldingIs
<1>5. path \in Char
  BY DEF Char
<1> HIDE DEF s1, s2, s3, v1, v2, v3, v4
<1>6. text \in Seq(Char) /\ ProcessHeaderChunk(Fresh, text) = v4
  <2> DEFINE t2 == s1 \o s2
             t3 == t2 \o s3
             t4 == t3 \o end
  <2>1. text = t4
    BY DEF s1, s2, s3, LineText
  <2> HIDE DEF t2, t3, t4
  <2>2. t2 \in Seq(Char) /\ ProcessHeaderChunk(Fresh, t2) = v2
    BY <1>1, <1>2, ReadsBoth DEF t2, v1, v2
  <2>3. t3 \in Seq(Char) /\ ProcessHeaderChunk(Fresh, t3) = v3
    BY <1>3, <2>2, ReadsBoth DEF t3, v3
  <2>4. t4 \in Seq(Char) /\ ProcessHeaderChunk(Fresh, t4) = v4
    BY <1>4, <2>3, ReadsBoth DEF t4, v4
  <2>5. QED
    BY <2>1, <2>4
<1>7. CASE method = "GET"
  <2>1. v3 = ProcessChar(AtVersion(path, << >>), version)
    BY <1>1, <1>2, <1>3, <1>7 DEF v2
  <2>2. r.wrong = IF version # "HTTP/1.1" THEN "505" ELSE "none"
    BY <1>7 DEF LineWrong
  <2>3. AtLine(v4, r)
    BY <1>5, <2>1, <2>2, VersionRead DEF v4
  <2>4. QED
    BY <1>6, <2>3
<1>8. CASE method # "GET"
  <2>1. v2 = v1
    BY <1>1, <1>2, <1>8, ReadsNoMore DEF v2
  <2>2. v3 = v2
    BY <1>1, <1>3, <1>8, <2>1, ReadsNoMore DEF v3
  <2>3. v4 = v3
    BY <1>1, <1>4, <1>8, <2>1, <2>2, ReadsNoMore DEF v4
  <2>4. r.wrong = "501"
    BY <1>8 DEF LineWrong
  <2>5. QED
    BY <1>1, <1>6, <1>8, <2>1, <2>2, <2>3, <2>4
<1>9. QED
  BY <1>7, <1>8

-----------------------------------------------------------------------------
(* The handshake: its invariant                                            *)

\* The answer is known before the request ends.
Settled(v, r) == v.ret = r.wrong /\ r.wrong # "none"

\* Where the reading of all that was sent stops.
AtRest(v, r) ==
    \/ /\ ~r.begun /\ ~r.ended /\ v = Fresh
       /\ r.path = "none" /\ r.seen = {} /\ r.wrong = "none"
    \/ r.begun /\ ~r.ended /\ AtLine(v, r)
    \/ r.begun /\ Settled(v, r)
    \/ r.begun /\ r.ended /\ r.wrong = "none" /\ v.ret = "headers" /\ Data(v, r)

\* However what is unread is cut, its reading leads to the same state.
HttpInv ==
    /\ request \in Requests
    /\ outcome = "reading" => /\ http.ret = "none" /\ unread \in Seq(Char)
                              /\ AtRest(ProcessHeaderChunk(http, unread), request)
    /\ outcome # "reading" => outcome = IF Keyless THEN "crash" ELSE Deserved

LEMMA HttpInvInit == HttpInit => HttpInv
<1>1. SUFFICES ASSUME HttpInit PROVE HttpInv
  OBVIOUS
<1>2. /\ request.begun = FALSE /\ request.path = "none" /\ request.seen = {}
      /\ request.wrong = "none" /\ request.ended = FALSE /\ request \in Requests
  BY <1>1 DEF HttpInit, Requests
<1>3. http = Fresh /\ unread = << >> /\ outcome = "reading"
  BY <1>1 DEF HttpInit, Fresh
<1>4. unread \in Seq(Char) /\ ProcessHeaderChunk(http, unread) = http
  BY <1>3, ReadsNone
<1>5. http.ret = "none"
  BY <1>3 DEF Fresh
<1>6. AtRest(http, request)
  BY <1>2, <1>3 DEF AtRest
<1>7. QED
  BY <1>2, <1>3, <1>4, <1>5, <1>6 DEF HttpInv

\* Between two texts the browser sends nothing is unread.
LEMMA BetweenTexts ==
    ASSUME HttpInv, NEW text, NEW req, Sends(text, req)
    PROVE  /\ ~request.begun => /\ http = Fresh /\ request.seen = {} /\ request.wrong = "none"
           /\ request.begun => AtLine(http, request)
           /\ request \in Requests /\ ~request.ended
           /\ request.wrong = "none" => request' = req
           /\ request.wrong # "none" => request' = [req EXCEPT !.wrong = request.wrong]
<1>1. outcome = "reading" /\ unread = << >> /\ ~request.ended
  BY DEF Sends
<1>2. http.ret = "none" /\ AtRest(http, request) /\ request \in Requests
  BY <1>1, ReadsNone DEF HttpInv
<1>3. ~Settled(http, request)
  BY <1>2 DEF Settled
<1>4. /\ ~request.begun => /\ http = Fresh /\ request.seen = {} /\ request.wrong = "none"
      /\ request.begun => AtLine(http, request)
  BY <1>1, <1>2, <1>3 DEF AtRest
<1>5. /\ request.wrong = "none" => request' = req
      /\ request.wrong # "none" => request' = [req EXCEPT !.wrong = request.wrong]
  BY DEF Sends
<1>6. QED
  BY <1>1, <1>2, <1>4, <1>5

LEMMA SendsKeeps ==
    ASSUME HttpInv, NEW text \in Seq(Char), NEW req, Sends(text, req), request' \in Requests,
           AtRest(ProcessHeaderChunk(http, text), request')
    PROVE  HttpInv'
<1>1. outcome = "reading" /\ outcome' = "reading" /\ unread' = text /\ http' = http
  BY DEF Sends
<1>2. http.ret = "none"
  BY <1>1 DEF HttpInv
<1>3. QED
  BY <1>1, <1>2 DEF HttpInv

LEMMA RequestLineKeeps ==
    ASSUME HttpInv, NEW method \in {"GET", "POST"}, NEW path \in Known \cup {"/x", "none"},
           NEW version \in {"HTTP/1.1", "HTTP/1.0"}, NEW end \in LineEnd,
           RequestLine(method, path, version, end)
    PROVE  HttpInv'
<1> DEFINE text == LineText(method, path, version, end)
           req == [request EXCEPT !.begun = TRUE, !.path = path, !.wrong = LineWrong(method, version)]
<1>1. Sends(text, req) /\ ~request.begun
  BY DEF RequestLine, LineText, LineWrong, PathText
<1> HIDE DEF text, req
<1>2. /\ http = Fresh /\ request.seen = {} /\ request.wrong = "none"
      /\ request \in Requests /\ ~request.ended /\ request' = req
  BY <1>1, BetweenTexts
<1>3. LineWrong(method, version) \in {"none", "400", "501", "505"}
  BY DEF LineWrong
<1>4. /\ req.begun = TRUE /\ req.path = path /\ req.seen = {} /\ ~req.ended
      /\ req.wrong = LineWrong(method, version) /\ req \in Requests
  BY <1>2, <1>3 DEF Requests, req
<1>5. text = LineText(method, path, version, end)
  BY DEF text
<1>6. /\ text \in Seq(Char)
      /\ \/ AtLine(ProcessHeaderChunk(Fresh, text), req)
         \/ ProcessHeaderChunk(Fresh, text).ret = req.wrong /\ req.wrong # "none"
  BY <1>4, <1>5, RequestLineRead
<1>7. AtRest(ProcessHeaderChunk(http, text), request')
  BY <1>2, <1>4, <1>6 DEF AtRest, Settled
<1>8. QED
  BY <1>1, <1>2, <1>4, <1>6, <1>7, SendsKeeps

LEMMA SomeReady == \E d : Ready(d)
<1> DEFINE d == [Fresh EXCEPT !.process = "field", !.tokenEnd = "colon"]
<1>1. Fresh \in Http
  BY FreshIs
<1>2. Fresh.ret = "none" /\ Fresh.future = "none" /\ Fresh.buf = << >>
  BY DEF Fresh
<1>3. Ready(d)
  BY <1>1, <1>2 DEF Ready, Http
<1>4. QED
  BY <1>3

\* After a mistake a header changes nothing.
LEMMA HeaderLost ==
    ASSUME NEW v, NEW r, AtLine(v, r), r.wrong # "none",
           NEW name \in Names, NEW end \in LineEnd, NEW value \in Values(name, end),
           NEW before \in Befores, NEW after \in Afters,
           NEW text, text = HeaderText(name, before, after, value, end)
    PROVE  text \in Seq(Char) /\ ProcessHeaderChunk(v, text).ret = r.wrong
<1> DEFINE t1 == <<name>>
           t3 == <<":">>
           d == Line(v)
           s2 == t1 \o before
           s3 == s2 \o t3
           s4 == s3 \o after
           s5 == s4 \o value
           s6 == s5 \o before
           s7 == s6 \o end
<1>1. d.ret = r.wrong /\ d.ret # "none"
  BY DEF AtLine
<1>2. name \in Char \ {":", "SP", "TAB", "CR", "LF"} /\ ":" \in Char /\ name \in Char
      /\ "SP" \in Char /\ "TAB" \in Char
  BY DEF Char, Names
<1>3. t1 \in Seq(Char) /\ ProcessHeaderChunk(v, t1) = d
  BY <1>1, <1>2, ReadsOne, NameStarts
<1>4. t3 \in Seq(Char)
  BY <1>2, SingleText
<1>5. before \in Seq(Char) /\ after \in Seq(Char)
  <2>1. << >> \in Seq(Char) /\ <<"SP">> \in Seq(Char) /\ <<"TAB", "SP">> \in Seq(Char)
    BY <1>2
  <2>2. QED
    BY <2>1 DEF Befores, Afters
<1>6. value \in Seq(Char)
  BY SomeReady, ValueKept
<1>7. end \in Seq(Char)
  BY FoldingIs
<1>8. text = s7
  BY DEF HeaderText
<1> HIDE DEF d, t1, t3, s2, s3, s4, s5, s6, s7
<1>9. ASSUME NEW s \in Seq(Char), NEW t \in Seq(Char), ProcessHeaderChunk(v, s) = d
      PROVE  s \o t \in Seq(Char) /\ ProcessHeaderChunk(v, s \o t) = d
  <2>1. s \o t \in Seq(Char)
        /\ ProcessHeaderChunk(v, s \o t) = ProcessHeaderChunk(ProcessHeaderChunk(v, s), t)
    BY ReadsBoth
  <2>2. ProcessHeaderChunk(d, t) = d
    BY <1>1, ReadsNoMore
  <2>3. QED
    BY <1>9, <2>1, <2>2
<1>10. s2 \in Seq(Char) /\ ProcessHeaderChunk(v, s2) = d
  BY <1>3, <1>5, <1>9 DEF s2
<1>11. s3 \in Seq(Char) /\ ProcessHeaderChunk(v, s3) = d
  BY <1>4, <1>9, <1>10 DEF s3
<1>12. s4 \in Seq(Char) /\ ProcessHeaderChunk(v, s4) = d
  BY <1>5, <1>9, <1>11 DEF s4
<1>13. s5 \in Seq(Char) /\ ProcessHeaderChunk(v, s5) = d
  BY <1>6, <1>9, <1>12 DEF s5
<1>14. s6 \in Seq(Char) /\ ProcessHeaderChunk(v, s6) = d
  BY <1>5, <1>9, <1>13 DEF s6
<1>15. s7 \in Seq(Char) /\ ProcessHeaderChunk(v, s7) = d
  BY <1>7, <1>9, <1>14 DEF s7
<1>16. QED
  BY <1>1, <1>8, <1>15

LEMMA HeaderKeeps ==
    ASSUME HttpInv, NEW name \in Names, NEW end \in LineEnd, NEW value \in Values(name, end),
           NEW before \in Befores, NEW after \in Afters,
           Header(name, before, after, value, end)
    PROVE  HttpInv'
<1> DEFINE text == HeaderText(name, before, after, value, end)
           req == HeaderSeen(request, name, value, end)
<1>1. Sends(text, req) /\ request.begun
  BY DEF Header, HeaderText, HeaderSeen
<1> HIDE DEF text, req
<1>2. /\ AtLine(http, request) /\ request \in Requests /\ ~request.ended
      /\ request.wrong = "none" => request' = req
      /\ request.wrong # "none" => request' = [req EXCEPT !.wrong = request.wrong]
  BY <1>1, BetweenTexts
<1>3. req \in Requests /\ req.begun = TRUE /\ req.ended = FALSE
  BY <1>1, <1>2 DEF Requests, HeaderSeen, req
<1>4. /\ text = HeaderText(name, before, after, value, end)
      /\ req = HeaderSeen(request, name, value, end)
  BY DEF text, req
<1>5. CASE request.wrong = "none"
  <2>1. /\ text \in Seq(Char)
        /\ \/ AtLine(ProcessHeaderChunk(http, text), req)
           \/ ProcessHeaderChunk(http, text).ret = req.wrong /\ req.wrong # "none"
    BY <1>2, <1>4, <1>5, HeaderRead
  <2>2. AtRest(ProcessHeaderChunk(http, text), req)
    BY <1>3, <2>1 DEF AtRest, Settled
  <2>3. QED
    BY <1>1, <1>2, <1>3, <1>5, <2>1, <2>2, SendsKeeps
<1>6. CASE request.wrong # "none"
  <2>1. text \in Seq(Char) /\ ProcessHeaderChunk(http, text).ret = request.wrong
    BY <1>2, <1>4, <1>6, HeaderLost
  <2>2. /\ request' \in Requests /\ request'.wrong = request.wrong /\ request'.begun = TRUE
    BY <1>2, <1>3, <1>6 DEF Requests
  <2>3. AtRest(ProcessHeaderChunk(http, text), request')
    BY <1>6, <2>1, <2>2 DEF AtRest, Settled
  <2>4. QED
    BY <1>1, <2>1, <2>2, <2>3, SendsKeeps
<1>7. QED
  BY <1>5, <1>6

LEMMA BadLineKeeps ==
    ASSUME HttpInv,
           NEW text, \/ text = <<"x", "LF">>
                     \/ text = <<"x", ":", "CR", "x">>
                     \/ text = <<"SP", "x", ":", "LF">> /\ request.seen = {} /\ request.wrong = "none",
           BadLine(text)
    PROVE  HttpInv'
<1> DEFINE req == [request EXCEPT !.wrong = "400"]
<1>1. Sends(text, req) /\ request.begun
  BY DEF BadLine
<1> HIDE DEF req
<1>2. /\ AtLine(http, request) /\ request \in Requests /\ ~request.ended
      /\ request.wrong = "none" => request' = req
      /\ request.wrong # "none" => request' = [req EXCEPT !.wrong = request.wrong]
  BY <1>1, BetweenTexts
<1>3. /\ request' \in Requests /\ request'.begun = TRUE
      /\ request'.wrong = IF request.wrong = "none" THEN "400" ELSE request.wrong
  BY <1>1, <1>2 DEF Requests, req
<1>4. /\ text \in Seq(Char)
      /\ ProcessHeaderChunk(http, text).ret = IF request.wrong = "none" THEN "400" ELSE request.wrong
  BY <1>2, BadLineRead
<1>5. AtRest(ProcessHeaderChunk(http, text), request')
  BY <1>3, <1>4 DEF AtRest, Settled
<1>6. QED
  BY <1>1, <1>3, <1>4, <1>5, SendsKeeps

LEMMA EndKeeps ==
    ASSUME HttpInv, NEW end \in LineEnd, EndOfHeaders(end)
    PROVE  HttpInv'
<1> DEFINE req == [request EXCEPT !.ended = TRUE]
           d == Line(http)
<1>1. Sends(end, req) /\ request.begun
  BY DEF EndOfHeaders
<1> HIDE DEF req
<1>2. /\ AtLine(http, request) /\ request \in Requests /\ ~request.ended
      /\ request.wrong = "none" => request' = req
      /\ request.wrong # "none" => request' = [req EXCEPT !.wrong = request.wrong]
  BY <1>1, BetweenTexts
<1>3. /\ request' \in Requests /\ request'.begun = TRUE /\ request'.ended = TRUE
      /\ request'.wrong = request.wrong /\ request'.seen = request.seen
      /\ request'.path = request.path
  BY <1>1, <1>2 DEF Requests, req
<1>4. /\ end \in Seq(Char)
      /\ ProcessHeaderChunk(http, end) = IF request.wrong = "none" THEN [d EXCEPT !.ret = "headers"]
                                         ELSE d
  BY <1>2, LastLine
<1>5. CASE request.wrong = "none"
  <2> DEFINE w == [d EXCEPT !.ret = "headers"]
  <2>1. Ready(d) /\ Data(d, request)
    BY <1>2, <1>5 DEF AtLine
  <2> HIDE DEF d
  <2>2. w.ret = "headers" /\ w.handshake = d.handshake /\ w.hasKey = d.hasKey /\ w.path = d.path
    BY <2>1 DEF Ready, Http
  <2> HIDE DEF w
  <2>3. w.hasKey = ("key" \in request'.seen)
    <3>1. d.hasKey = ("key" \in request.seen)
      BY <2>1 DEF Data
    <3>2. QED
      BY <1>3, <2>2, <3>1, Zenon
  <2>4. Data(w, request')
    BY <1>3, <2>1, <2>2, <2>3 DEF Data
  <2>5. AtRest(w, request')
    BY <1>3, <1>5, <2>2, <2>4 DEF AtRest
  <2>6. QED
    BY <1>1, <1>3, <1>4, <1>5, <2>5, SendsKeeps DEF w, d
<1>6. CASE request.wrong # "none"
  <2>1. d.ret = request.wrong
    BY <1>2 DEF AtLine
  <2>2. AtRest(d, request')
    BY <1>3, <1>6, <2>1 DEF AtRest, Settled
  <2>3. QED
    BY <1>1, <1>3, <1>4, <1>6, <2>2, SendsKeeps
<1>7. QED
  BY <1>5, <1>6

LEMMA BrowserKeeps ==
    ASSUME HttpInv, BrowserSends
    PROVE  HttpInv'
<1>1. ASSUME NEW method \in {"GET", "POST"}, NEW path \in Known \cup {"/x", "none"},
             NEW version \in {"HTTP/1.1", "HTTP/1.0"}, NEW end \in LineEnd,
             RequestLine(method, path, version, end)
      PROVE  HttpInv'
  BY <1>1, RequestLineKeeps
<1>2. ASSUME NEW name \in Names, NEW end \in LineEnd, NEW value \in Values(name, end),
             Header(name, << >>, << >>, value, end)
      PROVE  HttpInv'
  <2>1. << >> \in Befores /\ << >> \in Afters
    BY DEF Befores, Afters
  <2>2. QED
    BY <1>2, <2>1, HeaderKeeps
<1>3. ASSUME NEW name \in Names, NEW end \in LineEnd, NEW value \in Good(name, end),
             Header(name, <<"SP">>, <<"TAB", "SP">>, value, end)
      PROVE  HttpInv'
  <2>1. value \in Values(name, end)
    BY DEF Values, Good, Names
  <2>2. <<"SP">> \in Befores /\ <<"TAB", "SP">> \in Afters
    BY DEF Befores, Afters
  <2>3. QED
    BY <1>3, <2>1, <2>2, HeaderKeeps
<1>4. ASSUME BadLine(<<"x", "LF">>) \/ BadLine(<<"x", ":", "CR", "x">>)
             \/ (request.seen = {} /\ request.wrong = "none" /\ BadLine(<<"SP", "x", ":", "LF">>))
      PROVE  HttpInv'
  BY <1>4, BadLineKeeps
<1>5. ASSUME NEW end \in LineEnd, EndOfHeaders(end)
      PROVE  HttpInv'
  BY <1>5, EndKeeps
<1>6. QED
  BY <1>1, <1>2, <1>3, <1>4, <1>5 DEF BrowserSends

\* The answer a text leads to, and what it deserves.
LEMMA ReadKeeps ==
    ASSUME HttpInv, NEW n \in 1..Len(unread), WsHeaderRead(n)
    PROVE  HttpInv'
<1> DEFINE s == SubSeq(unread, 1, n)
           t == SubSeq(unread, n + 1, Len(unread))
           w == ProcessHeaderChunk(http, s)
<1>1. /\ outcome = "reading" /\ http' = w /\ unread' = t /\ request' = request
      /\ outcome' = CASE w.ret = "none" -> "reading"
                      [] w.ret = "headers" -> HeadersProcessed(w)
                      [] OTHER -> w.ret
  BY DEF WsHeaderRead
<1>2. /\ unread \in Seq(Char) /\ AtRest(ProcessHeaderChunk(http, unread), request)
      /\ request \in Requests
  BY <1>1 DEF HttpInv
<1>3. s \in Seq(Char) /\ t \in Seq(Char) /\ unread = s \o t
  <2>1. Len(unread) \in Nat /\ n \in 1..Len(unread)
    BY <1>2
  <2>2. SubSeq(unread, 1, Len(unread)) = unread
    BY <1>2, SubSeqFull
  <2>3. s \o t = SubSeq(unread, 1, Len(unread))
    BY <1>2, <2>1, ConcatAdjacentSubSeq
  <2>4. s \in Seq(Char) /\ t \in Seq(Char)
    BY <1>2, <2>1
  <2>5. unread = s \o t
    BY <2>2, <2>3, Zenon
  <2>6. QED
    BY <2>4, <2>5
<1> HIDE DEF s, t, w
<1>4. AtRest(ProcessHeaderChunk(w, t), request)
  BY <1>2, <1>3, ReadsBoth DEF w
<1>5. CASE w.ret = "none"
  <2>1. outcome' = "reading"
    BY <1>1, <1>5
  <2>2. QED
    BY <1>1, <1>2, <1>3, <1>4, <1>5, <2>1 DEF HttpInv
<1>6. CASE w.ret # "none"
  <2>1. AtRest(w, request)
    BY <1>3, <1>4, <1>6, ReadsNoMore
  <2>2. \/ Settled(w, request)
        \/ request.ended /\ request.wrong = "none" /\ w.ret = "headers" /\ Data(w, request)
    <3>1. Fresh.ret = "none"
      BY DEF Fresh
    <3>2. QED
      BY <1>6, <2>1, <3>1 DEF AtRest, AtLine
  <2>3. Deserved' = Deserved /\ (Keyless' <=> Keyless)
    BY <1>1 DEF Deserved, Keyless
  <2>4. CASE Settled(w, request)
    <3>1. outcome' = request.wrong /\ request.wrong \in {"400", "501", "505"}
      BY <1>1, <1>2, <2>4 DEF Settled, Requests
    <3>2. Deserved = request.wrong /\ ~Keyless
      BY <3>1 DEF Deserved, Keyless
    <3>3. QED
      BY <1>1, <1>2, <2>3, <3>1, <3>2 DEF HttpInv
  <2>5. CASE request.ended /\ request.wrong = "none" /\ w.ret = "headers" /\ Data(w, request)
    <3> DEFINE H == {"upgrade", "connection", "version"}
    <3>1. outcome' = HeadersProcessed(w)
      BY <1>1, <2>5
    <3>2. w.handshake = request.seen \cap H /\ w.path = request.path
      BY <2>5 DEF Data
    <3>3. w.hasKey <=> "key" \in request.seen
      BY <2>5, Zenon DEF Data
    <3>4. Required \ {"key"} = H
      BY DEF Required
    <3>5. Deserved = IF w.handshake # H THEN "400"
                     ELSE IF w.path \notin Known THEN "404"
                     ELSE IF w.hasKey THEN "101" ELSE "400"
      BY <2>5, <3>2, <3>3, <3>4 DEF Deserved
    <3>6. HeadersProcessed(w) = IF w.handshake # H THEN "400"
                                ELSE IF w.path \notin Known THEN "404"
                                ELSE IF w.hasKey THEN "101" ELSE "crash"
      BY DEF HeadersProcessed
    <3>7. Keyless <=> w.handshake = H /\ w.path \in Known /\ ~w.hasKey
      BY <2>5, <3>2, <3>3, <3>4 DEF Keyless
    <3> HIDE DEF H
    <3>8. outcome' = IF Keyless THEN "crash" ELSE Deserved
      BY <3>1, <3>5, <3>6, <3>7
    <3>9. outcome' # "reading"
      BY <3>1, <3>6
    <3>10. QED
      BY <1>1, <1>2, <2>3, <3>8, <3>9 DEF HttpInv
  <2>6. QED
    BY <2>2, <2>4, <2>5
<1>7. QED
  BY <1>5, <1>6

\* Every request is answered as the first mistake in it deserves, whatever the
\* size of the buffer and the paths that are known, however the request is cut
\* when it is read and in whatever order its headers come, but for one that
\* lacks nothing but its key: that request, and no other, ends the master
\* (websocket_http.c:56-260, 323, 329-352).
THEOREM RequestAnswered == HttpSpec => []RequestVerdict
<1>1. HttpInit => HttpInv
  BY HttpInvInit
<1>2. HttpInv /\ [HttpNext]_handshake => HttpInv'
  <2>1. SUFFICES ASSUME HttpInv, [HttpNext]_handshake PROVE HttpInv'
    OBVIOUS
  <2>2. CASE BrowserSends
    BY <2>1, <2>2, BrowserKeeps
  <2>3. ASSUME NEW n \in {1, Len(unread)} \cap (1..Len(unread)), WsHeaderRead(n)
        PROVE  HttpInv'
    <3>1. n \in 1..Len(unread)
      OBVIOUS
    <3>2. QED
      BY <2>1, <2>3, <3>1, ReadKeeps
  <2>4. CASE UNCHANGED handshake
    <3>1. /\ http' = http /\ unread' = unread /\ outcome' = outcome /\ request' = request
      BY <2>4 DEF handshake
    <3>2. QED
      BY <2>1, <3>1 DEF HttpInv, Deserved, Keyless
  <2>5. QED
    BY <2>1, <2>2, <2>3, <2>4 DEF HttpNext
<1>3. HttpInv => RequestVerdict
  <2>1. SUFFICES ASSUME HttpInv PROVE RequestVerdict
    OBVIOUS
  <2>2. ASSUME outcome = "reading", request.ended, unread = << >>
        PROVE  FALSE
    <3>1. http.ret = "none" /\ AtRest(http, request)
      BY <2>1, <2>2, ReadsNone DEF HttpInv
    <3>2. QED
      BY <2>2, <3>1 DEF AtRest, Settled
  <2>3. QED
    BY <2>1, <2>2 DEF HttpInv, RequestVerdict
<1>4. QED
  BY <1>1, <1>2, <1>3, PTL DEF HttpSpec

-----------------------------------------------------------------------------
(* Frames: putting sequences together                                      *)

\* The sequences of s joined one by one.
Joins(h, s) ==
    h = [i \in 1..Len(s) |-> IF i = 1 THEN s[i] ELSE h[i - 1] \o s[i]]

\* Every sequence of sequences has its joins.
LEMMA JoinsExists ==
    ASSUME NEW T, NEW s \in Seq(T)
    PROVE  \E h : Joins(h, s)
<1> DEFINE n == Len(s)
           Rule(h, i) == IF i = 1 THEN s[i] ELSE h[i - 1] \o s[i]
           Q(h, k) == h = [i \in 1..k |-> Rule(h, i)]
           P(k) == \E h : Q(h, k)
           S == {k \in Nat : ~P(k)}
<1>1. n \in Nat
  OBVIOUS
<1>2. ASSUME NEW k \in Nat PROVE P(k)
  <2>1. SUFFICES ASSUME S # {} PROVE FALSE
    BY <2>1
  <2>2. PICK m \in S : \A g \in S : m <= g
    <3>1. S \in SUBSET Nat
      OBVIOUS
    <3> HIDE DEF S
    <3>2. QED
      BY <2>1, <3>1, LowestNumber
  <2>3. m \in Nat /\ ~P(m)
    BY <2>2
  <2>4. m # 0
    <3> DEFINE h0 == << >>
    <3>1. 1..0 = {}
      OBVIOUS
    <3>2. h0 = [i \in 1..0 |-> Rule(h0, i)]
      BY <3>1
    <3> HIDE DEF h0
    <3>3. P(0)
      BY <3>2
    <3>4. QED
      BY <2>3, <3>3
  <2>5. m - 1 \in Nat /\ ~(m <= m - 1)
    BY <2>3, <2>4
  <2>6. P(m - 1)
    BY <2>2, <2>5
  <2>7. PICK h : Q(h, m - 1)
    BY <2>6
  <2> DEFINE last == IF m = 1 THEN s[m] ELSE h[m - 1] \o s[m]
             g == [i \in 1..m |-> IF i = m THEN last ELSE h[i]]
  <2>8. ASSUME NEW i \in 1..m PROVE g[i] = Rule(g, i)
    <3>1. CASE i # m
      <4>1. g[i] = h[i] /\ i \in 1..m - 1
        BY <2>3, <3>1
      <4>2. i # 1 => g[i - 1] = h[i - 1]
        BY <2>3, <3>1
      <4> HIDE DEF g
      <4>3. h[i] = Rule(h, i)
        BY <2>7, <4>1
      <4>4. QED
        BY <4>1, <4>2, <4>3
    <3>2. CASE i = m
      <4>1. g[i] = last /\ (m # 1 => g[m - 1] = h[m - 1])
        BY <2>3, <2>4, <3>2
      <4> HIDE DEF g
      <4>2. QED
        BY <2>4, <3>2, <4>1
    <3>3. QED
      BY <3>1, <3>2
  <2>9. g = [i \in 1..m |-> g[i]]
    OBVIOUS
  <2> HIDE DEF g
  <2>10. g = [i \in 1..m |-> Rule(g, i)]
    BY <2>8, <2>9
  <2>11. QED
    BY <2>3, <2>10
<1>3. PICK h : Q(h, n)
  BY <1>1, <1>2
<1>4. QED
  BY <1>3 DEF Joins

\* What the fold of the model puts together is the last join.
LEMMA FlattenJoins ==
    ASSUME NEW T, NEW s \in Seq(T), s # << >>
    PROVE  \E h : Joins(h, s) /\ FlattenSeq(s) = h[Len(s)]
<1> DEFINE c == CHOOSE h : Joins(h, s)
<1>1. Joins(c, s)
  BY JoinsExists
<1>2. Len(s) # 0
  OBVIOUS
<1>3. FlattenSeq(s) = c[Len(s)]
  BY <1>2 DEF FlattenSeq, Joins
<1> HIDE DEF c
<1>4. QED
  BY <1>1, <1>3

\* Joined with one sequence more.
LEMMA FlattenMore ==
    ASSUME NEW T, NEW s \in Seq(T), NEW t \in Seq(T), NEW S,
           Len(t) = Len(s) + 1, \A i \in 1..Len(s) : t[i] = s[i],
           t[Len(t)] \in Seq(S)
    PROVE  FlattenSeq(t) = FlattenSeq(s) \o t[Len(t)]
<1> DEFINE n == Len(s)
<1>1. n \in Nat /\ Len(t) = n + 1 /\ t # << >> /\ n + 1 \in 1..Len(t)
  OBVIOUS
<1>2. PICK g : Joins(g, t) /\ FlattenSeq(t) = g[Len(t)]
  BY <1>1, FlattenJoins
<1>3. CASE n = 0
  <2>1. g[1] = t[1] /\ Len(t) = 1
    BY <1>1, <1>2, <1>3 DEF Joins
  <2>2. FlattenSeq(s) = << >>
    BY <1>3 DEF FlattenSeq
  <2>3. << >> \o t[1] = t[1]
    BY <2>1
  <2>4. QED
    BY <1>2, <2>1, <2>2, <2>3
<1>4. CASE n # 0
  <2>1. PICK h : Joins(h, s) /\ FlattenSeq(s) = h[n]
    BY <1>4, FlattenJoins
  <2>2. \A i \in 1..n : h[i] = IF i = 1 THEN s[i] ELSE h[i - 1] \o s[i]
    BY <2>1 DEF Joins
  <2>3. \A i \in 1..n + 1 : g[i] = IF i = 1 THEN t[i] ELSE g[i - 1] \o t[i]
    BY <1>1, <1>2 DEF Joins
  <2> DEFINE W == {i \in 1..n : g[i] # h[i]}
  <2>4. W = {}
    <3>1. SUFFICES ASSUME W # {} PROVE FALSE
      OBVIOUS
    <3>2. PICK m \in W : \A i \in W : m <= i
      <4>1. W \in SUBSET Nat
        OBVIOUS
      <4> HIDE DEF W
      <4>2. QED
        BY <3>1, <4>1, LowestNumber
    <3>3. m \in 1..n /\ m \in 1..n + 1 /\ g[m] # h[m] /\ t[m] = s[m]
      BY <1>1, <3>2
    <3>4. CASE m = 1
      BY <2>2, <2>3, <3>3, <3>4
    <3>5. CASE m # 1
      <4>1. m - 1 \in 1..n /\ ~(m <= m - 1)
        BY <3>3, <3>5
      <4>2. g[m - 1] = h[m - 1]
        BY <3>2, <4>1
      <4> HIDE DEF W
      <4>3. QED
        BY <2>2, <2>3, <3>3, <3>5, <4>2
    <3>6. QED
      BY <3>4, <3>5
  <2>5. n \in 1..n /\ n + 1 \in 1..n + 1 /\ n + 1 # 1 /\ n + 1 - 1 = n
    BY <1>1, <1>4
  <2>6. g[n] = h[n]
    BY <2>4, <2>5
  <2> HIDE DEF W, n
  <2>7. g[n + 1] = g[n] \o t[n + 1]
    <3> DEFINE k == n + 1
    <3>1. k \in 1..n + 1 /\ k # 1 /\ k - 1 = n
      BY <2>5
    <3> HIDE DEF k
    <3>2. g[k] = g[n] \o t[k]
      BY <2>3, <3>1
    <3>3. QED
      BY <3>2 DEF k
  <2>8. QED
    BY <1>1, <1>2, <2>1, <2>6, <2>7
<1>5. QED
  BY <1>3, <1>4

-----------------------------------------------------------------------------
(* Frames: the rounds of a reading                                         *)

\* The states before and after n rounds.
Rounds(h, w, bytes, n) ==
    h = [k \in 0..n |->
            IF k = 0 THEN [wsd |-> w, bytes |-> bytes] ELSE ChunkRound(h[k - 1])]

\* The states of a chunk, round by round, exist.
LEMMA RoundsExist ==
    ASSUME NEW w, NEW bytes, NEW n \in Nat
    PROVE  \E h : Rounds(h, w, bytes, n)
<1> DEFINE first == [wsd |-> w, bytes |-> bytes]
           Rule(h, i) == IF i = 0 THEN first ELSE ChunkRound(h[i - 1])
           Q(h, k) == h = [i \in 0..k |-> Rule(h, i)]
           P(k) == \E h : Q(h, k)
           S == {k \in Nat : ~P(k)}
<1>1. P(n)
  <2>1. SUFFICES ASSUME S # {} PROVE FALSE
    BY <2>1
  <2>2. PICK m \in S : \A g \in S : m <= g
    <3>1. S \in SUBSET Nat
      OBVIOUS
    <3> HIDE DEF S
    <3>2. QED
      BY <2>1, <3>1, LowestNumber
  <2>3. m \in Nat /\ ~P(m)
    BY <2>2
  <2> HIDE DEF first
  <2>4. m # 0
    <3> DEFINE h0 == [i \in 0..0 |-> first]
    <3>1. h0 = [i \in 0..0 |-> Rule(h0, i)]
      OBVIOUS
    <3> HIDE DEF h0
    <3>2. P(0)
      BY <3>1
    <3>3. QED
      BY <2>3, <3>2
  <2>5. m - 1 \in Nat /\ ~(m <= m - 1)
    BY <2>3, <2>4
  <2>6. P(m - 1)
    BY <2>2, <2>5
  <2>7. PICK h : Q(h, m - 1)
    BY <2>6
  <2> DEFINE g == [i \in 0..m |-> IF i = m THEN ChunkRound(h[m - 1]) ELSE h[i]]
  <2>8. ASSUME NEW i \in 0..m PROVE g[i] = Rule(g, i)
    <3>1. CASE i = 0
      <4>1. g[i] = h[0] /\ 0 \in 0..m - 1
        BY <2>3, <2>4, <3>1
      <4> HIDE DEF g
      <4>2. QED
        BY <2>7, <3>1, <4>1
    <3>2. CASE i # 0 /\ i # m
      <4>1. g[i] = h[i] /\ g[i - 1] = h[i - 1] /\ i \in 0..m - 1
        BY <2>3, <3>2
      <4> HIDE DEF g
      <4>2. QED
        BY <2>7, <3>2, <4>1
    <3>3. CASE i = m
      <4>1. g[i] = ChunkRound(h[m - 1]) /\ g[m - 1] = h[m - 1]
        BY <2>3, <2>4, <3>3
      <4> HIDE DEF g
      <4>2. QED
        BY <2>4, <3>3, <4>1
    <3>4. QED
      BY <3>1, <3>2, <3>3
  <2>9. g = [i \in 0..m |-> g[i]]
    OBVIOUS
  <2> HIDE DEF g
  <2>10. g = [i \in 0..m |-> Rule(g, i)]
    BY <2>8, <2>9
  <2>11. QED
    BY <2>3, <2>10
<1>2. QED
  BY <1>1 DEF Rounds

\* What every round keeps and what gets shorter with it is true at the end.
LEMMA ChunkInduction ==
    ASSUME NEW w, NEW bytes \in Seq(Nat), NEW L,
           [wsd |-> w, bytes |-> bytes] \in L,
           \A l \in L : l.bytes \in Seq(Nat),
           \A l \in L : ~ChunkDone(l) => /\ ChunkRound(l) \in L
                                         /\ Len(ChunkRound(l).bytes) < Len(l.bytes)
    PROVE  \E l \in L : ChunkDone(l) /\ ProcessChunk(w, bytes) = l.wsd
<1> DEFINE n == Len(bytes)
           first == [wsd |-> w, bytes |-> bytes]
           c == CHOOSE h : Rounds(h, w, bytes, n)
           end == CHOOSE k \in 0..n : ChunkDone(c[k])
<1>1. n \in Nat /\ first.bytes = bytes
  OBVIOUS
<1>2. Rounds(c, w, bytes, n)
  BY <1>1, RoundsExist
<1>3. ProcessChunk(w, bytes) = c[end].wsd
  BY DEF ProcessChunk, Rounds
<1> HIDE DEF c
<1>4. c[0] = first /\ \A k \in 1..n : c[k] = ChunkRound(c[k - 1])
  <2>1. \A k \in 0..n : c[k] = IF k = 0 THEN first ELSE ChunkRound(c[k - 1])
    BY <1>2 DEF Rounds
  <2> HIDE DEF first
  <2>2. 0 \in 0..n /\ \A k \in 1..n : k \in 0..n /\ k # 0
    BY <1>1
  <2>3. QED
    BY <2>1, <2>2
<1> HIDE DEF first
<1>5. \A l : ChunkDone(l) => ChunkRound(l) = l
  BY Zenon DEF ChunkRound
<1>6. \A l : l.bytes \in Seq(Nat) /\ Len(l.bytes) = 0 => ChunkDone(l)
  BY DEF ChunkDone
<1> DEFINE Usable(k) == c[k] \in L /\ (ChunkDone(c[k]) \/ Len(c[k].bytes) <= n - k)
           S == {k \in 0..n : ~Usable(k)}
<1>7. S = {}
  <2>1. SUFFICES ASSUME S # {} PROVE FALSE
    OBVIOUS
  <2>2. PICK m \in S : \A g \in S : m <= g
    <3>1. S \in SUBSET Nat
      OBVIOUS
    <3> HIDE DEF S
    <3>2. QED
      BY <2>1, <3>1, LowestNumber
  <2>3. m \in 0..n /\ ~Usable(m)
    BY <2>2
  <2>4. m # 0
    <3>1. Usable(0)
      BY <1>1, <1>4 DEF first
    <3>2. QED
      BY <2>3, <3>1
  <2>5. m - 1 \in 0..n /\ m \in 1..n /\ ~(m <= m - 1)
    BY <1>1, <2>3, <2>4
  <2>6. Usable(m - 1)
    BY <2>2, <2>5
  <2>7. c[m] = ChunkRound(c[m - 1])
    BY <1>4, <2>5
  <2>8. CASE ChunkDone(c[m - 1])
    BY <1>5, <2>3, <2>6, <2>7, <2>8
  <2>9. CASE ~ChunkDone(c[m - 1])
    <3>1. c[m] \in L /\ Len(c[m].bytes) < Len(c[m - 1].bytes)
      BY <2>6, <2>7, <2>9
    <3>2. Len(c[m].bytes) \in Nat /\ Len(c[m - 1].bytes) \in Nat
      BY <2>6, <3>1
    <3>3. Len(c[m - 1].bytes) <= n - (m - 1)
      BY <2>6, <2>9
    <3>4. Len(c[m].bytes) <= n - m
      BY <1>1, <2>3, <3>1, <3>2, <3>3
    <3> HIDE DEF S
    <3>5. QED
      BY <2>3, <3>1, <3>4
  <2>10. QED
    BY <2>8, <2>9
<1>8. \A k \in 0..n : Usable(k)
  BY <1>7
<1>9. \E k \in 0..n : ChunkDone(c[k])
  <2>1. n \in 0..n /\ Usable(n)
    BY <1>1, <1>8
  <2>2. CASE ~ChunkDone(c[n])
    <3>1. Len(c[n].bytes) <= 0 /\ Len(c[n].bytes) \in Nat
      BY <1>1, <2>1, <2>2
    <3>2. QED
      BY <1>6, <2>1, <2>2, <3>1
  <2>3. QED
    BY <2>1, <2>2
<1>10. end \in 0..n /\ ChunkDone(c[end])
  BY <1>9
<1> HIDE DEF end
<1>11. QED
  BY <1>3, <1>8, <1>10
-----------------------------------------------------------------------------
(* Frames: what the fields of struct ws_data may hold, whatever is read    *)

Event == [what : {"message", "pong", "close"}, data : Seq(Nat)]
Wsd == [offset : Nat, fin : BOOLEAN, opcode : Nat, encLen : {0, 2, 4}, size : Nat,
        mask : [1..4 -> Nat], allocated : BOOLEAN, payload : Seq(Nat),
        reasmOpcode : Nat, reassembled : Seq(Nat), did : Seq(Event),
        err : {"none", "EINVAL", "EOPNOTSUPP", "EPIPE", "ENOSPC"}]
Opcode == {CONT, TEXT, BINARY, CLOSE, PING, PONG}

\* A header that has begun has an opcode that is known; there is a payload only
\* where one was allocated, and it is not complete.
Sound(w) ==
    /\ w \in Wsd
    /\ w.offset > 0 => w.opcode \in Opcode
    /\ w.allocated => w.offset > 0 /\ Len(w.payload) < w.size
    /\ ~w.allocated => w.payload = << >>

\* No message is longer than a length of 16 bits can say.
LEMMA LimitIs == MaxPayload \in Nat /\ MaxPayload <= 65535
BY WsFramesAssumption DEF WsFramesAssumption

\* What the fields of a sound struct ws_data are.
LEMMA Fields ==
    ASSUME NEW w \in Wsd
    PROVE  /\ w.offset \in Nat /\ w.fin \in BOOLEAN /\ w.opcode \in Nat /\ w.encLen \in {0, 2, 4}
           /\ w.size \in Nat /\ w.mask \in [1..4 -> Nat] /\ w.allocated \in BOOLEAN
           /\ w.payload \in Seq(Nat) /\ Len(w.payload) \in Nat
           /\ w.reasmOpcode \in Nat /\ w.reassembled \in Seq(Nat) /\ w.did \in Seq(Event)
<1>1. w.payload \in Seq(Nat)
  BY DEF Wsd
<1>2. Len(w.payload) \in Nat
  BY <1>1
<1>3. QED
  BY <1>1, <1>2 DEF Wsd

\* One field at a time.
LEMMA Setting ==
    ASSUME NEW w \in Wsd
    PROVE  /\ \A x \in Nat : [w EXCEPT !.offset = x] \in Wsd
           /\ \A x \in BOOLEAN : [w EXCEPT !.fin = x] \in Wsd
           /\ \A x \in Nat : [w EXCEPT !.opcode = x] \in Wsd
           /\ \A x \in {0, 2, 4} : [w EXCEPT !.encLen = x] \in Wsd
           /\ \A x \in Nat : [w EXCEPT !.size = x] \in Wsd
           /\ \A x \in [1..4 -> Nat] : [w EXCEPT !.mask = x] \in Wsd
           /\ \A x \in BOOLEAN : [w EXCEPT !.allocated = x] \in Wsd
           /\ \A x \in Seq(Nat) : [w EXCEPT !.payload = x] \in Wsd
           /\ \A x \in Nat : [w EXCEPT !.reasmOpcode = x] \in Wsd
           /\ \A x \in Seq(Nat) : [w EXCEPT !.reassembled = x] \in Wsd
           /\ \A x \in Seq(Event) : [w EXCEPT !.did = x] \in Wsd
           /\ \A x \in {"none", "EINVAL", "EOPNOTSUPP", "EPIPE", "ENOSPC"} :
                 [w EXCEPT !.err = x] \in Wsd
BY DEF Wsd

\* Length and elements of two sequences put together.
LEMMA ConcatIs ==
    ASSUME NEW s \in Seq(Nat), NEW t \in Seq(Nat)
    PROVE  /\ s \o t \in Seq(Nat) /\ Len(s \o t) = Len(s) + Len(t)
           /\ \A i \in 1..Len(s) : (s \o t)[i] = s[i]
           /\ \A i \in 1..Len(t) : (s \o t)[Len(s) + i] = t[i]
<1>1. /\ s \o t \in Seq(Nat) /\ Len(s \o t) = Len(s) + Len(t)
      /\ \A i \in 1..Len(s) + Len(t) :
            (s \o t)[i] = IF i <= Len(s) THEN s[i] ELSE t[i - Len(s)]
  BY ConcatProperties
<1>2. Len(s) \in Nat /\ Len(t) \in Nat
  OBVIOUS
<1>3. \A i \in 1..Len(s) : i \in 1..Len(s) + Len(t) /\ i <= Len(s)
  BY <1>2
<1>4. \A i \in 1..Len(t) : /\ Len(s) + i \in 1..Len(s) + Len(t) /\ ~(Len(s) + i <= Len(s))
                          /\ Len(s) + i - Len(s) = i
  BY <1>2
<1>5. QED
  BY <1>1, <1>3, <1>4

\* ws_write makes an event of bytes, whatever their number.
LEMMA WrittenIs ==
    ASSUME NEW opcode \in Nat, NEW data \in Seq(Nat)
    PROVE  Written(opcode, data) \in Seq(Nat)
<1>1. Len(data) \in Nat
  OBVIOUS
<1> DEFINE n == Len(data)
           l == IF n <= 125 THEN <<n>>
                ELSE IF n <= 65535 THEN <<126, n \div 256, n % 256>>
                ELSE <<127, n \div 16777216, (n \div 65536) % 256, (n \div 256) % 256, n % 256>>
<1>2. l \in Seq(Nat)
  <2>1. n \div 256 \in Nat /\ n % 256 \in Nat /\ n \div 16777216 \in Nat
        /\ (n \div 65536) % 256 \in Nat /\ (n \div 256) % 256 \in Nat
    BY <1>1
  <2>2. QED
    BY <1>1, <2>1
<1>3. Written(opcode, data) = <<opcode + 128>> \o l \o data
  BY DEF Written
<1>4. <<opcode + 128>> \in Seq(Nat)
  OBVIOUS
<1> HIDE DEF l
<1>5. QED
  BY <1>2, <1>3, <1>4

\* An event done touches nothing else.
LEMMA DidIs ==
    ASSUME NEW w \in Wsd, NEW what \in {"message", "pong", "close"}, NEW data \in Seq(Nat)
    PROVE  /\ Did(w, what, data) \in Wsd
           /\ Did(w, what, data).did = Append(w.did, [what |-> what, data |-> data])
           /\ Did(w, what, data) = [w EXCEPT !.did = Append(w.did, [what |-> what, data |-> data])]
<1> DEFINE e == [what |-> what, data |-> data]
<1>1. e \in Event
  BY DEF Event
<1> HIDE DEF e
<1>2. Append(w.did, e) \in Seq(Event)
  BY <1>1 DEF Wsd
<1>3. Did(w, what, data) = [w EXCEPT !.did = Append(w.did, e)]
  BY DEF Did, e
<1>4. QED
  BY <1>2, <1>3 DEF Wsd, e

\* What is left alone by everything but the reading of headers.
SameHeader(v, w) ==
    /\ v.offset = w.offset /\ v.fin = w.fin /\ v.opcode = w.opcode /\ v.encLen = w.encLen
    /\ v.size = w.size /\ v.mask = w.mask

\* The three ends of reassembly_message.
LEMMA ReassemblyIs ==
    ASSUME NEW w \in Wsd
    PROVE  LET joined == w.reassembled \o w.payload
               v == Reassembly(w)
           IN /\ v \in Wsd /\ v.err = w.err /\ SameHeader(v, w) /\ joined \in Seq(Nat)
              /\ Len(joined) > MaxPayload \/ w.fin => v.reassembled = << >> /\ v.reasmOpcode = 0
              /\ Len(joined) <= MaxPayload /\ ~w.fin =>
                    /\ v.reassembled = joined
                    /\ v.reasmOpcode = IF w.reasmOpcode = 0 THEN w.opcode ELSE w.reasmOpcode
              /\ v.did = IF Len(joined) <= MaxPayload /\ w.fin /\ joined # << >>
                         THEN Append(w.did, [what |-> "message", data |-> joined]) ELSE w.did
<1> DEFINE joined == w.reassembled \o w.payload
           v == Reassembly(w)
           u == Did(w, "message", joined)
<1>1. joined \in Seq(Nat) /\ Len(joined) \in Nat /\ MaxPayload \in Nat
  <2>1. w.reassembled \in Seq(Nat) /\ w.payload \in Seq(Nat)
    BY Fields
  <2>2. joined \in Seq(Nat)
    BY <2>1
  <2> HIDE DEF joined
  <2>3. QED
    BY <2>2, LimitIs
<1>2. u \in Wsd /\ u = [w EXCEPT !.did = Append(w.did, [what |-> "message", data |-> joined])]
  BY <1>1, DidIs
<1>3. v = CASE Len(joined) > MaxPayload -> ResetReassembly(w)
            [] Len(joined) <= MaxPayload /\ ~w.fin ->
                   [w EXCEPT !.reassembled = joined,
                             !.reasmOpcode = IF @ = 0 THEN w.opcode ELSE @]
            [] Len(joined) <= MaxPayload /\ w.fin ->
                   ResetReassembly(IF joined = << >> THEN w ELSE u)
  BY DEF Reassembly
<1> HIDE DEF joined, u, v
<1>4. << >> \in Seq(Nat)
  OBVIOUS
<1> DEFINE e == [what |-> "message", data |-> joined]
           Goal == /\ v \in Wsd /\ v.err = w.err /\ SameHeader(v, w)
                   /\ Len(joined) > MaxPayload \/ w.fin => v.reassembled = << >> /\ v.reasmOpcode = 0
                   /\ Len(joined) <= MaxPayload /\ ~w.fin =>
                         /\ v.reassembled = joined
                         /\ v.reasmOpcode = IF w.reasmOpcode = 0 THEN w.opcode ELSE w.reasmOpcode
                   /\ v.did = IF Len(joined) <= MaxPayload /\ w.fin /\ joined # << >>
                              THEN Append(w.did, e) ELSE w.did
<1>5. ASSUME Len(joined) > MaxPayload PROVE Goal
  <2>1. v = [[w EXCEPT !.reassembled = << >>] EXCEPT !.reasmOpcode = 0]
    BY <1>1, <1>3, <1>5, SMTT(40) DEF ResetReassembly, Wsd
  <2>2. v \in Wsd
    BY <1>4, <2>1, Setting
  <2>3. v.err = w.err /\ SameHeader(v, w) /\ v.reassembled = << >> /\ v.reasmOpcode = 0
        /\ v.did = w.did
    BY <2>1 DEF Wsd, SameHeader
  <2>4. QED
    BY <1>1, <1>5, <2>2, <2>3
<1>6. ASSUME Len(joined) <= MaxPayload /\ ~w.fin PROVE Goal
  <2> DEFINE o == IF w.reasmOpcode = 0 THEN w.opcode ELSE w.reasmOpcode
  <2>1. v = [[w EXCEPT !.reassembled = joined] EXCEPT !.reasmOpcode = o]
    BY <1>1, <1>3, <1>6 DEF Wsd
  <2>2. o \in Nat
    BY Fields
  <2> HIDE DEF o
  <2>3. v \in Wsd
    BY <1>1, <2>1, <2>2, Setting
  <2>4. v.err = w.err /\ SameHeader(v, w) /\ v.reassembled = joined /\ v.reasmOpcode = o
        /\ v.did = w.did
    BY <2>1 DEF Wsd, SameHeader
  <2>5. QED
    BY <1>1, <1>6, <2>3, <2>4 DEF o
<1>7. ASSUME Len(joined) <= MaxPayload /\ w.fin PROVE Goal
  <2>1. v = ResetReassembly(IF joined = << >> THEN w ELSE u)
    BY <1>1, <1>3, <1>7
  <2>2. CASE joined = << >>
    <3>1. v = [[w EXCEPT !.reassembled = << >>] EXCEPT !.reasmOpcode = 0]
      BY <2>1, <2>2 DEF ResetReassembly, Wsd
    <3>2. v \in Wsd
      BY <1>4, <3>1, Setting
    <3>3. v.err = w.err /\ SameHeader(v, w) /\ v.reassembled = << >> /\ v.reasmOpcode = 0
          /\ v.did = w.did
      BY <3>1 DEF Wsd, SameHeader
    <3>4. QED
      BY <1>1, <1>7, <2>2, <3>2, <3>3
  <2>3. CASE joined # << >>
    <3>1. v = [[u EXCEPT !.reassembled = << >>] EXCEPT !.reasmOpcode = 0]
      BY <1>2, <2>1, <2>3 DEF ResetReassembly, Wsd
    <3>2. v \in Wsd
      BY <1>2, <1>4, <3>1, Setting
    <3>3. v.err = u.err /\ SameHeader(v, u) /\ v.reassembled = << >> /\ v.reasmOpcode = 0
          /\ v.did = u.did
      BY <1>2, <3>1 DEF Wsd, SameHeader
    <3>4. u.err = w.err /\ SameHeader(u, w) /\ u.did = Append(w.did, e)
      BY <1>2 DEF Wsd, SameHeader
    <3>5. SameHeader(v, w)
      BY <3>3, <3>4 DEF SameHeader
    <3>6. QED
      BY <1>1, <1>7, <2>3, <3>2, <3>3, <3>4, <3>5
  <2>4. QED
    BY <2>2, <2>3
<1>8. w.fin \in BOOLEAN
  BY Fields
<1>9. Goal
  BY <1>1, <1>5, <1>6, <1>7, <1>8
<1>10. QED
  BY <1>1, <1>9 DEF joined, v, e

\* Which fields a reset of the message touches.
LEMMA ResetMessageIs ==
    ASSUME NEW w \in Wsd
    PROVE  LET v == ResetMessage(w)
           IN /\ v \in Wsd /\ v.offset = 0 /\ ~v.allocated /\ v.payload = << >>
              /\ v.reasmOpcode = w.reasmOpcode /\ v.reassembled = w.reassembled
              /\ v.did = w.did /\ v.err = w.err
<1>1. << >> \in Seq(Nat)
  OBVIOUS
<1>2. QED
  BY <1>1 DEF ResetMessage, Wsd

\* An error touches nothing else.
LEMMA RefuseIs ==
    ASSUME NEW w \in Wsd, NEW e \in {"EINVAL", "EOPNOTSUPP", "EPIPE", "ENOSPC"}
    PROVE  Refuse(w, e) \in Wsd /\ Refuse(w, e).err = e /\ Refuse(w, e) = [w EXCEPT !.err = e]
BY DEF Refuse, Wsd

\* What becomes of a frame before its fields are reset.
Consumed(w) ==
    CASE w.opcode = CONT /\ w.reasmOpcode = 0 -> Refuse(w, "EINVAL")
      [] w.opcode = CONT /\ w.reasmOpcode # 0 -> Reassembly(w)
      [] w.opcode = TEXT -> Refuse(w, "EOPNOTSUPP")
      [] w.opcode = BINARY -> Reassembly(ResetReassembly(w))
      [] w.opcode = CLOSE -> Refuse(w, "EPIPE")
      [] w.opcode = PING -> Did(w, "pong", Written(PONG, w.payload))
      [] w.opcode = PONG -> w

\* A frame consumed leaves no header and no payload behind.
LEMMA ConsumedIs ==
    ASSUME NEW w
    PROVE  /\ ConsumeMessage(w) = ResetMessage(Consumed(w))
           /\ w.opcode = CONT /\ w.reasmOpcode = 0 => Consumed(w) = Refuse(w, "EINVAL")
           /\ w.opcode = CONT /\ w.reasmOpcode # 0 => Consumed(w) = Reassembly(w)
           /\ w.opcode = TEXT => Consumed(w) = Refuse(w, "EOPNOTSUPP")
           /\ w.opcode = BINARY => Consumed(w) = Reassembly(ResetReassembly(w))
           /\ w.opcode = CLOSE => Consumed(w) = Refuse(w, "EPIPE")
           /\ w.opcode = PING => Consumed(w) = Did(w, "pong", Written(PONG, w.payload))
           /\ w.opcode = PONG => Consumed(w) = w
<1>1. ConsumeMessage(w) = ResetMessage(Consumed(w))
  BY DEF ConsumeMessage, Consumed
<1>2. QED
  BY <1>1 DEF Consumed, CONT, TEXT, BINARY, CLOSE, PING, PONG

\* Which fields a reset of the reassembly touches.
LEMMA ResetReassemblyIs ==
    ASSUME NEW w \in Wsd
    PROVE  LET v == ResetReassembly(w)
           IN /\ v \in Wsd /\ SameHeader(v, w) /\ v.err = w.err /\ v.did = w.did
              /\ v.reassembled = << >> /\ v.reasmOpcode = 0
              /\ v.payload = w.payload /\ v.allocated = w.allocated
<1>1. << >> \in Seq(Nat)
  OBVIOUS
<1>2. QED
  BY <1>1 DEF ResetReassembly, Wsd, SameHeader

\* A frame consumed leaves a sound struct ws_data.
LEMMA ConsumeSound ==
    ASSUME NEW w \in Wsd, w.opcode \in Opcode
    PROVE  /\ Consumed(w) \in Wsd /\ ConsumeMessage(w) \in Wsd /\ Sound(ConsumeMessage(w))
           /\ ConsumeMessage(w).offset = 0 /\ ~ConsumeMessage(w).allocated
           /\ ConsumeMessage(w).payload = << >>
           /\ ConsumeMessage(w).err = Consumed(w).err /\ ConsumeMessage(w).did = Consumed(w).did
           /\ ConsumeMessage(w).reasmOpcode = Consumed(w).reasmOpcode
           /\ ConsumeMessage(w).reassembled = Consumed(w).reassembled
<1>1. Consumed(w) \in Wsd
  <2>1. w.opcode \in {CONT, TEXT, BINARY, CLOSE, PING, PONG}
    BY DEF Opcode
  <2>2. CASE w.opcode = CONT
    <3>1. CASE w.reasmOpcode = 0
      BY <2>2, <3>1, ConsumedIs, RefuseIs
    <3>2. CASE w.reasmOpcode # 0
      BY <2>2, <3>2, ConsumedIs, ReassemblyIs
    <3>3. QED
      BY <3>1, <3>2
  <2>3. CASE w.opcode = TEXT
    BY <2>3, ConsumedIs, RefuseIs
  <2>4. CASE w.opcode = BINARY
    BY <2>4, ConsumedIs, ReassemblyIs, ResetReassemblyIs
  <2>5. CASE w.opcode = CLOSE
    BY <2>5, ConsumedIs, RefuseIs
  <2>6. CASE w.opcode = PING
    <3>1. Written(PONG, w.payload) \in Seq(Nat)
      <4>1. PONG \in Nat /\ w.payload \in Seq(Nat)
        BY Fields DEF PONG
      <4>2. QED
        BY <4>1, WrittenIs
    <3> DEFINE b == Written(PONG, w.payload)
    <3>2. Consumed(w) = Did(w, "pong", b)
      BY <2>6, ConsumedIs
    <3>3. b \in Seq(Nat) /\ "pong" \in {"message", "pong", "close"}
      BY <3>1
    <3> HIDE DEF b
    <3>4. Did(w, "pong", b) \in Wsd
      BY <3>3, DidIs
    <3>5. QED
      BY <3>2, <3>4
  <2>7. CASE w.opcode = PONG
    BY <2>7, ConsumedIs
  <2>8. QED
    BY <2>1, <2>2, <2>3, <2>4, <2>5, <2>6, <2>7
<1>2. ConsumeMessage(w) = ResetMessage(Consumed(w))
  BY ConsumedIs
<1> DEFINE v == ConsumeMessage(w)
<1>3. /\ v \in Wsd /\ v.offset = 0 /\ ~v.allocated /\ v.payload = << >>
      /\ v.err = Consumed(w).err /\ v.did = Consumed(w).did
      /\ v.reasmOpcode = Consumed(w).reasmOpcode /\ v.reassembled = Consumed(w).reassembled
  BY <1>1, <1>2, ResetMessageIs
<1> HIDE DEF v
<1>4. Sound(v)
  BY <1>3 DEF Sound
<1>5. QED
  BY <1>1, <1>3, <1>4 DEF v

\* So does one more byte of a header,
LEMMA HeaderByteSound ==
    ASSUME NEW w, Sound(w), ~w.allocated, w.err = "none", w.offset < 6 + w.encLen, NEW c \in Nat
    PROVE  Sound(HeaderByte(w, c)) /\ ~HeaderByte(w, c).allocated
<1> DEFINE v == HeaderByte(w, c)
<1>1. w \in Wsd /\ w.payload = << >>
  BY DEF Sound
<1>2. w.offset \in Nat /\ w.encLen \in {0, 2, 4} /\ w.size \in Nat /\ w.mask \in [1..4 -> Nat]
  BY <1>1 DEF Wsd
<1>3. CASE w.offset = 0
  <2>1. v = FirstByte(w, c)
    BY <1>3 DEF HeaderByte
  <2>2. c % 16 \in Nat /\ (c >= 128) \in BOOLEAN
    OBVIOUS
  <2> DEFINE fin == [w EXCEPT !.fin = c >= 128]
             op == [fin EXCEPT !.opcode = c % 16]
  <2>3. v = CASE (c \div 16) % 8 # 0 -> [fin EXCEPT !.err = "EINVAL"]
              [] (c \div 16) % 8 = 0 /\ c % 8 > 2 -> [op EXCEPT !.err = "EINVAL"]
              [] OTHER -> [op EXCEPT !.offset = 1]
    BY <2>1 DEF FirstByte, Refuse
  <2>4. fin \in Wsd /\ fin.offset = 0 /\ fin.payload = << >> /\ ~fin.allocated
    <3>1. fin \in Wsd
      BY <1>1, <2>2, Setting
    <3>2. QED
      BY <1>1, <1>3, <3>1 DEF Wsd
  <2> HIDE DEF fin
  <2>5. op \in Wsd /\ op.offset = 0 /\ op.payload = << >> /\ ~op.allocated /\ op.opcode = c % 16
    <3>1. op \in Wsd
      BY <2>2, <2>4, Setting
    <3>2. QED
      BY <2>4, <3>1 DEF Wsd
  <2> HIDE DEF op
  <2>6. CASE (c \div 16) % 8 # 0
    <3>1. v = [fin EXCEPT !.err = "EINVAL"]
      BY <2>3, <2>6
    <3>2. v \in Wsd
      BY <2>4, <3>1, Setting
    <3>3. v.offset = 0 /\ v.payload = << >> /\ ~v.allocated
      BY <2>4, <3>1 DEF Wsd
    <3> HIDE DEF v
    <3>4. QED
      BY <3>2, <3>3 DEF Sound, v
  <2>7. CASE (c \div 16) % 8 = 0 /\ c % 8 > 2
    <3>1. v = [op EXCEPT !.err = "EINVAL"]
      BY <2>3, <2>7
    <3>2. v \in Wsd
      BY <2>5, <3>1, Setting
    <3>3. v.offset = 0 /\ v.payload = << >> /\ ~v.allocated
      BY <2>5, <3>1 DEF Wsd
    <3> HIDE DEF v
    <3>4. QED
      BY <3>2, <3>3 DEF Sound, v
  <2>8. CASE (c \div 16) % 8 = 0 /\ ~(c % 8 > 2)
    <3>1. v = [op EXCEPT !.offset = 1]
      BY <2>3, <2>8
    <3>2. c % 16 \in {0, 1, 2, 8, 9, 10}
      BY <2>8
    <3>3. v \in Wsd
      <4>1. 1 \in Nat /\ op \in Wsd
        BY <2>5
      <4> HIDE DEF v
      <4>2. [op EXCEPT !.offset = 1] \in Wsd
        BY <4>1, Setting
      <4>3. QED
        BY <3>1, <4>2
    <3>4. v.payload = << >> /\ ~v.allocated /\ v.opcode \in Opcode
      BY <2>5, <3>1, <3>2 DEF Wsd, Opcode, CONT, TEXT, BINARY, CLOSE, PING, PONG
    <3> HIDE DEF v
    <3>5. QED
      BY <3>3, <3>4 DEF Sound, v
  <2>9. QED
    BY <2>6, <2>7, <2>8
<1>4. CASE w.offset = 1
  <2>1. v = SecondByte(w, c)
    BY <1>4 DEF HeaderByte
  <2>2. c % 128 \in Nat /\ w.opcode \in Opcode
    BY <1>4 DEF Sound
  <2>3. CASE c < 128
    <3>1. v = [w EXCEPT !.err = "EINVAL"]
      BY <2>1, <2>3 DEF SecondByte, Refuse
    <3>2. v \in Wsd
      BY <1>1, <3>1, Setting
    <3>3. v.payload = << >> /\ ~v.allocated /\ v.opcode \in Opcode
      BY <1>1, <2>2, <3>1 DEF Wsd
    <3> HIDE DEF v
    <3>4. QED
      BY <3>2, <3>3 DEF Sound, v
  <2>4. CASE ~(c < 128)
    <3> DEFINE e == IF c % 128 <= 125 THEN 0 ELSE IF c % 128 = 126 THEN 2 ELSE 4
               z == IF c % 128 <= 125 THEN c % 128 ELSE 0
    <3>1. v = [w EXCEPT !.encLen = e, !.size = z, !.offset = 2]
      BY <2>1, <2>4 DEF SecondByte
    <3>2. e \in {0, 2, 4} /\ z \in Nat
      BY <2>2
    <3> HIDE DEF e, z
    <3>3. v = [[[w EXCEPT !.encLen = e] EXCEPT !.size = z] EXCEPT !.offset = 2]
      BY <1>1, <3>1 DEF Wsd
    <3>4. v \in Wsd
      <4> DEFINE x == [w EXCEPT !.encLen = e]
                 y == [x EXCEPT !.size = z]
      <4>1. x \in Wsd
        BY <1>1, <3>2, Setting
      <4> HIDE DEF x
      <4>2. y \in Wsd
        BY <3>2, <4>1, Setting
      <4> HIDE DEF y
      <4>3. 2 \in Nat
        OBVIOUS
      <4>4. [y EXCEPT !.offset = 2] \in Wsd
        BY <4>2, <4>3, Setting
      <4>5. QED
        BY <3>3, <4>4 DEF x, y
    <3>5. v.payload = << >> /\ ~v.allocated /\ v.opcode \in Opcode
      BY <1>1, <2>2, <3>1 DEF Wsd
    <3> HIDE DEF v
    <3>6. QED
      BY <3>4, <3>5 DEF Sound, v
  <2>5. QED
    BY <2>3, <2>4
<1>5. CASE w.offset \in 2..1 + w.encLen
  <2>1. v = LengthByte(w, c)
    BY <1>2, <1>5 DEF HeaderByte
  <2> DEFINE z == IF c >= 128 \/ w.size > 255 THEN 65536 ELSE 256 * w.size + c
  <2>2. v = [w EXCEPT !.size = z, !.offset = w.offset + 1]
    BY <1>1, <2>1 DEF LengthByte, Wsd
  <2>3. z \in Nat /\ w.offset + 1 \in Nat /\ w.offset > 0
    BY <1>2, <1>5
  <2> HIDE DEF z
  <2>4. QED
    BY <1>1, <2>2, <2>3 DEF Sound, Wsd
<1>6. CASE w.offset # 0 /\ w.offset # 1 /\ w.offset \notin 2..1 + w.encLen
  <2>1. v = MaskByte(w, c)
    BY <1>6 DEF HeaderByte
  <2> DEFINE m == [w.mask EXCEPT ![w.offset - 1 - w.encLen] = c]
  <2>2. v = [w EXCEPT !.mask = m, !.offset = w.offset + 1]
    BY <1>1, <2>1 DEF MaskByte, Wsd
  <2>3. m \in [1..4 -> Nat] /\ w.offset + 1 \in Nat /\ w.offset > 0
    BY <1>2, <1>6
  <2> HIDE DEF m
  <2>4. QED
    BY <1>1, <2>2, <2>3 DEF Sound, Wsd
<1>7. QED
  BY <1>3, <1>4, <1>5, <1>6

\* the end of a header,
LEMMA HeaderEndsSound ==
    ASSUME NEW w, Sound(w), ~w.allocated
    PROVE  Sound(HeaderEnds(w))
<1>1. /\ w \in Wsd /\ w.payload = << >> /\ w.offset \in Nat /\ w.encLen \in {0, 2, 4}
      /\ w.size \in Nat /\ MaxPayload \in Nat
  BY LimitIs, Fields DEF Sound
<1>2. CASE w.err # "none" \/ w.offset # 6 + w.encLen
  BY <1>2 DEF HeaderEnds
<1>3. CASE w.err = "none" /\ w.offset = 6 + w.encLen
  <2>1. w.offset > 0 /\ w.opcode \in Opcode
    BY <1>1, <1>3 DEF Sound
  <2>2. HeaderEnds(w) = IF w.size > MaxPayload THEN Refuse(w, "ENOSPC")
                        ELSE IF w.size = 0 THEN ConsumeMessage(w)
                        ELSE [w EXCEPT !.allocated = TRUE]
    BY <1>3 DEF HeaderEnds
  <2>3. CASE w.size > MaxPayload
    <3>1. HeaderEnds(w) = [w EXCEPT !.err = "ENOSPC"]
      BY <2>2, <2>3 DEF Refuse
    <3>2. QED
      BY <1>1, <2>1, <3>1 DEF Sound, Wsd
  <2>4. CASE ~(w.size > MaxPayload) /\ w.size = 0
    BY <1>1, <2>1, <2>2, <2>4, ConsumeSound
  <2>5. CASE ~(w.size > MaxPayload) /\ w.size # 0
    <3> DEFINE v == [w EXCEPT !.allocated = TRUE]
    <3>1. HeaderEnds(w) = v
      BY <2>2, <2>5
    <3>2. v \in Wsd /\ v.offset = w.offset /\ v.opcode = w.opcode /\ v.size = w.size
          /\ v.payload = << >> /\ v.allocated
      BY <1>1 DEF Wsd
    <3>3. Len(v.payload) = 0
      BY <3>2
    <3> HIDE DEF v
    <3>4. QED
      BY <1>1, <2>1, <2>5, <3>1, <3>2, <3>3 DEF Sound
  <2>6. QED
    BY <2>3, <2>4, <2>5
<1>4. QED
  BY <1>2, <1>3

\* The payload with some more bytes.
More(w, bytes) ==
    [w EXCEPT !.payload = w.payload \o [i \in DOMAIN bytes |->
                  Xor(bytes[i], w.mask[((Len(w.payload) + i - 1) % 4) + 1])]]

\* Which fields bytes of a payload touch.
LEMMA MoreIs ==
    ASSUME NEW w \in Wsd, NEW bytes \in Seq(Nat)
    PROVE  /\ More(w, bytes) \in Wsd
           /\ Len(More(w, bytes).payload) = Len(w.payload) + Len(bytes)
           /\ \A i \in 1..Len(w.payload) : More(w, bytes).payload[i] = w.payload[i]
           /\ \A i \in 1..Len(bytes) : More(w, bytes).payload[Len(w.payload) + i] =
                  Xor(bytes[i], w.mask[((Len(w.payload) + i - 1) % 4) + 1])
           /\ PayloadBytes(w, bytes) =
                  IF Len(More(w, bytes).payload) = w.size THEN ConsumeMessage(More(w, bytes))
                  ELSE More(w, bytes)
<1> DEFINE p == w.payload
           q == [i \in DOMAIN bytes |->
                   Xor(bytes[i], w.mask[((Len(p) + i - 1) % 4) + 1])]
<1>1. p \in Seq(Nat) /\ w.mask \in [1..4 -> Nat] /\ Len(p) \in Nat /\ Len(bytes) \in Nat
      /\ DOMAIN bytes = 1..Len(bytes)
  BY DEF Wsd
<1>2. ASSUME NEW i \in 1..Len(bytes)
      PROVE  Xor(bytes[i], w.mask[((Len(p) + i - 1) % 4) + 1]) \in Nat
  <2>1. (Len(p) + i - 1) % 4 \in 0..3
    <3> DEFINE x == Len(p) + i - 1
    <3>1. x \in Nat
      BY <1>1
    <3> HIDE DEF x
    <3>2. x % 4 \in 0..3
      BY <3>1
    <3>3. QED
      BY <3>2 DEF x
  <2>2. w.mask[((Len(p) + i - 1) % 4) + 1] \in Nat /\ bytes[i] \in Nat
    <3> DEFINE j == (Len(p) + i - 1) % 4
    <3>0. j \in 0..3
      BY <2>1
    <3> HIDE DEF j
    <3>1. j + 1 \in 1..4
      BY <3>0
    <3>2. w.mask[j + 1] \in Nat
      BY <1>1, <3>1
    <3>3. bytes[i] \in Nat
      OBVIOUS
    <3>4. QED
      BY <3>2, <3>3 DEF j
  <2> DEFINE a == w.mask[((Len(p) + i - 1) % 4) + 1]
             b == bytes[i]
  <2>3. a \in Nat /\ b \in Nat
    BY <2>2
  <2> HIDE DEF a, b
  <2>4. Xor(b, a) \in Nat
    BY <2>3 DEF Xor
  <2>5. QED
    BY <2>4 DEF a, b
<1>3. q \in Seq(Nat) /\ Len(q) = Len(bytes)
      /\ \A i \in 1..Len(bytes) : q[i] = Xor(bytes[i], w.mask[((Len(p) + i - 1) % 4) + 1])
  <2>1. q \in [1..Len(bytes) -> Nat]
    BY <1>1, <1>2
  <2>2. QED
    BY <1>1, <2>1
<1>4. More(w, bytes) = [w EXCEPT !.payload = p \o q]
  BY DEF More
<1>5. PayloadBytes(w, bytes) =
         IF Len([w EXCEPT !.payload = p \o q].payload) = w.size
         THEN ConsumeMessage([w EXCEPT !.payload = p \o q])
         ELSE [w EXCEPT !.payload = p \o q]
  BY DEF PayloadBytes, Wsd
<1> HIDE DEF q
<1>6. /\ p \o q \in Seq(Nat) /\ Len(p \o q) = Len(p) + Len(q)
      /\ \A i \in 1..Len(p) : (p \o q)[i] = p[i]
      /\ \A i \in 1..Len(q) : (p \o q)[Len(p) + i] = q[i]
  <2>1. q \in Seq(Nat) /\ p \in Seq(Nat)
    BY <1>1, <1>3
  <2> HIDE DEF p
  <2>2. QED
    BY <2>1, ConcatIs
<1>7. More(w, bytes) \in Wsd /\ More(w, bytes).payload = p \o q
  BY <1>4, <1>6 DEF Wsd
<1>8. QED
  BY <1>3, <1>4, <1>5, <1>6, <1>7

\* and any round of process_chunk, which also leaves fewer bytes.
LEMMA RoundSound ==
    ASSUME NEW l, Sound(l.wsd), l.bytes \in Seq(Nat), ~ChunkDone(l)
    PROVE  /\ Sound(ChunkRound(l).wsd) /\ ChunkRound(l).bytes \in Seq(Nat)
           /\ Len(ChunkRound(l).bytes) < Len(l.bytes)
<1> DEFINE w == l.wsd
           b == l.bytes
           room == w.size - Len(w.payload)
           n == IF w.allocated THEN (IF Len(b) <= room THEN Len(b) ELSE room)
                ELSE IF w.offset < 6 + w.encLen THEN 1 ELSE Len(b)
<1>1. w \in Wsd /\ w.err = "none" /\ b # << >> /\ b \in Seq(Nat)
  BY DEF Sound, ChunkDone
<1>2. w.payload \in Seq(Nat) /\ Len(w.payload) \in Nat /\ w.size \in Nat /\ w.offset \in Nat
      /\ w.encLen \in {0, 2, 4} /\ w.allocated \in BOOLEAN
  BY <1>1, Fields
<1>3. Len(b) \in Nat /\ Len(b) > 0 /\ b[1] \in Nat
  BY <1>1
<1>4. n \in 1..Len(b) /\ (w.allocated => n <= room)
  <2>1. w.allocated => room \in Nat /\ room > 0
    BY <1>2 DEF Sound
  <2> HIDE DEF room
  <2>2. QED
    BY <1>3, <2>1
<1>5. /\ ChunkRound(l).wsd =
             IF w.allocated THEN PayloadBytes(w, SubSeq(b, 1, n))
             ELSE IF w.offset < 6 + w.encLen THEN HeaderEnds(HeaderByte(w, b[1]))
             ELSE [w EXCEPT !.offset = @ + n]
      /\ ChunkRound(l).bytes = SubSeq(b, n + 1, Len(b))
  BY DEF ChunkRound
<1> HIDE DEF n
<1>6. SubSeq(b, n + 1, Len(b)) \in Seq(Nat) /\ Len(SubSeq(b, n + 1, Len(b))) < Len(b)
  BY <1>1, <1>3, <1>4
<1>7. Sound(ChunkRound(l).wsd)
  <2>1. CASE w.allocated
    <3> DEFINE s == SubSeq(b, 1, n)
               v == More(w, s)
    <3>1. s \in Seq(Nat) /\ Len(s) = n
      BY <1>1, <1>3, <1>4
    <3> HIDE DEF s
    <3>2. v \in Wsd /\ Len(v.payload) = Len(w.payload) + n
          /\ ChunkRound(l).wsd = IF Len(v.payload) = w.size THEN ConsumeMessage(v) ELSE v
      <4>1. ChunkRound(l).wsd = PayloadBytes(w, s)
        BY <1>5, <2>1 DEF s
      <4>2. QED
        BY <1>1, <3>1, <4>1, MoreIs
    <3>3. v.offset = w.offset /\ v.opcode = w.opcode /\ v.size = w.size /\ v.allocated
      BY <1>1, <2>1 DEF More, Wsd
    <3>4. v.opcode \in Opcode /\ v.offset > 0
      BY <2>1, <3>3 DEF Sound
    <3>5. Len(v.payload) <= w.size
      BY <1>2, <1>4, <2>1, <3>2
    <3> HIDE DEF v
    <3>6. CASE Len(v.payload) = w.size
      BY <3>2, <3>4, <3>6, ConsumeSound
    <3>7. CASE Len(v.payload) # w.size
      <4>1. Len(v.payload) < v.size
        BY <1>2, <1>4, <3>2, <3>3, <3>5, <3>7
      <4>2. QED
        BY <3>2, <3>3, <3>4, <3>7, <4>1 DEF Sound
    <3>8. QED
      BY <3>6, <3>7
  <2>2. CASE ~w.allocated /\ w.offset < 6 + w.encLen
    BY <1>1, <1>3, <1>5, <2>2, HeaderByteSound, HeaderEndsSound
  <2>3. CASE ~w.allocated /\ ~(w.offset < 6 + w.encLen)
    <3>1. ChunkRound(l).wsd = [w EXCEPT !.offset = w.offset + n]
      BY <1>1, <1>5, <2>3 DEF Wsd
    <3>2. w.offset + n \in Nat /\ w.offset > 0
      BY <1>2, <1>3, <1>4, <2>3, SMTT(40)
    <3>3. QED
      BY <1>1, <2>3, <3>1, <3>2 DEF Sound, Wsd
  <2>4. QED
    BY <2>1, <2>2, <2>3
<1>8. QED
  BY <1>5, <1>6, <1>7
-----------------------------------------------------------------------------
(* Frames: what a browser sends and what it means                          *)

\* The numbers of a frame are in the range of its header.
LEMMA FrameIs ==
    ASSUME NEW f \in Frame
    PROVE  /\ f.op \in {0, 1, 2, 3, 8, 9, 10, 18} /\ f.fin \in BOOLEAN /\ f.masked \in BOOLEAN
           /\ f.len \in Nat /\ f.len <= 65535
<1> DEFINE O == {0, 1, 2, 3, 8, 9, 10, 18}
           L == ShortLengths \cup LongLengths \cup {0}
<1>1. \A n \in L : n \in Nat /\ n <= 65535
  BY WsFramesAssumption DEF WsFramesAssumption
<1>2. \/ f \in [op : {CONT, BINARY}, fin : BOOLEAN, len : ShortLengths, masked : {TRUE}]
      \/ f \in [op : {BINARY}, fin : {FALSE}, len : LongLengths, masked : {TRUE}]
      \/ f \in [op : {PING}, fin : {TRUE}, len : ShortLengths \cup LongLengths, masked : {TRUE}]
      \/ f \in [op : {PONG}, fin : {TRUE}, len : ShortLengths, masked : {TRUE}]
      \/ f \in [op : {TEXT, CLOSE, 16 + BINARY, 3}, fin : {TRUE}, len : {0}, masked : {TRUE}]
      \/ f \in [op : {BINARY}, fin : {TRUE}, len : {0}, masked : {FALSE}]
  BY DEF Frame
<1>3. CONT \in O /\ BINARY \in O /\ PING \in O /\ PONG \in O /\ TEXT \in O /\ CLOSE \in O
      /\ 16 + BINARY \in O /\ 3 \in O
  BY DEF CONT, BINARY, PING, PONG, TEXT, CLOSE
<1> HIDE DEF O, L
<1>4. f.op \in O /\ f.fin \in BOOLEAN /\ f.masked \in BOOLEAN
  BY <1>2, <1>3
<1>5. f.len \in L
  BY <1>2 DEF L
<1>6. QED
  BY <1>1, <1>4, <1>5 DEF O

HeaderLen(f) == IF f.len <= 125 THEN 6 ELSE 8

\* Payload and mask start with a bit.
LEMMA SeedIs ==
    ASSUME NEW f \in Frame
    PROVE  Seed(f) \in {0, 1}
<1>1. f.len \in Nat
  BY FrameIs
<1> DEFINE x == f.len + (IF f.fin THEN 1 ELSE 0)
<1>2. x \in Nat
  BY <1>1
<1> HIDE DEF x
<1>3. x % 2 \in {0, 1}
  BY <1>2
<1>4. QED
  BY <1>3 DEF Seed, x

\* A mask is four bits.
LEMMA MaskIs ==
    ASSUME NEW f \in Frame
    PROVE  /\ Mask(f) \in Seq(Nat) /\ Len(Mask(f)) = 4
           /\ \A m \in 1..4 : Mask(f)[m] \in {0, 1}
           /\ \A x \in Nat : Mask(f)[(x % 4) + 1] \in {0, 1}
<1> DEFINE s == Seed(f)
<1>1. s \in {0, 1} /\ Mask(f) = <<s, 1, 1 - s, 0>>
  BY SeedIs DEF Mask
<1> HIDE DEF s
<1>2. /\ Mask(f) \in Seq(Nat) /\ Len(Mask(f)) = 4
      /\ \A m \in 1..4 : Mask(f)[m] \in {0, 1}
  BY <1>1
<1>3. \A x \in Nat : (x % 4) + 1 \in 1..4
  OBVIOUS
<1>4. QED
  BY <1>2, <1>3

\* A payload is as many bits as its length says.
LEMMA PayloadIs ==
    ASSUME NEW f \in Frame
    PROVE  /\ Payload(f) \in Seq(Nat) /\ Len(Payload(f)) = f.len
           /\ \A j \in 1..f.len : Payload(f)[j] \in {0, 1}
<1> DEFINE n == f.len
           s == Seed(f)
           p == [i \in 1..n |-> ((i \div 3) + s) % 2]
<1>1. n \in Nat /\ s \in {0, 1}
  BY FrameIs, SeedIs
<1>2. Payload(f) = p
  BY DEF Payload
<1> HIDE DEF n, s
<1>3. \A i \in 1..n : ((i \div 3) + s) % 2 \in {0, 1}
  <2>1. ASSUME NEW i \in 1..n PROVE ((i \div 3) + s) % 2 \in {0, 1}
    <3> DEFINE x == (i \div 3) + s
    <3>1. i \div 3 \in Nat
      BY <1>1
    <3>2. x \in Nat
      BY <1>1, <3>1
    <3> HIDE DEF x
    <3>3. x % 2 \in {0, 1}
      BY <3>2
    <3>4. QED
      BY <3>3 DEF x
  <2>2. QED
    BY <2>1
<1>4. p \in [1..n -> Nat] /\ \A j \in 1..n : p[j] \in {0, 1}
  BY <1>3
<1> HIDE DEF p
<1>5. p \in Seq(Nat) /\ Len(p) = n
  BY <1>1, <1>4
<1>6. QED
  BY <1>2, <1>4, <1>5 DEF n

\* Masking twice gives the bit back.
LEMMA XorTwice ==
    ASSUME NEW a \in {0, 1}, NEW b \in {0, 1}
    PROVE  Xor(a, b) \in {0, 1} /\ Xor(Xor(a, b), b) = a
BY DEF Xor

\* Elements of three sequences put together.
LEMMA ThreeParts ==
    ASSUME NEW s \in Seq(Nat), NEW t \in Seq(Nat), NEW u \in Seq(Nat)
    PROVE  /\ s \o t \o u \in Seq(Nat) /\ Len(s \o t \o u) = Len(s) + Len(t) + Len(u)
           /\ \A i \in 1..Len(s) : (s \o t \o u)[i] = s[i]
           /\ \A i \in 1..Len(t) : (s \o t \o u)[Len(s) + i] = t[i]
           /\ \A i \in 1..Len(u) : (s \o t \o u)[Len(s) + Len(t) + i] = u[i]
<1> DEFINE v == s \o t
           w == v \o u
<1>1. Len(s) \in Nat /\ Len(t) \in Nat
  OBVIOUS
<1>2. /\ v \in Seq(Nat) /\ Len(v) = Len(s) + Len(t)
      /\ \A i \in 1..Len(s) : v[i] = s[i]
      /\ \A i \in 1..Len(t) : v[Len(s) + i] = t[i]
  BY ConcatIs
<1> HIDE DEF v
<1>3. /\ w \in Seq(Nat) /\ Len(w) = Len(v) + Len(u)
      /\ \A i \in 1..Len(v) : w[i] = v[i]
      /\ \A i \in 1..Len(u) : w[Len(v) + i] = u[i]
  BY <1>2, ConcatIs
<1> HIDE DEF w
<1>4. \A i \in 1..Len(s) : w[i] = s[i]
  BY <1>1, <1>2, <1>3
<1>5. \A i \in 1..Len(t) : w[Len(s) + i] = t[i]
  <2>1. \A i \in 1..Len(t) : Len(s) + i \in 1..Len(v)
    BY <1>1, <1>2
  <2>2. QED
    BY <1>2, <1>3, <2>1
<1>6. Len(w) = Len(s) + Len(t) + Len(u) /\ \A i \in 1..Len(u) : w[Len(s) + Len(t) + i] = u[i]
  BY <1>2, <1>3
<1>7. QED
  BY <1>3, <1>4, <1>5, <1>6 DEF v, w

\* The length of a header after its second byte.
LEMMA TailIs ==
    ASSUME NEW a \in Nat, NEW b \in Nat, NEW c \in Nat
    PROVE  Tail(<<a>>) = << >> /\ Tail(<<a, b, c>>) = <<b, c>>
OBVIOUS

\* Every byte of a frame by its place in it.
LEMMA BytesAre ==
    ASSUME NEW f \in Frame
    PROVE  LET b == Bytes(f)
               h == HeaderLen(f)
           IN /\ b \in Seq(Nat) /\ Len(b) = h + f.len
              /\ b[1] = (IF f.fin THEN 128 ELSE 0) + f.op
              /\ b[2] = (IF f.len <= 125 THEN f.len ELSE 126) + (IF f.masked THEN 128 ELSE 0)
              /\ f.len > 125 => b[3] = f.len \div 256 /\ b[4] = f.len % 256
              /\ \A m \in 1..4 : b[h - 4 + m] = Mask(f)[m]
              /\ \A j \in 1..f.len : b[h + j] = Xor(Payload(f)[j], Mask(f)[((j - 1) % 4) + 1])
<1> DEFINE b == Bytes(f)
           h == HeaderLen(f)
           n == f.len
           q == [i \in 1..n |-> Xor(Payload(f)[i], Mask(f)[((i - 1) % 4) + 1])]
           first == (IF f.fin THEN 128 ELSE 0) + f.op
           size == Announced(n)
           second == Head(size) + (IF f.masked THEN 128 ELSE 0)
           m == Mask(f)
           head == <<first, second>> \o Tail(size) \o m
<1>1. b = head \o q
  BY DEF Bytes
<1>2. n \in Nat /\ n <= 65535 /\ first \in Nat
  BY FrameIs
<1>3. q \in Seq(Nat) /\ Len(q) = n
  <2>1. ASSUME NEW i \in 1..n PROVE q[i] \in Nat
    <3> DEFINE x == i - 1
    <3>1. x \in Nat
      BY <1>2
    <3>2. Mask(f)[(x % 4) + 1] \in {0, 1} /\ Payload(f)[i] \in {0, 1}
      BY <3>1, MaskIs, PayloadIs
    <3>3. Xor(Payload(f)[i], Mask(f)[(x % 4) + 1]) \in Nat
      BY <3>2, XorTwice
    <3>4. QED
      BY <3>3
  <2>2. q \in [1..n -> Nat]
    BY <2>1
  <2> HIDE DEF q
  <2>3. QED
    BY <1>2, <2>2
<1>4. m \in Seq(Nat) /\ Len(m) = 4
  BY MaskIs
<1> DEFINE Layout ==
               /\ head \in Seq(Nat) /\ Len(head) = h
               /\ head[1] = first
               /\ head[2] = (IF n <= 125 THEN n ELSE 126) + (IF f.masked THEN 128 ELSE 0)
               /\ n > 125 => head[3] = n \div 256 /\ head[4] = n % 256
               /\ \A k \in 1..4 : head[h - 4 + k] = m[k]
<1> HIDE DEF m, q, first
<1>5. Layout
  <2>1. CASE n <= 125
    <3>1. size = <<n>>
      BY <2>1 DEF Announced
    <3>2. Head(size) = n /\ Tail(size) = << >>
      BY <1>2, <3>1, TailIs
    <3> HIDE DEF size
    <3>3. second = n + (IF f.masked THEN 128 ELSE 0) /\ second \in Nat
      BY <1>2, <3>2
    <3> HIDE DEF second
    <3> DEFINE a == <<first, second>>
               t == << >>
    <3>11. head = a \o t \o m
      BY <3>2
    <3>4. a \in Seq(Nat) /\ Len(a) = 2 /\ a[1] = first /\ a[2] = second
          /\ t \in Seq(Nat) /\ Len(t) = 0
      BY <1>2, <3>3
    <3> HIDE DEF a, t, head
    <3>5. h = 6
      BY <2>1 DEF HeaderLen
    <3> HIDE DEF h
    <3>6. /\ head \in Seq(Nat) /\ Len(head) = 2 + 0 + 4
          /\ \A i \in 1..2 : head[i] = a[i]
          /\ \A i \in 1..4 : head[2 + 0 + i] = m[i]
      <4>1. /\ head \in Seq(Nat) /\ Len(head) = Len(a) + Len(t) + Len(m)
            /\ \A i \in 1..Len(a) : head[i] = a[i]
            /\ \A i \in 1..Len(t) : head[Len(a) + i] = t[i]
            /\ \A i \in 1..Len(m) : head[Len(a) + Len(t) + i] = m[i]
        <5>1. a \in Seq(Nat) /\ t \in Seq(Nat) /\ m \in Seq(Nat)
          BY <1>4, <3>4
        <5> DEFINE w == a \o t \o m
        <5>2. /\ w \in Seq(Nat) /\ Len(w) = Len(a) + Len(t) + Len(m)
              /\ \A i \in 1..Len(a) : w[i] = a[i]
              /\ \A i \in 1..Len(t) : w[Len(a) + i] = t[i]
              /\ \A i \in 1..Len(m) : w[Len(a) + Len(t) + i] = m[i]
          BY <5>1, ThreeParts
        <5>3. head = w
          BY <3>11
        <5> HIDE DEF w
        <5>4. QED
          BY <5>2, <5>3
      <4>2. QED
        BY <1>4, <3>4, <4>1
    <3>8. head \in Seq(Nat) /\ Len(head) = 6 /\ head[1] = first /\ head[2] = second
          /\ \A k \in 1..4 : head[2 + k] = m[k]
      BY <3>4, <3>6
    <3>9. \A k \in 1..4 : 2 + k = h - 4 + k
      BY <3>5
    <3>10. QED
      BY <1>2, <2>1, <3>3, <3>5, <3>8, <3>9
  <2>2. CASE ~(n <= 125)
    <3> DEFINE hi == n \div 256
               lo == n % 256
    <3>1. hi \in Nat /\ lo \in Nat /\ size = <<126, hi, lo>>
      BY <1>2, <2>2 DEF Announced
    <3> HIDE DEF hi, lo
    <3>2. Head(size) = 126 /\ Tail(size) = <<hi, lo>>
      BY <1>2, <3>1, TailIs
    <3> HIDE DEF size
    <3>3. second = 126 + (IF f.masked THEN 128 ELSE 0) /\ second \in Nat
      BY <1>2, <3>2
    <3> HIDE DEF second
    <3> DEFINE a == <<first, second>>
               t == <<hi, lo>>
    <3>11. head = a \o t \o m
      BY <3>2
    <3>4. a \in Seq(Nat) /\ Len(a) = 2 /\ a[1] = first /\ a[2] = second
          /\ t \in Seq(Nat) /\ Len(t) = 2 /\ t[1] = hi /\ t[2] = lo
      BY <1>2, <3>1, <3>3
    <3> HIDE DEF a, t, head
    <3>5. h = 8
      BY <2>2 DEF HeaderLen
    <3> HIDE DEF h
    <3>6. /\ head \in Seq(Nat) /\ Len(head) = 2 + 2 + 4
          /\ \A i \in 1..2 : head[i] = a[i]
          /\ \A i \in 1..2 : head[2 + i] = t[i]
          /\ \A i \in 1..4 : head[2 + 2 + i] = m[i]
      <4>1. /\ head \in Seq(Nat) /\ Len(head) = Len(a) + Len(t) + Len(m)
            /\ \A i \in 1..Len(a) : head[i] = a[i]
            /\ \A i \in 1..Len(t) : head[Len(a) + i] = t[i]
            /\ \A i \in 1..Len(m) : head[Len(a) + Len(t) + i] = m[i]
        <5>1. a \in Seq(Nat) /\ t \in Seq(Nat) /\ m \in Seq(Nat)
          BY <1>4, <3>4
        <5> DEFINE w == a \o t \o m
        <5>2. /\ w \in Seq(Nat) /\ Len(w) = Len(a) + Len(t) + Len(m)
              /\ \A i \in 1..Len(a) : w[i] = a[i]
              /\ \A i \in 1..Len(t) : w[Len(a) + i] = t[i]
              /\ \A i \in 1..Len(m) : w[Len(a) + Len(t) + i] = m[i]
          BY <5>1, ThreeParts
        <5>3. head = w
          BY <3>11
        <5> HIDE DEF w
        <5>4. QED
          BY <5>2, <5>3
      <4>2. QED
        BY <1>4, <3>4, <4>1
    <3>7. head[2 + 1] = t[1] /\ head[2 + 2] = t[2]
      BY <3>6
    <3>8. head \in Seq(Nat) /\ Len(head) = 8 /\ head[1] = first /\ head[2] = second
          /\ head[3] = hi /\ head[4] = lo /\ \A k \in 1..4 : head[4 + k] = m[k]
      BY <3>4, <3>6, <3>7
    <3>9. \A k \in 1..4 : 4 + k = h - 4 + k
      BY <3>5
    <3>10. QED
      BY <1>2, <2>2, <3>3, <3>5, <3>8, <3>9 DEF hi, lo
  <2>3. QED
    BY <2>1, <2>2
<1> HIDE DEF head
<1>6. /\ b \in Seq(Nat) /\ Len(b) = h + n
      /\ \A i \in 1..h + n : b[i] = IF i <= h THEN head[i] ELSE q[i - h]
  <2>1. head \in Seq(Nat) /\ Len(head) = h
    <3> HIDE DEF h, n, b, size, second
    <3>1. QED
      BY <1>5
  <2>2. head \o q \in Seq(Nat) /\ Len(head \o q) = Len(head) + Len(q)
        /\ \A i \in 1..Len(head) + Len(q) :
              (head \o q)[i] = IF i <= Len(head) THEN head[i] ELSE q[i - Len(head)]
    BY <1>3, <2>1, ConcatProperties
  <2> HIDE DEF b, h, n
  <2>3. QED
    BY <1>1, <1>3, <2>1, <2>2
<1>7. h \in {6, 8}
  BY DEF HeaderLen
<1>12. \A i \in 1..h + n : b[i] = IF i <= h THEN head[i] ELSE q[i - h]
  BY <1>6
<1>8. ASSUME NEW j \in 1..n
      PROVE  b[h + j] = Xor(Payload(f)[j], Mask(f)[((j - 1) % 4) + 1])
  <2> DEFINE k == h + j
  <2>2. k \in 1..h + n /\ ~(k <= h) /\ k - h = j
    BY <1>2, <1>7
  <2> HIDE DEF k, b, h, n
  <2>5. b[k] = q[j]
    BY <1>12, <2>2
  <2>3. q[j] = Xor(Payload(f)[j], Mask(f)[((j - 1) % 4) + 1])
    BY DEF q
  <2>4. QED
    BY <2>3, <2>5 DEF k, n
<1>9. \A i \in 1..h : b[i] = head[i]
  <2>1. \A i \in 1..h : i \in 1..h + n /\ i <= h
    BY <1>2, <1>7
  <2>2. QED
    BY <1>6, <2>1
<1>10. 1 \in 1..h /\ 2 \in 1..h /\ 3 \in 1..h /\ 4 \in 1..h /\ \A k \in 1..4 : h - 4 + k \in 1..h
  BY <1>7
<1> HIDE DEF h, b
<1>11. b[1] = head[1] /\ b[2] = head[2] /\ b[3] = head[3] /\ b[4] = head[4]
  BY <1>9, <1>10
<1>13. \A k \in 1..4 : b[h - 4 + k] = m[k]
  <2>1. \A k \in 1..4 : b[h - 4 + k] = head[h - 4 + k]
    BY <1>9, <1>10
  <2>2. QED
    BY <1>5, <2>1
<1>14. /\ b[1] = first
       /\ b[2] = (IF n <= 125 THEN n ELSE 126) + (IF f.masked THEN 128 ELSE 0)
       /\ n > 125 => b[3] = n \div 256 /\ b[4] = n % 256
  BY <1>5, <1>11
<1>15. b \in Seq(Nat) /\ Len(b) = h + n
  BY <1>6
<1>16. QED
  BY <1>8, <1>13, <1>14, <1>15 DEF b, h, first, m

\* There is a highest of numbers up to n.
LEMMA HighestNumber ==
    ASSUME NEW n \in Nat, NEW S \in SUBSET (1..n), S # {}
    PROVE  Max(S) \in S /\ \A j \in S : j <= Max(S)
<1> DEFINE D == {n - j : j \in S}
<1>1. D \in SUBSET Nat /\ D # {}
  <2>1. ASSUME NEW d \in D PROVE d \in Nat
    <3>1. PICK j \in S : d = n - j
      OBVIOUS
    <3>2. j \in Int /\ j <= n
      OBVIOUS
    <3> HIDE DEF D
    <3>3. QED
      BY <3>1, <3>2
  <2>2. PICK j \in S : TRUE
    OBVIOUS
  <2>3. n - j \in D
    OBVIOUS
  <2> HIDE DEF D
  <2>4. QED
    BY <2>1, <2>3
<1>2. PICK d \in D : \A g \in D : d <= g
  <2> HIDE DEF D
  <2>1. QED
    BY <1>1, LowestNumber
<1>3. PICK m \in S : d = n - m
  BY <1>2
<1>4. \A j \in S : m >= j
  <2>1. ASSUME NEW j \in S PROVE m >= j
    <3>1. d <= n - j
      BY <1>2
    <3>2. QED
      BY <1>3, <3>1
  <2>2. QED
    BY <2>1
<1> DEFINE c == CHOOSE x \in S : \A y \in S : x >= y
<1>5. c \in S /\ \A y \in S : c >= y
  BY <1>4
<1>6. Max(S) = c
  BY DEF Max
<1> HIDE DEF c
<1>7. QED
  BY <1>5, <1>6

\* The frames up to i of which a message may begin.
Begins(sent, i) == {j \in 1..i : sent[j].op = BINARY}

\* What frame f adds to a message.
Share(f) == IF IsData(f) THEN Payload(f) ELSE << >>

\* What the frames from first up to i add to it.
Shares(sent, first, i) == [j \in 1..i + 1 - first |-> Share(sent[first + j - 1])]

\* What a frame adds to the message it belongs to.
LEMMA ShareIs ==
    ASSUME NEW f \in Frame
    PROVE  Share(f) \in Seq(Nat)
<1>1. << >> \in Seq(Nat)
  OBVIOUS
<1>2. QED
  BY <1>1, PayloadIs DEF Share

\* A message is what its fragments are joined to.
LEMMA WholeIs ==
    ASSUME NEW sent, NEW i
    PROVE  Whole(sent, i) = FlattenSeq(Shares(sent, Max(Begins(sent, i)), i))
BY DEF Whole, Shares, Share, Begins

\* Fragments are sequences of bits.
LEMMA SharesAre ==
    ASSUME NEW sent \in Seq(Frame), NEW i \in 1..Len(sent), NEW first \in 1..i + 1
    PROVE  LET s == Shares(sent, first, i)
           IN /\ s \in Seq(Seq(Nat)) /\ Len(s) = i + 1 - first
              /\ \A j \in 1..i + 1 - first : s[j] = Share(sent[first + j - 1])
<1> DEFINE n == i + 1 - first
           s == Shares(sent, first, i)
<1>1. n \in Nat /\ Len(sent) \in Nat
  OBVIOUS
<1>2. \A j \in 1..n : first + j - 1 \in 1..Len(sent)
  BY <1>1
<1>3. \A j \in 1..n : Share(sent[first + j - 1]) \in Seq(Nat)
  BY <1>2, ShareIs
<1>4. s = [j \in 1..n |-> Share(sent[first + j - 1])]
  BY DEF Shares
<1>5. s \in [1..n -> Seq(Nat)] /\ \A j \in 1..n : s[j] = Share(sent[first + j - 1])
  BY <1>3, <1>4
<1> HIDE DEF s, n
<1>6. s \in Seq(Seq(Nat)) /\ Len(s) = n
  BY <1>1, <1>5
<1>7. QED
  BY <1>5, <1>6 DEF s, n

\* A first fragment is all there is of its message.
LEMMA WholeBegins ==
    ASSUME NEW sent \in Seq(Frame), NEW i \in 1..Len(sent), sent[i].op = BINARY
    PROVE  Whole(sent, i) = Payload(sent[i])
<1> DEFINE S == Begins(sent, i)
           t == Shares(sent, i, i)
           s == << >>
<1>1. i \in Nat /\ Len(sent) \in Nat /\ i \in 1..i + 1 /\ sent[i] \in Frame
  OBVIOUS
<1>2. S \in SUBSET (1..i) /\ i \in S
  BY <1>1 DEF Begins
<1>3. Max(S) = i
  <2>1. Max(S) \in S /\ i <= Max(S)
    BY <1>1, <1>2, HighestNumber
  <2>2. QED
    BY <1>1, <1>2, <2>1
<1> HIDE DEF S
<1>4. Whole(sent, i) = FlattenSeq(t)
  BY <1>3, WholeIs DEF S
<1>5. t \in Seq(Seq(Nat)) /\ Len(t) = 1 /\ t[1] = Share(sent[i])
  <2>1. i + 1 - i = 1 /\ i + 1 - 1 = i /\ 1 \in 1..1
    BY <1>1
  <2>2. Len(t) = i + 1 - i /\ t \in Seq(Seq(Nat))
        /\ \A j \in 1..i + 1 - i : t[j] = Share(sent[i + j - 1])
    BY <1>1, SharesAre
  <2> HIDE DEF t
  <2>3. QED
    BY <2>1, <2>2
<1> HIDE DEF t
<1>6. s \in Seq(Seq(Nat)) /\ Len(s) = 0
  OBVIOUS
<1>7. FlattenSeq(s) = << >>
  BY DEF FlattenSeq
<1> HIDE DEF s
<1>8. Share(sent[i]) \in Seq(Nat)
  BY <1>1, ShareIs
<1>9. FlattenSeq(t) = FlattenSeq(s) \o t[1]
  <2>1. Len(t) = Len(s) + 1 /\ \A j \in 1..Len(s) : t[j] = s[j]
    BY <1>5, <1>6
  <2>2. t[Len(t)] \in Seq(Nat) /\ t[Len(t)] = t[1]
    BY <1>5, <1>8
  <2>3. FlattenSeq(t) = FlattenSeq(s) \o t[Len(t)]
    BY <1>5, <1>6, <2>1, <2>2, FlattenMore
  <2>4. QED
    BY <2>2, <2>3
<1>10. << >> \o Share(sent[i]) = Share(sent[i])
  BY <1>8
<1>11. Share(sent[i]) = Payload(sent[i])
  BY DEF Share, IsData
<1>12. FlattenSeq(t) = << >> \o Share(sent[i])
  BY <1>5, <1>7, <1>9
<1>13. QED
  BY <1>4, <1>10, <1>11, <1>12

\* Every other frame adds its share.
LEMMA WholeGrows ==
    ASSUME NEW sent \in Seq(Frame), NEW i \in 1..Len(sent), sent[i].op # BINARY,
           NEW b \in 1..i - 1, sent[b].op = BINARY
    PROVE  Whole(sent, i) = Whole(sent, i - 1) \o Share(sent[i])
<1> DEFINE S == Begins(sent, i)
           R == Begins(sent, i - 1)
           m == Max(R)
           s == Shares(sent, m, i - 1)
           t == Shares(sent, m, i)
<1>1. i \in Nat /\ i - 1 \in Nat /\ Len(sent) \in Nat /\ i - 1 \in 1..Len(sent) /\ sent[i] \in Frame
  OBVIOUS
<1>2. R \in SUBSET (1..i - 1) /\ R # {}
  BY DEF Begins
<1>3. S = R
  <2>1. \A j \in 1..i : j = i \/ j \in 1..i - 1
    BY <1>1
  <2>2. \A j \in 1..i - 1 : j \in 1..i
    BY <1>1
  <2>3. QED
    BY <2>1, <2>2 DEF Begins
<1>4. m \in 1..i - 1
  <2>1. m \in R
    BY <1>1, <1>2, HighestNumber
  <2>2. QED
    BY <1>2, <2>1
<1>5. Whole(sent, i - 1) = FlattenSeq(s) /\ Whole(sent, i) = FlattenSeq(t)
  BY <1>3, WholeIs
<1> HIDE DEF R, S, m
<1>6. m \in 1..i + 1 /\ m \in 1..i - 1 + 1
  BY <1>1, <1>4
<1> DEFINE n == i - m
<1>7. n \in Nat /\ i + 1 - m = n + 1 /\ i - 1 + 1 - m = n /\ m + (n + 1) - 1 = i
  BY <1>1, <1>4
<1>8. s \in Seq(Seq(Nat)) /\ Len(s) = n /\ \A j \in 1..n : s[j] = Share(sent[m + j - 1])
  <2>1. s \in Seq(Seq(Nat)) /\ Len(s) = i - 1 + 1 - m
        /\ \A j \in 1..i - 1 + 1 - m : s[j] = Share(sent[m + j - 1])
    BY <1>1, <1>6, SharesAre
  <2> HIDE DEF s, n
  <2>2. QED
    BY <1>7, <2>1
<1>9. t \in Seq(Seq(Nat)) /\ Len(t) = n + 1 /\ \A j \in 1..n + 1 : t[j] = Share(sent[m + j - 1])
  <2>1. t \in Seq(Seq(Nat)) /\ Len(t) = i + 1 - m
        /\ \A j \in 1..i + 1 - m : t[j] = Share(sent[m + j - 1])
    BY <1>6, SharesAre
  <2> HIDE DEF t, n
  <2>2. QED
    BY <1>7, <2>1
<1> HIDE DEF s, t
<1>10. Share(sent[i]) \in Seq(Nat)
  BY <1>1, ShareIs
<1>11. t[n + 1] = Share(sent[i])
  <2> HIDE DEF n
  <2>1. n + 1 \in 1..n + 1
    BY <1>7
  <2> DEFINE k == n + 1
  <2>2. k \in 1..n + 1 /\ m + k - 1 = i
    BY <1>7, <2>1
  <2> HIDE DEF k
  <2>3. t[k] = Share(sent[i])
    BY <1>9, <2>2
  <2>4. QED
    BY <2>3 DEF k
<1>12. \A j \in 1..n : t[j] = s[j]
  <2>1. \A j \in 1..n : j \in 1..n + 1
    BY <1>7
  <2> HIDE DEF n
  <2>2. QED
    BY <1>8, <1>9, <2>1
<1> HIDE DEF n
<1>13. FlattenSeq(t) = FlattenSeq(s) \o t[Len(t)]
  <2>1. t[Len(t)] \in Seq(Nat)
    BY <1>9, <1>10, <1>11
  <2>2. Len(t) = Len(s) + 1 /\ \A j \in 1..Len(s) : t[j] = s[j]
    BY <1>8, <1>9, <1>12
  <2>3. QED
    BY <1>8, <1>9, <2>1, <2>2, FlattenMore
<1>14. t[Len(t)] = Share(sent[i])
  BY <1>9, <1>11
<1>15. QED
  BY <1>5, <1>13, <1>14

\* A fragment that goes on with a message without ending it or making it too long.
GoesOn(sent, i) == IsData(sent[i]) => ~sent[i].fin /\ Len(Whole(sent, i)) <= MaxPayload

\* A frame continues a message if the last data frame before it kept one.
LEMMA ContinuesIs ==
    ASSUME NEW sent, NEW i
    PROVE  Continues(sent, i) <=>
              \E j \in 1..i - 1 : sent[j].op = BINARY /\ \A k \in j..i - 1 : GoesOn(sent, k)
BY DEF Continues, GoesOn

\* Nothing is continued at first.
LEMMA ContinuesNot ==
    ASSUME NEW sent
    PROVE  ~Continues(sent, 1)
<1>1. 1..1 - 1 = {}
  OBVIOUS
<1>2. QED
  BY <1>1, ContinuesIs

\* What is continued has begun.
LEMMA ContinuesBegun ==
    ASSUME NEW sent, NEW i \in Nat, Continues(sent, i)
    PROVE  \E b \in 1..i - 1 : sent[b].op = BINARY
BY ContinuesIs

\* Whether a message is open after one more frame.
LEMMA ContinuesNext ==
    ASSUME NEW sent \in Seq(Frame), NEW i \in 1..Len(sent)
    PROVE  Continues(sent, i + 1) <=> /\ GoesOn(sent, i)
                                      /\ sent[i].op = BINARY \/ Continues(sent, i)
<1>1. i \in Nat /\ i + 1 - 1 = i /\ i \in 1..i
  OBVIOUS
<1>2. Continues(sent, i + 1) <=>
         \E j \in 1..i : sent[j].op = BINARY /\ \A k \in j..i : GoesOn(sent, k)
  BY <1>1, ContinuesIs
<1>3. ASSUME Continues(sent, i + 1)
      PROVE  GoesOn(sent, i) /\ (sent[i].op = BINARY \/ Continues(sent, i))
  <2>1. PICK j \in 1..i : sent[j].op = BINARY /\ \A k \in j..i : GoesOn(sent, k)
    BY <1>2, <1>3
  <2>2. i \in j..i
    BY <1>1
  <2>3. GoesOn(sent, i)
    BY <2>1, <2>2
  <2>4. ASSUME j # i PROVE Continues(sent, i)
    <3>1. j \in 1..i - 1 /\ \A k \in j..i - 1 : k \in j..i
      BY <1>1, <2>4
    <3>2. QED
      BY <2>1, <3>1, ContinuesIs
  <2>5. QED
    BY <2>1, <2>3, <2>4
<1>4. ASSUME GoesOn(sent, i), sent[i].op = BINARY
      PROVE  Continues(sent, i + 1)
  <2>1. \A k \in i..i : k = i
    BY <1>1
  <2>2. QED
    BY <1>1, <1>2, <1>4, <2>1
<1>5. ASSUME GoesOn(sent, i), Continues(sent, i)
      PROVE  Continues(sent, i + 1)
  <2>1. PICK j \in 1..i - 1 : sent[j].op = BINARY /\ \A k \in j..i - 1 : GoesOn(sent, k)
    BY <1>5, ContinuesIs
  <2>2. j \in 1..i /\ \A k \in j..i : k = i \/ k \in j..i - 1
    BY <1>1
  <2>3. QED
    BY <1>2, <1>5, <2>1, <2>2
<1>6. QED
  BY <1>3, <1>4, <1>5

-----------------------------------------------------------------------------
(* Frames: what was sent stays what it is                                  *)

\* The same frames up to n.
SameFrames(s, t, n) ==
    /\ s \in Seq(Frame) /\ t \in Seq(Frame) /\ n \in Nat /\ n <= Len(s) /\ n <= Len(t)
    /\ \A j \in 1..n : s[j] = t[j]

\* Frames that are sent later change no message,
LEMMA WholeSame ==
    ASSUME NEW s, NEW t, NEW n, SameFrames(s, t, n),
           NEW i \in 1..n, NEW b \in 1..i, s[b].op = BINARY
    PROVE  Whole(s, i) = Whole(t, i)
<1> DEFINE S == Begins(s, i)
           m == Max(S)
<1>1. n \in Nat /\ i \in Nat /\ \A j \in 1..i : j \in 1..n /\ s[j] = t[j]
  BY DEF SameFrames
<1>2. Begins(t, i) = S
  BY <1>1 DEF Begins
<1>3. m \in 1..i
  <2>1. S \in SUBSET (1..i) /\ S # {}
    BY DEF Begins
  <2>2. m \in S
    BY <1>1, <2>1, HighestNumber
  <2>3. QED
    BY <2>1, <2>2
<1>4. Whole(s, i) = FlattenSeq(Shares(s, m, i)) /\ Whole(t, i) = FlattenSeq(Shares(t, m, i))
  BY <1>2, WholeIs
<1> HIDE DEF S, m
<1>5. \A j \in 1..i + 1 - m : s[m + j - 1] = t[m + j - 1]
  <2>1. \A j \in 1..i + 1 - m : m + j - 1 \in 1..i
    BY <1>1, <1>3
  <2>2. QED
    BY <1>1, <2>1
<1>6. Shares(s, m, i) = Shares(t, m, i)
  BY <1>5 DEF Shares
<1>7. QED
  BY <1>4, <1>6

\* and no question whether one is open,
LEMMA ContinuesSame ==
    ASSUME NEW s, NEW t, NEW n, SameFrames(s, t, n), NEW i \in 1..n + 1
    PROVE  Continues(s, i) <=> Continues(t, i)
<1>1. n \in Nat /\ i \in Nat /\ i - 1 \in Nat /\ i - 1 <= n /\ \A j \in 1..i - 1 : j \in 1..n /\ s[j] = t[j]
  BY DEF SameFrames
<1>2. SameFrames(t, s, n)
  BY DEF SameFrames
<1>3. ASSUME NEW u, NEW v, SameFrames(u, v, n), Continues(u, i),
             \A j \in 1..i - 1 : u[j] = v[j]
      PROVE  Continues(v, i)
  <2>1. PICK j \in 1..i - 1 : u[j].op = BINARY /\ \A k \in j..i - 1 : GoesOn(u, k)
    BY <1>3, ContinuesIs
  <2>2. ASSUME NEW k \in j..i - 1 PROVE GoesOn(v, k)
    <3>1. k \in 1..n /\ k \in 1..i - 1 /\ j \in 1..k
      BY <1>1
    <3>2. Whole(u, k) = Whole(v, k)
      BY <1>3, <2>1, <3>1, WholeSame
    <3>3. GoesOn(u, k) /\ u[k] = v[k]
      BY <1>3, <2>1, <3>1
    <3>4. QED
      BY <3>2, <3>3 DEF GoesOn
  <2>3. v[j].op = BINARY
    BY <1>3, <2>1
  <2>4. QED
    BY <2>2, <2>3, ContinuesIs
<1>4. \A j \in 1..i - 1 : t[j] = s[j]
  BY <1>1
<1>5. QED
  BY <1>1, <1>2, <1>3, <1>4

\* nor whether a frame is accepted.
LEMMA AcceptedSame ==
    ASSUME NEW s, NEW t, NEW n, SameFrames(s, t, n), NEW i \in 1..n
    PROVE  (Accepted(s, i) <=> Accepted(t, i)) /\ Answer(s, i) = Answer(t, i)
<1>1. n \in Nat /\ i \in Nat /\ s[i] = t[i] /\ i \in 1..n + 1
  BY DEF SameFrames
<1>2. Continues(s, i) <=> Continues(t, i)
  BY <1>1, ContinuesSame
<1>3. Accepted(s, i) <=> Accepted(t, i)
  BY <1>1, <1>2 DEF Accepted
<1>4. Accepted(s, i) /\ IsData(s[i]) => Whole(s, i) = Whole(t, i)
  <2>1. CASE s[i].op = BINARY
    <3>1. i \in 1..i
      BY <1>1
    <3>2. QED
      BY <2>1, <3>1, WholeSame
  <2>2. CASE s[i].op # BINARY
    <3>1. ASSUME Accepted(s, i), IsData(s[i]) PROVE Whole(s, i) = Whole(t, i)
      <4>1. Continues(s, i)
        BY <2>2, <3>1 DEF Accepted, IsData
      <4>2. PICK b \in 1..i - 1 : s[b].op = BINARY
        BY <1>1, <4>1, ContinuesBegun
      <4>3. b \in 1..i
        BY <1>1
      <4>4. QED
        BY <4>2, <4>3, WholeSame
    <3>2. QED
      BY <3>1
  <2>3. QED
    BY <2>1, <2>2
<1>5. Answer(s, i) = Answer(t, i)
  <2>1. CASE Accepted(s, i) /\ IsData(s[i])
    BY <1>1, <1>3, <1>4, <2>1 DEF Answer
  <2>2. CASE ~(Accepted(s, i) /\ IsData(s[i]))
    BY <1>1, <1>3, <2>2 DEF Answer
  <2>3. QED
    BY <2>1, <2>2
<1>6. QED
  BY <1>3, <1>5
-----------------------------------------------------------------------------
(* Frames: what is on its way                                              *)

\* The bytes of the frames after the first i.
Coming(s, i) ==
    IF i = Len(s) THEN << >>
    ELSE IF i + 1 = Len(s) THEN Bytes(s[i + 1])
    ELSE Bytes(s[i + 1]) \o Bytes(s[i + 2])

\* Those of them that come after the next k bytes.
Rest(s, i, k) == SubSeq(Coming(s, i), k + 1, Len(Coming(s, i)))

\* Length and elements of a part of a sequence.
LEMMA SubSeqIs ==
    ASSUME NEW t \in Seq(Nat), NEW k \in Nat, k <= Len(t)
    PROVE  /\ SubSeq(t, k + 1, Len(t)) \in Seq(Nat)
           /\ Len(SubSeq(t, k + 1, Len(t))) = Len(t) - k
           /\ \A j \in 1..Len(t) - k : SubSeq(t, k + 1, Len(t))[j] = t[k + j]
<1>1. Len(t) \in Nat
  OBVIOUS
<1>2. SubSeq(t, k + 1, Len(t)) = [j \in 1..Len(t) - k |-> t[k + j]]
  BY <1>1
<1>3. \A j \in 1..Len(t) - k : t[k + j] \in Nat
  BY <1>1
<1> DEFINE u == SubSeq(t, k + 1, Len(t))
           n == Len(t) - k
<1>4. n \in Nat /\ u \in [1..n -> Nat]
  <2>1. n \in Nat
    BY <1>1
  <2>2. u = [j \in 1..n |-> t[k + j]] /\ \A j \in 1..n : t[k + j] \in Nat
    BY <1>2, <1>3
  <2> HIDE DEF u, n
  <2>3. QED
    BY <2>1, <2>2
<1>5. u \in Seq(Nat) /\ Len(u) = n
  <2> HIDE DEF u, n
  <2>1. QED
    BY <1>4
<1>6. QED
  BY <1>2, <1>5

\* Two sequences with the same elements.
LEMMA SameSeq ==
    ASSUME NEW t \in Seq(Nat), NEW u \in Seq(Nat), Len(t) = Len(u),
           \A j \in 1..Len(t) : t[j] = u[j]
    PROVE  t = u
BY SeqEqual

\* A part of a part.
LEMMA SubSeqTwice ==
    ASSUME NEW t \in Seq(Nat), NEW k \in Nat, NEW n \in Nat, k + n <= Len(t)
    PROVE  LET u == SubSeq(t, k + 1, Len(t))
           IN  SubSeq(u, n + 1, Len(u)) = SubSeq(t, k + n + 1, Len(t))
<1> DEFINE u == SubSeq(t, k + 1, Len(t))
           v == SubSeq(u, n + 1, Len(u))
           x == SubSeq(t, k + n + 1, Len(t))
<1>1. Len(t) \in Nat /\ k <= Len(t) /\ k + n \in Nat
  OBVIOUS
<1>2. u \in Seq(Nat) /\ Len(u) = Len(t) - k /\ \A j \in 1..Len(t) - k : u[j] = t[k + j]
  BY <1>1, SubSeqIs
<1> HIDE DEF u
<1>3. n <= Len(u)
  BY <1>1, <1>2
<1>4. v \in Seq(Nat) /\ Len(v) = Len(u) - n /\ \A j \in 1..Len(u) - n : v[j] = u[n + j]
  BY <1>2, <1>3, SubSeqIs
<1> DEFINE m == k + n
<1>5. x \in Seq(Nat) /\ Len(x) = Len(t) - m /\ \A j \in 1..Len(t) - m : x[j] = t[m + j]
  <2> HIDE DEF m
  <2>1. SubSeq(t, m + 1, Len(t)) \in Seq(Nat) /\ Len(SubSeq(t, m + 1, Len(t))) = Len(t) - m
        /\ \A j \in 1..Len(t) - m : SubSeq(t, m + 1, Len(t))[j] = t[m + j]
    BY <1>1, SubSeqIs DEF m
  <2>2. QED
    BY <2>1 DEF m
<1> HIDE DEF v, x
<1>6. Len(v) = Len(x)
  BY <1>1, <1>2, <1>4, <1>5
<1>7. \A j \in 1..Len(v) : v[j] = x[j]
  <2>1. ASSUME NEW j \in 1..Len(v) PROVE v[j] = x[j]
    <3>1. j \in 1..Len(u) - n /\ n + j \in 1..Len(t) - k /\ j \in 1..Len(t) - m
          /\ k + (n + j) = m + j
      BY <1>1, <1>2, <1>4
    <3> HIDE DEF m
    <3>2. v[j] = u[n + j] /\ u[n + j] = t[k + (n + j)] /\ x[j] = t[m + j]
      BY <1>2, <1>4, <1>5, <3>1
    <3>3. QED
      BY <3>1, <3>2
  <2>2. QED
    BY <2>1
<1>8. v = x
  BY <1>4, <1>5, <1>6, <1>7, SameSeq
<1>9. QED
  BY <1>8 DEF v, x, u

\* What was cut in two, and what remains when the first part gets shorter.
LEMMA Joined ==
    ASSUME NEW t \in Seq(Nat), NEW n \in Nat, n <= Len(t)
    PROVE  /\ SubSeq(t, 1, n) \in Seq(Nat) /\ Len(SubSeq(t, 1, n)) = n
           /\ SubSeq(t, 1, n) \o SubSeq(t, n + 1, Len(t)) = t
<1> DEFINE a == SubSeq(t, 1, n)
           z == SubSeq(t, n + 1, Len(t))
<1>1. Len(t) \in Nat
  OBVIOUS
<1>2. a = [j \in 1..n |-> t[j]]
  BY <1>1
<1>3. a \in [1..n -> Nat]
  <2>1. \A j \in 1..n : t[j] \in Nat
    BY <1>1
  <2>2. QED
    BY <1>2, <2>1
<1>4. \A j \in 1..n : a[j] = t[j]
  BY <1>2
<1> HIDE DEF a
<1>5. a \in Seq(Nat) /\ Len(a) = n
  BY <1>3
<1>6. z \in Seq(Nat) /\ Len(z) = Len(t) - n /\ \A j \in 1..Len(t) - n : z[j] = t[n + j]
  BY SubSeqIs
<1> HIDE DEF z
<1> DEFINE y == a \o z
<1>7. /\ y \in Seq(Nat) /\ Len(y) = Len(a) + Len(z)
      /\ \A j \in 1..Len(a) : y[j] = a[j]
      /\ \A j \in 1..Len(z) : y[Len(a) + j] = z[j]
  BY <1>5, <1>6, ConcatIs
<1> HIDE DEF y
<1>8. Len(y) = Len(t)
  BY <1>1, <1>5, <1>6, <1>7
<1>9. ASSUME NEW j \in 1..Len(y) PROVE y[j] = t[j]
  <2>1. CASE j <= n
    <3>1. j \in 1..n
      BY <1>8, <2>1
    <3>2. QED
      BY <1>4, <1>5, <1>7, <3>1
  <2>2. CASE ~(j <= n)
    <3> DEFINE m == j - n
    <3>1. m \in 1..Len(z) /\ m \in 1..Len(t) - n /\ n + m = j
      BY <1>1, <1>6, <1>8, <2>2
    <3> HIDE DEF m
    <3>2. y[n + m] = z[m] /\ z[m] = t[n + m]
      BY <1>5, <1>6, <1>7, <3>1
    <3>3. QED
      BY <3>1, <3>2
  <2>3. QED
    BY <2>1, <2>2
<1>10. y = t
  BY <1>7, <1>8, <1>9, SameSeq
<1>11. QED
  BY <1>5, <1>10 DEF a, y, z

\* A sequence in two parts.
LEMMA Shorter ==
    ASSUME NEW b \in Seq(Nat), NEW z \in Seq(Nat), NEW n \in Nat, n <= Len(b)
    PROVE  /\ SubSeq(b, n + 1, Len(b)) \o z = SubSeq(b \o z, n + 1, Len(b \o z))
           /\ \A j \in 1..Len(b) : b[j] = (b \o z)[j]
           /\ Len(b) <= Len(b \o z)
<1> DEFINE t == b \o z
           c == SubSeq(b, n + 1, Len(b))
           x == SubSeq(t, n + 1, Len(t))
           y == c \o z
<1>1. Len(b) \in Nat /\ Len(z) \in Nat
  OBVIOUS
<1>2. /\ t \in Seq(Nat) /\ Len(t) = Len(b) + Len(z)
      /\ \A j \in 1..Len(b) : t[j] = b[j]
      /\ \A j \in 1..Len(z) : t[Len(b) + j] = z[j]
  BY ConcatIs
<1>3. c \in Seq(Nat) /\ Len(c) = Len(b) - n /\ \A j \in 1..Len(b) - n : c[j] = b[n + j]
  BY SubSeqIs
<1> HIDE DEF t, c
<1>4. /\ y \in Seq(Nat) /\ Len(y) = Len(c) + Len(z)
      /\ \A j \in 1..Len(c) : y[j] = c[j]
      /\ \A j \in 1..Len(z) : y[Len(c) + j] = z[j]
  BY <1>3, ConcatIs
<1>5. x \in Seq(Nat) /\ Len(x) = Len(t) - n /\ \A j \in 1..Len(t) - n : x[j] = t[n + j]
  <2>1. n <= Len(t)
    BY <1>1, <1>2
  <2>2. QED
    BY <1>2, <2>1, SubSeqIs
<1> HIDE DEF x, y
<1>6. Len(x) = Len(y)
  BY <1>1, <1>2, <1>3, <1>4, <1>5
<1>7. ASSUME NEW j \in 1..Len(y) PROVE y[j] = x[j]
  <2>1. CASE j <= Len(c)
    <3>1. j \in 1..Len(c) /\ j \in 1..Len(b) - n /\ n + j \in 1..Len(b) /\ j \in 1..Len(t) - n
      BY <1>1, <1>2, <1>3, <2>1
    <3>2. QED
      BY <1>2, <1>3, <1>4, <1>5, <3>1
  <2>2. CASE ~(j <= Len(c))
    <3> DEFINE m == j - Len(c)
    <3>1. m \in 1..Len(z) /\ Len(c) + m = j /\ j \in 1..Len(t) - n /\ n + j = Len(b) + m
      <4>1. /\ Len(b) \in Nat /\ Len(z) \in Nat /\ Len(t) = Len(b) + Len(z) /\ Len(c) = Len(b) - n
            /\ Len(y) = Len(c) + Len(z) /\ ~(j <= Len(c)) /\ j \in 1..Len(y)
        BY <1>1, <1>2, <1>3, <1>4, <2>2
      <4>2. QED
        BY <4>1
    <3> HIDE DEF m
    <3>2. y[Len(c) + m] = z[m] /\ x[j] = t[n + j] /\ t[Len(b) + m] = z[m]
      BY <1>2, <1>4, <1>5, <3>1
    <3>3. QED
      BY <3>1, <3>2
  <2>3. QED
    BY <2>1, <2>2
<1>8. y = x
  BY <1>4, <1>5, <1>6, <1>7, SameSeq
<1>9. Len(b) <= Len(t)
  BY <1>1, <1>2
<1>10. \A j \in 1..Len(b) : b[j] = t[j]
  BY <1>2
<1>11. QED
  BY <1>8, <1>9, <1>10 DEF c, t, x, y

\* The frame that comes next, and at most one after it.
LEMMA ComingIs ==
    ASSUME NEW s \in Seq(Frame), NEW i \in Nat, i < Len(s), Len(s) <= i + 2
    PROVE  LET f == s[i + 1]
               b == Bytes(f)
           IN /\ f \in Frame
              /\ Coming(s, i) \in Seq(Nat) /\ Len(b) <= Len(Coming(s, i))
              /\ \A j \in 1..Len(b) : Coming(s, i)[j] = b[j]
              /\ SubSeq(Coming(s, i), Len(b) + 1, Len(Coming(s, i))) = Coming(s, i + 1)
<1> DEFINE f == s[i + 1]
           b == Bytes(f)
           c == Coming(s, i)
           d == Coming(s, i + 1)
<1>1. Len(s) \in Nat /\ i + 1 \in 1..Len(s)
  OBVIOUS
<1>2. f \in Frame
  BY <1>1
<1> HIDE DEF f
<1>3. b \in Seq(Nat) /\ Len(b) \in Nat
  <2>1. b \in Seq(Nat)
    BY <1>2, BytesAre
  <2> HIDE DEF b
  <2>2. QED
    BY <2>1
<1>4. CASE i + 1 = Len(s)
  <2>1. c = b /\ d = << >>
    BY <1>1, <1>4 DEF Coming, f
  <2> HIDE DEF c, d, b
  <2>2. SubSeq(b, Len(b) + 1, Len(b)) = << >>
    BY <1>3
  <2>3. /\ c \in Seq(Nat) /\ Len(b) <= Len(c) /\ \A j \in 1..Len(b) : c[j] = b[j]
        /\ SubSeq(c, Len(b) + 1, Len(c)) = d
    BY <1>3, <2>1, <2>2
  <2>4. QED
    BY <1>2, <2>3 DEF c, d, b, f
<1>5. CASE i + 2 = Len(s)
  <2> DEFINE g == s[i + 2]
             e == Bytes(g)
  <2>1. c = b \o e /\ d = e
    BY <1>1, <1>5 DEF Coming, f
  <2>2. e \in Seq(Nat)
    <3>1. g \in Frame
      BY <1>5
    <3> HIDE DEF g
    <3>2. QED
      BY <3>1, BytesAre
  <2> HIDE DEF c, d, b, e
  <2>3. /\ c \in Seq(Nat) /\ Len(c) = Len(b) + Len(e)
        /\ \A j \in 1..Len(b) : c[j] = b[j]
    BY <1>3, <2>1, <2>2, ConcatIs
  <2>4. SubSeq(b, Len(b) + 1, Len(b)) \o e = SubSeq(c, Len(b) + 1, Len(c)) /\ Len(b) <= Len(c)
    <3>1. Len(b) <= Len(b)
      BY <1>3
    <3>2. QED
      BY <1>3, <2>1, <2>2, <3>1, Shorter
  <2>5. SubSeq(b, Len(b) + 1, Len(b)) = << >>
    BY <1>3
  <2>6. << >> \o e = e
    BY <2>2
  <2>7. SubSeq(c, Len(b) + 1, Len(c)) = d
    BY <2>1, <2>4, <2>5, <2>6
  <2>8. QED
    BY <1>2, <2>3, <2>4, <2>7 DEF c, d, b, f
<1>6. QED
  BY <1>1, <1>4, <1>5

\* What is not read yet, byte by byte.
LEMMA RestIs ==
    ASSUME NEW s \in Seq(Frame), NEW i \in Nat, i < Len(s), Len(s) <= i + 2,
           NEW k \in Nat, k < Len(Bytes(s[i + 1]))
    PROVE  LET b == Bytes(s[i + 1])
               r == Rest(s, i, k)
           IN /\ r \in Seq(Nat) /\ r # << >> /\ Len(b) - k <= Len(r)
              /\ \A j \in 1..Len(b) - k : r[j] = b[k + j]
              /\ \A n \in 0..Len(b) - k : SubSeq(r, n + 1, Len(r)) = Rest(s, i, k + n)
              /\ Rest(s, i, Len(b)) = Rest(s, i + 1, 0)
<1> DEFINE b == Bytes(s[i + 1])
           c == Coming(s, i)
           r == Rest(s, i, k)
<1>1. /\ s[i + 1] \in Frame
      /\ c \in Seq(Nat) /\ Len(b) <= Len(c)
      /\ \A j \in 1..Len(b) : c[j] = b[j]
      /\ SubSeq(c, Len(b) + 1, Len(c)) = Coming(s, i + 1)
  BY ComingIs
<1>2. b \in Seq(Nat) /\ Len(b) \in Nat /\ Len(c) \in Nat
  <2>1. b \in Seq(Nat)
    BY <1>1, BytesAre
  <2> HIDE DEF b, c
  <2>2. QED
    BY <1>1, <2>1
<1>3. k < Len(b)
  OBVIOUS
<1>4. r = SubSeq(c, k + 1, Len(c))
  BY DEF Rest
<1>5. \A n : Rest(s, i, n) = SubSeq(c, n + 1, Len(c))
  BY DEF Rest
<1> DEFINE d == Coming(s, i + 1)
<1>6. Rest(s, i + 1, 0) = SubSeq(d, 0 + 1, Len(d))
  BY DEF Rest
<1> HIDE DEF b, c, d, r
<1>7. k <= Len(c)
  BY <1>1, <1>2, <1>3
<1>8. /\ r \in Seq(Nat) /\ Len(r) = Len(c) - k /\ \A j \in 1..Len(c) - k : r[j] = c[k + j]
  BY <1>1, <1>4, <1>7, SubSeqIs
<1>9. r # << >> /\ Len(b) - k <= Len(r)
  BY <1>1, <1>2, <1>3, <1>8
<1>10. \A j \in 1..Len(b) - k : r[j] = b[k + j]
  <2>1. ASSUME NEW j \in 1..Len(b) - k PROVE j \in 1..Len(c) - k /\ k + j \in 1..Len(b)
    <3> DEFINE lb == Len(b)
               lc == Len(c)
    <3>1. lb \in Nat /\ lc \in Nat /\ lb <= lc /\ k \in Nat /\ j \in 1..lb - k
      BY <1>1, <1>2, <2>1
    <3> HIDE DEF lb, lc
    <3>2. j \in 1..lc - k /\ k + j \in 1..lb
      BY <3>1
    <3>3. QED
      BY <3>2 DEF lb, lc
  <2>2. QED
    BY <1>1, <1>8, <2>1
<1>11. ASSUME NEW n \in 0..Len(b) - k
       PROVE  SubSeq(r, n + 1, Len(r)) = Rest(s, i, k + n)
  <2>1. n \in Nat /\ k + n <= Len(c)
    BY <1>1, <1>2
  <2>2. SubSeq(r, n + 1, Len(r)) = SubSeq(c, k + n + 1, Len(c))
    BY <1>1, <1>4, <2>1, SubSeqTwice
  <2>3. QED
    BY <1>5, <2>2
<1>12. Rest(s, i, Len(b)) = Rest(s, i + 1, 0)
  <2>1. Rest(s, i, Len(b)) = d
    BY <1>1, <1>5 DEF d
  <2>2. d \in Seq(Nat)
    BY <1>1, <1>2, SubSeqIs DEF d
  <2>3. SubSeq(d, 0 + 1, Len(d)) = d
    BY <2>2
  <2>4. QED
    BY <1>6, <2>1, <2>3
<1>13. QED
  BY <1>8, <1>9, <1>10, <1>11, <1>12 DEF b, r
-----------------------------------------------------------------------------
(* Frames: what was answered and what should have been                     *)

\* The messages and frames of the server as they are understood.
HeardAll(es) == [k \in DOMAIN es |-> Heard(es[k])]

\* What the first i frames are to be answered with.
Answers(s, i) == FlattenSeq([j \in 1..i |-> Answer(s, j)])

\* A browser reads from a frame what ws_write put into it.
LEMMA UnderstoodWritten ==
    ASSUME NEW opcode \in Nat, NEW data \in Seq(Nat), Len(data) <= 65535
    PROVE  Understood(Written(opcode, data)) = data
<1> DEFINE n == Len(data)
           w == Written(opcode, data)
<1>1. n \in Nat /\ n <= 65535
  OBVIOUS
<1>2. << >> \in Seq(Nat)
  OBVIOUS
<1>3. CASE n <= 125
  <2> DEFINE a == <<opcode + 128>>
             t == <<n>>
  <2>1. w = a \o t \o data
    BY <1>3 DEF Written
  <2>2. a \in Seq(Nat) /\ Len(a) = 1 /\ t \in Seq(Nat) /\ Len(t) = 1 /\ t[1] = n
    BY <1>1
  <2> HIDE DEF a, t, w
  <2>3. /\ w \in Seq(Nat) /\ Len(w) = 1 + 1 + n
        /\ \A i \in 1..1 : w[1 + i] = t[i]
        /\ \A i \in 1..n : w[1 + 1 + i] = data[i]
    <3> DEFINE x == a \o t \o data
    <3>1. /\ x \in Seq(Nat) /\ Len(x) = Len(a) + Len(t) + Len(data)
          /\ \A i \in 1..Len(t) : x[Len(a) + i] = t[i]
          /\ \A i \in 1..Len(data) : x[Len(a) + Len(t) + i] = data[i]
      <4>1. a \in Seq(Nat) /\ t \in Seq(Nat) /\ data \in Seq(Nat)
        BY <2>2
      <4>2. QED
        BY <4>1, ThreeParts
    <3>2. w = x
      BY <2>1
    <3> HIDE DEF x
    <3>3. QED
      BY <2>2, <3>1, <3>2
  <2> DEFINE u == SubSeq(w, 2 + 1, Len(w))
  <2>4. u \in Seq(Nat) /\ Len(u) = Len(w) - 2 /\ \A j \in 1..Len(w) - 2 : u[j] = w[2 + j]
    <3>1. 2 \in Nat /\ 2 <= Len(w)
      BY <1>1, <2>3
    <3>2. QED
      BY <2>3, <3>1, SubSeqIs
  <2>5. w[2] = n
    <3>1. w[1 + 1] = t[1]
      BY <2>3
    <3>2. QED
      BY <2>2, <3>1
  <2>6. Understood(w) = IF n < 127 /\ Len(u) = n THEN u ELSE <<"notAFrame">>
    <3>1. n # 126
      <4>1. \A x \in Nat : x <= 125 => x # 126
        OBVIOUS
      <4> HIDE DEF n
      <4>2. QED
        BY <1>1, <1>3, <4>1
    <3>2. 2 + 1 = 3
      OBVIOUS
    <3> HIDE DEF n
    <3>3. QED
      BY <2>5, <3>1, <3>2 DEF Understood
  <2> HIDE DEF u
  <2>7. Len(u) = n /\ \A j \in 1..n : u[j] = data[j]
    <3>1. Len(u) = n
      BY <1>1, <2>3, <2>4
    <3>2. ASSUME NEW j \in 1..n PROVE u[j] = data[j]
      <4>1. j \in 1..Len(w) - 2 /\ 1 + 1 + j = 2 + j
        BY <1>1, <2>3
      <4>2. QED
        BY <2>3, <2>4, <4>1
    <3>3. QED
      BY <3>1, <3>2
  <2>8. u = data
    BY <2>4, <2>7, SameSeq
  <2>9. QED
    BY <1>1, <1>3, <2>6, <2>7, <2>8 DEF w
<1>4. CASE ~(n <= 125)
  <2> DEFINE a == <<opcode + 128>>
             hi == n \div 256
             lo == n % 256
             t == <<126, hi, lo>>
  <2>1. w = a \o t \o data
    BY <1>1, <1>4 DEF Written
  <2>2. hi \in Nat /\ lo \in Nat /\ 256 * hi + lo = n
    BY <1>1
  <2> HIDE DEF hi, lo
  <2>3. a \in Seq(Nat) /\ Len(a) = 1 /\ t \in Seq(Nat) /\ Len(t) = 3 /\ t[1] = 126 /\ t[2] = hi /\ t[3] = lo
    BY <2>2
  <2> HIDE DEF a, t, w
  <2>4. /\ w \in Seq(Nat) /\ Len(w) = 1 + 3 + n
        /\ \A i \in 1..3 : w[1 + i] = t[i]
        /\ \A i \in 1..n : w[1 + 3 + i] = data[i]
    <3> DEFINE x == a \o t \o data
    <3>1. /\ x \in Seq(Nat) /\ Len(x) = Len(a) + Len(t) + Len(data)
          /\ \A i \in 1..Len(t) : x[Len(a) + i] = t[i]
          /\ \A i \in 1..Len(data) : x[Len(a) + Len(t) + i] = data[i]
      <4>1. a \in Seq(Nat) /\ t \in Seq(Nat) /\ data \in Seq(Nat)
        BY <2>3
      <4>2. QED
        BY <4>1, ThreeParts
    <3>2. w = x
      BY <2>1
    <3> HIDE DEF x
    <3>3. QED
      BY <2>3, <3>1, <3>2
  <2> DEFINE u == SubSeq(w, 4 + 1, Len(w))
  <2>5. u \in Seq(Nat) /\ Len(u) = Len(w) - 4 /\ \A j \in 1..Len(w) - 4 : u[j] = w[4 + j]
    <3>1. 4 \in Nat /\ 4 <= Len(w)
      BY <1>1, <2>4
    <3>2. QED
      BY <2>4, <3>1, SubSeqIs, SMTT(40)
  <2>6. w[2] = 126 /\ w[3] = hi /\ w[4] = lo
    <3>1. w[1 + 1] = t[1] /\ w[1 + 2] = t[2] /\ w[1 + 3] = t[3]
      BY <2>4
    <3>2. QED
      BY <2>3, <3>1
  <2>7. Understood(w) = IF Len(u) = 256 * hi + lo THEN u ELSE <<"notAFrame">>
    <3>1. 4 + 1 = 5
      OBVIOUS
    <3>2. QED
      BY <2>6, <3>1 DEF Understood
  <2> HIDE DEF u
  <2>8. Len(u) = n /\ \A j \in 1..n : u[j] = data[j]
    <3>1. Len(u) = n
      BY <1>1, <2>4, <2>5
    <3>2. ASSUME NEW j \in 1..n PROVE u[j] = data[j]
      <4>1. j \in 1..Len(w) - 4 /\ 1 + 3 + j = 4 + j
        BY <1>1, <2>4
      <4>2. QED
        BY <2>4, <2>5, <4>1
    <3>3. QED
      BY <3>1, <3>2
  <2>9. u = data
    BY <2>5, <2>8, SameSeq
  <2>10. QED
    BY <2>2, <2>7, <2>8, <2>9 DEF w
<1>5. QED
  BY <1>1, <1>3, <1>4

\* A message is heard as it was handed over,
LEMMA HeardMessage ==
    ASSUME NEW data
    PROVE  Heard([what |-> "message", data |-> data]) = [what |-> "message", data |-> data]
BY DEF Heard

\* a pong with the payload of its ping,
LEMMA HeardPong ==
    ASSUME NEW data \in Seq(Nat), Len(data) <= 65535
    PROVE  Heard([what |-> "pong", data |-> Written(PONG, data)]) = [what |-> "pong", data |-> data]
<1>1. \A b : Heard([what |-> "pong", data |-> b]) = [what |-> "pong", data |-> Understood(b)]
  BY DEF Heard
<1>2. PONG \in Nat
  BY DEF PONG
<1>3. Understood(Written(PONG, data)) = data
  BY <1>2, UnderstoodWritten
<1>4. QED
  BY <1>1, <1>3

\* and a close frame with its code.
LEMMA HeardClose ==
    Heard([what |-> "close", data |-> Written(CLOSE, <<1008>>)]) = [what |-> "close", data |-> <<1008>>]
<1> DEFINE d == <<1008>>
<1>1. \A b : Heard([what |-> "close", data |-> b]) = [what |-> "close", data |-> Understood(b)]
  BY DEF Heard
<1>2. CLOSE \in Nat
  BY DEF CLOSE
<1>3. d \in Seq(Nat) /\ Len(d) <= 65535
  OBVIOUS
<1> HIDE DEF d
<1>4. Understood(Written(CLOSE, d)) = d
  BY <1>2, <1>3, UnderstoodWritten
<1>5. Heard([what |-> "close", data |-> Written(CLOSE, d)]) = [what |-> "close", data |-> d]
  BY <1>1, <1>4
<1>6. QED
  BY <1>5 DEF d

\* All that was heard, in order,
LEMMA HeardAllIs ==
    ASSUME NEW es \in Seq(Event)
    PROVE  LET H == {Heard(e) : e \in Event}
           IN HeardAll(es) \in Seq(H) /\ Len(HeardAll(es)) = Len(es)
<1> DEFINE H == {Heard(e) : e \in Event}
<1>1. Len(es) \in Nat /\ DOMAIN es = 1..Len(es) /\ \A k \in 1..Len(es) : es[k] \in Event
  OBVIOUS
<1>2. HeardAll(es) \in [1..Len(es) -> H]
  BY <1>1 DEF HeardAll
<1> HIDE DEF H
<1>3. QED
  BY <1>1, <1>2 DEF H

\* and one event more.
LEMMA HeardAppend ==
    ASSUME NEW es \in Seq(Event), NEW e \in Event
    PROVE  HeardAll(Append(es, e)) = HeardAll(es) \o <<Heard(e)>>
<1> DEFINE H == {Heard(x) : x \in Event}
           a == HeardAll(es)
           t == HeardAll(Append(es, e))
           u == a \o <<Heard(e)>>
           n == Len(es)
<1>1. n \in Nat /\ Append(es, e) \in Seq(Event) /\ Len(Append(es, e)) = n + 1
      /\ DOMAIN es = 1..n /\ DOMAIN Append(es, e) = 1..n + 1
      /\ Append(es, e)[n + 1] = e /\ \A k \in 1..n : Append(es, e)[k] = es[k]
  OBVIOUS
<1>2. a \in Seq(H) /\ Len(a) = n /\ t \in Seq(H) /\ Len(t) = n + 1
  BY <1>1, HeardAllIs
<1>3. \A k \in 1..n : a[k] = Heard(es[k]) /\ t[k] = a[k]
  BY <1>1 DEF HeardAll
<1>4. t[n + 1] = Heard(e)
  BY <1>1 DEF HeardAll
<1>5. Heard(e) \in H
  OBVIOUS
<1> HIDE DEF a, t, H, n
<1> DEFINE z == <<Heard(e)>>
<1>6. z \in Seq(H) /\ Len(z) = 1 /\ z[1] = Heard(e)
  BY <1>5
<1> HIDE DEF z
<1>7. /\ a \o z \in Seq(H) /\ Len(a \o z) = Len(a) + Len(z)
      /\ \A i \in 1..Len(a) + Len(z) :
            (a \o z)[i] = IF i <= Len(a) THEN a[i] ELSE z[i - Len(a)]
  BY <1>2, <1>6, ConcatProperties
<1> DEFINE y == a \o z
<1> HIDE DEF y
<1>8. y \in Seq(H) /\ Len(y) = n + 1
      /\ \A i \in 1..n + 1 : y[i] = IF i <= n THEN a[i] ELSE z[i - n]
  BY <1>2, <1>6, <1>7 DEF y
<1>9. ASSUME NEW j \in 1..Len(t) PROVE t[j] = y[j]
  <2>1. CASE j <= n
    <3>1. j \in 1..n /\ j \in 1..n + 1
      BY <1>1, <1>2, <2>1
    <3>2. QED
      BY <1>3, <1>8, <2>1, <3>1
  <2>2. CASE ~(j <= n)
    <3>1. j = n + 1 /\ j - n = 1 /\ j \in 1..n + 1
      BY <1>1, <1>2, <2>2
    <3>2. QED
      BY <1>4, <1>6, <1>8, <2>2, <3>1
  <2>3. QED
    BY <2>1, <2>2
<1>10. Len(t) = Len(y)
  BY <1>2, <1>8
<1>11. t = y
  BY <1>2, <1>8, <1>9, <1>10, SeqEqual
<1>12. QED
  BY <1>11 DEF t, y, a, z

\* No frame is answered with nothing.
LEMMA AnswersNone ==
    ASSUME NEW s
    PROVE  Answers(s, 0) = HeardAll(<< >>)
<1> DEFINE z == [j \in 1..0 |-> Answer(s, j)]
           e == << >>
<1>1. z = << >>
  OBVIOUS
<1> HIDE DEF z
<1>2. FlattenSeq(z) = << >>
  BY <1>1 DEF FlattenSeq
<1>3. DOMAIN e = {}
  OBVIOUS
<1>4. HeardAll(e) = << >>
  BY <1>3 DEF HeardAll
<1>5. QED
  BY <1>2, <1>4 DEF Answers, z

\* One more frame adds its answer.
LEMMA AnswersMore ==
    ASSUME NEW s, NEW i \in Nat
    PROVE  Answers(s, i + 1) = Answers(s, i) \o Answer(s, i + 1)
<1> DEFINE T == {Answer(s, j) : j \in 1..i + 1}
           u == [j \in 1..i |-> Answer(s, j)]
           t == [j \in 1..i + 1 |-> Answer(s, j)]
           S == {Answer(s, i + 1)[1]}
<1>1. u \in Seq(T) /\ Len(u) = i
  <2>1. u \in [1..i -> T]
    OBVIOUS
  <2> HIDE DEF u, T
  <2>2. QED
    BY <2>1
<1>2. t \in Seq(T) /\ Len(t) = i + 1
  <2>1. t \in [1..i + 1 -> T] /\ i + 1 \in Nat
    OBVIOUS
  <2> HIDE DEF t, T
  <2>2. QED
    BY <2>1
<1>3. t[i + 1] = Answer(s, i + 1) /\ \A j \in 1..i : t[j] = u[j]
  OBVIOUS
<1> HIDE DEF T
<1>4. Answer(s, i + 1) \in Seq(S)
  <2> DEFINE A == Answer(s, i + 1)
  <2>1. A = << >> \/ \E x : A = <<x>>
    BY DEF Answer
  <2> HIDE DEF A
  <2>2. ASSUME A = << >> PROVE A \in Seq({A[1]})
    <3>1. \A U : << >> \in Seq(U)
      OBVIOUS
    <3>2. QED
      BY <2>2, <3>1
  <2>3. ASSUME NEW x, A = <<x>> PROVE A \in Seq({A[1]})
    <3>1. A[1] = x
      BY <2>3
    <3>2. <<x>> \in Seq({x})
      OBVIOUS
    <3>3. QED
      BY <2>3, <3>1, <3>2
  <2>4. QED
    BY <2>1, <2>2, <2>3 DEF A, S
<1> HIDE DEF S, u, t
<1>5. t[Len(t)] \in Seq(S) /\ Len(t) = Len(u) + 1 /\ \A j \in 1..Len(u) : t[j] = u[j]
  BY <1>1, <1>2, <1>3, <1>4
<1>6. FlattenSeq(t) = FlattenSeq(u) \o t[Len(t)]
  BY <1>1, <1>2, <1>5, FlattenMore
<1>7. FlattenSeq(t) = FlattenSeq(u) \o Answer(s, i + 1)
  BY <1>2, <1>3, <1>6
<1>8. QED
  BY <1>7 DEF Answers, t, u

\* Later frames do not change the answers of earlier ones.
LEMMA AnswersSame ==
    ASSUME NEW s, NEW t, NEW n, SameFrames(s, t, n), NEW i \in Nat, i <= n
    PROVE  Answers(s, i) = Answers(t, i)
<1>1. \A j \in 1..i : j \in 1..n
  BY DEF SameFrames
<1>2. \A j \in 1..i : Answer(s, j) = Answer(t, j)
  BY <1>1, AcceptedSame
<1>3. QED
  BY <1>2 DEF Answers

\* The events es answer the first i frames, all of them accepted.
Told(es, s, i) ==
    /\ es \in Seq(Event)
    /\ \A k \in 1..Len(es) : es[k].what # "close"
    /\ \A j \in 1..i : Accepted(s, j)
    /\ HeardAll(es) = Answers(s, i)

\* A frame that is not answered.
LEMMA ToldSilently ==
    ASSUME NEW es, NEW s, NEW i \in Nat, Told(es, s, i), Accepted(s, i + 1),
           Answer(s, i + 1) = << >>
    PROVE  Told(es, s, i + 1)
<1>1. es \in Seq(Event) /\ HeardAll(es) = Answers(s, i)
  BY DEF Told
<1>2. Answers(s, i + 1) = Answers(s, i) \o << >>
  BY AnswersMore
<1> DEFINE H == {Heard(x) : x \in Event}
           a == HeardAll(es)
<1>3. a \in Seq(H)
  BY <1>1, HeardAllIs
<1> HIDE DEF H, a
<1>4. a \o << >> = a
  BY <1>3
<1>5. HeardAll(es) = Answers(s, i + 1)
  BY <1>1, <1>2, <1>4 DEF a
<1>6. \A j \in 1..i + 1 : j = i + 1 \/ j \in 1..i
  OBVIOUS
<1>7. QED
  BY <1>5, <1>6 DEF Told

\* A frame that is answered with e.
LEMMA ToldMore ==
    ASSUME NEW es, NEW s, NEW i \in Nat, Told(es, s, i), Accepted(s, i + 1),
           NEW e \in Event, e.what # "close", Answer(s, i + 1) = <<Heard(e)>>
    PROVE  Told(Append(es, e), s, i + 1)
<1>1. es \in Seq(Event) /\ HeardAll(es) = Answers(s, i)
  BY DEF Told
<1>2. HeardAll(Append(es, e)) = Answers(s, i + 1)
  BY <1>1, AnswersMore, HeardAppend
<1>3. \A k \in 1..Len(Append(es, e)) : Append(es, e)[k].what # "close"
  <2>1. \A k \in 1..Len(Append(es, e)) : 
           Append(es, e)[k] = e \/ (k \in 1..Len(es) /\ Append(es, e)[k] = es[k])
    <3> DEFINE n == Len(es)
    <3>1. /\ n \in Nat /\ Len(Append(es, e)) = n + 1 /\ Append(es, e)[n + 1] = e
          /\ \A k \in 1..n : Append(es, e)[k] = es[k]
      BY <1>1
    <3>2. \A k \in 1..n + 1 : k = n + 1 \/ k \in 1..n
      BY <3>1
    <3>3. QED
      BY <3>1, <3>2
  <2>2. QED
    BY <2>1 DEF Told
<1>4. Append(es, e) \in Seq(Event)
  BY <1>1
<1>5. \A j \in 1..i + 1 : j = i + 1 \/ j \in 1..i
  OBVIOUS
<1>6. QED
  BY <1>2, <1>3, <1>4, <1>5 DEF Told

\* Nor that those were given.
LEMMA ToldSame ==
    ASSUME NEW es, NEW s, NEW t, NEW n, SameFrames(s, t, n), NEW i \in Nat, i <= n, Told(es, s, i)
    PROVE  Told(es, t, i)
<1>1. \A j \in 1..i : j \in 1..n
  BY DEF SameFrames
<1>2. \A j \in 1..i : Accepted(s, j) <=> Accepted(t, j)
  BY <1>1, AcceptedSame
<1>3. Answers(s, i) = Answers(t, i)
  BY AnswersSame
<1>4. QED
  BY <1>2, <1>3 DEF Told
-----------------------------------------------------------------------------
(* Frames: the end of a frame                                              *)

\* What is put together after i frames.
KeptParts(w, s, i) ==
    /\ w.reasmOpcode # 0 <=> Continues(s, i + 1)
    /\ w.reassembled = IF Continues(s, i + 1) THEN Whole(s, i) ELSE << >>

\* Frame f has come whole.
Came(w, f) ==
    /\ w.fin = f.fin /\ w.opcode = f.op /\ w.payload = Payload(f) /\ f.op \in Opcode
    /\ f.masked /\ Fits(f.len)

\* After another frame: the verdict on it.
After(c, past, s, i) ==
    IF c.err = "none" THEN KeptParts(c, s, i + 1) /\ Told(past \o c.did, s, i + 1)
    ELSE ~Accepted(s, i + 1) /\ Told(past \o c.did, s, i)

\* An event behind two sequences put together.
LEMMA AppendLast ==
    ASSUME NEW p \in Seq(Event), NEW q \in Seq(Event), NEW e \in Event
    PROVE  p \o Append(q, e) = Append(p \o q, e)
<1> DEFINE x == p \o Append(q, e)
           y == Append(p \o q, e)
           a == Append(q, e)
           b == p \o q
<1>1. Len(p) \in Nat /\ Len(q) \in Nat
  OBVIOUS
<1>2. a \in Seq(Event) /\ Len(a) = Len(q) + 1 /\ a[Len(q) + 1] = e
      /\ \A k \in 1..Len(q) : a[k] = q[k]
  OBVIOUS
<1> HIDE DEF a
<1>3. /\ p \o a \in Seq(Event) /\ Len(p \o a) = Len(p) + Len(a)
      /\ \A k \in 1..Len(p) + Len(a) : (p \o a)[k] = IF k <= Len(p) THEN p[k] ELSE a[k - Len(p)]
  BY <1>2, ConcatProperties
<1>4. /\ b \in Seq(Event) /\ Len(b) = Len(p) + Len(q)
      /\ \A k \in 1..Len(p) + Len(q) : b[k] = IF k <= Len(p) THEN p[k] ELSE q[k - Len(p)]
  BY ConcatProperties
<1> HIDE DEF b
<1>5. /\ y \in Seq(Event) /\ Len(y) = Len(b) + 1 /\ y[Len(b) + 1] = e
      /\ \A k \in 1..Len(b) : y[k] = b[k]
  BY <1>4 DEF b
<1> HIDE DEF y
<1>6. x = p \o a
  BY DEF a
<1> HIDE DEF x
<1>7. x \in Seq(Event) /\ Len(x) = Len(p) + Len(q) + 1 /\ Len(y) = Len(p) + Len(q) + 1
      /\ \A k \in 1..Len(p) + Len(q) + 1 : x[k] = IF k <= Len(p) THEN p[k] ELSE a[k - Len(p)]
  BY <1>1, <1>2, <1>3, <1>4, <1>5, <1>6
<1>8. ASSUME NEW k \in 1..Len(x) PROVE x[k] = y[k]
  <2>1. k \in 1..Len(p) + Len(q) + 1
    BY <1>7
  <2>2. CASE k <= Len(p)
    <3>1. k \in 1..Len(b) /\ k \in 1..Len(p) + Len(q)
      BY <1>1, <1>4, <2>1, <2>2
    <3>2. y[k] = b[k] /\ b[k] = p[k]
      BY <1>4, <1>5, <2>2, <3>1
    <3>3. QED
      BY <1>7, <2>1, <2>2, <3>2
  <2>3. CASE ~(k <= Len(p)) /\ k <= Len(p) + Len(q)
    <3>1. k \in 1..Len(b) /\ k \in 1..Len(p) + Len(q) /\ k - Len(p) \in 1..Len(q)
      BY <1>1, <1>4, <2>1, <2>3
    <3>2. y[k] = b[k] /\ b[k] = q[k - Len(p)] /\ a[k - Len(p)] = q[k - Len(p)]
      BY <1>2, <1>4, <1>5, <2>3, <3>1
    <3>3. QED
      BY <1>7, <2>1, <2>3, <3>2
  <2>4. CASE ~(k <= Len(p)) /\ ~(k <= Len(p) + Len(q))
    <3>1. k = Len(b) + 1 /\ k - Len(p) = Len(q) + 1
      <4>1. /\ Len(p) \in Nat /\ Len(q) \in Nat /\ Len(b) = Len(p) + Len(q) /\ k \in Nat
            /\ k <= Len(p) + Len(q) + 1 /\ ~(k <= Len(p) + Len(q))
        BY <1>1, <1>4, <2>1, <2>4
      <4>2. QED
        BY <4>1
    <3>2. QED
      BY <1>2, <1>5, <1>7, <2>1, <2>4, <3>1
  <2>5. QED
    BY <2>2, <2>3, <2>4
<1>9. Len(x) = Len(y)
  BY <1>7
<1>10. x = y
  BY <1>5, <1>7, <1>8, <1>9, SeqEqual
<1>11. QED
  BY <1>10 DEF x, y, a, b

\* A control frame leaves what is put together.
LEMMA KeptBetween ==
    ASSUME NEW w \in Wsd, NEW c, NEW s \in Seq(Frame), NEW i \in Nat, i < Len(s),
           ~IsData(s[i + 1]), KeptParts(w, s, i),
           c.reasmOpcode = w.reasmOpcode, c.reassembled = w.reassembled
    PROVE  KeptParts(c, s, i + 1)
<1> DEFINE j == i + 1
           f == s[j]
<1>1. j \in 1..Len(s) /\ j - 1 = i /\ f \in Frame /\ j \in Nat
  OBVIOUS
<1>2. f.op # BINARY /\ Share(f) = << >> /\ GoesOn(s, j)
  BY DEF IsData, Share, GoesOn
<1> HIDE DEF j, f
<1>3. Continues(s, j + 1) <=> Continues(s, j)
  BY <1>1, <1>2, ContinuesNext DEF f
<1>4. ASSUME Continues(s, j) PROVE Whole(s, j) = Whole(s, i)
  <2>1. PICK b \in 1..j - 1 : s[b].op = BINARY
    BY <1>1, <1>4, ContinuesBegun
  <2>2. Whole(s, j) = Whole(s, j - 1) \o Share(f)
    BY <1>1, <1>2, <2>1, WholeGrows DEF f
  <2>3. w.reassembled = Whole(s, i) /\ w.reassembled \in Seq(Nat)
    BY <1>4, Fields DEF KeptParts, j
  <2>4. w.reassembled \o << >> = w.reassembled
    BY <2>3
  <2>5. QED
    BY <1>1, <1>2, <2>2, <2>3, <2>4
<1>5. /\ w.reasmOpcode # 0 <=> Continues(s, j)
      /\ w.reassembled = IF Continues(s, j) THEN Whole(s, i) ELSE << >>
  BY DEF KeptParts, j
<1>6. /\ c.reasmOpcode # 0 <=> Continues(s, j + 1)
      /\ c.reassembled = IF Continues(s, j + 1) THEN Whole(s, j) ELSE << >>
  BY <1>3, <1>4, <1>5
<1>7. QED
  BY <1>6 DEF KeptParts, j

\* A fragment joined to what came before.
LEMMA FragmentJoined ==
    ASSUME NEW v \in Wsd, NEW past \in Seq(Event), NEW s \in Seq(Frame), NEW i \in Nat, i < Len(s),
           IsData(s[i + 1]), Accepted(s, i + 1), v.fin = s[i + 1].fin, v.err = "none",
           v.opcode # 0 \/ v.reasmOpcode # 0,
           s[i + 1].op = BINARY \/ Continues(s, i + 1),
           v.reassembled \o v.payload = Whole(s, i + 1), Told(past \o v.did, s, i)
    PROVE  After(Reassembly(v), past, s, i)
<1> DEFINE j == i + 1
           f == s[j]
           c == Reassembly(v)
           W == Whole(s, j)
           e == [what |-> "message", data |-> W]
<1>1. j \in 1..Len(s) /\ f \in Frame /\ j \in Nat
  OBVIOUS
<1>2. /\ c \in Wsd /\ c.err = "none" /\ W \in Seq(Nat)
      /\ Len(W) > MaxPayload \/ v.fin => c.reassembled = << >> /\ c.reasmOpcode = 0
      /\ Len(W) <= MaxPayload /\ ~v.fin =>
            /\ c.reassembled = W
            /\ c.reasmOpcode = IF v.reasmOpcode = 0 THEN v.opcode ELSE v.reasmOpcode
      /\ c.did = IF Len(W) <= MaxPayload /\ v.fin /\ W # << >> THEN Append(v.did, e) ELSE v.did
  BY ReassemblyIs
<1>3. v.fin = f.fin /\ IsData(f) /\ Accepted(s, j) /\ f.fin \in BOOLEAN
      /\ (f.op = BINARY \/ Continues(s, j)) /\ (v.opcode # 0 \/ v.reasmOpcode # 0)
  BY <1>1, FrameIs
<1>4. MaxPayload \in Nat /\ Len(W) \in Nat
  <2>1. W \in Seq(Nat)
    BY <1>2
  <2> HIDE DEF W
  <2>2. QED
    BY <2>1, LimitIs
<1> HIDE DEF W, c, j, f
<1>5. GoesOn(s, j) <=> ~f.fin /\ Len(W) <= MaxPayload
  BY <1>3 DEF GoesOn, W, f
<1>6. Continues(s, j + 1) <=> GoesOn(s, j)
  BY <1>1, <1>3, ContinuesNext DEF f
<1>7. /\ c.reasmOpcode # 0 <=> Continues(s, j + 1)
      /\ c.reassembled = IF Continues(s, j + 1) THEN W ELSE << >>
  <2>1. CASE Len(W) > MaxPayload \/ v.fin
    BY <1>2, <1>3, <1>4, <1>5, <1>6, <2>1
  <2>2. CASE Len(W) <= MaxPayload /\ ~v.fin
    BY <1>2, <1>3, <1>4, <1>5, <1>6, <2>2
  <2>3. QED
    BY <1>3, <1>4, <2>1, <2>2
<1>8. KeptParts(c, s, i + 1)
  BY <1>7 DEF KeptParts, W, j
<1>9. v.did \in Seq(Event) /\ past \o v.did \in Seq(Event)
  BY Fields
<1>10. Told(past \o c.did, s, i + 1)
  <2>1. CASE Len(W) <= MaxPayload /\ v.fin /\ W # << >>
    <3>1. Len(W) # 0
      BY <1>2, <2>1
    <3>2. Len(W) \in 1..MaxPayload
      BY <1>4, <2>1, <3>1
    <3>3. Answer(s, j) = <<e>>
      <4>1. f.op # PING
        BY <1>3 DEF IsData, CONT, BINARY, PING
      <4> HIDE DEF e
      <4>2. Answer(s, j) = <<[what |-> "message", data |-> Whole(s, j)]>>
        BY <1>3, <2>1, <3>2, <4>1 DEF Answer, f, W
      <4>3. QED
        BY <4>2 DEF e, W
    <3>4. e \in Event /\ e.what # "close" /\ Heard(e) = e
      <4>1. Heard(e) = e
        BY HeardMessage
      <4>2. e \in Event /\ e.what # "close"
        BY <1>2 DEF Event
      <4>3. QED
        BY <4>1, <4>2
    <3> HIDE DEF e
    <3>5. past \o c.did = Append(past \o v.did, e)
      BY <1>2, <1>9, <2>1, <3>4, AppendLast, ZenonT(40)
    <3>6. Told(Append(past \o v.did, e), s, i + 1)
      BY <1>3, <3>3, <3>4, ToldMore DEF j
    <3>7. QED
      BY <3>5, <3>6
  <2>2. CASE ~(Len(W) <= MaxPayload /\ v.fin /\ W # << >>)
    <3>1. c.did = v.did
      BY <1>2, <2>2
    <3>2. f.fin => Len(W) \notin 1..MaxPayload
      <4>1. W = << >> => Len(W) = 0
        OBVIOUS
      <4>2. QED
        BY <1>3, <1>4, <2>2, <4>1
    <3>3. Answer(s, j) = << >>
      <4>1. f.op # PING
        BY <1>3 DEF IsData, CONT, BINARY, PING
      <4>2. QED
        BY <1>3, <3>2, <4>1 DEF Answer, f, W
    <3>4. QED
      BY <1>3, <3>1, <3>3, ToldSilently DEF j
  <2>3. QED
    BY <2>1, <2>2
<1>11. QED
  BY <1>2, <1>8, <1>10 DEF After, c

\* The last byte of a frame: it is answered, or refused with an error.
LEMMA FrameEnds ==
    ASSUME NEW w \in Wsd, NEW past \in Seq(Event), NEW s \in Seq(Frame), NEW i \in Nat, i < Len(s),
           Came(w, s[i + 1]), w.err = "none", KeptParts(w, s, i), Told(past \o w.did, s, i)
    PROVE  After(ConsumeMessage(w), past, s, i)
<1> DEFINE j == i + 1
           f == s[j]
           v == Consumed(w)
           Goal == After(v, past, s, i)
<1>1. j \in 1..Len(s) /\ j - 1 = i /\ f \in Frame /\ j \in Nat
  OBVIOUS
<1>2. w.fin = f.fin /\ w.opcode = f.op /\ w.payload = Payload(f) /\ f.op \in Opcode
      /\ f.masked /\ Fits(f.len)
  BY DEF Came
<1>3. Payload(f) \in Seq(Nat) /\ Len(Payload(f)) <= 65535 /\ f.fin \in BOOLEAN
  <2>1. f \in Frame
    BY <1>1
  <2> HIDE DEF f
  <2>2. f.fin \in BOOLEAN /\ f.len <= 65535
    BY <2>1, FrameIs
  <2>3. Payload(f) \in Seq(Nat) /\ Len(Payload(f)) = f.len
    BY <2>1, PayloadIs
  <2>4. QED
    BY <2>2, <2>3
<1>4. (w.reasmOpcode # 0 <=> Continues(s, j))
      /\ w.reassembled = IF Continues(s, j) THEN Whole(s, i) ELSE << >>
  BY DEF KeptParts
<1>5. w.reassembled \in Seq(Nat) /\ w.did \in Seq(Event)
  BY Fields
<1> HIDE DEF j, v, f
<1>6. ASSUME ~Accepted(s, j), v.err # "none", v.did = w.did
      PROVE  Goal
  BY <1>6 DEF After, j
<1>7. ASSUME NEW e, e # "none", e \in {"EINVAL", "EOPNOTSUPP", "EPIPE", "ENOSPC"}, v = Refuse(w, e)
      PROVE  v.err # "none" /\ v.did = w.did
  BY <1>7 DEF Refuse, Wsd
<1>8. ASSUME w.opcode = CONT /\ w.reasmOpcode = 0
       PROVE  Goal
  <2>1. v = Refuse(w, "EINVAL")
    BY <1>8, ConsumedIs DEF v
  <2>2. ~Accepted(s, j)
    BY <1>2, <1>4, <1>8 DEF Accepted, f
  <2>3. QED
    BY <1>6, <1>7, <2>1, <2>2
<1>9. ASSUME w.opcode = CONT /\ w.reasmOpcode # 0
       PROVE  Goal
  <2>1. v = Reassembly(w)
    BY <1>9, ConsumedIs DEF v
  <2>2. Continues(s, j)
    BY <1>4, <1>9
  <2>3. Accepted(s, j)
    BY <1>2, <1>9, <2>2 DEF Accepted, f
  <2>4. w.reassembled \o w.payload = Whole(s, j)
    <3>1. PICK b \in 1..j - 1 : s[b].op = BINARY
      BY <1>1, <2>2, ContinuesBegun
    <3>2. f.op # BINARY /\ Share(f) = Payload(f)
      BY <1>2, <1>9 DEF Share, IsData, CONT, BINARY
    <3>3. Whole(s, j) = Whole(s, j - 1) \o Share(f)
      BY <1>1, <3>1, <3>2, WholeGrows DEF f
    <3>4. QED
      BY <1>1, <1>2, <1>4, <2>2, <3>2, <3>3
  <2>5. IsData(f)
    BY <1>2, <1>9 DEF IsData
  <2>6. After(Reassembly(w), past, s, i)
    BY <1>2, <1>9, <2>2, <2>3, <2>4, <2>5, FragmentJoined DEF j, f
  <2>7. QED
    BY <2>1, <2>6
<1>10. ASSUME w.opcode = TEXT
       PROVE  Goal
  <2>1. v = Refuse(w, "EOPNOTSUPP")
    BY <1>10, ConsumedIs DEF v
  <2>2. ~Accepted(s, j)
    BY <1>2, <1>10 DEF Accepted, f, TEXT, CONT, BINARY, PING, PONG
  <2>3. QED
    BY <1>6, <1>7, <2>1, <2>2
<1>11. ASSUME w.opcode = BINARY
       PROVE  Goal
  <2> DEFINE u == ResetReassembly(w)
  <2>1. v = Reassembly(u)
    BY <1>11, ConsumedIs DEF v
  <2>2. /\ u \in Wsd /\ u.fin = w.fin /\ u.opcode = w.opcode /\ u.err = "none" /\ u.did = w.did
        /\ u.reassembled = << >> /\ u.payload = w.payload
    BY ResetReassemblyIs DEF SameHeader
  <2> HIDE DEF u
  <2>3. Accepted(s, j)
    BY <1>2, <1>11 DEF Accepted, f, CONT, BINARY
  <2>4. IsData(f) /\ f.op = BINARY /\ u.opcode # 0
    BY <1>2, <1>11, <2>2 DEF IsData, BINARY
  <2>5. u.reassembled \o u.payload = Whole(s, j)
    <3>1. Whole(s, j) = Payload(f)
      BY <1>1, <2>4, WholeBegins DEF f
    <3>2. << >> \o Payload(f) = Payload(f)
      BY <1>3
    <3>3. QED
      BY <1>2, <2>2, <3>1, <3>2
  <2>6. After(Reassembly(u), past, s, i)
    BY <1>2, <2>2, <2>3, <2>4, <2>5, FragmentJoined DEF j, f
  <2>7. QED
    BY <2>1, <2>6
<1>12. ASSUME w.opcode = CLOSE
       PROVE  Goal
  <2>1. v = Refuse(w, "EPIPE")
    BY <1>12, ConsumedIs DEF v
  <2>2. ~Accepted(s, j)
    BY <1>2, <1>12 DEF Accepted, f, CLOSE, CONT, BINARY, PING, PONG
  <2>3. QED
    BY <1>6, <1>7, <2>1, <2>2
<1>13. ASSUME w.opcode = PING
       PROVE  Goal
  <2> DEFINE b == Written(PONG, Payload(f))
             e == [what |-> "pong", data |-> b]
  <2>1. v = Did(w, "pong", b)
    BY <1>2, <1>13, ConsumedIs DEF v
  <2>2. b \in Seq(Nat)
    <3>1. PONG \in Nat
      BY DEF PONG
    <3>2. QED
      BY <1>3, <3>1, WrittenIs
  <2>3. Heard(e) = [what |-> "pong", data |-> Payload(f)]
    <3> DEFINE p == Payload(f)
    <3>1. p \in Seq(Nat) /\ Len(p) <= 65535
      BY <1>3
    <3> HIDE DEF p
    <3>2. Heard([what |-> "pong", data |-> Written(PONG, p)]) = [what |-> "pong", data |-> p]
      BY <3>1, HeardPong
    <3>3. QED
      BY <3>2 DEF p
  <2> HIDE DEF b
  <2>4. e \in Event /\ e.what # "close"
    BY <2>2 DEF Event
  <2> HIDE DEF e
  <2>5. v = [w EXCEPT !.did = Append(w.did, e)]
    BY <2>1 DEF Did, e
  <2>6. /\ v.err = "none" /\ v.did = Append(w.did, e) /\ v.reasmOpcode = w.reasmOpcode
        /\ v.reassembled = w.reassembled
    BY <2>5 DEF Wsd
  <2>7. Accepted(s, j) /\ ~IsData(f)
    BY <1>2, <1>13 DEF Accepted, f, CONT, BINARY, PING, IsData
  <2>8. Answer(s, j) = <<Heard(e)>>
    BY <1>2, <1>13, <2>3, <2>7 DEF Answer, f
  <2>9. KeptParts(v, s, i + 1)
    BY <2>6, <2>7, KeptBetween DEF f, j
  <2>10. Told(Append(past \o w.did, e), s, i + 1)
    BY <2>4, <2>7, <2>8, ToldMore DEF j
  <2>11. past \o v.did = Append(past \o w.did, e)
    BY <1>5, <2>4, <2>6, AppendLast
  <2>12. QED
    BY <2>6, <2>9, <2>10, <2>11 DEF After
<1>14. ASSUME w.opcode = PONG
       PROVE  Goal
  <2>1. v = w
    BY <1>14, ConsumedIs DEF v
  <2>2. Accepted(s, j) /\ ~IsData(f)
    BY <1>2, <1>14 DEF Accepted, f, CONT, BINARY, PONG, IsData
  <2>3. Answer(s, j) = << >>
    BY <1>2, <1>14, <2>2 DEF Answer, f, PING, PONG
  <2>4. KeptParts(w, s, i + 1)
    BY <2>2, KeptBetween DEF f, j
  <2>5. Told(past \o w.did, s, i + 1)
    BY <2>2, <2>3, ToldSilently DEF j
  <2>6. QED
    BY <2>1, <2>4, <2>5 DEF After
<1>15. Goal
  BY <1>2, <1>8, <1>9, <1>10, <1>11, <1>12, <1>13, <1>14 DEF Opcode
<1> DEFINE c == ConsumeMessage(w)
<1>16. /\ c.err = v.err /\ c.did = v.did /\ c.reasmOpcode = v.reasmOpcode
       /\ c.reassembled = v.reassembled
  BY <1>2, ConsumeSound DEF v
<1> HIDE DEF c
<1>17. KeptParts(v, s, i + 1) => KeptParts(c, s, i + 1)
  BY <1>16 DEF KeptParts
<1>18. After(c, past, s, i)
  BY <1>15, <1>16, <1>17 DEF After
<1>19. QED
  BY <1>18 DEF c
-----------------------------------------------------------------------------
(* Frames: the bytes of a frame                                            *)

\* The size that is known after k bytes of a header, at least two.
SizeAt(f, k) ==
    IF f.len <= 125 THEN f.len
    ELSE IF k = 2 THEN 0
    ELSE IF f.len \div 256 >= 128 THEN 65536
    ELSE IF k = 3 THEN f.len \div 256
    ELSE IF f.len % 256 >= 128 THEN 65536
    ELSE f.len

\* What k bytes of frame f, none of them refused, have left in the fields.
Got(w, f, k) ==
    /\ k > 0 => f.op \in {0, 1, 2, 8, 9, 10} /\ w.opcode = f.op /\ w.fin = f.fin
    /\ k > 1 => f.masked /\ w.encLen = HeaderLen(f) - 6 /\ w.size = SizeAt(f, k)
    /\ \A m \in 1..4 : k >= HeaderLen(f) - 4 + m => w.mask[m] = Mask(f)[m]

\* The first k bytes of frame f are read.
Started(w, f, k) ==
    /\ Got(w, f, k)
    /\ IF k < HeaderLen(f) THEN w.offset = k /\ ~w.allocated
       ELSE /\ w.allocated /\ w.offset = HeaderLen(f) /\ Fits(f.len)
            /\ Len(w.payload) = k - HeaderLen(f)
            /\ \A j \in 1..k - HeaderLen(f) : w.payload[j] = Payload(f)[j]

SameTold(v, w) ==
    v.did = w.did /\ v.reasmOpcode = w.reasmOpcode /\ v.reassembled = w.reassembled

\* The first byte of a header takes fin and opcode, or refuses them.
LEMMA FirstByteIs ==
    ASSUME NEW w \in Wsd, NEW f \in Frame, w.err = "none", ~w.allocated, w.offset = 0
    PROVE  LET v == HeaderByte(w, Bytes(f)[1])
           IN /\ SameTold(v, w)
              /\ v.err = "none" => Got(v, f, 1) /\ v.offset = 1 /\ ~v.allocated
              /\ v.err # "none" => f.op \notin {0, 1, 2, 8, 9, 10}
<1> DEFINE c == (IF f.fin THEN 128 ELSE 0) + f.op
           h == HeaderLen(f)
           v == HeaderByte(w, Bytes(f)[1])
           fin == [w EXCEPT !.fin = c >= 128]
           op == [fin EXCEPT !.opcode = c % 16]
<1>1. Bytes(f)[1] = c
  BY BytesAre
<1>2. f.op \in {0, 1, 2, 3, 8, 9, 10, 18} /\ f.fin \in BOOLEAN
  BY FrameIs
<1>3. h \in {6, 8}
  BY DEF HeaderLen
<1>4. /\ (c >= 128) = f.fin
      /\ f.op = 18 => (c \div 16) % 8 # 0
      /\ f.op = 3 => (c \div 16) % 8 = 0 /\ c % 8 > 2
      /\ f.op \in {0, 1, 2, 8, 9, 10} => (c \div 16) % 8 = 0 /\ ~(c % 8 > 2) /\ c % 16 = f.op
  <2>1. CASE f.fin
    <3>1. c = 128 + f.op
      BY <2>1
    <3> HIDE DEF c
    <3>2. /\ (146 \div 16) % 8 # 0 /\ (131 \div 16) % 8 = 0 /\ 131 % 8 > 2
          /\ \A x \in {128, 129, 130, 136, 137, 138} :
                (x \div 16) % 8 = 0 /\ ~(x % 8 > 2) /\ x % 16 = x - 128
      OBVIOUS
    <3>3. /\ c >= 128
          /\ f.op = 18 => c = 146
          /\ f.op = 3 => c = 131
          /\ f.op \in {0, 1, 2, 8, 9, 10} => c \in {128, 129, 130, 136, 137, 138} /\ c - 128 = f.op
      BY <1>2, <3>1
    <3>4. (c >= 128) = f.fin
      BY <1>2, <2>1, <3>3
    <3>5. QED
      BY <3>2, <3>3, <3>4
  <2>2. CASE ~f.fin
    <3>1. c = f.op
      BY <1>2, <2>2
    <3> HIDE DEF c
    <3>2. QED
      BY <1>2, <2>2, <3>1
  <2>3. QED
    BY <1>2, <2>1, <2>2
<1>5. v = CASE (c \div 16) % 8 # 0 -> [fin EXCEPT !.err = "EINVAL"]
            [] (c \div 16) % 8 = 0 /\ c % 8 > 2 -> [op EXCEPT !.err = "EINVAL"]
            [] OTHER -> [op EXCEPT !.offset = 1]
  BY <1>1 DEF HeaderByte, FirstByte, Refuse
<1> DEFINE Goal == /\ SameTold(v, w)
                   /\ v.err = "none" => Got(v, f, 1) /\ v.offset = 1 /\ ~v.allocated
                   /\ v.err # "none" => f.op \notin {0, 1, 2, 8, 9, 10}
<1> HIDE DEF v, h
<1>6. /\ fin \in Wsd /\ fin.fin = (c >= 128) /\ fin.err = "none" /\ ~fin.allocated
      /\ SameTold(fin, w)
  <2>1. (c >= 128) \in BOOLEAN
    OBVIOUS
  <2> HIDE DEF c
  <2> DEFINE x == c >= 128
  <2> HIDE DEF x
  <2>2. fin = [w EXCEPT !.fin = x] /\ x \in BOOLEAN
    BY <2>1 DEF x
  <2> HIDE DEF fin
  <2>3. fin \in Wsd /\ fin.fin = x /\ fin.err = "none" /\ ~fin.allocated /\ SameTold(fin, w)
    BY <2>2 DEF Wsd, SameTold
  <2>4. QED
    BY <2>3 DEF x
<1>7. ASSUME (c \div 16) % 8 # 0 PROVE Goal
  <2>1. v = [fin EXCEPT !.err = "EINVAL"]
    BY <1>5, <1>7
  <2> HIDE DEF fin
  <2>2. v.err # "none" /\ SameTold(v, fin)
    BY <1>6, <2>1 DEF Wsd, SameTold
  <2>3. f.op \notin {0, 1, 2, 8, 9, 10}
    BY <1>4, <1>7
  <2>4. QED
    BY <1>6, <2>2, <2>3 DEF SameTold
<1>8. /\ op.fin = (c >= 128) /\ op.err = "none" /\ ~op.allocated /\ op.opcode = c % 16
      /\ SameTold(op, w) /\ op \in Wsd
  <2>1. c % 16 \in Nat
    <3>1. c \in Nat
      BY <1>2
    <3> HIDE DEF c
    <3>2. QED
      BY <3>1
  <2> HIDE DEF fin, c
  <2>2. op \in Wsd
    BY <1>6, <2>1, Setting
  <2>3. /\ op.fin = fin.fin /\ op.err = fin.err /\ op.allocated = fin.allocated
        /\ op.opcode = c % 16 /\ SameTold(op, fin)
    BY <1>6 DEF Wsd, SameTold
  <2>4. QED
    BY <1>6, <2>2, <2>3 DEF SameTold
<1> HIDE DEF op, fin
<1>9. ASSUME (c \div 16) % 8 = 0, c % 8 > 2 PROVE Goal
  <2>1. v = [op EXCEPT !.err = "EINVAL"]
    BY <1>5, <1>9
  <2>2. v.err # "none" /\ SameTold(v, op)
    BY <1>8, <2>1 DEF Wsd, SameTold
  <2>3. f.op \notin {0, 1, 2, 8, 9, 10}
    BY <1>4, <1>9
  <2>4. QED
    BY <1>8, <2>2, <2>3 DEF SameTold
<1>10. ASSUME (c \div 16) % 8 = 0, ~(c % 8 > 2) PROVE Goal
  <2>1. v = [op EXCEPT !.offset = 1]
    BY <1>5, <1>10
  <2>2. f.op \in {0, 1, 2, 8, 9, 10} /\ c % 16 = f.op
    BY <1>2, <1>4, <1>10
  <2>3. /\ v.err = "none" /\ SameTold(v, op) /\ v.offset = 1 /\ ~v.allocated
        /\ v.opcode = op.opcode /\ v.fin = op.fin
    BY <1>8, <2>1 DEF Wsd, SameTold
  <2>4. v.opcode = f.op /\ v.fin = f.fin
    BY <1>4, <1>8, <2>2, <2>3
  <2>5. \A m \in 1..4 : ~(1 >= h - 4 + m)
    BY <1>3
  <2>6. Got(v, f, 1)
    BY <2>2, <2>4, <2>5 DEF Got, h
  <2>7. QED
    BY <1>8, <2>3, <2>6 DEF SameTold
<1>11. Goal
  BY <1>7, <1>9, <1>10
<1>12. QED
  BY <1>11 DEF v

\* The second one takes a small length and the mask bit.
LEMMA SecondByteIs ==
    ASSUME NEW w \in Wsd, NEW f \in Frame, w.err = "none", ~w.allocated, w.offset = 1,
           Got(w, f, 1)
    PROVE  LET v == HeaderByte(w, Bytes(f)[2])
           IN /\ SameTold(v, w)
              /\ v.err = "none" => Got(v, f, 2) /\ v.offset = 2 /\ ~v.allocated
              /\ v.err # "none" => ~f.masked
<1> DEFINE c == (IF f.len <= 125 THEN f.len ELSE 126) + (IF f.masked THEN 128 ELSE 0)
           h == HeaderLen(f)
           v == HeaderByte(w, Bytes(f)[2])
           n == c % 128
           e == IF n <= 125 THEN 0 ELSE IF n = 126 THEN 2 ELSE 4
           z == IF n <= 125 THEN n ELSE 0
<1>1. Bytes(f)[2] = c
  BY BytesAre
<1>2. f.len \in Nat /\ f.masked \in BOOLEAN
  BY FrameIs
<1>3. h = IF f.len <= 125 THEN 6 ELSE 8
  BY DEF HeaderLen
<1>4. c < 128 <=> ~f.masked
  BY <1>2
<1>5. f.masked => n = IF f.len <= 125 THEN f.len ELSE 126
  BY <1>2
<1>6. v = IF c < 128 THEN Refuse(w, "EINVAL") ELSE [w EXCEPT !.encLen = e, !.size = z, !.offset = 2]
  BY <1>1 DEF HeaderByte, SecondByte
<1>7. f.op \in {0, 1, 2, 8, 9, 10} /\ w.opcode = f.op /\ w.fin = f.fin
  BY DEF Got
<1> DEFINE Goal == /\ SameTold(v, w)
                   /\ v.err = "none" => Got(v, f, 2) /\ v.offset = 2 /\ ~v.allocated
                   /\ v.err # "none" => ~f.masked
<1> HIDE DEF v, h, c
<1>8. ASSUME c < 128 PROVE Goal
  <2>1. v = [w EXCEPT !.err = "EINVAL"]
    BY <1>6, <1>8 DEF Refuse
  <2>2. v.err # "none" /\ SameTold(v, w)
    BY <2>1 DEF Wsd, SameTold
  <2>3. QED
    BY <1>4, <1>8, <2>2
<1>9. ASSUME ~(c < 128) PROVE Goal
  <2>1. v = [w EXCEPT !.encLen = e, !.size = z, !.offset = 2]
    BY <1>6, <1>9
  <2>2. f.masked /\ n = IF f.len <= 125 THEN f.len ELSE 126
    BY <1>4, <1>5, <1>9
  <2>3. e = h - 6 /\ z = SizeAt(f, 2)
    <3>1. CASE f.len <= 125
      BY <1>2, <1>3, <2>2, <3>1 DEF SizeAt
    <3>2. CASE ~(f.len <= 125)
      BY <1>2, <1>3, <2>2, <3>2 DEF SizeAt
    <3>3. QED
      BY <3>1, <3>2
  <2> HIDE DEF e, z
  <2>4. /\ v.err = "none" /\ SameTold(v, w) /\ v.offset = 2 /\ ~v.allocated
        /\ v.opcode = w.opcode /\ v.fin = w.fin /\ v.encLen = e /\ v.size = z
    BY <2>1 DEF Wsd, SameTold
  <2>5. \A m \in 1..4 : ~(2 >= h - 4 + m)
    BY <1>2, <1>3
  <2>6. Got(v, f, 2)
    BY <1>7, <2>2, <2>3, <2>4, <2>5 DEF Got, h
  <2>7. QED
    BY <2>4, <2>6
<1>10. Goal
  BY <1>8, <1>9
<1>11. QED
  BY <1>10 DEF v

\* The two bytes of a longer length.
LEMMA LengthByteIs ==
    ASSUME NEW w \in Wsd, NEW f \in Frame, w.err = "none", ~w.allocated,
           NEW k \in {2, 3}, w.offset = k, f.len > 125, Got(w, f, k)
    PROVE  LET v == HeaderByte(w, Bytes(f)[k + 1])
           IN /\ SameTold(v, w) /\ v.err = "none"
              /\ Got(v, f, k + 1) /\ v.offset = k + 1 /\ ~v.allocated
<1> DEFINE c == Bytes(f)[k + 1]
           h == HeaderLen(f)
           v == HeaderByte(w, c)
           hi == f.len \div 256
           lo == f.len % 256
           z == IF c >= 128 \/ w.size > 255 THEN 65536 ELSE 256 * w.size + c
<1>1. f.len \in Nat /\ f.len <= 65535
  BY FrameIs
<1>2. Bytes(f)[3] = hi /\ Bytes(f)[4] = lo
  BY <1>1, BytesAre
<1>3. hi \in Nat /\ hi <= 255 /\ lo \in Nat /\ lo <= 255 /\ 256 * hi + lo = f.len
  BY <1>1
<1>4. (k = 2 => c = hi) /\ (k = 3 => c = lo)
  BY <1>2
<1>5. h = 8
  BY <1>1 DEF HeaderLen
<1>6. /\ f.op \in {0, 1, 2, 8, 9, 10} /\ w.opcode = f.op /\ w.fin = f.fin
      /\ f.masked /\ w.encLen = 2 /\ w.size = SizeAt(f, k)
  BY <1>5 DEF Got
<1>7. v = LengthByte(w, c)
  BY <1>6 DEF HeaderByte
<1>8. v = [w EXCEPT !.size = z, !.offset = k + 1]
  BY <1>7 DEF LengthByte, Wsd
<1> HIDE DEF v, h, c
<1>9. z = SizeAt(f, k + 1)
  <2>1. CASE k = 2
    <3>1. w.size = 0 /\ c = hi /\ SizeAt(f, k + 1) = IF hi >= 128 THEN 65536 ELSE hi
      BY <1>1, <1>4, <1>6, <2>1 DEF SizeAt
    <3> HIDE DEF hi
    <3>2. QED
      BY <1>3, <3>1
  <2>2. CASE k = 3
    <3>1. /\ w.size = IF hi >= 128 THEN 65536 ELSE hi
          /\ c = lo
          /\ SizeAt(f, k + 1) = IF hi >= 128 THEN 65536 ELSE IF lo >= 128 THEN 65536 ELSE f.len
      BY <1>1, <1>4, <1>6, <2>2 DEF SizeAt
    <3> HIDE DEF hi, lo
    <3>2. QED
      BY <1>3, <3>1
  <2>3. QED
    BY <2>1, <2>2
<1> HIDE DEF z, hi, lo
<1>10. /\ v.err = "none" /\ SameTold(v, w) /\ v.offset = k + 1 /\ ~v.allocated
       /\ v.opcode = w.opcode /\ v.fin = w.fin /\ v.encLen = w.encLen /\ v.size = z
  BY <1>8 DEF Wsd, SameTold
<1>11. \A m \in 1..4 : ~(k + 1 >= h - 4 + m)
  BY <1>5
<1>12. Got(v, f, k + 1)
  BY <1>5, <1>6, <1>9, <1>10, <1>11 DEF Got, h
<1>13. QED
  BY <1>10, <1>12 DEF v, c

\* The four bytes of a mask.
LEMMA MaskByteIs ==
    ASSUME NEW w \in Wsd, NEW f \in Frame, w.err = "none", ~w.allocated,
           NEW k \in Nat, HeaderLen(f) - 4 <= k, k < HeaderLen(f), w.offset = k, Got(w, f, k)
    PROVE  LET v == HeaderByte(w, Bytes(f)[k + 1])
           IN /\ SameTold(v, w) /\ v.err = "none"
              /\ Got(v, f, k + 1) /\ v.offset = k + 1 /\ ~v.allocated
<1> DEFINE h == HeaderLen(f)
           c == Bytes(f)[k + 1]
           v == HeaderByte(w, c)
           m == k - h + 5
           a == [w.mask EXCEPT ![m] = c]
<1>1. h = (IF f.len <= 125 THEN 6 ELSE 8) /\ h \in {6, 8}
  BY DEF HeaderLen
<1>2. m \in 1..4 /\ h - 4 + m = k + 1 /\ k \in 2..7 /\ k > 1 /\ k + 1 > 1
  BY <1>1
<1>3. c = Mask(f)[m]
  <2> HIDE DEF m, h
  <2>1. Bytes(f)[h - 4 + m] = Mask(f)[m]
    BY <1>2, BytesAre DEF h
  <2>2. QED
    BY <1>2, <2>1
<1>4. /\ f.op \in {0, 1, 2, 8, 9, 10} /\ w.opcode = f.op /\ w.fin = f.fin
      /\ f.masked /\ w.encLen = h - 6 /\ w.size = SizeAt(f, k)
      /\ \A g \in 1..4 : k >= h - 4 + g => w.mask[g] = Mask(f)[g]
  BY <1>2 DEF Got
<1>5. v = MaskByte(w, c)
  <2>1. w.offset # 0 /\ w.offset # 1 /\ w.offset \notin 2..1 + w.encLen
    BY <1>1, <1>2, <1>4
  <2>2. QED
    BY <2>1 DEF HeaderByte
<1>6. w.offset - 1 - w.encLen = m
  BY <1>1, <1>2, <1>4
<1>7. v = [w EXCEPT !.mask = a, !.offset = k + 1]
  BY <1>5, <1>6 DEF MaskByte, Wsd
<1>8. SizeAt(f, k + 1) = SizeAt(f, k)
  <2>1. f.len > 125 => k > 3
    BY <1>1, <1>2, FrameIs
  <2>2. f.len \in Nat
    BY FrameIs
  <2>3. QED
    BY <1>2, <2>1, <2>2 DEF SizeAt
<1>9. w.mask \in [1..4 -> Nat]
  BY Fields
<1>10. \A g \in 1..4 : a[g] = IF g = m THEN c ELSE w.mask[g]
  BY <1>2, <1>9
<1> HIDE DEF a, v, c
<1>11. /\ v.err = "none" /\ SameTold(v, w) /\ v.offset = k + 1 /\ ~v.allocated
       /\ v.opcode = w.opcode /\ v.fin = w.fin /\ v.encLen = w.encLen /\ v.size = w.size
       /\ v.mask = a
  BY <1>7 DEF Wsd, SameTold
<1>12. ASSUME NEW g \in 1..4, k + 1 >= h - 4 + g PROVE v.mask[g] = Mask(f)[g]
  <2>1. CASE g = m
    BY <1>3, <1>10, <1>11, <2>1
  <2>2. CASE g # m
    <3>1. k >= h - 4 + g
      BY <1>1, <1>2, <1>12, <2>2
    <3>2. QED
      BY <1>4, <1>10, <1>11, <2>2, <3>1
  <2>3. QED
    BY <2>1, <2>2
<1> HIDE DEF h, m
<1>13. Got(v, f, k + 1)
  BY <1>4, <1>8, <1>11, <1>12 DEF Got, h
<1>14. QED
  BY <1>11, <1>13 DEF v, c

\* Any byte of a header leaves what a header read so far must leave.
LEMMA HeaderByteIs ==
    ASSUME NEW w \in Wsd, NEW f \in Frame, w.err = "none", NEW k \in Nat, k < HeaderLen(f),
           Started(w, f, k)
    PROVE  LET v == HeaderByte(w, Bytes(f)[k + 1])
           IN /\ SameTold(v, w)
              /\ v.err = "none" => Got(v, f, k + 1) /\ v.offset = k + 1 /\ ~v.allocated
              /\ v.err # "none" => ~(f.masked /\ f.op \in {0, 1, 2, 8, 9, 10})
<1>1. w.offset = k /\ ~w.allocated /\ Got(w, f, k)
  BY DEF Started
<1>2. f.len \in Nat
  BY FrameIs
<1>3. CASE k = 0
  <2>1. k + 1 = 1
    BY <1>3
  <2>2. QED
    BY <1>1, <1>3, <2>1, FirstByteIs
<1>4. CASE k = 1
  <2>1. k + 1 = 2
    BY <1>4
  <2>2. QED
    BY <1>1, <1>4, <2>1, SecondByteIs
<1>5. CASE k \in {2, 3} /\ f.len > 125
  BY <1>1, <1>5, LengthByteIs
<1>6. CASE HeaderLen(f) - 4 <= k
  BY <1>1, <1>6, MaskByteIs
<1>7. k = 0 \/ k = 1 \/ (k \in {2, 3} /\ f.len > 125) \/ HeaderLen(f) - 4 <= k
  <2>1. HeaderLen(f) = IF f.len <= 125 THEN 6 ELSE 8
    BY DEF HeaderLen
  <2>2. CASE f.len <= 125
    BY <1>2, <2>1, <2>2
  <2>3. CASE f.len > 125
    BY <1>2, <2>1, <2>3
  <2>4. QED
    BY <1>2, <2>2, <2>3
<1>8. QED
  BY <1>3, <1>4, <1>5, <1>6, <1>7

\* A header is complete: the frame is refused for its size, or has ended, or
\* its payload is waited for.
LEMMA HeaderEndsIs ==
    ASSUME NEW w \in Wsd, Sound(w), NEW f \in Frame, w.err = "none",
           Got(w, f, HeaderLen(f)), w.offset = HeaderLen(f), ~w.allocated
    PROVE  LET v == HeaderEnds(w)
           IN \/ ~Fits(f.len) /\ v.err # "none" /\ SameTold(v, w)
              \/ Came(w, f) /\ v = ConsumeMessage(w) /\ f.len = 0
              \/ Started(v, f, HeaderLen(f)) /\ v.err = "none" /\ SameTold(v, w) /\ f.len > 0
<1> DEFINE h == HeaderLen(f)
           v == HeaderEnds(w)
           n == f.len
<1>1. n \in Nat /\ n <= 65535
  BY FrameIs
<1>2. h = (IF n <= 125 THEN 6 ELSE 8) /\ h \in {6, 8}
  BY DEF HeaderLen
<1>3. /\ f.op \in {0, 1, 2, 8, 9, 10} /\ w.opcode = f.op /\ w.fin = f.fin
      /\ f.masked /\ w.encLen = h - 6 /\ w.size = SizeAt(f, h)
  BY <1>2 DEF Got
<1>4. f.op \in Opcode
  BY <1>3 DEF Opcode, CONT, TEXT, BINARY, CLOSE, PING, PONG
<1>5. w.payload = << >> /\ w.size \in Nat
  BY Fields DEF Sound
<1>6. MaxPayload \in Nat /\ MaxPayload <= 65535
  BY LimitIs
<1>7. /\ n <= 125 => w.size = n
      /\ n > 125 => w.size = IF n \div 256 >= 128 \/ n % 256 >= 128 THEN 65536 ELSE n
  BY <1>1, <1>2, <1>3 DEF SizeAt
<1>8. n \div 256 \in Nat /\ n % 256 \in Nat
  BY <1>1
<1>9. Fits(n) <=> ~(w.size > MaxPayload)
  <2> DEFINE hi == n \div 256
             lo == n % 256
  <2>1. Fits(n) <=> n <= MaxPayload /\ (n > 125 => lo < 128 /\ hi < 128)
    BY DEF Fits
  <2>2. hi \in Nat /\ lo \in Nat
    BY <1>8
  <2>3. n > 125 => w.size = IF hi >= 128 \/ lo >= 128 THEN 65536 ELSE n
    BY <1>7
  <2> HIDE DEF hi, lo, n
  <2>4. QED
    BY <1>1, <1>6, <1>7, <2>1, <2>2, <2>3
<1>10. Fits(n) => w.size = n
  BY <1>1, <1>6, <1>7, <1>9
<1>11. v = IF w.size > MaxPayload THEN Refuse(w, "ENOSPC")
           ELSE IF w.size = 0 THEN ConsumeMessage(w)
           ELSE [w EXCEPT !.allocated = TRUE]
  <2>1. w.offset = 6 + w.encLen
    BY <1>2, <1>3
  <2>2. QED
    BY <2>1 DEF HeaderEnds
<1> DEFINE Goal == \/ ~Fits(n) /\ v.err # "none" /\ SameTold(v, w)
                   \/ Came(w, f) /\ v = ConsumeMessage(w) /\ n = 0
                   \/ Started(v, f, h) /\ v.err = "none" /\ SameTold(v, w) /\ n > 0
<1> HIDE DEF v, h, n
<1>12. ASSUME w.size > MaxPayload PROVE Goal
  <2>1. v = [w EXCEPT !.err = "ENOSPC"]
    BY <1>11, <1>12 DEF Refuse
  <2>2. v.err # "none" /\ SameTold(v, w)
    BY <2>1 DEF Wsd, SameTold
  <2>3. QED
    BY <1>9, <1>12, <2>2
<1>13. ASSUME ~(w.size > MaxPayload), w.size = 0 PROVE Goal
  <2>1. v = ConsumeMessage(w) /\ n = 0 /\ Fits(n)
    BY <1>9, <1>10, <1>11, <1>13
  <2>2. Payload(f) = << >>
    <3>1. Payload(f) \in Seq(Nat) /\ Len(Payload(f)) = 0
      BY <2>1, PayloadIs DEF n
    <3>2. QED
      BY <3>1
  <2>3. Came(w, f)
    BY <1>3, <1>4, <1>5, <2>1, <2>2 DEF Came, n
  <2>4. QED
    BY <2>1, <2>3
<1>14. ASSUME ~(w.size > MaxPayload), w.size # 0 PROVE Goal
  <2>1. v = [w EXCEPT !.allocated = TRUE]
    BY <1>11, <1>14
  <2>2. Fits(n) /\ n > 0
    BY <1>1, <1>9, <1>10, <1>14
  <2>3. /\ v.err = "none" /\ SameTold(v, w) /\ v.offset = w.offset /\ v.allocated
        /\ v.opcode = w.opcode /\ v.fin = w.fin /\ v.encLen = w.encLen /\ v.size = w.size
        /\ v.mask = w.mask /\ v.payload = << >>
    BY <1>5, <2>1 DEF Wsd, SameTold
  <2>4. Got(v, f, h)
    BY <2>3 DEF Got, h
  <2>5. Len(v.payload) = h - h /\ ~(h < h) /\ 1..h - h = {}
    BY <1>2, <2>3
  <2>6. v.offset = h
    BY <2>3 DEF h
  <2>7. Started(v, f, h)
    BY <2>2, <2>3, <2>4, <2>5, <2>6 DEF Started, h, n
  <2>8. QED
    BY <2>2, <2>3, <2>7
<1>15. Goal
  BY <1>12, <1>13, <1>14
<1>16. QED
  BY <1>15 DEF v, h, n

\* Some more bytes of a payload.
LEMMA PayloadIsRead ==
    ASSUME NEW w \in Wsd, Sound(w), NEW f \in Frame, w.err = "none", NEW k \in Nat, k >= HeaderLen(f),
           Started(w, f, k), NEW b \in Seq(Nat), Len(b) <= HeaderLen(f) + f.len - k,
           \A j \in 1..Len(b) : b[j] = Bytes(f)[k + j]
    PROVE  LET v == PayloadBytes(w, b)
           IN \/ /\ Came(More(w, b), f) /\ v = ConsumeMessage(More(w, b)) /\ More(w, b) \in Wsd
                 /\ More(w, b).err = "none" /\ SameTold(More(w, b), w)
                 /\ k + Len(b) = HeaderLen(f) + f.len
              \/ /\ Started(v, f, k + Len(b)) /\ v.err = "none" /\ SameTold(v, w)
                 /\ k + Len(b) < HeaderLen(f) + f.len
<1> DEFINE h == HeaderLen(f)
           n == f.len
           v == PayloadBytes(w, b)
           x == More(w, b)
           d == k - h
<1>1. n \in Nat /\ h = (IF n <= 125 THEN 6 ELSE 8) /\ h \in {6, 8}
  BY FrameIs DEF HeaderLen
<1>2. Len(b) \in Nat /\ d \in Nat /\ h + d = k /\ Len(b) <= n - d /\ k > 1 /\ k \in Nat
  BY <1>1
<1>3. /\ Got(w, f, k) /\ w.allocated /\ w.offset = h /\ Fits(n) /\ Len(w.payload) = d
      /\ \A j \in 1..d : w.payload[j] = Payload(f)[j]
  <2>1. ~(k < h)
    BY <1>1, <1>2
  <2>2. QED
    BY <2>1 DEF Started
<1>4. /\ f.op \in {0, 1, 2, 8, 9, 10} /\ w.opcode = f.op /\ w.fin = f.fin
      /\ f.masked /\ w.encLen = h - 6 /\ w.size = SizeAt(f, k)
      /\ \A g \in 1..4 : w.mask[g] = Mask(f)[g]
  <2>1. \A g \in 1..4 : k >= h - 4 + g
    BY <1>1, <1>2
  <2>2. QED
    BY <1>2, <1>3, <2>1 DEF Got
<1>5. f.op \in Opcode
  BY <1>4 DEF Opcode, CONT, TEXT, BINARY, CLOSE, PING, PONG
<1>6. w.size = n
  <2>1. n > 125 => ~(n \div 256 >= 128) /\ ~(n % 256 >= 128) /\ k # 2 /\ k # 3
    <3>1. n > 125 => n % 256 < 128 /\ n \div 256 < 128
      BY <1>3 DEF Fits
    <3>2. n % 256 \in Nat /\ n \div 256 \in Nat
      BY <1>1
    <3>3. n > 125 => k >= 8
      BY <1>1, <1>2
    <3>4. QED
      BY <1>2, <3>1, <3>2, <3>3
  <2>2. QED
    BY <1>1, <1>4, <2>1 DEF SizeAt
<1>7. /\ x \in Wsd /\ Len(x.payload) = d + Len(b)
      /\ \A i \in 1..d : x.payload[i] = w.payload[i]
      /\ \A i \in 1..Len(b) : x.payload[d + i] = Xor(b[i], w.mask[((d + i - 1) % 4) + 1])
      /\ v = IF Len(x.payload) = w.size THEN ConsumeMessage(x) ELSE x
  <2> HIDE DEF d
  <2>1. QED
    BY <1>3, MoreIs
<1>8. /\ x.fin = w.fin /\ x.opcode = w.opcode /\ x.err = "none" /\ SameTold(x, w)
      /\ x.allocated = w.allocated /\ x.offset = w.offset /\ x.encLen = w.encLen /\ x.size = w.size
      /\ x.mask = w.mask
  BY DEF More, Wsd, SameTold
<1>9. x.payload \in Seq(Nat)
  BY <1>7, Fields
<1> DEFINE Goal == \/ /\ Came(x, f) /\ v = ConsumeMessage(x) /\ x \in Wsd
                      /\ x.err = "none" /\ SameTold(x, w) /\ k + Len(b) = h + n
                   \/ /\ Started(v, f, k + Len(b)) /\ v.err = "none" /\ SameTold(v, w)
                      /\ k + Len(b) < h + n
<1> HIDE DEF h, n, v, x, d
<1>10. ASSUME NEW j \in 1..d + Len(b) PROVE x.payload[j] = Payload(f)[j]
  <2>1. CASE j <= d
    <3>1. j \in 1..d
      BY <1>2, <2>1
    <3>2. QED
      BY <1>3, <1>7, <3>1
  <2>2. CASE ~(j <= d)
    <3> DEFINE i == j - d
               y == j - 1
    <3>1. i \in 1..Len(b) /\ d + i = j /\ j \in 1..n /\ y \in Nat /\ d + i - 1 = y /\ k + i = h + j
      BY <1>1, <1>2, <2>2
    <3> HIDE DEF i
    <3>2. x.payload[j] = Xor(b[i], w.mask[(y % 4) + 1])
      <4> HIDE DEF y
      <4>1. x.payload[d + i] = Xor(b[i], w.mask[((d + i - 1) % 4) + 1])
        BY <1>7, <3>1
      <4>2. QED
        BY <3>1, <4>1
    <3>3. b[i] = Bytes(f)[k + i] /\ Bytes(f)[k + i] = Bytes(f)[h + j]
      BY <3>1
    <3>4. Bytes(f)[h + j] = Xor(Payload(f)[j], Mask(f)[(y % 4) + 1])
      BY <3>1, BytesAre, SMTT(40) DEF h, n
    <3>5. (y % 4) + 1 \in 1..4
      BY <3>1, SMTT(40)
    <3>6. Mask(f)[(y % 4) + 1] \in {0, 1} /\ Payload(f)[j] \in {0, 1}
      BY <3>1, MaskIs, PayloadIs DEF n
    <3>7. w.mask[(y % 4) + 1] = Mask(f)[(y % 4) + 1]
      BY <1>4, <3>5
    <3> DEFINE q == Mask(f)[(y % 4) + 1]
               p == Payload(f)[j]
    <3>8. x.payload[j] = Xor(Xor(p, q), q) /\ p \in {0, 1} /\ q \in {0, 1}
      BY <3>2, <3>3, <3>4, <3>6, <3>7
    <3> HIDE DEF p, q
    <3>9. x.payload[j] = p
      BY <3>8, XorTwice
    <3>10. QED
      BY <3>9 DEF p
  <2>3. QED
    BY <2>1, <2>2
<1>11. ASSUME d + Len(b) = n PROVE Goal
  <2>1. v = ConsumeMessage(x) /\ k + Len(b) = h + n
    BY <1>1, <1>2, <1>6, <1>7, <1>11
  <2>2. x.payload = Payload(f)
    <3> DEFINE p == Payload(f)
    <3>1. p \in Seq(Nat) /\ Len(p) = n
      BY PayloadIs DEF n
    <3>2. \A j \in 1..Len(x.payload) : x.payload[j] = p[j]
      BY <1>7, <1>10
    <3> HIDE DEF p
    <3>3. x.payload = p
      BY <1>7, <1>9, <1>11, <3>1, <3>2, SameSeq
    <3>4. QED
      BY <3>3 DEF p
  <2>3. Came(x, f)
    BY <1>3, <1>4, <1>5, <1>8, <2>2 DEF Came, n
  <2>4. QED
    BY <1>7, <1>8, <2>1, <2>3
<1>12. ASSUME d + Len(b) # n PROVE Goal
  <2> DEFINE g == k + Len(b)
  <2>1. v = x
    BY <1>6, <1>7, <1>12
  <2>2. g < h + n /\ ~(g < h) /\ g - h = d + Len(b) /\ g > 0 /\ g > 1 /\ g \in Nat
    <3> DEFINE l == Len(b)
    <3>1. /\ l \in Nat /\ d \in Nat /\ n \in Nat /\ h \in Nat /\ h + d = k /\ k > 1
          /\ l <= n - d /\ d + l # n
      BY <1>1, <1>2, <1>12
    <3> HIDE DEF l
    <3>2. k + l < h + n /\ ~(k + l < h) /\ k + l - h = d + l /\ k + l > 1 /\ k + l \in Nat
      BY <3>1
    <3>3. k + l > 0
      BY <3>1
    <3>4. g = k + l /\ l = Len(b)
      BY DEF l
    <3> HIDE DEF g
    <3>5. QED
      BY <3>1, <3>2, <3>3, <3>4
  <2> HIDE DEF g
  <2>3. SizeAt(f, g) = SizeAt(f, k)
    <3>1. n > 125 => k # 2 /\ k # 3 /\ g # 2 /\ g # 3
      BY <1>1, <1>2, <2>2
    <3>2. QED
      BY <1>1, <3>1 DEF SizeAt, n
  <2>4. Got(x, f, g)
    BY <1>4, <1>8, <2>2, <2>3 DEF Got, h
  <2>5. Started(x, f, g)
    BY <1>3, <1>7, <1>8, <1>10, <2>2, <2>4 DEF Started, h, n
  <2>6. QED
    BY <1>8, <2>1, <2>2, <2>5 DEF g
<1>13. Goal
  BY <1>11, <1>12
<1>14. QED
  BY <1>13 DEF h, n, v, x
-----------------------------------------------------------------------------
(* Frames: a round of a reading                                            *)

\* The first i frames are answered and k bytes of the next one are read.
At(w, s, i, k, past) ==
    /\ Sound(w) /\ w.err = "none" /\ i <= Len(s)
    /\ KeptParts(w, s, i) /\ Told(past \o w.did, s, i)
    /\ IF i = Len(s) THEN k = 0 /\ w.offset = 0 /\ ~w.allocated
       ELSE k < Len(Bytes(s[i + 1])) /\ Started(w, s[i + 1], k)

\* In the middle of a reading that leaves "later" for another one.
Reading(w, bytes, s, past, later) ==
    IF w.err = "none"
    THEN \E i, k \in Nat : At(w, s, i, k, past) /\ Len(s) <= i + 2 /\ bytes \o later = Rest(s, i, k)
    ELSE \E i \in Nat : i < Len(s) /\ ~Accepted(s, i + 1) /\ Told(past \o w.did, s, i)

\* A frame of which nothing is read.
LEMMA StartedNone ==
    ASSUME NEW w, NEW f \in Frame, w.offset = 0, ~w.allocated
    PROVE  Started(w, f, 0) /\ 0 < Len(Bytes(f))
<1>1. HeaderLen(f) \in {6, 8}
  BY DEF HeaderLen
<1>2. Len(Bytes(f)) = HeaderLen(f) + f.len /\ f.len \in Nat
  BY BytesAre, FrameIs
<1>3. \A m \in 1..4 : ~(0 >= HeaderLen(f) - 4 + m)
  BY <1>1
<1>4. Got(w, f, 0)
  BY <1>3 DEF Got
<1>5. 0 < HeaderLen(f) /\ 0 < HeaderLen(f) + f.len
  BY <1>1, <1>2
<1>6. QED
  BY <1>2, <1>4, <1>5 DEF Started

\* The frame has come whole and the next one is at hand.
LEMMA NextFrame ==
    ASSUME NEW x \in Wsd, NEW past \in Seq(Event), NEW s \in Seq(Frame), NEW i \in Nat, i < Len(s),
           Len(s) <= i + 2, Came(x, s[i + 1]), x.err = "none", KeptParts(x, s, i),
           Told(past \o x.did, s, i), NEW bytes, NEW later, bytes \o later = Rest(s, i + 1, 0)
    PROVE  Reading(ConsumeMessage(x), bytes, s, past, later)
<1> DEFINE c == ConsumeMessage(x)
           j == i + 1
<1>1. /\ Sound(c) /\ c.offset = 0 /\ ~c.allocated
  BY ConsumeSound DEF Came
<1>2. After(c, past, s, i)
  BY FrameEnds
<1>3. j \in Nat /\ j <= Len(s) /\ Len(s) <= j + 2 /\ Len(s) \in Nat
  OBVIOUS
<1> HIDE DEF c
<1>4. CASE c.err = "none"
  <2>1. KeptParts(c, s, j) /\ Told(past \o c.did, s, j)
    BY <1>2, <1>4 DEF After
  <2>2. j # Len(s) => 0 < Len(Bytes(s[j + 1])) /\ Started(c, s[j + 1], 0)
    <3>1. j # Len(s) => s[j + 1] \in Frame
      BY <1>3
    <3>2. QED
      BY <1>1, <3>1, StartedNone
  <2> HIDE DEF j
  <2>3. At(c, s, j, 0, past)
    BY <1>1, <1>3, <1>4, <2>1, <2>2 DEF At
  <2>4. bytes \o later = Rest(s, j, 0)
    BY DEF j
  <2>5. Reading(c, bytes, s, past, later)
    BY <1>3, <1>4, <2>3, <2>4 DEF Reading
  <2>6. QED
    BY <2>5 DEF c
<1>5. CASE c.err # "none"
  <2>1. ~Accepted(s, i + 1) /\ Told(past \o c.did, s, i)
    BY <1>2, <1>5 DEF After
  <2>2. Reading(c, bytes, s, past, later)
    BY <1>5, <2>1 DEF Reading
  <2>3. QED
    BY <2>2 DEF c
<1>6. QED
  BY <1>4, <1>5

\* More of a frame is read and accepted.
LEMMA SameFrame ==
    ASSUME NEW w, NEW v, Sound(v), NEW past, NEW s \in Seq(Frame), NEW i \in Nat, i < Len(s),
           Len(s) <= i + 2, KeptParts(w, s, i), Told(past \o w.did, s, i), v.err = "none", SameTold(v, w),
           NEW k \in Nat, k < Len(Bytes(s[i + 1])), Started(v, s[i + 1], k),
           NEW bytes, NEW later, bytes \o later = Rest(s, i, k)
    PROVE  Reading(v, bytes, s, past, later)
<1>1. KeptParts(v, s, i) /\ Told(past \o v.did, s, i)
  BY DEF SameTold, KeptParts
<1>2. i # Len(s) /\ i <= Len(s)
  OBVIOUS
<1>3. At(v, s, i, k, past)
  BY <1>1, <1>2 DEF At
<1>4. QED
  BY <1>3 DEF Reading

\* The frame is refused.
LEMMA BadFrame ==
    ASSUME NEW w, NEW v, NEW past, NEW s, NEW i \in Nat, i < Len(s),
           Told(past \o w.did, s, i), v.err # "none", SameTold(v, w), ~Accepted(s, i + 1),
           NEW bytes, NEW later
    PROVE  Reading(v, bytes, s, past, later)
BY DEF Reading, SameTold

\* A round in a header reads one byte of the frame,
LEMMA HeaderRound ==
    ASSUME NEW w, NEW past \in Seq(Event), NEW s \in Seq(Frame), NEW i \in Nat, i < Len(s),
           Len(s) <= i + 2, NEW k \in Nat, At(w, s, i, k, past), k < HeaderLen(s[i + 1]),
           NEW bytes, NEW later, bytes \o later = Rest(s, i, k + 1)
    PROVE  Reading(HeaderEnds(HeaderByte(w, Bytes(s[i + 1])[k + 1])), bytes, s, past, later)
<1> DEFINE f == s[i + 1]
           h == HeaderLen(f)
           c == Bytes(f)[k + 1]
           v == HeaderByte(w, c)
           x == HeaderEnds(v)
<1>1. f \in Frame /\ Len(s) \in Nat
  OBVIOUS
<1>2. /\ Sound(w) /\ w.err = "none" /\ w \in Wsd /\ KeptParts(w, s, i) /\ Told(past \o w.did, s, i)
      /\ k < Len(Bytes(f)) /\ Started(w, f, k)
  BY <1>1 DEF At, Sound
<1> HIDE DEF f
<1>3. h \in {6, 8} /\ Len(Bytes(f)) = h + f.len /\ f.len \in Nat /\ Bytes(f) \in Seq(Nat)
  BY <1>1, BytesAre, FrameIs DEF HeaderLen
<1>4. k < h
  BY DEF f
<1>5. c \in Nat
  <2> DEFINE z == Bytes(f)
  <2>1. k + 1 \in 1..Len(z) /\ z \in Seq(Nat)
    BY <1>3, <1>4
  <2> HIDE DEF z
  <2>2. z[k + 1] \in Nat
    BY <2>1
  <2>3. QED
    BY <2>2 DEF z
<1>6. ~w.allocated /\ w.offset = k /\ Got(w, f, k)
  BY <1>2, <1>4 DEF Started
<1>7. w.offset < 6 + w.encLen
  <2>1. w.encLen \in {0, 2, 4}
    BY <1>2, Fields
  <2>2. k > 1 => w.encLen = h - 6
    BY <1>6 DEF Got
  <2>3. QED
    BY <1>3, <1>4, <1>6, <2>1, <2>2, SMTT(40)
<1>8. Sound(v) /\ ~v.allocated
  BY <1>2, <1>5, <1>6, <1>7, HeaderByteSound
<1>9. /\ SameTold(v, w)
      /\ v.err = "none" => Got(v, f, k + 1) /\ v.offset = k + 1 /\ ~v.allocated
      /\ v.err # "none" => ~(f.masked /\ f.op \in {0, 1, 2, 8, 9, 10})
  BY <1>1, <1>2, <1>4, HeaderByteIs
<1> HIDE DEF v, c
<1>10. v \in Wsd
  BY <1>8 DEF Sound
<1> HIDE DEF h
<1> DEFINE Goal == Reading(x, bytes, s, past, later)
<1> HIDE DEF Goal
<1>11. ASSUME v.err # "none" PROVE Goal
  <2>1. x = v
    BY <1>11 DEF HeaderEnds
  <2>2. ~Accepted(s, i + 1)
    BY <1>9, <1>11 DEF Accepted, f, CONT, BINARY, PING, PONG
  <2>3. Reading(v, bytes, s, past, later)
    BY <1>2, <1>9, <1>11, <2>2, BadFrame
  <2>4. QED
    BY <2>1, <2>3 DEF Goal
<1>12. ASSUME v.err = "none", k + 1 # h PROVE Goal
  <2>1. v.offset # 6 + v.encLen
    <3>1. v.encLen \in {0, 2, 4} /\ v.offset = k + 1
      BY <1>9, <1>10, <1>12, Fields
    <3>2. k + 1 > 1 => v.encLen = h - 6
      BY <1>9, <1>12 DEF Got, h
    <3>3. QED
      BY <1>3, <1>12, <3>1, <3>2, SMTT(40)
  <2>2. x = v
    BY <2>1 DEF HeaderEnds
  <2>3. k + 1 < h /\ k + 1 < Len(Bytes(f)) /\ k + 1 \in Nat
    BY <1>3, <1>4, <1>12
  <2>4. Started(v, f, k + 1)
    BY <1>9, <1>12, <2>3 DEF Started, h
  <2>5. Reading(v, bytes, s, past, later)
    BY <1>2, <1>8, <1>9, <1>12, <2>3, <2>4, SameFrame DEF f
  <2>6. QED
    BY <2>2, <2>5 DEF Goal
<1>13. ASSUME v.err = "none", k + 1 = h PROVE Goal
  <2>1. Got(v, f, h) /\ v.offset = h /\ ~v.allocated
    BY <1>9, <1>13
  <2>2. \/ ~Fits(f.len) /\ x.err # "none" /\ SameTold(x, v)
        \/ Came(v, f) /\ x = ConsumeMessage(v) /\ f.len = 0
        \/ Started(x, f, h) /\ x.err = "none" /\ SameTold(x, v) /\ f.len > 0
    BY <1>1, <1>8, <1>10, <1>13, <2>1, HeaderEndsIs DEF h
  <2>3. Sound(x)
    BY <1>8, HeaderEndsSound
  <2> HIDE DEF x
  <2>4. ASSUME ~Fits(f.len), x.err # "none", SameTold(x, v) PROVE Goal
    <3>1. SameTold(x, w)
      BY <1>9, <2>4 DEF SameTold
    <3>2. ~Accepted(s, i + 1)
      BY <2>4 DEF Accepted, f
    <3>3. Reading(x, bytes, s, past, later)
      BY <1>2, <2>4, <3>1, <3>2, BadFrame
    <3>4. QED
      BY <3>3 DEF Goal
  <2>5. ASSUME Came(v, f), x = ConsumeMessage(v), f.len = 0 PROVE Goal
    <3>1. k + 1 = Len(Bytes(f))
      BY <1>3, <1>13, <2>5
    <3>2. Rest(s, i, Len(Bytes(f))) = Rest(s, i + 1, 0)
      BY <1>2, RestIs DEF f
    <3>3. bytes \o later = Rest(s, i + 1, 0)
      BY <3>1, <3>2
    <3>4. KeptParts(v, s, i) /\ Told(past \o v.did, s, i)
      BY <1>2, <1>9 DEF SameTold, KeptParts
    <3>5. Reading(ConsumeMessage(v), bytes, s, past, later)
      BY <1>10, <1>13, <2>5, <3>3, <3>4, NextFrame DEF f
    <3>6. QED
      BY <2>5, <3>5 DEF Goal
  <2>6. ASSUME Started(x, f, h), x.err = "none", SameTold(x, v), f.len > 0 PROVE Goal
    <3>1. SameTold(x, w)
      BY <1>9, <2>6 DEF SameTold
    <3>2. k + 1 < Len(Bytes(f)) /\ k + 1 \in Nat
      BY <1>3, <1>13, <2>6
    <3>3. Started(x, f, k + 1)
      BY <1>13, <2>6
    <3>4. Reading(x, bytes, s, past, later)
      BY <1>2, <2>3, <2>6, <3>1, <3>2, <3>3, SameFrame DEF f
    <3>5. QED
      BY <3>4 DEF Goal
  <2>7. QED
    BY <2>2, <2>4, <2>5, <2>6
<1>14. Goal
  BY <1>11, <1>12, <1>13
<1>15. QED
  BY <1>14 DEF Goal, v, c, f

\* a round in a payload as many as there are, up to its last,
LEMMA PayloadRound ==
    ASSUME NEW w, NEW past \in Seq(Event), NEW s \in Seq(Frame), NEW i \in Nat, i < Len(s),
           Len(s) <= i + 2, NEW k \in Nat, At(w, s, i, k, past), k >= HeaderLen(s[i + 1]),
           NEW b \in Seq(Nat), Len(b) <= Len(Bytes(s[i + 1])) - k,
           \A j \in 1..Len(b) : b[j] = Bytes(s[i + 1])[k + j],
           Sound(PayloadBytes(w, b)),
           NEW bytes, NEW later, bytes \o later = Rest(s, i, k + Len(b))
    PROVE  Reading(PayloadBytes(w, b), bytes, s, past, later)
<1> DEFINE f == s[i + 1]
           h == HeaderLen(f)
           v == PayloadBytes(w, b)
           x == More(w, b)
           g == k + Len(b)
<1>1. f \in Frame /\ Len(s) \in Nat
  OBVIOUS
<1>2. /\ Sound(w) /\ w.err = "none" /\ w \in Wsd /\ KeptParts(w, s, i) /\ Told(past \o w.did, s, i)
      /\ k < Len(Bytes(f)) /\ Started(w, f, k)
  BY <1>1 DEF At, Sound
<1> HIDE DEF f
<1>3. h \in {6, 8} /\ Len(Bytes(f)) = h + f.len /\ f.len \in Nat
  BY <1>1, BytesAre, FrameIs DEF HeaderLen
<1>4. k >= h /\ Len(b) <= h + f.len - k /\ \A j \in 1..Len(b) : b[j] = Bytes(f)[k + j]
  <2>1. k >= h /\ Len(b) <= Len(Bytes(f)) - k /\ \A j \in 1..Len(b) : b[j] = Bytes(f)[k + j]
    BY DEF f
  <2> DEFINE N == Len(Bytes(f))
  <2>2. N = h + f.len /\ h \in Nat /\ f.len \in Nat
    BY <1>3
  <2>5. Len(b) <= N - k
    BY <2>1
  <2>6. Len(b) \in Nat
    OBVIOUS
  <2> HIDE DEF N, h
  <2>3. Len(b) <= h + f.len - k
    BY <2>2, <2>5, <2>6
  <2>4. QED
    BY <2>1, <2>3
<1>5. \/ /\ Came(x, f) /\ v = ConsumeMessage(x) /\ x \in Wsd
         /\ x.err = "none" /\ SameTold(x, w) /\ g = h + f.len
      \/ /\ Started(v, f, g) /\ v.err = "none" /\ SameTold(v, w)
         /\ g < h + f.len
  BY <1>1, <1>2, <1>4, PayloadIsRead
<1>6. g \in Nat
  OBVIOUS
<1> DEFINE Goal == Reading(v, bytes, s, past, later)
<1>7. Sound(v) /\ bytes \o later = Rest(s, i, g)
  OBVIOUS
<1> HIDE DEF Goal, x, v, g, h
<1>8. ASSUME Came(x, f), v = ConsumeMessage(x), x \in Wsd,
             x.err = "none", SameTold(x, w), g = h + f.len
      PROVE  Goal
  <2>1. Rest(s, i, Len(Bytes(f))) = Rest(s, i + 1, 0)
    BY <1>2, RestIs DEF f
  <2>2. bytes \o later = Rest(s, i + 1, 0)
    BY <1>3, <1>7, <1>8, <2>1
  <2>3. KeptParts(x, s, i) /\ Told(past \o x.did, s, i)
    BY <1>2, <1>8 DEF SameTold, KeptParts
  <2>4. Reading(ConsumeMessage(x), bytes, s, past, later)
    BY <1>8, <2>2, <2>3, NextFrame DEF f
  <2>5. QED
    BY <1>8, <2>4 DEF Goal
<1>9. ASSUME Started(v, f, g), v.err = "none", SameTold(v, w), g < h + f.len
      PROVE  Goal
  <2>1. g < Len(Bytes(f))
    BY <1>3, <1>9
  <2>2. Reading(v, bytes, s, past, later)
    BY <1>2, <1>6, <1>7, <1>9, <2>1, SameFrame DEF f
  <2>3. QED
    BY <2>2 DEF Goal
<1>10. Goal
  BY <1>5, <1>8, <1>9
<1>11. QED
  BY <1>10 DEF Goal, v

\* and any round of process_chunk stays in the middle of a reading.
LEMMA RoundReads ==
    ASSUME NEW l, NEW past \in Seq(Event), NEW s \in Seq(Frame), NEW later \in Seq(Nat),
           Sound(l.wsd), l.bytes \in Seq(Nat), ~ChunkDone(l), Reading(l.wsd, l.bytes, s, past, later)
    PROVE  Reading(ChunkRound(l).wsd, ChunkRound(l).bytes, s, past, later)
<1> DEFINE w == l.wsd
           b == l.bytes
           room == w.size - Len(w.payload)
           n == IF w.allocated THEN (IF Len(b) <= room THEN Len(b) ELSE room)
                ELSE IF w.offset < 6 + w.encLen THEN 1 ELSE Len(b)
           l2 == ChunkRound(l)
<1>1. w \in Wsd /\ w.err = "none" /\ b # << >> /\ b \in Seq(Nat) /\ Sound(w)
  BY DEF Sound, ChunkDone
<1>2. /\ l2.wsd = IF w.allocated THEN PayloadBytes(w, SubSeq(b, 1, n))
                  ELSE IF w.offset < 6 + w.encLen THEN HeaderEnds(HeaderByte(w, b[1]))
                  ELSE [w EXCEPT !.offset = @ + n]
      /\ l2.bytes = SubSeq(b, n + 1, Len(b))
  BY DEF ChunkRound
<1>3. PICK i \in Nat, k \in Nat :
         At(w, s, i, k, past) /\ Len(s) <= i + 2 /\ b \o later = Rest(s, i, k)
  BY <1>1 DEF Reading
<1>4. Sound(l2.wsd)
  BY RoundSound
<1> HIDE DEF l2, n
<1> HIDE DEF w, b
<1>5. Len(b) \in Nat /\ Len(b) > 0 /\ Len(b \o later) > 0
  <2>1. Len(b) \in Nat /\ Len(b) > 0
    BY <1>1
  <2>2. Len(later) \in Nat
    OBVIOUS
  <2>3. Len(b \o later) = Len(b) + Len(later)
    BY <1>1, ConcatIs
  <2>4. QED
    BY <2>1, <2>2, <2>3
<1>6. i < Len(s)
  <2>1. i <= Len(s) /\ (i = Len(s) => k = 0)
    BY <1>3 DEF At
  <2>2. i # Len(s)
    <3>1. SUFFICES ASSUME i = Len(s) PROVE FALSE
      OBVIOUS
    <3>2. Coming(s, i) = << >>
      BY <3>1 DEF Coming
    <3>3. Rest(s, i, 0) = << >>
      BY <3>2 DEF Rest
    <3>4. Len(b \o later) = 0
      BY <1>3, <2>1, <3>1, <3>3
    <3>5. QED
      BY <1>5, <3>4
  <2>3. Len(s) \in Nat
    OBVIOUS
  <2>4. QED
    BY <2>1, <2>2, <2>3
<1> DEFINE f == s[i + 1]
           B == Bytes(f)
           h == HeaderLen(f)
           r == Rest(s, i, k)
<1>7. f \in Frame /\ k < Len(B) /\ Started(w, f, k)
  <2>1. Len(s) \in Nat
    OBVIOUS
  <2>2. QED
    BY <1>3, <1>6, <2>1 DEF At
<1>8. /\ \A j \in 1..Len(B) - k : r[j] = B[k + j]
      /\ \A x \in 0..Len(B) - k : SubSeq(r, x + 1, Len(r)) = Rest(s, i, k + x)
  BY <1>3, <1>6, <1>7, RestIs
<1> HIDE DEF r
<1>9. ASSUME NEW j \in 1..Len(b) PROVE b[j] = r[j]
  <2>1. 0 \in Nat /\ 0 <= Len(b)
    BY <1>5
  <2>2. b[j] = (b \o later)[j]
    BY <1>1, <2>1, Shorter
  <2>3. QED
    BY <1>3, <2>2 DEF r
<1>10. ASSUME NEW x \in Nat, x <= Len(b), x <= Len(B) - k
       PROVE  SubSeq(b, x + 1, Len(b)) \o later = Rest(s, i, k + x)
  <2>1. SubSeq(b, x + 1, Len(b)) \o later = SubSeq(r, x + 1, Len(r))
    <3>1. SubSeq(b, x + 1, Len(b)) \o later = SubSeq(b \o later, x + 1, Len(b \o later))
      BY <1>1, <1>10, Shorter
    <3>2. QED
      BY <1>3, <3>1 DEF r
  <2>2. x \in 0..Len(B) - k
    <3>1. Len(B) - k \in Int
      <4>1. B \in Seq(Nat)
        BY <1>7, BytesAre
      <4> HIDE DEF B
      <4>2. QED
        BY <4>1
    <3>2. QED
      BY <1>10, <3>1
  <2>3. QED
    BY <1>8, <2>1, <2>2
<1>11. h \in {6, 8} /\ Len(B) = h + f.len /\ f.len \in Nat
  <2> HIDE DEF f
  <2>1. QED
    BY <1>7, BytesAre, FrameIs DEF HeaderLen
<1> DEFINE Goal == Reading(l2.wsd, l2.bytes, s, past, later)
<1> HIDE DEF h, Goal
<1>12. ASSUME k < h PROVE Goal
  <2>1. ~w.allocated /\ w.offset = k /\ Got(w, f, k)
    BY <1>7, <1>12 DEF Started, h
  <2>2. w.offset < 6 + w.encLen
    <3>1. w.encLen \in {0, 2, 4}
      BY <1>1, Fields
    <3>2. k > 1 => w.encLen = h - 6
      BY <2>1 DEF Got, h
    <3>3. QED
      BY <1>11, <1>12, <2>1, <3>1, <3>2
  <2>3. n = 1
    BY <2>1, <2>2 DEF n
  <2>4. 1 <= Len(b) /\ 1 <= Len(B) - k /\ 1 \in 1..Len(b) /\ 1 \in 1..Len(B) - k /\ 1 \in Nat
    BY <1>5, <1>7, <1>11, SMTT(40)
  <2>5. b[1] = B[k + 1]
    BY <1>8, <1>9, <2>4
  <2>6. l2.bytes \o later = Rest(s, i, k + 1)
    BY <1>2, <1>10, <2>3, <2>4
  <2>7. l2.wsd = HeaderEnds(HeaderByte(w, B[k + 1]))
    BY <1>2, <2>1, <2>2, <2>5
  <2>8. Reading(HeaderEnds(HeaderByte(w, B[k + 1])), l2.bytes, s, past, later)
    BY <1>3, <1>6, <1>12, <2>6, HeaderRound DEF h
  <2>9. QED
    BY <2>7, <2>8 DEF Goal
<1>13. ASSUME ~(k < h) PROVE Goal
  <2>1. w.allocated /\ Len(w.payload) = k - h /\ Got(w, f, k) /\ Fits(f.len)
    BY <1>7, <1>13 DEF Started, h
  <2>2. w.size = f.len
    <3>1. w.size = SizeAt(f, k)
      <4>1. k > 1
        BY <1>11, <1>13
      <4>2. QED
        BY <2>1, <4>1 DEF Got
    <3>2. f.len > 125 => k # 2 /\ k # 3 /\ ~(f.len \div 256 >= 128) /\ ~(f.len % 256 >= 128)
      <4>1. f.len > 125 => f.len % 256 < 128 /\ f.len \div 256 < 128
        BY <2>1 DEF Fits
      <4>2. f.len % 256 \in Nat /\ f.len \div 256 \in Nat
        BY <1>11, SMTT(40)
      <4>3. k # 2 /\ k # 3
        BY <1>11, <1>13
      <4>4. QED
        BY <4>1, <4>2, <4>3
    <3>3. QED
      BY <1>11, <3>1, <3>2 DEF SizeAt
  <2>3. room = Len(B) - k
    <3> DEFINE N == Len(B)
               p == Len(w.payload)
               z == f.len
    <3>1. N = h + z /\ p = k - h /\ w.size = z /\ h \in {6, 8} /\ z \in Nat
      BY <1>11, <2>1, <2>2
    <3> HIDE DEF N, p, z
    <3>2. w.size - p = N - k
      BY <3>1
    <3>3. QED
      BY <3>2 DEF p, N
  <2>4. n = IF Len(b) <= Len(B) - k THEN Len(b) ELSE Len(B) - k
    BY <2>1, <2>3 DEF n
  <2>5. n \in Nat /\ n <= Len(b) /\ n <= Len(B) - k /\ n > 0
    <3>1. Len(B) \in Nat
      BY <1>11
    <3> HIDE DEF B
    <3>2. QED
      BY <1>5, <1>7, <2>4, <3>1
  <2> DEFINE p == SubSeq(b, 1, n)
  <2>6. p \in Seq(Nat) /\ Len(p) = n /\ \A j \in 1..n : p[j] = b[j]
    <3>1. p \in Seq(Nat) /\ Len(p) = n
      BY <1>1, <2>5, Joined
    <3>2. \A j \in 1..n : p[j] = b[j]
      BY <1>1, <1>5, <2>5
    <3>3. QED
      BY <3>1, <3>2
  <2>7. l2.wsd = PayloadBytes(w, p) /\ l2.bytes \o later = Rest(s, i, k + n)
    BY <1>2, <1>10, <2>1, <2>5
  <2> HIDE DEF p
  <2>8. \A j \in 1..Len(p) : p[j] = B[k + j]
    <3>1. \A j \in 1..n : j \in 1..Len(b) /\ j \in 1..Len(B) - k
      <4>1. Len(B) \in Nat
        BY <1>11
      <4> HIDE DEF B
      <4>2. QED
        BY <1>5, <2>5, <4>1
    <3>2. QED
      BY <1>8, <1>9, <2>6, <3>1
  <2>9. Len(p) <= Len(B) - k /\ l2.bytes \o later = Rest(s, i, k + Len(p)) /\ Sound(PayloadBytes(w, p))
    BY <1>4, <2>5, <2>6, <2>7
  <2>10. k >= h
    BY <1>11, <1>13
  <2>11. Reading(PayloadBytes(w, p), l2.bytes, s, past, later)
    BY <1>3, <1>6, <2>6, <2>8, <2>9, <2>10, PayloadRound DEF h
  <2>12. QED
    BY <2>7, <2>11 DEF Goal
<1>14. Goal
  BY <1>12, <1>13
<1>15. QED
  BY <1>14 DEF Goal, l2
-----------------------------------------------------------------------------
(* Frames: readings and the whole connection                               *)

\* What a reading does, whatever it reads.
LEMMA ChunkSound ==
    ASSUME NEW w, Sound(w), NEW bytes \in Seq(Nat)
    PROVE  Sound(ProcessChunk(w, bytes))
<1> DEFINE L == {l \in [wsd : Wsd, bytes : Seq(Nat)] : Sound(l.wsd)}
           l0 == [wsd |-> w, bytes |-> bytes]
<1>1. l0 \in L
  BY DEF Sound
<1>2. \A l \in L : l.bytes \in Seq(Nat)
  OBVIOUS
<1>3. ASSUME NEW l \in L, ~ChunkDone(l)
      PROVE  ChunkRound(l) \in L /\ Len(ChunkRound(l).bytes) < Len(l.bytes)
  <2> DEFINE m == ChunkRound(l)
  <2>1. Sound(m.wsd) /\ m.bytes \in Seq(Nat) /\ Len(m.bytes) < Len(l.bytes)
    BY <1>3, RoundSound
  <2>2. \E x, y : m = [wsd |-> x, bytes |-> y]
    BY <1>3 DEF ChunkRound
  <2> HIDE DEF m
  <2>3. m \in [wsd : Wsd, bytes : Seq(Nat)]
    <3>1. m.wsd \in Wsd
      BY <2>1 DEF Sound
    <3>2. QED
      BY <2>1, <2>2, <3>1
  <2>4. QED
    BY <2>1, <2>3 DEF m
<1> HIDE DEF L, l0
<1>4. \E l \in L : ChunkDone(l) /\ ProcessChunk(w, bytes) = l.wsd
  BY <1>1, <1>2, <1>3, ChunkInduction DEF l0
<1>5. QED
  BY <1>4 DEF L

\* What a reading does to a connection that is not closing.
LEMMA ChunkFrames ==
    ASSUME NEW w, Sound(w), NEW bytes \in Seq(Nat), NEW later \in Seq(Nat),
           NEW past \in Seq(Event), NEW s \in Seq(Frame), Reading(w, bytes, s, past, later)
    PROVE  Reading(ProcessChunk(w, bytes), << >>, s, past, later)
<1> DEFINE L == {l \in [wsd : Wsd, bytes : Seq(Nat)] :
                    Sound(l.wsd) /\ Reading(l.wsd, l.bytes, s, past, later)}
           l0 == [wsd |-> w, bytes |-> bytes]
<1>1. l0 \in L
  BY DEF Sound
<1>2. \A l \in L : l.bytes \in Seq(Nat)
  OBVIOUS
<1>3. ASSUME NEW l \in L, ~ChunkDone(l)
      PROVE  ChunkRound(l) \in L /\ Len(ChunkRound(l).bytes) < Len(l.bytes)
  <2> DEFINE m == ChunkRound(l)
  <2>1. Sound(m.wsd) /\ m.bytes \in Seq(Nat) /\ Len(m.bytes) < Len(l.bytes)
    BY <1>3, RoundSound
  <2>2. \E x, y : m = [wsd |-> x, bytes |-> y]
    BY <1>3 DEF ChunkRound
  <2>3. Reading(m.wsd, m.bytes, s, past, later)
    BY <1>3, RoundReads
  <2> HIDE DEF m
  <2>4. m \in [wsd : Wsd, bytes : Seq(Nat)]
    <3>1. m.wsd \in Wsd
      BY <2>1 DEF Sound
    <3>2. QED
      BY <2>1, <2>2, <3>1
  <2>5. QED
    BY <2>1, <2>3, <2>4 DEF m
<1> HIDE DEF L, l0
<1>4. PICK l \in L : ChunkDone(l) /\ ProcessChunk(w, bytes) = l.wsd
  BY <1>1, <1>2, <1>3, ChunkInduction DEF l0
<1>5. Reading(l.wsd, l.bytes, s, past, later) /\ (l.wsd.err # "none" \/ l.bytes = << >>)
  BY <1>4 DEF L, ChunkDone
<1>6. Reading(l.wsd, << >>, s, past, later)
  <2>1. CASE l.wsd.err # "none"
    BY <1>5, <2>1 DEF Reading
  <2>2. CASE l.bytes = << >>
    BY <1>5, <2>2
  <2>3. QED
    BY <1>5, <2>1, <2>2
<1>7. QED
  BY <1>4, <1>6

\* Frame i + 1 is the first that is not accepted, and the close frame follows
\* the answers to those before it.
Closed(s, es, i) ==
    /\ i < Len(s) /\ ~Accepted(s, i + 1)
    /\ \E m \in 1..Len(es) :
          /\ Told(SubSeq(es, 1, m - 1), s, i)
          /\ es[m].what = "close" /\ Heard(es[m]) = [what |-> "close", data |-> <<1008>>]

\* Between two readings: what was read is answered and the rest on its way, or a
\* frame was refused.
FrameInv ==
    /\ frames \in Seq(Frame) /\ events \in Seq(Event) /\ inbox \in Seq(Nat) /\ asked \in BOOLEAN
    /\ Sound(wsd) /\ wsd.did = << >> /\ wsd.err = "none"
    /\ ~asked => \E i, k \in Nat : /\ At(wsd, frames, i, k, events) /\ Len(frames) <= i + 2
                                   /\ inbox = Rest(frames, i, k)
    /\ asked => \E i \in Nat : Closed(frames, events, i)

\* A sequence is the beginning of a longer one.
LEMMA PrefixIs ==
    ASSUME NEW T, NEW a \in Seq(T), NEW b \in Seq(T), NEW n \in 0..Len(a)
    PROVE  /\ a \o b \in Seq(T) /\ Len(a) <= Len(a \o b)
           /\ SubSeq(a \o b, 1, n) = SubSeq(a, 1, n)
           /\ \A j \in 1..Len(a) : (a \o b)[j] = a[j]
<1> DEFINE c == a \o b
<1>1. Len(a) \in Nat /\ Len(b) \in Nat
  OBVIOUS
<1>2. /\ c \in Seq(T) /\ Len(c) = Len(a) + Len(b)
      /\ \A k \in 1..Len(a) + Len(b) : c[k] = IF k <= Len(a) THEN a[k] ELSE b[k - Len(a)]
  BY ConcatProperties
<1> HIDE DEF c
<1>3. \A j \in 1..Len(a) : c[j] = a[j]
  <2>1. \A j \in 1..Len(a) : j \in 1..Len(a) + Len(b) /\ j <= Len(a)
    BY <1>1
  <2>2. QED
    BY <1>2, <2>1
<1>4. SubSeq(c, 1, n) = [j \in 1..n |-> c[j]] /\ SubSeq(a, 1, n) = [j \in 1..n |-> a[j]]
  BY <1>1, <1>2
<1>5. \A j \in 1..n : c[j] = a[j]
  <2>1. \A j \in 1..n : j \in 1..Len(a)
    BY <1>1
  <2>2. QED
    BY <1>3, <2>1
<1>6. SubSeq(c, 1, n) = SubSeq(a, 1, n)
  BY <1>4, <1>5
<1>7. Len(a) <= Len(c)
  BY <1>1, <1>2
<1>8. QED
  BY <1>2, <1>3, <1>6, <1>7 DEF c

\* Nothing done later takes back the start of the end.
LEMMA ClosedStays ==
    ASSUME NEW s \in Seq(Frame), NEW es \in Seq(Event), NEW more \in Seq(Event), NEW i \in Nat,
           Closed(s, es, i)
    PROVE  Closed(s, es \o more, i)
<1> DEFINE t == es \o more
<1>1. PICK m \in 1..Len(es) :
          /\ Told(SubSeq(es, 1, m - 1), s, i)
          /\ es[m].what = "close" /\ Heard(es[m]) = [what |-> "close", data |-> <<1008>>]
  BY DEF Closed
<1>2. m - 1 \in 0..Len(es) /\ Len(es) \in Nat
  OBVIOUS
<1>3. t \in Seq(Event) /\ Len(es) <= Len(t) /\ SubSeq(t, 1, m - 1) = SubSeq(es, 1, m - 1) /\ t[m] = es[m]
  BY <1>2, PrefixIs
<1> HIDE DEF t
<1>4. m \in 1..Len(t)
  BY <1>2, <1>3
<1>5. i < Len(s) /\ ~Accepted(s, i + 1)
  BY DEF Closed
<1>6. /\ Told(SubSeq(t, 1, m - 1), s, i)
      /\ t[m].what = "close" /\ Heard(t[m]) = [what |-> "close", data |-> <<1008>>]
  BY <1>1, <1>3, ZenonT(40)
<1>7. Closed(s, t, i)
  BY <1>4, <1>5, <1>6 DEF Closed
<1>8. QED
  BY <1>7 DEF t

\* What was done is handed over, and the error with it.
LEMMA HandedOver ==
    ASSUME NEW w, Sound(w)
    PROVE  LET v == [w EXCEPT !.did = << >>, !.err = "none"]
           IN /\ Sound(v) /\ v.did = << >> /\ v.err = "none"
              /\ \A s, i, k, past : At(w, s, i, k, past) =>
                    (Told((past \o w.did) \o << >>, s, i) => At(v, s, i, k, past \o w.did))
<1> DEFINE v == [w EXCEPT !.did = << >>, !.err = "none"]
<1>1. w \in Wsd
  BY DEF Sound
<1>2. v \in Wsd /\ v.did = << >> /\ v.err = "none"
  <2>1. << >> \in Seq(Event)
    OBVIOUS
  <2>2. QED
    BY <1>1, <2>1 DEF Wsd
<1>3. /\ SameHeader(v, w) /\ v.allocated = w.allocated /\ v.payload = w.payload
      /\ v.reasmOpcode = w.reasmOpcode /\ v.reassembled = w.reassembled
  BY <1>1 DEF Wsd, SameHeader
<1> HIDE DEF v
<1>4. Sound(v)
  BY <1>2, <1>3 DEF Sound, SameHeader
<1>5. ASSUME NEW s, NEW i, NEW k, NEW past, At(w, s, i, k, past), Told((past \o w.did) \o << >>, s, i)
      PROVE  At(v, s, i, k, past \o w.did)
  <2>1. KeptParts(v, s, i)
    BY <1>3, <1>5 DEF At, KeptParts
  <2>2. \A f : Started(w, f, k) => Started(v, f, k)
    BY <1>3 DEF Started, Got, SameHeader
  <2>3. IF i = Len(s) THEN k = 0 /\ v.offset = 0 /\ ~v.allocated
        ELSE k < Len(Bytes(s[i + 1])) /\ Started(v, s[i + 1], k)
    BY <1>3, <1>5, <2>2 DEF At, SameHeader
  <2>4. i <= Len(s) /\ Told((past \o w.did) \o v.did, s, i)
    BY <1>2, <1>5 DEF At
  <2>5. QED
    BY <1>2, <1>4, <2>1, <2>3, <2>4 DEF At
<1>6. QED
  BY <1>2, <1>4, <1>5 DEF v

\* Nothing is sent and nothing is read.
LEMMA InitFrame == WebsocketInit => FrameInv
<1> SUFFICES ASSUME WebsocketInit PROVE FrameInv
  OBVIOUS
<1> DEFINE e == << >>
<1>1. /\ wsd = [offset |-> 0, fin |-> FALSE, opcode |-> 0, encLen |-> 0, size |-> 0,
               mask |-> <<0, 0, 0, 0>>, allocated |-> FALSE, payload |-> << >>,
               reasmOpcode |-> 0, reassembled |-> << >>, did |-> << >>, err |-> "none"]
      /\ inbox = e /\ asked = FALSE /\ frames = e /\ events = e
  BY DEF WebsocketInit
<1>2. wsd \in Wsd /\ Sound(wsd)
  <2>1. << >> \in Seq(Nat) /\ << >> \in Seq(Event) /\ <<0, 0, 0, 0>> \in [1..4 -> Nat]
    OBVIOUS
  <2>2. wsd \in Wsd
    BY <1>1, <2>1 DEF Wsd
  <2>3. QED
    BY <1>1, <2>2 DEF Sound
<1>3. wsd.did = e /\ wsd.err = "none" /\ wsd.offset = 0 /\ ~wsd.allocated /\ wsd.reasmOpcode = 0
      /\ wsd.reassembled = << >>
  BY <1>1
<1>4. e \in Seq(Frame) /\ e \in Seq(Event) /\ e \in Seq(Nat) /\ Len(e) = 0 /\ e \o e = e
  OBVIOUS
<1>5. ~Continues(e, 0 + 1)
  <2>1. 0 + 1 = 1
    OBVIOUS
  <2>2. QED
    BY <2>1, ContinuesNot
<1>6. KeptParts(wsd, e, 0)
  BY <1>3, <1>5 DEF KeptParts
<1>7. Told(e, e, 0)
  <2>1. 1..0 = {}
    OBVIOUS
  <2>2. HeardAll(e) = Answers(e, 0)
    BY AnswersNone
  <2> HIDE DEF e
  <2>3. QED
    BY <1>4, <2>1, <2>2 DEF Told
<1>8. Rest(e, 0, 0) = e
  <2>1. Coming(e, 0) = e
    BY <1>4 DEF Coming
  <2>2. SubSeq(e, 0 + 1, Len(e)) = e
    OBVIOUS
  <2> HIDE DEF e
  <2>3. QED
    BY <2>1, <2>2 DEF Rest
<1> HIDE DEF e
<1>9. At(wsd, e, 0, 0, e)
  BY <1>2, <1>3, <1>4, <1>6, <1>7 DEF At
<1>10. 0 \in Nat /\ Len(e) <= 0 + 2
  BY <1>4
<1>11. At(wsd, frames, 0, 0, events) /\ Len(frames) <= 0 + 2 /\ inbox = Rest(frames, 0, 0)
  BY <1>1, <1>8, <1>9, <1>10
<1>12. \E i, k \in Nat : At(wsd, frames, i, k, events) /\ Len(frames) <= i + 2
                         /\ inbox = Rest(frames, i, k)
  BY <1>10, <1>11
<1>13. wsd.did = << >>
  BY <1>3 DEF e
<1>14. frames \in Seq(Frame) /\ events \in Seq(Event) /\ inbox \in Seq(Nat) /\ asked = FALSE
  BY <1>1, <1>4
<1>15. QED
  BY <1>2, <1>3, <1>12, <1>13, <1>14 DEF FrameInv

\* Another frame is on its way.
LEMMA AtLater ==
    ASSUME NEW w, NEW s, NEW t, NEW i \in Nat, NEW k, NEW past, At(w, s, i, k, past),
           SameFrames(s, t, Len(s)), Len(t) = Len(s) + 1
    PROVE  At(w, t, i, k, past)
<1> DEFINE n == Len(s)
<1>1. n \in Nat /\ Len(t) = n + 1 /\ i <= n /\ t \in Seq(Frame) /\ s \in Seq(Frame)
      /\ \A j \in 1..n : s[j] = t[j]
  BY DEF At, SameFrames
<1>2. SameFrames(s, t, n)
  OBVIOUS
<1>3. /\ Sound(w) /\ w.err = "none" /\ KeptParts(w, s, i) /\ Told(past \o w.did, s, i)
      /\ IF i = n THEN k = 0 /\ w.offset = 0 /\ ~w.allocated
         ELSE k < Len(Bytes(s[i + 1])) /\ Started(w, s[i + 1], k)
  BY DEF At
<1> HIDE DEF n
<1>4. Continues(s, i + 1) <=> Continues(t, i + 1)
  <2>1. i + 1 \in 1..n + 1
    BY <1>1
  <2>2. QED
    BY <1>2, <2>1, ContinuesSame
<1>5. ASSUME Continues(s, i + 1) PROVE Whole(s, i) = Whole(t, i)
  <2>1. i + 1 \in Nat /\ i + 1 - 1 = i
    OBVIOUS
  <2>2. PICK b \in 1..i : s[b].op = BINARY
    BY <1>5, <2>1, ContinuesBegun
  <2>3. i \in 1..n
    BY <1>1
  <2>4. QED
    BY <1>2, <2>2, <2>3, WholeSame
<1>6. KeptParts(w, t, i)
  BY <1>3, <1>4, <1>5 DEF KeptParts
<1>7. Told(past \o w.did, t, i)
  BY <1>1, <1>2, <1>3, ToldSame
<1>8. i <= Len(t) /\ i # Len(t)
  BY <1>1
<1>9. k < Len(Bytes(t[i + 1])) /\ Started(w, t[i + 1], k)
  <2>1. CASE i = n
    <3>1. t[i + 1] \in Frame
      BY <1>1, <2>1
    <3>2. QED
      BY <1>3, <2>1, <3>1, StartedNone
  <2>2. CASE i # n
    <3>1. i + 1 \in 1..n
      BY <1>1, <2>2
    <3>2. QED
      BY <1>1, <1>3, <2>2, <3>1
  <2>3. QED
    BY <2>1, <2>2
<1>10. QED
  BY <1>3, <1>6, <1>7, <1>8, <1>9 DEF At

\* Where a frame can be sent nothing of the last one was read.
LEMMA RestLater ==
    ASSUME NEW s \in Seq(Frame), NEW f \in Frame, NEW i \in Nat, NEW k \in Nat, i <= Len(s),
           Len(s) <= i + 2, i = Len(s) => k = 0, i # Len(s) => k < Len(Bytes(s[i + 1])),
           Rest(s, i, k) # << >> => Rest(s, i, k) = Bytes(Last(s))
    PROVE  /\ Rest(s, i, k) \o Bytes(f) = Rest(Append(s, f), i, k) /\ Len(Append(s, f)) <= i + 2
           /\ Bytes(f) \in Seq(Nat)
<1> DEFINE n == Len(s)
           t == Append(s, f)
           B == Bytes(f)
<1>1. n \in Nat /\ t \in Seq(Frame) /\ Len(t) = n + 1 /\ t[n + 1] = f /\ \A j \in 1..n : t[j] = s[j]
  OBVIOUS
<1>2. B \in Seq(Nat)
  BY BytesAre
<1>3. SubSeq(B, 0 + 1, Len(B)) = B /\ << >> \o B = B
  <2> HIDE DEF B
  <2>1. QED
    BY <1>2
<1> DEFINE Goal == Rest(s, i, k) \o B = Rest(t, i, k) /\ Len(t) <= i + 2
<1>4. Last(s) = s[n]
  BY DEF Last
<1> HIDE DEF t, B
<1>5. ASSUME i = n PROVE Goal
  <2>1. k = 0 /\ Coming(s, i) = << >>
    BY <1>5 DEF Coming
  <2>2. Rest(s, i, k) = << >>
    BY <2>1 DEF Rest
  <2>3. Coming(t, i) = B
    BY <1>1, <1>5 DEF Coming, B
  <2>4. Rest(t, i, k) = B
    BY <1>3, <2>1, <2>3 DEF Rest
  <2>5. Len(t) <= i + 2
    BY <1>1, <1>5
  <2>6. QED
    BY <1>3, <2>2, <2>4, <2>5
<1>6. ASSUME i # n PROVE Goal
  <2> DEFINE g == s[i + 1]
             C == Bytes(g)
             r == Rest(s, i, k)
             c == Coming(s, i)
  <2>1. i < n /\ n <= i + 2 /\ k < Len(C)
    BY <1>1, <1>6
  <2>2. g \in Frame /\ c \in Seq(Nat) /\ r \in Seq(Nat) /\ r # << >>
    <3>1. g \in Frame /\ c \in Seq(Nat)
      BY <2>1, ComingIs
    <3>2. r \in Seq(Nat) /\ r # << >>
      BY <2>1, RestIs
    <3>3. QED
      BY <3>1, <3>2
  <2>3. C \in Seq(Nat) /\ Len(C) \in Nat
    <3>1. C \in Seq(Nat)
      <4> HIDE DEF g
      <4>1. QED
        BY <2>2, BytesAre
    <3> HIDE DEF C
    <3>2. QED
      BY <3>1
  <2>4. r = Bytes(s[n])
    BY <1>4, <2>2
  <2>5. r = SubSeq(c, k + 1, Len(c))
    BY DEF Rest
  <2>6. ASSUME i + 1 # n PROVE FALSE
    <3> DEFINE D == Bytes(s[n])
    <3>1. i + 2 = n
      BY <1>1, <2>1, <2>6
    <3>2. c = C \o D
      BY <1>1, <3>1, SMTT(40) DEF Coming
    <3>3. D \in Seq(Nat)
      <4>1. s[n] \in Frame
        BY <1>1, <3>1
      <4>2. QED
        BY <4>1, BytesAre
    <3> HIDE DEF C, D, c, r
    <3>4. Len(c) = Len(C) + Len(D) /\ Len(D) \in Nat
      BY <2>3, <3>2, <3>3, ConcatIs
    <3>5. k <= Len(c)
      BY <2>1, <2>3, <3>4
    <3>6. Len(r) = Len(c) - k
      BY <2>2, <2>5, <3>5, SubSeqIs
    <3>7. Len(r) = Len(D)
      BY <2>4 DEF D
    <3>8. QED
      BY <2>1, <2>3, <3>4, <3>6, <3>7
  <2>7. i + 1 = n /\ c = C /\ r = C
    BY <1>1, <2>4, <2>6 DEF Coming
  <2>8. k = 0
    <3> HIDE DEF C, r, c
    <3>1. Len(r) = Len(C) - k
      <4>1. k <= Len(c) /\ c = C
        BY <2>1, <2>3, <2>7
      <4>2. QED
        BY <2>2, <2>5, <4>1, SubSeqIs
    <3>2. QED
      BY <2>3, <2>7, <3>1
  <2>9. Coming(t, i) = C \o B
    <3>1. Len(t) # i /\ i + 1 # Len(t) /\ t[i + 1] = s[i + 1] /\ t[i + 2] = f
      BY <1>1, <2>7
    <3>2. QED
      BY <3>1 DEF Coming, B
  <2> HIDE DEF C, r, c
  <2>10. Rest(t, i, k) = C \o B
    <3> DEFINE x == C \o B
    <3>1. x \in Seq(Nat)
      BY <1>2, <2>3, ConcatIs
    <3> HIDE DEF x
    <3>2. SubSeq(x, 0 + 1, Len(x)) = x
      BY <3>1
    <3>3. Coming(t, i) = x
      BY <2>9 DEF x
    <3>4. Rest(t, i, k) = x
      BY <2>8, <3>2, <3>3 DEF Rest
    <3>5. QED
      BY <3>4 DEF x
  <2>11. Rest(s, i, k) \o B = Rest(t, i, k)
    BY <2>7, <2>10 DEF r
  <2>12. Len(t) <= i + 2
    BY <1>1, <2>7
  <2>13. QED
    BY <2>11, <2>12
<1>7. Goal
  BY <1>5, <1>6
<1>8. QED
  BY <1>2, <1>7 DEF t, B

\* One more frame on its way.
LEMMA SendFrame ==
    ASSUME FrameInv, NEW f \in Frame, Send(f)
    PROVE  FrameInv'
<1>1. /\ frames' = Append(frames, f) /\ inbox' = inbox \o Bytes(f)
      /\ wsd' = wsd /\ asked' = asked /\ events' = events
      /\ inbox # << >> => inbox = Bytes(Last(frames))
  BY DEF Send
<1>2. /\ frames \in Seq(Frame) /\ events \in Seq(Event) /\ inbox \in Seq(Nat) /\ asked \in BOOLEAN
      /\ Sound(wsd) /\ wsd.did = << >> /\ wsd.err = "none"
  BY DEF FrameInv
<1> DEFINE n == Len(frames)
           t == Append(frames, f)
<1>3. /\ n \in Nat /\ t \in Seq(Frame) /\ Len(t) = n + 1 /\ \A j \in 1..n : t[j] = frames[j]
  BY <1>2
<1> HIDE DEF t
<1>4. SameFrames(frames, t, n)
  BY <1>2, <1>3 DEF SameFrames
<1>5. Bytes(f) \in Seq(Nat)
  BY BytesAre
<1>6. inbox \o Bytes(f) \in Seq(Nat)
  BY <1>2, <1>5, ConcatIs
<1>7. ASSUME ~asked
      PROVE  \E i, k \in Nat : At(wsd, t, i, k, events) /\ Len(t) <= i + 2
                               /\ inbox \o Bytes(f) = Rest(t, i, k)
  <2>1. PICK i \in Nat, k \in Nat : /\ At(wsd, frames, i, k, events) /\ n <= i + 2
                                    /\ inbox = Rest(frames, i, k)
    BY <1>7 DEF FrameInv
  <2>2. At(wsd, t, i, k, events)
    BY <1>3, <1>4, <2>1, AtLater
  <2>3. i <= n /\ (i = n => k = 0) /\ (i # n => k < Len(Bytes(frames[i + 1])))
    BY <2>1 DEF At
  <2>4. Rest(frames, i, k) # << >> => Rest(frames, i, k) = Bytes(Last(frames))
    BY <1>1, <2>1
  <2>5. Rest(frames, i, k) \o Bytes(f) = Rest(t, i, k) /\ Len(t) <= i + 2
    BY <1>2, <2>1, <2>3, <2>4, RestLater DEF t
  <2>6. QED
    BY <2>1, <2>2, <2>5
<1>8. ASSUME asked
      PROVE  \E i \in Nat : Closed(t, events, i)
  <2>1. PICK i \in Nat : Closed(frames, events, i)
    BY <1>8 DEF FrameInv
  <2>2. i < n /\ ~Accepted(frames, i + 1)
    BY <2>1 DEF Closed
  <2>3. i + 1 \in 1..n /\ i <= n /\ i < Len(t)
    BY <1>3, <2>2
  <2>4. ~Accepted(t, i + 1)
    BY <1>4, <2>2, <2>3, AcceptedSame
  <2>5. \A es : Told(es, frames, i) => Told(es, t, i)
    BY <1>4, <2>3, ToldSame
  <2>6. Closed(t, events, i)
    BY <2>1, <2>3, <2>4, <2>5 DEF Closed
  <2>7. QED
    BY <2>6
<1>9. QED
  BY <1>1, <1>2, <1>3, <1>6, <1>7, <1>8 DEF FrameInv, t

\* A reading by the child, cut anywhere.
LEMMA ReadFrame ==
    ASSUME FrameInv, NEW n \in 1..Len(inbox), WsRead(n)
    PROVE  FrameInv'
<1> DEFINE b == SubSeq(inbox, 1, n)
           later == SubSeq(inbox, n + 1, Len(inbox))
           w == ProcessChunk(wsd, b)
           e == [what |-> "close", data |-> Written(CLOSE, <<1008>>)]
           told == IF w.err = "none" THEN w ELSE Did(w, "close", Written(CLOSE, <<1008>>))
           v == [w EXCEPT !.did = << >>, !.err = "none"]
<1>1. /\ wsd' = v /\ inbox' = later /\ asked' = (asked \/ w.err # "none")
      /\ events' = events \o told.did /\ frames' = frames
  BY DEF WsRead, CloseCode
<1>2. /\ frames \in Seq(Frame) /\ events \in Seq(Event) /\ inbox \in Seq(Nat) /\ asked \in BOOLEAN
      /\ Sound(wsd) /\ wsd.did = << >> /\ wsd.err = "none"
  BY DEF FrameInv
<1>3. n \in Nat /\ n <= Len(inbox)
  BY <1>2
<1>4. b \in Seq(Nat) /\ b \o later = inbox /\ later \in Seq(Nat)
  BY <1>2, <1>3, Joined, SubSeqIs
<1> HIDE DEF b, later
<1>5. Sound(w)
  BY <1>2, <1>4, ChunkSound
<1>6. w \in Wsd /\ w.did \in Seq(Event)
  <2>1. w \in Wsd
    BY <1>5 DEF Sound
  <2> HIDE DEF w
  <2>2. QED
    BY <2>1, Fields
<1>7. e \in Event /\ e.what = "close" /\ Heard(e) = [what |-> "close", data |-> <<1008>>]
  <2>1. Written(CLOSE, <<1008>>) \in Seq(Nat)
    <3> DEFINE d == <<1008>>
    <3>1. d \in Seq(Nat) /\ CLOSE \in Nat
      BY DEF CLOSE
    <3> HIDE DEF d
    <3>2. Written(CLOSE, d) \in Seq(Nat)
      BY <3>1, WrittenIs
    <3>3. QED
      BY <3>2 DEF d
  <2>2. e \in Event
    BY <2>1 DEF Event
  <2>3. QED
    BY <2>2, HeardClose
<1>8. told.did = IF w.err = "none" THEN w.did ELSE Append(w.did, e)
  <2> HIDE DEF w, e
  <2>1. Did(w, "close", Written(CLOSE, <<1008>>)).did = Append(w.did, e)
    BY <1>6 DEF Did, e, Wsd
  <2>2. QED
    BY <2>1, ZenonT(40)
<1> HIDE DEF w, e, told
<1>9. /\ Sound(v) /\ v.did = << >> /\ v.err = "none"
      /\ \A s, i, k, past : At(w, s, i, k, past) =>
            (Told((past \o w.did) \o << >>, s, i) => At(v, s, i, k, past \o w.did))
  BY <1>5, HandedOver
<1> HIDE DEF v
<1>10. told.did \in Seq(Event) /\ events \o told.did \in Seq(Event)
  <2>1. told.did \in Seq(Event)
    BY <1>6, <1>7, <1>8
  <2>2. QED
    BY <1>2, <2>1
<1>11. ASSUME asked PROVE \E i \in Nat : Closed(frames, events \o told.did, i)
  <2>1. PICK i \in Nat : Closed(frames, events, i)
    BY <1>11 DEF FrameInv
  <2>2. QED
    BY <1>2, <1>10, <2>1, ClosedStays
<1>12. ASSUME ~asked PROVE Reading(w, << >>, frames, events, later)
  <2>1. PICK i \in Nat, k \in Nat : /\ At(wsd, frames, i, k, events) /\ Len(frames) <= i + 2
                                    /\ inbox = Rest(frames, i, k)
    BY <1>12 DEF FrameInv
  <2>2. b \o later = Rest(frames, i, k)
    BY <1>4, <2>1
  <2>3. Reading(wsd, b, frames, events, later)
    BY <1>2, <2>1, <2>2 DEF Reading
  <2>4. QED
    BY <1>2, <1>4, <2>3, ChunkFrames DEF w
<1>13. ASSUME ~asked, w.err = "none"
       PROVE  \E i, k \in Nat : /\ At(v, frames, i, k, events \o told.did) /\ Len(frames) <= i + 2
                                /\ later = Rest(frames, i, k)
  <2>1. PICK i \in Nat, k \in Nat : /\ At(w, frames, i, k, events) /\ Len(frames) <= i + 2
                                    /\ << >> \o later = Rest(frames, i, k)
    BY <1>12, <1>13 DEF Reading
  <2>2. << >> \o later = later
    BY <1>4
  <2>3. (events \o w.did) \o << >> = events \o w.did
    BY <1>8, <1>10, <1>13
  <2>4. Told(events \o w.did, frames, i)
    BY <2>1 DEF At
  <2>5. At(v, frames, i, k, events \o w.did)
    BY <1>9, <2>1, <2>3, <2>4
  <2>6. QED
    BY <1>8, <1>13, <2>1, <2>2, <2>5
<1>14. ASSUME ~asked, w.err # "none"
       PROVE  \E i \in Nat : Closed(frames, events \o told.did, i)
  <2>1. PICK i \in Nat : i < Len(frames) /\ ~Accepted(frames, i + 1) /\ Told(events \o w.did, frames, i)
    BY <1>12, <1>14 DEF Reading
  <2> DEFINE a == events \o w.did
             t == Append(a, e)
  <2>2. events \o told.did = t
    BY <1>2, <1>6, <1>7, <1>8, <1>14, AppendLast
  <2>3. a \in Seq(Event)
    BY <1>2, <1>6
  <2> HIDE DEF a
  <2>4. Len(a) \in Nat /\ Len(t) = Len(a) + 1 /\ t[Len(a) + 1] = e /\ SubSeq(t, 1, Len(a)) = a
    <3>1. Len(a) \in Nat /\ Len(t) = Len(a) + 1 /\ t[Len(a) + 1] = e
          /\ \A j \in 1..Len(a) : t[j] = a[j]
      BY <1>7, <2>3
    <3>2. t \in Seq(Event)
      BY <1>7, <2>3
    <3> HIDE DEF t
    <3>3. SubSeq(t, 1, Len(a)) = [j \in 1..Len(a) |-> t[j]] /\ a = [j \in 1..Len(a) |-> a[j]]
      BY <2>3, <3>1, <3>2
    <3>4. QED
      BY <3>1, <3>3
  <2> HIDE DEF t
  <2> DEFINE m == Len(a) + 1
  <2>5. m \in 1..Len(t) /\ m - 1 = Len(a) /\ t[m] = e
    BY <2>4
  <2>6. Told(SubSeq(t, 1, m - 1), frames, i)
    BY <2>1, <2>4, <2>5 DEF a
  <2> HIDE DEF m
  <2>7. Closed(frames, t, i)
    BY <1>7, <2>1, <2>5, <2>6 DEF Closed
  <2>8. QED
    BY <2>2, <2>7
<1>15. asked' \in BOOLEAN
  BY <1>1, <1>2
<1>16. ASSUME ~asked'
       PROVE  (\E i, k \in Nat : At(wsd, frames, i, k, events) /\ Len(frames) <= i + 2
                                 /\ inbox = Rest(frames, i, k))'
  BY <1>1, <1>13, <1>16
<1>17. ASSUME asked'
       PROVE  (\E i \in Nat : Closed(frames, events, i))'
  <2>1. \E i \in Nat : Closed(frames, events \o told.did, i)
    BY <1>1, <1>11, <1>14, <1>17
  <2>2. QED
    BY <1>1, <2>1
<1>18. /\ frames' \in Seq(Frame) /\ events' \in Seq(Event) /\ inbox' \in Seq(Nat)
       /\ Sound(wsd') /\ wsd'.did = << >> /\ wsd'.err = "none"
  BY <1>1, <1>2, <1>4, <1>9, <1>10
<1>19. QED
  BY <1>15, <1>16, <1>17, <1>18 DEF FrameInv

\* No step breaks the invariant.
LEMMA NextFrameInv == FrameInv /\ [WebsocketNext]_websocket => FrameInv'
<1> SUFFICES ASSUME FrameInv, [WebsocketNext]_websocket PROVE FrameInv'
  OBVIOUS
<1>1. CASE UNCHANGED websocket
  <2>1. wsd' = wsd /\ inbox' = inbox /\ asked' = asked /\ frames' = frames /\ events' = events
    BY <1>1 DEF websocket
  <2>2. QED
    BY <2>1 DEF FrameInv
<1>2. ASSUME NEW f \in Frame, Send(f) PROVE FrameInv'
  BY <1>2, SendFrame
<1>3. ASSUME NEW n \in 1..Len(inbox), WsRead(n) PROVE FrameInv'
  BY <1>3, ReadFrame
<1>4. QED
  BY <1>1, <1>2, <1>3 DEF WebsocketNext

\* The lowest number of a set.
LEMMA LowestIs ==
    ASSUME NEW S, NEW m \in S, S \in SUBSET Nat, \A j \in S : m <= j
    PROVE  Min(S) = m
<1>1. Min(S) \in S /\ \A j \in S : Min(S) <= j
  <2> DEFINE c == CHOOSE x \in S : \A y \in S : x <= y
  <2>1. c \in S /\ \A y \in S : c <= y
    OBVIOUS
  <2>2. Min(S) = c
    BY DEF Min
  <2> HIDE DEF c
  <2>3. QED
    BY <2>1, <2>2
<1>2. m \in Nat /\ Min(S) \in Nat /\ m <= Min(S) /\ Min(S) <= m
  BY <1>1
<1>3. QED
  BY <1>2

\* With nothing left to be read, it is what the browser was promised.
LEMMA FrameInvAnswers == FrameInv => EveryFrameAnswered
<1> SUFFICES ASSUME FrameInv, inbox = << >>
             PROVE  LET bad == {i \in DOMAIN frames : ~Accepted(frames, i)}
                        last == IF bad = {} THEN Len(frames) ELSE Min(bad)
                        ends == {k \in DOMAIN events : events[k].what = "close"}
                        heard == IF ends = {} THEN events ELSE SubSeq(events, 1, Min(ends))
                    IN Answers(frames, last) = HeardAll(heard)
  BY DEF EveryFrameAnswered, Answers, HeardAll
<1> DEFINE bad == {i \in DOMAIN frames : ~Accepted(frames, i)}
           last == IF bad = {} THEN Len(frames) ELSE Min(bad)
           ends == {k \in DOMAIN events : events[k].what = "close"}
           heard == IF ends = {} THEN events ELSE SubSeq(events, 1, Min(ends))
           Goal == Answers(frames, last) = HeardAll(heard)
<1>1. /\ frames \in Seq(Frame) /\ events \in Seq(Event) /\ asked \in BOOLEAN
      /\ wsd.did = << >>
  BY DEF FrameInv
<1>2. /\ Len(frames) \in Nat /\ DOMAIN frames = 1..Len(frames)
      /\ Len(events) \in Nat /\ DOMAIN events = 1..Len(events)
  BY <1>1
<1>3. ASSUME ~asked PROVE Goal
  <2>1. PICK i \in Nat, k \in Nat : /\ At(wsd, frames, i, k, events) /\ Len(frames) <= i + 2
                                    /\ << >> = Rest(frames, i, k)
    BY <1>3 DEF FrameInv
  <2>2. i = Len(frames)
    <3>1. SUFFICES ASSUME i # Len(frames) PROVE FALSE
      OBVIOUS
    <3>2. i < Len(frames) /\ k < Len(Bytes(frames[i + 1]))
      <4>1. i <= Len(frames) /\ (i # Len(frames) => k < Len(Bytes(frames[i + 1])))
        BY <2>1 DEF At
      <4>2. i < Len(frames)
        <5>1. i \in Nat /\ i <= Len(frames) /\ Len(frames) \in Nat
          BY <1>2, <4>1
        <5>2. QED
          BY <3>1, <5>1, SMTT(40)
      <4>3. QED
        BY <3>1, <4>1, <4>2
    <3>3. Rest(frames, i, k) # << >>
      BY <1>1, <2>1, <3>2, RestIs
    <3>4. QED
      BY <2>1, <3>3
  <2>3. Told(events, frames, i)
    <3>1. events \o << >> = events
      BY <1>1
    <3>2. QED
      BY <1>1, <2>1, <3>1 DEF At
  <2>4. bad = {} /\ ends = {}
    BY <1>2, <2>2, <2>3 DEF Told
  <2> HIDE DEF bad, ends
  <2>5. last = i /\ heard = events
    BY <2>2, <2>4
  <2> HIDE DEF last, heard
  <2>6. QED
    BY <2>3, <2>5 DEF Told
<1>4. ASSUME asked PROVE Goal
  <2>1. PICK i \in Nat : Closed(frames, events, i)
    BY <1>4 DEF FrameInv
  <2>2. i < Len(frames) /\ ~Accepted(frames, i + 1)
    BY <2>1 DEF Closed
  <2>3. PICK m \in 1..Len(events) :
          /\ Told(SubSeq(events, 1, m - 1), frames, i)
          /\ events[m].what = "close" /\ Heard(events[m]) = [what |-> "close", data |-> <<1008>>]
    BY <2>1 DEF Closed
  <2> DEFINE a == SubSeq(events, 1, m - 1)
             z == SubSeq(events, 1, m)
             n == i + 1
  <2>4. m \in Nat /\ m - 1 \in Nat /\ m <= Len(events) /\ n \in Nat /\ n \in 1..Len(frames)
    BY <1>2, <2>2
  <2>5. a \in Seq(Event) /\ Len(a) = m - 1 /\ \A j \in 1..m - 1 : a[j] = events[j]
    <3>1. a = [j \in 1..m - 1 |-> events[j]] /\ \A j \in 1..m - 1 : events[j] \in Event
      BY <1>1, <1>2, <2>4
    <3>2. a \in [1..m - 1 -> Event] /\ \A j \in 1..m - 1 : a[j] = events[j]
      BY <3>1
    <3> HIDE DEF a
    <3>3. QED
      BY <2>4, <3>2
  <2>6. z = Append(a, events[m]) /\ events[m] \in Event
    <3>1. z = [j \in 1..m |-> events[j]] /\ \A j \in 1..m : events[j] \in Event
      BY <1>1, <1>2, <2>4
    <3>2. z \in [1..m -> Event] /\ \A j \in 1..m : z[j] = events[j]
      BY <3>1
    <3> HIDE DEF z, a
    <3>3. z \in Seq(Event) /\ Len(z) = m
      BY <2>4, <3>2
    <3>4. m \in 1..m /\ events[m] \in Event
      BY <2>4, <3>1
    <3> DEFINE y == Append(a, events[m])
    <3>5. /\ y \in Seq(Event) /\ Len(y) = m /\ y[m] = events[m]
          /\ \A j \in 1..m - 1 : y[j] = a[j]
      <4>1. y \in Seq(Event) /\ Len(y) = Len(a) + 1 /\ y[Len(a) + 1] = events[m]
            /\ \A j \in 1..Len(a) : y[j] = a[j]
        BY <2>5, <3>4
      <4>2. Len(a) + 1 = m /\ Len(a) = m - 1
        BY <2>4, <2>5
      <4> HIDE DEF y
      <4>3. QED
        BY <4>1, <4>2
    <3> HIDE DEF y
    <3>6. \A j \in 1..m : z[j] = y[j]
      <4>1. \A j \in 1..m : j = m \/ j \in 1..m - 1
        BY <2>4
      <4>2. QED
        BY <2>5, <3>2, <3>5, <4>1
    <3>7. z = y
      BY <3>3, <3>5, <3>6, SeqEqual
    <3>8. QED
      BY <3>4, <3>7 DEF y
  <2>7. Told(a, frames, i)
    BY <2>3
  <2>8. last = n
    <3>1. n \in bad
      BY <1>2, <2>2, <2>4
    <3>2. \A j \in bad : n <= j
      <4>1. \A j \in 1..i : Accepted(frames, j)
        BY <2>7 DEF Told
      <4>2. QED
        BY <1>2, <4>1
    <3>3. bad \in SUBSET Nat
      BY <1>2
    <3> HIDE DEF bad, n
    <3>4. Min(bad) = n
      BY <3>1, <3>2, <3>3, LowestIs
    <3>5. QED
      BY <3>1, <3>4
  <2>9. heard = z
    <3>1. m \in ends
      BY <1>2, <2>3
    <3>2. \A j \in ends : m <= j
      <4>1. ASSUME NEW j \in ends, ~(m <= j) PROVE FALSE
        <5>1. j \in 1..m - 1 /\ events[j].what = "close"
          BY <1>2, <2>4, <4>1
        <5>2. a[j].what # "close"
          BY <2>5, <2>7, <5>1 DEF Told
        <5>3. QED
          BY <2>5, <5>1, <5>2
      <4>2. QED
        BY <4>1
    <3>3. ends \in SUBSET Nat
      BY <1>2
    <3> HIDE DEF ends
    <3>4. Min(ends) = m
      BY <3>1, <3>2, <3>3, LowestIs
    <3>5. QED
      BY <3>1, <3>4
  <2> HIDE DEF last, heard, bad, ends, a, z
  <2>10. Answers(frames, n) = Answers(frames, i) \o Answer(frames, n)
    BY AnswersMore
  <2>11. Answer(frames, n) = <<[what |-> "close", data |-> <<1008>>]>>
    BY <2>2 DEF Answer
  <2>12. HeardAll(z) = HeardAll(a) \o <<Heard(events[m])>>
    BY <2>5, <2>6, HeardAppend
  <2>13. HeardAll(a) = Answers(frames, i)
    BY <2>7 DEF Told
  <2>14. HeardAll(z) = Answers(frames, n)
    BY <2>3, <2>10, <2>11, <2>12, <2>13, ZenonT(40)
  <2>15. QED
    BY <2>8, <2>9, <2>14
<1>5. Goal
  BY <1>1, <1>3, <1>4
<1>6. QED
  BY <1>5

\* Once all that was sent is read, the child has handed over exactly the
\* messages of the browser, whole and in order, answered every ping, and started
\* to close at the first frame it does not accept: for frames of any number and
\* any lengths of 16 bits, any limit of a message below that, and reads cut
\* anywhere (websocket_data.c:118-291).
THEOREM FramesAnswered == WebsocketSpec => []EveryFrameAnswered
<1>1. WebsocketInit => FrameInv
  BY InitFrame
<1>2. FrameInv /\ [WebsocketNext]_websocket => FrameInv'
  BY NextFrameInv
<1>3. FrameInv => EveryFrameAnswered
  BY FrameInvAnswers
<1>4. QED
  BY <1>1, <1>2, <1>3, PTL DEF WebsocketSpec

-----------------------------------------------------------------------------
(* Drawing: pictures                                                       *)

Sprite == [x : Int, y : Int, angle : Nat, color : Nat]
Canvas ==
    [seconds : Int, buttons : SUBSET {"start", "end"}, bank : Nat, orig : Int \X Int,
     start : [1..2 -> Int], fixed : [1..Cells -> Nat], floating : Seq(Sprite), changed : BOOLEAN]

\* Where the grid begins for an origin.
StartOf(o) == [i \in 1..2 |-> o[i] - (o[i] % Mod)]

\* A canvas whose grid is that of its origin.
Gridded(c) == c \in Canvas /\ c.start = StartOf(c.orig)

\* The same is drawn on both.
SamePicture(c, d) ==
    /\ c.bank = d.bank /\ c.orig = d.orig /\ c.start = d.start
    /\ c.fixed = d.fixed /\ c.floating = d.floating

\* Nothing is drawn yet.
Cleared(c) == DrawSetOrigin(DrawSetBank(DrawClear(c), scene.bank), scene.origin)

\* The canvas before and after each item.
ItemByItem(h, c) ==
    h = [k \in 0..Len(scene.items) |->
            IF k = 0 THEN Cleared(c) ELSE DrawItem(h[k - 1], scene.items[k])]

\* The canvases while it is drawn exist.
LEMMA DrawingExists ==
    ASSUME NEW c, Len(scene.items) \in Nat
    PROVE  \E h : ItemByItem(h, c)
<1> DEFINE n == Len(scene.items)
           Rule(h, i) == IF i = 0 THEN Cleared(c) ELSE DrawItem(h[i - 1], scene.items[i])
           Q(h, k) == h = [i \in 0..k |-> Rule(h, i)]
           P(k) == \E h : Q(h, k)
           S == {k \in Nat : ~P(k)}
<1>1. ASSUME NEW k \in Nat PROVE P(k)
  <2>1. SUFFICES ASSUME S # {} PROVE FALSE
    BY <2>1
  <2>2. PICK m \in S : \A g \in S : m <= g
    <3>1. S \in SUBSET Nat
      OBVIOUS
    <3> HIDE DEF S
    <3>2. QED
      BY <2>1, <3>1, LowestNumber
  <2>3. m \in Nat /\ ~P(m)
    BY <2>2
  <2>4. m # 0
    <3> DEFINE h0 == [i \in 0..0 |-> Cleared(c)]
    <3>1. h0 = [i \in 0..0 |-> Rule(h0, i)]
      OBVIOUS
    <3> HIDE DEF h0
    <3>3. P(0)
      BY <3>1
    <3>4. QED
      BY <2>3, <3>3
  <2>5. m - 1 \in Nat /\ P(m - 1)
    <3>1. m - 1 \in Nat /\ ~(m <= m - 1)
      BY <2>3, <2>4
    <3>2. m - 1 \notin S
      BY <2>2, <3>1
    <3>3. QED
      BY <3>1, <3>2
  <2>6. PICK g : Q(g, m - 1)
    BY <2>5
  <2> DEFINE h1 == [i \in 0..m |-> IF i = m THEN DrawItem(g[m - 1], scene.items[m]) ELSE g[i]]
  <2>7. ASSUME NEW i \in 0..m
        PROVE  h1[i] = Rule(h1, i)
    <3>1. CASE i = m
      <4>1. h1[i] = DrawItem(g[m - 1], scene.items[m]) /\ h1[m - 1] = g[m - 1]
        BY <2>5, <3>1
      <4> HIDE DEF h1
      <4>2. QED
        BY <2>4, <3>1, <4>1
    <3>2. CASE i # m
      <4>1. i \in 0..m - 1
        BY <2>3, <3>2
      <4>2. h1[i] = g[i]
        BY <3>2
      <4>3. g[i] = Rule(g, i)
        <5> HIDE DEF h1, Rule
        <5>1. QED
          BY <2>6, <4>1
      <4>4. i # 0 => h1[i - 1] = g[i - 1]
        BY <2>3, <4>1
      <4> HIDE DEF h1
      <4>5. QED
        BY <4>2, <4>3, <4>4
    <3>3. QED
      BY <3>1, <3>2
  <2>8. h1 = [i \in 0..m |-> h1[i]]
    OBVIOUS
  <2> HIDE DEF h1, Rule
  <2>9. h1 = [i \in 0..m |-> Rule(h1, i)]
    BY <2>7, <2>8
  <2>10. P(m)
    BY <2>9
  <2>11. QED
    BY <2>3, <2>10
<1>2. P(n)
  <2> HIDE DEF P
  <2>1. QED
    BY <1>1
<1>3. QED
  BY <1>2 DEF ItemByItem

\* What a scene is.
LEMMA SceneIs ==
    ASSUME scene \in Scenes
    PROVE  /\ scene.origin \in Int \X Int /\ scene.bank \in Nat
           /\ scene.items \in Seq(Sprite) /\ Len(scene.items) \in Nat
<1>1. scene \in [origin : Int \X Int, bank : Nat, items : Seq(Sprite)]
  BY DrawAssumption DEF DrawAssumption, Sprite
<1>2. scene.items \in Seq(Sprite)
  BY <1>1
<1>3. QED
  BY <1>1, <1>2

\* The grid begins somewhere.
LEMMA StartIs ==
    ASSUME NEW o \in Int \X Int
    PROVE  StartOf(o) \in [1..2 -> Int]
<1>1. Mod \in Int /\ Mod > 0
  BY DrawAssumption DEF DrawAssumption
<1>2. \A i \in 1..2 : o[i] \in Int
  OBVIOUS
<1>3. \A a \in Int : a - (a % Mod) \in Int
  BY <1>1
<1>4. QED
  BY <1>2, <1>3 DEF StartOf

\* One field at a time.
LEMMA CanvasFields ==
    ASSUME NEW c \in Canvas
    PROVE  /\ c.seconds \in Int /\ c.buttons \in SUBSET {"start", "end"} /\ c.bank \in Nat
           /\ c.orig \in Int \X Int /\ c.start \in [1..2 -> Int] /\ c.fixed \in [1..Cells -> Nat]
           /\ c.floating \in Seq(Sprite) /\ c.changed \in BOOLEAN
BY DEF Canvas

\* Two canvases with the same fields.
LEMMA SameCanvas ==
    ASSUME NEW c \in Canvas, NEW d \in Canvas, SamePicture(c, d), c.seconds = d.seconds,
           c.buttons = d.buttons, c.changed = d.changed
    PROVE  c = d
<1>1. /\ c.bank = d.bank /\ c.orig = d.orig /\ c.start = d.start
      /\ c.fixed = d.fixed /\ c.floating = d.floating
  BY DEF SamePicture
<1>2. ASSUME NEW e \in Canvas
      PROVE  e = [seconds |-> e.seconds, buttons |-> e.buttons, bank |-> e.bank,
                  orig |-> e.orig, start |-> e.start, fixed |-> e.fixed,
                  floating |-> e.floating, changed |-> e.changed]
  BY DEF Canvas
<1>3. QED
  <2>1. c = [seconds |-> d.seconds, buttons |-> d.buttons, bank |-> d.bank,
             orig |-> d.orig, start |-> d.start, fixed |-> d.fixed,
             floating |-> d.floating, changed |-> d.changed]
    BY <1>1, <1>2
  <2>2. QED
    BY <1>2, <2>1

\* What the canvas is after an assignment to a field.
LEMMA CanvasSetting ==
    ASSUME NEW c \in Canvas
    PROVE  /\ \A v \in Int : /\ [c EXCEPT !.seconds = v, !.changed = TRUE] \in Canvas
                             /\ SamePicture([c EXCEPT !.seconds = v, !.changed = TRUE], c)
           /\ \A v \in SUBSET {"start", "end"} :
                 /\ [c EXCEPT !.buttons = v, !.changed = TRUE] \in Canvas
                 /\ SamePicture([c EXCEPT !.buttons = v, !.changed = TRUE], c)
           /\ \A v \in BOOLEAN : /\ [c EXCEPT !.changed = v] \in Canvas
                                 /\ SamePicture([c EXCEPT !.changed = v], c)
BY DEF Canvas, SamePicture

\* Where drawing starts: of what was there before, only the time and the buttons
\* are left.
LEMMA CanvasCleared ==
    ASSUME NEW c, Gridded(c), scene \in Scenes
    PROVE  LET b == Cleared(c)
           IN /\ Gridded(b) /\ b.seconds = c.seconds /\ b.buttons = c.buttons
              /\ b.changed = TRUE /\ b.bank = scene.bank /\ b.orig = scene.origin
              /\ b.fixed = [i \in 1..Cells |-> 0] /\ b.floating = << >>
<1> DEFINE z == [i \in 1..Cells |-> 0]
           d == DrawClear(c)
           e == DrawSetBank(d, scene.bank)
           b == DrawSetOrigin(e, scene.origin)
<1>1. z \in [1..Cells -> Nat] /\ << >> \in Seq(Sprite)
  OBVIOUS
<1> HIDE DEF z
<1>2. d = [c EXCEPT !.fixed = z, !.floating = << >>, !.changed = TRUE]
  BY DEF DrawClear, z
<1>3. /\ d \in Canvas /\ d.seconds = c.seconds /\ d.buttons = c.buttons /\ d.changed = TRUE
      /\ d.orig = c.orig /\ d.start = c.start /\ d.fixed = z /\ d.floating = << >>
  BY <1>1, <1>2 DEF Gridded, Canvas
<1> HIDE DEF d
<1>4. e = [d EXCEPT !.bank = scene.bank, !.changed = TRUE]
  BY DEF DrawSetBank
<1>5. /\ e \in Canvas /\ e.seconds = c.seconds /\ e.buttons = c.buttons /\ e.changed = TRUE
      /\ e.bank = scene.bank
      /\ e.orig = c.orig /\ e.start = c.start /\ e.fixed = z /\ e.floating = << >>
  BY <1>3, <1>4, SceneIs DEF Canvas
<1> HIDE DEF e
<1>6. CASE scene.origin = c.orig
  BY <1>5, <1>6 DEF DrawSetOrigin, Gridded, Cleared, z, e, d
<1>7. CASE scene.origin # c.orig
  <2>1. b = [e EXCEPT !.orig = scene.origin, !.start = StartOf(scene.origin), !.changed = TRUE]
    BY <1>5, <1>7 DEF DrawSetOrigin, StartOf
  <2>2. StartOf(scene.origin) \in [1..2 -> Int]
    BY SceneIs, StartIs
  <2> HIDE DEF b
  <2>3. /\ b \in Canvas /\ b.seconds = c.seconds /\ b.buttons = c.buttons /\ b.changed = TRUE
        /\ b.bank = scene.bank /\ b.orig = scene.origin /\ b.start = StartOf(scene.origin)
        /\ b.fixed = z /\ b.floating = << >>
    BY <1>5, <2>1, <2>2, SceneIs DEF Canvas
  <2>4. QED
    BY <2>3 DEF Gridded, Cleared, z, b, e, d
<1>8. QED
  BY <1>6, <1>7

\* Drawing a level goes from one item to the next.
LEMMA RedrawIs ==
    ASSUME NEW c, Len(scene.items) \in Nat
    PROVE  \E h : ItemByItem(h, c) /\ Redraw(c) = h[Len(scene.items)]
<1> DEFINE h == CHOOSE h : ItemByItem(h, c)
<1>1. ItemByItem(h, c)
  BY DrawingExists
<1>2. Redraw(c) = h[Len(scene.items)]
  BY DEF Redraw, ItemByItem, Cleared
<1> HIDE DEF h
<1>3. QED
  BY <1>1, <1>2

\* A canvas of the scene being drawn.
OnCanvas(x, c) ==
    /\ Gridded(x) /\ x.changed = TRUE /\ x.seconds = c.seconds /\ x.buttons = c.buttons
    /\ x.bank = scene.bank /\ x.orig = scene.origin

\* An item changes only what is drawn, and depends on nothing else.
LEMMA ItemDrawn ==
    ASSUME NEW x, NEW y, NEW c, NEW d, OnCanvas(x, c), OnCanvas(y, d), SamePicture(x, y),
           NEW item \in Sprite, scene \in Scenes
    PROVE  /\ OnCanvas(DrawItem(x, item), c) /\ OnCanvas(DrawItem(y, item), d)
           /\ SamePicture(DrawItem(x, item), DrawItem(y, item))
<1> DEFINE o == scene.origin
           u == item.x - StartOf(o)[1]
           v == item.y - StartOf(o)[2]
           tile == u % Mod = 0 /\ v % Mod = 0 /\ item.angle = 0
           cell == (v \div Mod) * Columns + (u \div Mod) + 1
           p == [x |-> u + Mod, y |-> v + Mod, angle |-> item.angle \div 3, color |-> item.color]
           Put(w) == [w EXCEPT !.fixed[cell] = item.color, !.changed = TRUE]
           Add(w) == [w EXCEPT !.floating = Append(@, p), !.changed = TRUE]
           Same(a, b) == OnCanvas(a, c) /\ OnCanvas(b, d) /\ SamePicture(a, b)
<1>1. ASSUME NEW w, w.orig = o, w.start = StartOf(o)
      PROVE  DrawItem(w, item) = CASE ~Visible(item, o) -> w
                                   [] Visible(item, o) /\ tile -> Put(w)
                                   [] OTHER -> Add(w)
  BY <1>1 DEF DrawItem
<1>2. p \in Sprite /\ item.color \in Nat
  <2>1. /\ item.x \in Int /\ item.y \in Int /\ item.angle \in Nat /\ item.color \in Nat
        /\ Mod \in Nat
    BY DrawAssumption DEF Sprite, DrawAssumption
  <2>2. StartOf(o) \in [1..2 -> Int]
    BY SceneIs, StartIs
  <2>3. StartOf(o)[1] \in Int /\ StartOf(o)[2] \in Int
    BY <2>2
  <2> HIDE DEF o
  <2>4. u + Mod \in Int /\ v + Mod \in Int
    BY <2>1, <2>3
  <2>5. item.angle \div 3 \in Nat
    BY <2>1
  <2>6. QED
    BY <2>1, <2>4, <2>5 DEF Sprite
<1> HIDE DEF tile, p, cell, o
<1>3. ASSUME NEW w, NEW e, OnCanvas(w, e)
      PROVE  /\ OnCanvas(Put(w), e) /\ Put(w).bank = w.bank /\ Put(w).orig = w.orig
             /\ Put(w).start = w.start /\ Put(w).floating = w.floating
             /\ Put(w).fixed = [w.fixed EXCEPT ![cell] = item.color]
  <2> DEFINE g == [w.fixed EXCEPT ![cell] = item.color]
  <2>1. w \in Canvas
    BY <1>3 DEF OnCanvas, Gridded
  <2>2. g \in [1..Cells -> Nat]
    BY <1>2, <2>1 DEF Canvas
  <2>3. Put(w) = [w EXCEPT !.fixed = g, !.changed = TRUE]
    BY <2>1 DEF Canvas
  <2> HIDE DEF g, Put
  <2>4. /\ Put(w) \in Canvas /\ Put(w).seconds = w.seconds /\ Put(w).buttons = w.buttons
        /\ Put(w).changed = TRUE /\ Put(w).bank = w.bank /\ Put(w).orig = w.orig
        /\ Put(w).start = w.start /\ Put(w).floating = w.floating /\ Put(w).fixed = g
    BY <2>1, <2>2, <2>3 DEF Canvas
  <2>5. QED
    BY <1>3, <2>4 DEF OnCanvas, Gridded, g
<1>4. ASSUME NEW w, NEW e, OnCanvas(w, e)
      PROVE  /\ OnCanvas(Add(w), e) /\ Add(w).bank = w.bank /\ Add(w).orig = w.orig
             /\ Add(w).start = w.start /\ Add(w).fixed = w.fixed
             /\ Add(w).floating = Append(w.floating, p)
  <2> DEFINE l == Append(w.floating, p)
  <2>1. w \in Canvas
    BY <1>4 DEF OnCanvas, Gridded
  <2>2. l \in Seq(Sprite)
    BY <1>2, <2>1 DEF Canvas
  <2>3. Add(w) = [w EXCEPT !.floating = l, !.changed = TRUE]
    OBVIOUS
  <2> HIDE DEF l, Add
  <2>4. /\ Add(w) \in Canvas /\ Add(w).seconds = w.seconds /\ Add(w).buttons = w.buttons
        /\ Add(w).changed = TRUE /\ Add(w).bank = w.bank /\ Add(w).orig = w.orig
        /\ Add(w).start = w.start /\ Add(w).fixed = w.fixed /\ Add(w).floating = l
    BY <2>1, <2>2, <2>3 DEF Canvas
  <2>5. QED
    BY <1>4, <2>4 DEF OnCanvas, Gridded, l
<1> HIDE DEF Put, Add
<1>5. Same(Put(x), Put(y)) /\ Same(Add(x), Add(y))
  <2>1. /\ x.bank = y.bank /\ x.orig = y.orig /\ x.start = y.start
        /\ x.fixed = y.fixed /\ x.floating = y.floating
    BY DEF SamePicture
  <2>2. OnCanvas(Put(x), c) /\ OnCanvas(Put(y), d) /\ OnCanvas(Add(x), c) /\ OnCanvas(Add(y), d)
    BY <1>3, <1>4
  <2>3. SamePicture(Put(x), Put(y))
    <3>1. /\ Put(x).bank = x.bank /\ Put(x).orig = x.orig /\ Put(x).start = x.start
          /\ Put(x).floating = x.floating /\ Put(x).fixed = [x.fixed EXCEPT ![cell] = item.color]
      BY <1>3
    <3>2. /\ Put(y).bank = y.bank /\ Put(y).orig = y.orig /\ Put(y).start = y.start
          /\ Put(y).floating = y.floating /\ Put(y).fixed = [y.fixed EXCEPT ![cell] = item.color]
      BY <1>3
    <3>3. QED
      BY <2>1, <3>1, <3>2 DEF SamePicture
  <2>4. SamePicture(Add(x), Add(y))
    BY <1>4, <2>1 DEF SamePicture
  <2>5. QED
    BY <2>2, <2>3, <2>4
<1>6. x.orig = o /\ x.start = StartOf(o) /\ y.orig = o /\ y.start = StartOf(o)
  BY DEF OnCanvas, Gridded, o
<1>7. Same(DrawItem(x, item), DrawItem(y, item))
  <2> HIDE DEF Same
  <2>1. CASE ~Visible(item, o)
    <3>1. DrawItem(x, item) = x /\ DrawItem(y, item) = y
      BY <1>1, <1>6, <2>1
    <3>2. QED
      BY <3>1 DEF Same
  <2>2. CASE Visible(item, o) /\ tile
    <3>1. DrawItem(x, item) = Put(x) /\ DrawItem(y, item) = Put(y)
      BY <1>1, <1>6, <2>2
    <3>2. QED
      BY <1>5, <3>1
  <2>3. CASE Visible(item, o) /\ ~tile
    <3>1. DrawItem(x, item) = Add(x) /\ DrawItem(y, item) = Add(y)
      BY <1>1, <1>6, <2>3
    <3>2. QED
      BY <1>5, <3>1
  <2>4. QED
    BY <2>1, <2>2, <2>3
<1>8. QED
  BY <1>7

\* What is drawn depends on the level only; time and buttons stay as they are.
LEMMA RedrawAlike ==
    ASSUME NEW c, Gridded(c), NEW d, Gridded(d), scene \in Scenes
    PROVE  /\ OnCanvas(Redraw(c), c) /\ OnCanvas(Redraw(d), d)
           /\ SamePicture(Redraw(c), Redraw(d))
<1> DEFINE n == Len(scene.items)
<1>1. n \in Nat /\ scene.items \in Seq(Sprite)
  BY SceneIs
<1>2. PICK h : ItemByItem(h, c) /\ Redraw(c) = h[n]
  BY <1>1, RedrawIs
<1>3. PICK g : ItemByItem(g, d) /\ Redraw(d) = g[n]
  BY <1>1, RedrawIs
<1> DEFINE Same(k) == OnCanvas(h[k], c) /\ OnCanvas(g[k], d) /\ SamePicture(h[k], g[k])
           S == {k \in 0..n : ~Same(k)}
<1>4. h[0] = Cleared(c) /\ g[0] = Cleared(d)
  BY <1>1, <1>2, <1>3 DEF ItemByItem
<1>5. ASSUME NEW k \in 0..n, k # 0
      PROVE  /\ h[k] = DrawItem(h[k - 1], scene.items[k]) /\ g[k] = DrawItem(g[k - 1], scene.items[k])
             /\ scene.items[k] \in Sprite
  <2>1. k \in 1..n
    BY <1>1, <1>5
  <2>2. scene.items[k] \in Sprite
    BY <1>1, <2>1
  <2>3. QED
    BY <1>2, <1>3, <1>5, <2>2 DEF ItemByItem
<1> HIDE DEF n
<1>6. SUFFICES ASSUME S # {} PROVE FALSE
  <2>1. n \in 0..n
    BY <1>1
  <2>2. QED
    BY <1>2, <1>3, <2>1
<1>7. PICK m \in S : \A j \in S : m <= j
  <2>1. S \in SUBSET Nat
    OBVIOUS
  <2> HIDE DEF S
  <2>2. QED
    BY <1>6, <2>1, LowestNumber
<1>8. m \in 0..n /\ ~Same(m)
  BY <1>7
<1>9. CASE m = 0
  <2>1. OnCanvas(Cleared(c), c) /\ OnCanvas(Cleared(d), d)
    BY CanvasCleared DEF OnCanvas
  <2>2. SamePicture(Cleared(c), Cleared(d))
    <3> DEFINE a == Cleared(c)
               b == Cleared(d)
    <3>1. /\ Gridded(a) /\ a.bank = scene.bank /\ a.orig = scene.origin
          /\ a.fixed = [i \in 1..Cells |-> 0] /\ a.floating = << >>
          /\ Gridded(b) /\ b.bank = scene.bank /\ b.orig = scene.origin
          /\ b.fixed = [i \in 1..Cells |-> 0] /\ b.floating = << >>
      BY CanvasCleared
    <3> HIDE DEF a, b
    <3>2. SamePicture(a, b)
      BY <3>1 DEF SamePicture, Gridded
    <3>3. QED
      BY <3>2 DEF a, b
  <2>3. QED
    BY <1>4, <1>8, <1>9, <2>1, <2>2
<1>10. CASE m # 0
  <2>1. m - 1 \in 0..n /\ ~(m <= m - 1)
    BY <1>1, <1>8, <1>10
  <2>2. Same(m - 1)
    BY <1>7, <2>1
  <2>3. Same(m)
    BY <1>5, <1>8, <1>10, <2>2, ItemDrawn
  <2>4. QED
    BY <1>8, <2>3
<1>11. QED
  BY <1>9, <1>10

-----------------------------------------------------------------------------
(* Drawing: nobody is left with an old picture                             *)

\* The messages of all who are connected are those of the canvas.
AllShown == \A b \in Browser : shown[b] # Away => shown[b] = Message(canvas)

\* Unless a redraw is due, the canvas shows the scene; unless something on it has
\* changed, everybody has it.
DrawInv ==
    /\ scene \in Scenes /\ Gridded(canvas) /\ started \in BOOLEAN /\ dirty \in BOOLEAN
    /\ shown = [b \in Browser |-> shown[b]]
    /\ dirty \/ canvas.changed \/ AllShown
    /\ ~started => canvas.changed
    /\ started => dirty \/ SamePicture(Redraw(canvas), canvas)

\* While nothing is marked as changed, whoever is connected has the message of the
\* canvas, and drawing the level again would change nothing on it.
NobodyIsLeft ==
    ~dirty /\ ~canvas.changed =>
        AllShown /\ Redraw(canvas) = [canvas EXCEPT !.changed = TRUE]

\* The canvas of a new child is empty.
LEMMA InitDraws == DrawInit => DrawInv
<1> SUFFICES ASSUME DrawInit PROVE DrawInv
  OBVIOUS
<1>1. /\ scene \in Scenes /\ started = FALSE /\ dirty = FALSE
      /\ shown = [b \in Browser |-> Away]
      /\ canvas = [seconds |-> -1, buttons |-> {}, bank |-> 0,
                   orig |-> <<0, 0>>, start |-> <<0, 0>>,
                   fixed |-> [i \in 1..Cells |-> 0], floating |-> << >>, changed |-> TRUE]
  BY DEF DrawInit
<1>2. <<0, 0>> = StartOf(<<0, 0>>)
  <2>1. 0 % Mod = 0
    BY DrawAssumption DEF DrawAssumption
  <2>2. QED
    BY <2>1 DEF StartOf
<1>3. canvas \in Canvas
  <2>1. << >> \in Seq(Sprite) /\ <<0, 0>> \in [1..2 -> Int] /\ <<0, 0>> \in Int \X Int
        /\ [i \in 1..Cells |-> 0] \in [1..Cells -> Nat]
    OBVIOUS
  <2>2. QED
    BY <1>1, <2>1 DEF Canvas
<1>4. canvas.start = StartOf(canvas.orig) /\ canvas.changed
  BY <1>1, <1>2
<1>5. QED
  BY <1>1, <1>3, <1>4 DEF DrawInv, Gridded

\* The scene has not changed: it is drawn as before.
LEMMA RedrawSame ==
    ASSUME scene' = scene, NEW d, canvas' = d
    PROVE  Redraw(canvas)' = Redraw(d)
BY DEF Redraw

\* A message is made of the canvas alone.
LEMMA MessageSame ==
    ASSUME NEW d, canvas' = d
    PROVE  Message(canvas)' = Message(d)
OBVIOUS

\* Time and buttons do not make a canvas old.
LEMMA PictureKept ==
    ASSUME NEW c, Gridded(c), NEW d, Gridded(d), SamePicture(c, d), scene \in Scenes,
           SamePicture(Redraw(c), c)
    PROVE  SamePicture(Redraw(d), d)
<1>1. SamePicture(Redraw(c), Redraw(d))
  BY RedrawAlike
<1>2. QED
  BY <1>1 DEF SamePicture

\* Time and buttons are drawn only where they are new.
LEMMA TimeDrawn ==
    ASSUME NEW c, Gridded(c), NEW s \in Int
    PROVE  LET d == DrawSeconds(c, s)
           IN Gridded(d) /\ SamePicture(c, d) /\ (d = c \/ d.changed = TRUE)
<1> DEFINE d == [c EXCEPT !.seconds = s, !.changed = TRUE]
<1>1. c \in Canvas /\ c.start = StartOf(c.orig)
  BY DEF Gridded
<1>2. d \in Canvas /\ d.changed = TRUE /\ SamePicture(c, d)
  BY <1>1 DEF Canvas, SamePicture
<1> HIDE DEF d
<1>3. Gridded(d)
  BY <1>1, <1>2 DEF Gridded, SamePicture
<1>4. DrawSeconds(c, s) = c \/ DrawSeconds(c, s) = d
  BY DEF DrawSeconds, d
<1>5. QED
  BY <1>2, <1>3, <1>4 DEF SamePicture

\* So are buttons.
LEMMA ButtonDrawn ==
    ASSUME NEW c, Gridded(c), NEW b \in {"start", "end"}, NEW on \in BOOLEAN
    PROVE  LET d == DrawButton(c, b, on)
           IN Gridded(d) /\ SamePicture(c, d) /\ (d = c \/ d.changed = TRUE)
<1> DEFINE v == IF on THEN c.buttons \cup {b} ELSE c.buttons \ {b}
           d == [c EXCEPT !.buttons = v, !.changed = TRUE]
<1>1. c \in Canvas /\ c.start = StartOf(c.orig)
  BY DEF Gridded
<1>2. v \in SUBSET {"start", "end"}
  BY <1>1 DEF Canvas
<1>3. DrawButton(c, b, on) = c \/ DrawButton(c, b, on) = d
  BY DEF DrawButton
<1> HIDE DEF v
<1>4. d \in Canvas /\ d.changed = TRUE /\ SamePicture(c, d)
  BY <1>1, <1>2 DEF Canvas, SamePicture
<1> HIDE DEF d
<1>5. Gridded(d)
  BY <1>1, <1>4 DEF Gridded, SamePicture
<1>6. QED
  BY <1>3, <1>4, <1>5 DEF SamePicture

\* No step leaves anybody behind.
LEMMA NextDraws == DrawInv /\ [DrawNext]_drawing => DrawInv'
<1> SUFFICES ASSUME DrawInv, [DrawNext]_drawing PROVE DrawInv'
  OBVIOUS
<1>1. /\ scene \in Scenes /\ Gridded(canvas) /\ started \in BOOLEAN /\ dirty \in BOOLEAN
      /\ shown = [b \in Browser |-> shown[b]]
      /\ dirty \/ canvas.changed \/ AllShown
      /\ ~started => canvas.changed
      /\ started => dirty \/ SamePicture(Redraw(canvas), canvas)
  BY DEF DrawInv
<1>2. CASE ProcessLevel
  <2>1. /\ started' = TRUE /\ dirty' = TRUE /\ scene' = scene /\ shown' = shown
        /\ canvas' = IF started THEN canvas ELSE DrawButton(canvas, "end", TRUE)
    BY <1>2 DEF ProcessLevel
  <2>2. Gridded(canvas')
    BY <1>1, <2>1, ButtonDrawn
  <2>3. QED
    BY <1>1, <2>1, <2>2 DEF DrawInv, Gridded
<1>3. ASSUME NEW s \in Scenes, LevelChanges(s) PROVE DrawInv'
  <2>1. started /\ scene' = s /\ dirty' = TRUE /\ UNCHANGED <<started, canvas, shown>>
    BY <1>3 DEF LevelChanges
  <2>2. QED
    BY <1>1, <2>1 DEF DrawInv, Gridded
<1>4. ASSUME NEW on \in BOOLEAN, HoldButton(on) PROVE DrawInv'
  <2> DEFINE d == DrawButton(canvas, "start", on)
  <2>1. started /\ canvas' = d /\ UNCHANGED <<scene, started, dirty, shown>>
    BY <1>4 DEF HoldButton
  <2>2. Gridded(d) /\ SamePicture(canvas, d) /\ (d = canvas \/ d.changed = TRUE)
    BY <1>1, ButtonDrawn
  <2> HIDE DEF d
  <2>3. dirty \/ SamePicture(Redraw(d), d)
    BY <1>1, <2>1, <2>2, PictureKept
  <2>4. Redraw(canvas)' = Redraw(d)
    BY <2>1, RedrawSame
  <2>5. d = canvas => AllShown' = AllShown
    BY <2>1 DEF AllShown
  <2>6. QED
    BY <1>1, <2>1, <2>2, <2>3, <2>4, <2>5 DEF DrawInv, Gridded, SamePicture
<1>5. ASSUME NEW b \in Browser, WebsocketAdd(b) PROVE DrawInv'
  <2>1. /\ shown' = [shown EXCEPT ![b] = << >>] /\ dirty' = TRUE
        /\ UNCHANGED <<scene, started, canvas>>
    BY <1>5 DEF WebsocketAdd
  <2>2. shown' = [a \in Browser |-> shown'[a]]
    BY <1>1, <2>1
  <2>3. QED
    BY <1>1, <2>1, <2>2 DEF DrawInv, Gridded
<1>6. ASSUME NEW b \in Browser, WebsocketFree(b) PROVE DrawInv'
  <2>1. shown' = [shown EXCEPT ![b] = Away] /\ UNCHANGED <<scene, started, canvas, dirty>>
    BY <1>6 DEF WebsocketFree
  <2>2. shown' = [a \in Browser |-> shown'[a]]
    BY <1>1, <2>1
  <2>3. AllShown => AllShown'
    BY <1>1, <2>1 DEF AllShown
  <2>4. Redraw(canvas)' = Redraw(canvas)
    BY <2>1, RedrawSame
  <2>5. QED
    BY <1>1, <2>1, <2>2, <2>3, <2>4 DEF DrawInv, Gridded, SamePicture
<1>7. ASSUME NEW left \in Left, PDraw(left) PROVE DrawInv'
  <2> DEFINE timed == DrawSeconds(canvas, left)
             drawn == IF dirty THEN Redraw(timed) ELSE timed
             connected == \E b \in Browser : shown[b] # Away
             still == [drawn EXCEPT !.changed = FALSE]
             m == Message(drawn)
  <2>1. /\ started /\ UNCHANGED <<scene, started>>
        /\ canvas' = IF connected THEN still ELSE timed
        /\ dirty' = (dirty /\ ~connected)
        /\ shown' = [b \in Browser |-> IF shown[b] # Away /\ drawn.changed THEN m ELSE shown[b]]
    BY <1>7 DEF PDraw
  <2>2. left \in Int
    BY DrawAssumption DEF DrawAssumption
  <2>3. Gridded(timed) /\ SamePicture(canvas, timed) /\ (timed = canvas \/ timed.changed = TRUE)
    BY <1>1, <2>2, TimeDrawn
  <2>4. Message(still) = m
    <3>1. Gridded(drawn)
      BY <1>1, <2>3, RedrawAlike DEF OnCanvas
    <3> HIDE DEF drawn
    <3>2. /\ still.seconds = drawn.seconds /\ still.buttons = drawn.buttons /\ still.bank = drawn.bank
          /\ still.orig = drawn.orig /\ still.start = drawn.start
          /\ still.fixed = drawn.fixed /\ still.floating = drawn.floating
      BY <3>1 DEF Gridded, Canvas
    <3> HIDE DEF still
    <3>3. QED
      BY <3>2 DEF Message
  <2> HIDE DEF timed
  <2>5. dirty \/ SamePicture(Redraw(timed), timed)
    BY <1>1, <2>1, <2>3, PictureKept
  <2>6. /\ Gridded(drawn) /\ SamePicture(Redraw(drawn), drawn)
        /\ dirty => drawn.changed = TRUE
    <3>1. CASE dirty
      <4>1. OnCanvas(Redraw(timed), timed)
        BY <1>1, <2>3, RedrawAlike
      <4>2. Gridded(Redraw(timed)) /\ Redraw(timed).changed = TRUE
        BY <4>1 DEF OnCanvas
      <4>3. SamePicture(Redraw(Redraw(timed)), Redraw(timed))
        BY <1>1, <2>3, <4>2, RedrawAlike
      <4>4. QED
        BY <3>1, <4>2, <4>3
    <3>2. CASE ~dirty
      BY <2>3, <2>5, <3>2
    <3>3. QED
      BY <1>1, <3>1, <3>2
  <2> HIDE DEF drawn
  <2>7. Gridded(still) /\ SamePicture(drawn, still)
    BY <2>6 DEF Gridded, Canvas, SamePicture
  <2>8. SamePicture(Redraw(still), still)
    BY <1>1, <2>6, <2>7, PictureKept
  <2>9. shown' = [b \in Browser |-> shown'[b]]
    BY <2>1
  <2> HIDE DEF m
  <2>10. CASE connected
    <3>1. canvas' = still /\ dirty' = FALSE
      BY <2>1, <2>10
    <3>2. Redraw(canvas)' = Redraw(still)
      BY <2>1, <3>1, RedrawSame
    <3>3. AllShown'
      <4>1. Message(canvas)' = m
        BY <2>4, <3>1, MessageSame
      <4>2. CASE drawn.changed
        BY <2>1, <4>1, <4>2 DEF AllShown
      <4>3. CASE ~drawn.changed
        <5>1. ~dirty /\ drawn = timed
          BY <1>1, <2>6, <4>3 DEF drawn
        <5>2. timed = canvas
          BY <2>3, <4>3, <5>1
        <5>3. AllShown /\ Message(canvas) = m
          BY <1>1, <4>3, <5>1, <5>2 DEF m
        <5>4. shown' = shown
          BY <1>1, <2>1, <4>3
        <5>5. QED
          BY <4>1, <5>3, <5>4 DEF AllShown
      <4>4. QED
        BY <4>2, <4>3
    <3> HIDE DEF still
    <3>4. QED
      BY <1>1, <2>1, <2>7, <2>8, <2>9, <3>1, <3>2, <3>3 DEF DrawInv, Gridded, SamePicture
  <2>11. CASE ~connected
    <3>1. canvas' = timed /\ dirty' = dirty /\ shown' = shown
      BY <1>1, <2>1, <2>11
    <3>2. Redraw(canvas)' = Redraw(timed)
      BY <2>1, <3>1, RedrawSame
    <3>3. AllShown'
      BY <2>11, <3>1 DEF AllShown
    <3>4. (dirty \/ SamePicture(Redraw(canvas), canvas))'
      BY <2>5, <3>1, <3>2 DEF SamePicture
    <3>5. Gridded(canvas)'
      BY <2>3, <3>1 DEF Gridded
    <3>6. QED
      BY <1>1, <2>1, <2>9, <3>1, <3>3, <3>4, <3>5 DEF DrawInv
  <2>12. QED
    BY <2>10, <2>11
<1>8. CASE UNCHANGED drawing
  <2>1. UNCHANGED <<scene, started, canvas, dirty, shown>>
    BY <1>8 DEF drawing
  <2>2. Redraw(canvas)' = Redraw(canvas)
    BY <2>1, RedrawSame
  <2>3. QED
    BY <1>1, <2>1, <2>2 DEF DrawInv, Gridded, SamePicture, AllShown
<1>9. QED
  BY <1>2, <1>3, <1>4, <1>5, <1>6, <1>7, <1>8 DEF DrawNext

\* What the invariant says of a canvas that has not changed.
LEMMA DrawInvShows == DrawInv => NobodyIsLeft
<1> SUFFICES ASSUME DrawInv, ~dirty, ~canvas.changed
             PROVE  AllShown /\ Redraw(canvas) = [canvas EXCEPT !.changed = TRUE]
  BY DEF NobodyIsLeft
<1>1. /\ scene \in Scenes /\ Gridded(canvas) /\ SamePicture(Redraw(canvas), canvas) /\ AllShown
  BY DEF DrawInv
<1>2. OnCanvas(Redraw(canvas), canvas)
  BY <1>1, RedrawAlike
<1> DEFINE c == [canvas EXCEPT !.changed = TRUE]
<1>3. c \in Canvas /\ SamePicture(c, canvas) /\ c.changed = TRUE
      /\ c.seconds = canvas.seconds /\ c.buttons = canvas.buttons
  BY <1>1 DEF Gridded, Canvas, SamePicture
<1> HIDE DEF c
<1>4. Redraw(canvas) = c
  BY <1>1, <1>2, <1>3, SameCanvas DEF OnCanvas, Gridded, SamePicture
<1>5. QED
  BY <1>1, <1>4 DEF c

\* Nobody who is connected is left with an old picture, however long ago it
\* connected and whatever was drawn before, for others or for nobody: for any
\* level, sizes and browsers (app.c:110-119, draw.c, ipc.c:63).
THEOREM NobodyLeft == DrawSpec => []NobodyIsLeft
<1>1. QED
  BY InitDraws, NextDraws, DrawInvShows, PTL DEF DrawSpec
=============================================================================
