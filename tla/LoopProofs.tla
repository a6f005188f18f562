------------------------------ MODULE LoopProofs ------------------------------
(***************************************************************************)
(* Proofs about three things that happen on the loop of a child: how bytes *)
(* are told to be a message, however they are cut (module MsgParser), what *)
(* a winner is told, for any output in any pieces (module Spawn), and that *)
(* the rate limit holds but for rounding and stale wakeups and keeps no    *)
(* message forever, for any rate, sizes and passing of time (RateLimit).   *)
(***************************************************************************)
EXTENDS Spawn, RateLimit, MsgParser, SequenceTheorems, WellFoundedInduction, TLAPS

\* There is a lowest of any numbers.
LEMMA LowestNumber ==
    ASSUME NEW S \in SUBSET Nat, S # {}
    PROVE  \E f \in S : \A g \in S : f <= g
<1> DEFINE R == OpToRel(<, Nat)
<1>1. IsWellFoundedOn(R, Nat)
  BY NatLessThanWellFounded
<1>2. \A f, g \in Nat : <<g, f>> \in R <=> g < f
  BY DEF OpToRel
<1> HIDE DEF R
<1>3. PICK f \in S : \A g \in S : <<g, f>> \notin R
  BY <1>1, WFMin
<1>4. ASSUME NEW g \in S
      PROVE  f <= g
  <2>1. f \in Nat /\ g \in Nat /\ ~(g < f)
    BY <1>2, <1>3
  <2>2. QED
    BY <2>1
<1>5. QED
  BY <1>4

\* And a highest, if there is a bound.
LEMMA MaxExists ==
    ASSUME NEW n \in Nat, NEW S \in SUBSET (0..n), S # {}
    PROVE  Max(S) \in S
<1> DEFINE T == {i \in 0..n : n - i \in S}
<1>1. PICK k \in S : TRUE
  OBVIOUS
<1>2. n - k \in T
  BY <1>1
<1>3. PICK i \in T : \A j \in T : i <= j
  <2>1. T \in SUBSET Nat
    OBVIOUS
  <2>2. T # {}
    BY <1>2
  <2> HIDE DEF T
  <2>3. QED
    BY <2>1, <2>2, LowestNumber
<1>4. ASSUME NEW j \in S
      PROVE  n - i >= j
  <2>1. n - j \in T
    OBVIOUS
  <2>2. i <= n - j
    BY <1>3, <2>1
  <2>3. QED
    BY <2>2
<1>5. n - i \in S
  BY <1>3
<1> QED
  BY <1>4, <1>5 DEF Max

LEMMA MinOfTwo ==
    ASSUME NEW a \in Nat, NEW b \in Nat
    PROVE  Min({a, b}) = IF a <= b THEN a ELSE b
BY DEF Min
-----------------------------------------------------------------------------
(* What a winner is told                                                   *)

SpawnTypeOK ==
    /\ reading \in 0..WinsMax /\ ignored_pid \in 0..WinsMax
    /\ programs \in SUBSET (0..WinsMax) /\ zombies \in SUBSET (0..WinsMax)
    /\ unknown \in SUBSET (0..WinsMax)
    /\ outbuf \in Seq(STRING) /\ unread \in Seq(STRING) /\ said \in Seq(STRING)

\* The buffer and what was not read yet are together what the process said.
Heard ==
    reading # 0 =>
        /\ Len(outbuf) <= OutMax /\ Len(outbuf) + Len(unread) = Len(said)
        /\ \A i \in 1..Len(outbuf) : outbuf[i] = said[i]
        /\ \A i \in 1..Len(unread) : unread[i] = said[Len(outbuf) + i]

SpawnInv == SpawnTypeOK /\ Heard /\ WinnerIsTold

\* Fork gives a number that is used by nobody.
LEMMA PidNotZero ==
    ASSUME SpawnTypeOK
    PROVE  Max(Started) + 1 \in Nat \ {0}
<1>1. Started \in SUBSET (0..WinsMax) /\ Started # {}
  BY DEF Started, SpawnTypeOK
<1>2. Max(Started) \in Started
  BY <1>1, MaxExists, SpawnAssumption
<1>3. Max(Started) \in Nat
  <2>1. Max(Started) \in 0..WinsMax
    BY <1>1, <1>2
  <2>2. QED
    BY <2>1, SpawnAssumption
<1> QED
  BY <1>3

LEMMA WinStep ==
    ASSUME SpawnInv, NEW output \in Outputs, Win(output)
    PROVE  SpawnInv'
<1> DEFINE pid == Max(Started) + 1
<1>1. pid \in 1..WinsMax /\ UNCHANGED <<zombies, unknown>>
  BY PidNotZero, SpawnAssumption DEF Win, SpawnInv
<1> HIDE DEF pid
<1>2. CASE /\ reading' = pid /\ ignored_pid' = pid /\ programs' = programs \cup {pid}
           /\ outbuf' = << >> /\ unread' = output /\ said' = output
  <2>1. output \in Seq(STRING) /\ reading' # 0
    BY <1>1, <1>2, SpawnAssumption
  <2>2. SpawnTypeOK'
    BY <1>1, <1>2, <2>1 DEF SpawnInv, SpawnTypeOK
  <2>3. Heard'
    <3>1. Len(outbuf') = 0 /\ Len(output) \in Nat
      BY <1>2, <2>1
    <3>2. QED
      BY <1>2, <3>1, SpawnAssumption DEF Heard
  <2>4. WinnerIsTold'
    BY <2>1 DEF WinnerIsTold
  <2>5. QED
    BY <2>2, <2>3, <2>4 DEF SpawnInv
<1>3. CASE /\ winner_told' = Error /\ said' = << >>
           /\ UNCHANGED <<reading, ignored_pid, programs, outbuf, unread>>
  <2>1. SpawnTypeOK'
    BY <1>1, <1>3 DEF SpawnInv, SpawnTypeOK
  <2>2. Heard' /\ WinnerIsTold'
    BY <1>3 DEF Heard, WinnerIsTold, Win
  <2>3. QED
    BY <2>1, <2>2 DEF SpawnInv
<1> QED
  BY <1>2, <1>3 DEF Win, pid

LEMMA ReadOutStep ==
    ASSUME SpawnInv, NEW n \in 1..OutMax, ReadOut(n)
    PROVE  SpawnInv'
<1> DEFINE a == SubSeq(unread, 1, n)
           b == SubSeq(unread, n + 1, Len(unread))
<1>1. /\ reading # 0 /\ outbuf' = outbuf \o a /\ unread' = b
      /\ UNCHANGED <<reading, programs, zombies, ignored_pid, unknown, winner_told, said>>
      /\ n \in 1..Min({OutMax - Len(outbuf), Len(unread)})
  BY DEF ReadOut
<1>2. /\ outbuf \in Seq(STRING) /\ unread \in Seq(STRING) /\ said \in Seq(STRING)
      /\ Len(outbuf) \in Nat /\ Len(unread) \in Nat /\ OutMax \in Nat
      /\ Len(outbuf) <= OutMax /\ Len(outbuf) + Len(unread) = Len(said)
      /\ \A i \in 1..Len(outbuf) : outbuf[i] = said[i]
      /\ \A i \in 1..Len(unread) : unread[i] = said[Len(outbuf) + i]
  BY <1>1, SpawnAssumption DEF SpawnInv, SpawnTypeOK, Heard
<1>3. n \in Nat /\ 1 <= n /\ n <= Len(unread) /\ n <= OutMax - Len(outbuf)
  <2>1. OutMax - Len(outbuf) \in Nat
    BY <1>2
  <2>2. Min({OutMax - Len(outbuf), Len(unread)}) =
            IF OutMax - Len(outbuf) <= Len(unread) THEN OutMax - Len(outbuf) ELSE Len(unread)
    BY <1>2, <2>1, MinOfTwo
  <2>3. QED
    BY <1>1, <1>2, <2>1, <2>2
<1>4. a \in Seq(STRING) /\ Len(a) = n /\ \A i \in 1..n : a[i] = unread[i]
  <2>1. \A i \in 1..n : unread[i] \in STRING
    BY <1>2, <1>3, ElementOfSeq
  <2>2. QED
    BY <1>2, <1>3, <2>1, SubSeqProperties
<1>5. /\ b \in Seq(STRING) /\ Len(b) = Len(unread) - n
      /\ \A i \in 1..(Len(unread) - n) : b[i] = unread[n + i]
  BY <1>2, <1>3, SubSeqProperties
<1> HIDE DEF a, b
<1>6. /\ outbuf' \in Seq(STRING) /\ Len(outbuf') = Len(outbuf) + n
      /\ \A i \in 1..(Len(outbuf) + n) :
             outbuf'[i] = IF i <= Len(outbuf) THEN outbuf[i] ELSE a[i - Len(outbuf)]
  <2>1. /\ outbuf \o a \in Seq(STRING) /\ Len(outbuf \o a) = Len(outbuf) + Len(a)
        /\ \A i \in 1..(Len(outbuf) + Len(a)) :
               (outbuf \o a)[i] = IF i <= Len(outbuf) THEN outbuf[i] ELSE a[i - Len(outbuf)]
    <3>1. outbuf \in Seq(STRING) /\ a \in Seq(STRING)
      BY <1>2, <1>4
    <3>2. QED
      BY <3>1, ConcatProperties
  <2>2. QED
    BY <1>1, <1>4, <2>1
<1>7. SpawnTypeOK'
  BY <1>1, <1>5, <1>6 DEF SpawnInv, SpawnTypeOK
<1>8. Heard'
  <2>1. Len(outbuf') <= OutMax /\ Len(outbuf') + Len(unread') = Len(said')
    BY <1>1, <1>2, <1>3, <1>5, <1>6
  <2>2. ASSUME NEW i \in 1..Len(outbuf')
        PROVE  outbuf'[i] = said[i]
    <3>1. CASE i <= Len(outbuf)
      <4>1. i \in 1..Len(outbuf) /\ i \in 1..(Len(outbuf) + n)
        BY <1>2, <1>3, <1>6, <3>1
      <4>2. QED
        BY <1>2, <1>6, <3>1, <4>1
    <3>2. CASE ~(i <= Len(outbuf))
      <4>1. /\ i \in 1..(Len(outbuf) + n) /\ i - Len(outbuf) \in 1..n
            /\ i - Len(outbuf) \in 1..Len(unread) /\ Len(outbuf) + (i - Len(outbuf)) = i
        BY <1>2, <1>3, <1>6, <3>2
      <4>2. outbuf'[i] = a[i - Len(outbuf)]
        BY <1>6, <3>2, <4>1
      <4>3. a[i - Len(outbuf)] = unread[i - Len(outbuf)]
        BY <1>4, <4>1
      <4>4. unread[i - Len(outbuf)] = said[i]
        BY <1>2, <4>1
      <4>5. QED
        BY <4>2, <4>3, <4>4
    <3>3. QED
      BY <3>1, <3>2
  <2>3. ASSUME NEW i \in 1..Len(unread')
        PROVE  unread'[i] = said[Len(outbuf') + i]
    <3>1. i \in 1..(Len(unread) - n) /\ n + i \in 1..Len(unread)
      BY <1>1, <1>2, <1>3, <1>5
    <3>2. Len(outbuf) + (n + i) = Len(outbuf') + i
      BY <1>2, <1>3, <1>6, <3>1
    <3>3. unread'[i] = unread[n + i]
      BY <1>1, <1>5, <3>1
    <3>4. unread[n + i] = said[Len(outbuf) + (n + i)]
      BY <1>2, <3>1
    <3>5. QED
      BY <3>2, <3>3, <3>4
  <2>4. QED
    BY <1>1, <2>1, <2>2, <2>3 DEF Heard
<1>9. WinnerIsTold'
  BY <1>1 DEF WinnerIsTold
<1> QED
  BY <1>7, <1>8, <1>9 DEF SpawnInv

\* What is between the first word of a line and its end.
LEMMA LineOf ==
    ASSUME NEW W, NEW text \in Seq(W), text # << >>,
           Len(text) = 1 => Last(text) # "newline"
    PROVE  LET stripped == StripOne(text)
               m == Len(stripped)
           IN /\ stripped \in Seq(W) /\ m \in Nat \ {0} /\ m <= Len(text)
              /\ \A i \in 1..m : stripped[i] = text[i]
              /\ Last(text) = "newline" => m = Len(text) - 1
              /\ Last(text) # "newline" => stripped = text
<1>1. Len(text) \in Nat /\ Len(text) # 0
  BY EmptySeq
<1>2. CASE Last(text) = "newline"
  <2> DEFINE r == SubSeq(text, 1, Len(text) - 1)
  <2>1. Len(text) # 1
    BY <1>2
  <2>2. \A i \in 1..(Len(text) - 1) : text[i] \in W
    BY <1>1, ElementOfSeq
  <2>3. /\ r \in Seq(W) /\ Len(r) = Len(text) - 1
        /\ \A i \in 1..(Len(text) - 1) : r[i] = text[i]
    <3>1. /\ r \in Seq(W)
          /\ Len(r) = IF 1 <= Len(text) - 1 THEN Len(text) - 1 - 1 + 1 ELSE 0
          /\ \A i \in 1..(Len(text) - 1 - 1 + 1) : r[i] = text[1 + i - 1]
      BY <1>1, <2>2, SubSeqProperties
    <3>2. \A i \in 1..(Len(text) - 1) : i \in 1..(Len(text) - 1 - 1 + 1) /\ 1 + i - 1 = i
      BY <1>1
    <3> HIDE DEF r
    <3>3. 1 <= Len(text) - 1
      <4>1. \A k \in Nat : k # 0 /\ k # 1 => 1 <= k - 1
        OBVIOUS
      <4>2. QED
        BY <1>1, <2>1, <4>1
    <3>4. Len(text) - 1 - 1 + 1 = Len(text) - 1
      BY <1>1
    <3>5. Len(r) = Len(text) - 1
      BY <3>1, <3>3, <3>4
    <3>6. QED
      BY <3>1, <3>2, <3>5
  <2>4. StripOne(text) = r
    BY <1>2 DEF StripOne, Front
  <2> HIDE DEF r
  <2>5. Len(r) \in Nat \ {0} /\ Len(r) <= Len(text)
    BY <1>1, <2>1, <2>3
  <2>6. QED
    BY <1>2, <2>3, <2>4, <2>5
<1>3. CASE Last(text) # "newline"
  <2>1. StripOne(text) = text
    BY <1>3 DEF StripOne
  <2>2. Len(text) \in Nat \ {0} /\ Len(text) <= Len(text)
    BY <1>1
  <2>3. QED
    BY <1>3, <2>1, <2>2
<1> QED
  BY <1>2, <1>3

\* A word before a sequence, and one behind.
LEMMA WordBefore ==
    ASSUME NEW W, NEW w \in W, NEW q \in Seq(W)
    PROVE  LET r == <<w>> \o q
           IN /\ r \in Seq(W) /\ Len(r) = Len(q) + 1 /\ r[1] = w
              /\ \A i \in 2..Len(r) : r[i] = q[i - 1]
<1> DEFINE one == <<w>>
           r == one \o q
<1>1. one \in Seq(W) /\ Len(one) = 1 /\ one[1] = w /\ Len(q) \in Nat
  OBVIOUS
<1> HIDE DEF one
<1>2. /\ r \in Seq(W) /\ Len(r) = Len(one) + Len(q)
      /\ \A i \in 1..(Len(one) + Len(q)) :
             r[i] = IF i <= Len(one) THEN one[i] ELSE q[i - Len(one)]
  <2>1. one \in Seq(W)
    BY <1>1
  <2>2. QED
    BY <2>1, ConcatProperties
<1> HIDE DEF r
<1>3. /\ Len(r) = Len(q) + 1 /\ r[1] = w
      /\ \A i \in 2..Len(r) : r[i] = q[i - 1]
  BY <1>1, <1>2
<1> QED
  BY <1>2, <1>3 DEF r, one

LEMMA WordBehind ==
    ASSUME NEW W, NEW w \in W, NEW q \in Seq(W)
    PROVE  LET r == q \o <<w>>
           IN /\ r \in Seq(W) /\ Len(r) = Len(q) + 1 /\ r[Len(q) + 1] = w
              /\ \A i \in 1..Len(q) : r[i] = q[i]
<1> DEFINE one == <<w>>
           r == q \o one
<1>1. one \in Seq(W) /\ Len(one) = 1 /\ one[1] = w /\ Len(q) \in Nat
  OBVIOUS
<1> HIDE DEF one
<1>2. /\ r \in Seq(W) /\ Len(r) = Len(q) + Len(one)
      /\ \A i \in 1..(Len(q) + Len(one)) :
             r[i] = IF i <= Len(q) THEN q[i] ELSE one[i - Len(q)]
  <2>1. one \in Seq(W)
    BY <1>1
  <2>2. QED
    BY <2>1, ConcatProperties
<1> HIDE DEF r
<1>3. /\ Len(r) = Len(q) + 1 /\ r[Len(q) + 1] = w
      /\ \A i \in 1..Len(q) : r[i] = q[i]
  BY <1>1, <1>2
<1> QED
  BY <1>2, <1>3 DEF r, one

LEMMA TwoWords ==
    ASSUME NEW a, NEW b
    PROVE  <<a>> \o <<b>> = <<a, b>>
<1> DEFINE W == {a, b}
           r == <<a>> \o <<b>>
           q == <<a, b>>
<1>1. a \in W /\ b \in W /\ <<b>> \in Seq(W) /\ Len(<<b>>) = 1 /\ <<b>>[1] = b
  OBVIOUS
<1>2. q \in Seq(W) /\ Len(q) = 2 /\ q[1] = a /\ q[2] = b
  OBVIOUS
<1> HIDE DEF W, q
<1>3. /\ r \in Seq(W) /\ Len(r) = Len(<<b>>) + 1 /\ r[1] = a
      /\ \A i \in 2..Len(r) : r[i] = <<b>>[i - 1]
  BY <1>1, WordBefore
<1> HIDE DEF r
<1>4. Len(r) = 2 /\ r[2] = b
  BY <1>1, <1>3
<1>5. \A i \in 1..Len(r) : r[i] = q[i]
  BY <1>2, <1>3, <1>4
<1>6. r = q
  BY <1>2, <1>3, <1>4, <1>5, SeqEqual
<1> QED
  BY <1>6 DEF r, q

\* What p_report_win makes of a report.
LEMMA ReportOf ==
    ASSUME NEW W, NEW text \in Seq(W), text # << >>, text[1] = "REPORT"
    PROVE  LET stripped == StripOne(text)
               word == Tail(stripped)
               report == <<"REPORT">> \o word
           IN /\ word = << >> => text \in {<<"REPORT">>, <<"REPORT", "newline">>}
              /\ \/ text = report \o <<"newline">>
                 \/ text = report /\ Last(text) # "newline"
<1> DEFINE stripped == StripOne(text)
           word == Tail(stripped)
           first == "REPORT"
           report == <<first>> \o word
<1>1. Len(text) \in Nat \ {0}
  BY EmptySeq
<1>2. Len(text) = 1 => Last(text) # "newline"
  BY DEF Last
<1>3. /\ stripped \in Seq(W) /\ Len(stripped) \in Nat \ {0} /\ Len(stripped) <= Len(text)
      /\ \A i \in 1..Len(stripped) : stripped[i] = text[i]
      /\ Last(text) = "newline" => Len(stripped) = Len(text) - 1
      /\ Last(text) # "newline" => stripped = text
  BY <1>2, LineOf
<1> HIDE DEF stripped, first
<1>4. first = text[1] /\ first \in W
  BY <1>1, ElementOfSeq DEF first
<1>5. /\ word \in Seq(W) /\ Len(word) = Len(stripped) - 1
      /\ \A i \in 1..Len(word) : word[i] = stripped[i + 1]
  <2>1. stripped # << >>
    BY <1>3
  <2>2. QED
    BY <1>3, <2>1, HeadTailProperties
<1> HIDE DEF word
<1>6. /\ report \in Seq(W) /\ Len(report) = Len(word) + 1 /\ report[1] = first
      /\ \A i \in 2..Len(report) : report[i] = word[i - 1]
  BY <1>4, <1>5, WordBefore
<1> HIDE DEF report
<1>7. report = stripped
  <2>1. Len(report) = Len(stripped)
    BY <1>3, <1>5, <1>6
  <2>2. ASSUME NEW i \in 1..Len(stripped)
        PROVE  report[i] = stripped[i]
    <3>1. CASE i = 1
      BY <1>3, <1>4, <1>6, <3>1
    <3>2. CASE i # 1
      <4>1. i \in 2..Len(report) /\ i - 1 \in 1..Len(word) /\ (i - 1) + 1 = i
        BY <1>3, <1>5, <2>1, <3>2
      <4>2. report[i] = word[i - 1]
        BY <1>6, <4>1
      <4>3. QED
        BY <1>5, <4>1, <4>2
    <3>3. QED
      BY <3>1, <3>2
  <2>3. QED
    BY <1>3, <1>6, <2>1, <2>2, SeqEqual
<1>8. ASSUME Last(text) # "newline"
      PROVE  text = report
  BY <1>3, <1>7, <1>8
<1>9. ASSUME Last(text) = "newline"
      PROVE  text = report \o <<"newline">>
  <2> DEFINE end == "newline"
             all == stripped \o <<end>>
  <2>1. end = text[Len(text)]
    BY <1>9 DEF Last
  <2> HIDE DEF end
  <2>2. end \in W
    BY <1>1, <2>1, ElementOfSeq
  <2>3. /\ all \in Seq(W) /\ Len(all) = Len(stripped) + 1 /\ all[Len(stripped) + 1] = end
        /\ \A i \in 1..Len(stripped) : all[i] = stripped[i]
    BY <1>3, <2>2, WordBehind
  <2> HIDE DEF all
  <2>4. Len(stripped) = Len(text) - 1
    BY <1>3, <1>9
  <2>5. Len(all) = Len(text) /\ Len(stripped) + 1 = Len(text)
    BY <1>1, <2>3, <2>4
  <2>6. ASSUME NEW i \in 1..Len(text)
        PROVE  all[i] = text[i]
    <3>1. i = Len(stripped) + 1 \/ i \in 1..Len(stripped)
      BY <1>1, <1>3, <2>5
    <3>2. CASE i = Len(stripped) + 1
      <4>1. i = Len(text)
        BY <2>5, <3>2
      <4>2. QED
        BY <2>1, <2>3, <3>2, <4>1
    <3>3. CASE i \in 1..Len(stripped)
      BY <1>3, <2>3, <3>3
    <3>4. QED
      BY <3>1, <3>2, <3>3
  <2>7. all = text
    BY <2>3, <2>5, <2>6, SeqEqual
  <2>8. QED
    BY <1>7, <2>7 DEF all, end
<1>10. ASSUME word = << >>
       PROVE  text \in {<<"REPORT">>, <<"REPORT", "newline">>}
  <2>1. report = <<first>>
    <3>1. <<first>> \in Seq({first})
      OBVIOUS
    <3>2. <<first>> \o << >> = <<first>>
      BY <3>1, ConcatEmptySeq
    <3>3. QED
      BY <1>10, <3>2 DEF report
  <2>2. <<first>> \o <<"newline">> = <<first, "newline">>
    BY TwoWords
  <2>3. text = <<first>> \/ text = <<first, "newline">>
    BY <1>8, <1>9, <2>1, <2>2
  <2>4. QED
    BY <2>3 DEF first
<1> QED
  BY <1>8, <1>9, <1>10 DEF report, word, stripped, first

\* What p_report_win makes of any output.
LEMMA ReportSays ==
    ASSUME NEW W, NEW text \in Seq(W), text # << >>
    PROVE  LET report == <<"REPORT">> \o Report(text)
           IN \/ Report(text) = Won /\ text[1] = "OK"
              \/ /\ Report(text) = Error
                 /\ \/ text[1] \notin {"OK", "REPORT"}
                    \/ text \in {<<"REPORT">>, <<"REPORT", "newline">>}
              \/ /\ Report(text) # << >>
                 /\ \/ text = report \o <<"newline">>
                    \/ text = report /\ Last(text) # "newline"
<1> DEFINE word == Tail(StripOne(text))
<1>1. Head(text) = text[1]
  BY HeadTailProperties
<1>2. CASE text[1] = "OK"
  <2>1. Report(text) = Won
    BY <1>1, <1>2 DEF Report
  <2>2. QED
    BY <1>2, <2>1
<1>3. CASE text[1] \notin {"OK", "REPORT"}
  <2>1. Report(text) = Error
    BY <1>1, <1>3 DEF Report
  <2>2. QED
    BY <1>3, <2>1
<1>4. CASE text[1] = "REPORT"
  <2>1. Report(text) = IF word = << >> THEN Error ELSE word
    BY <1>1, <1>4 DEF Report
  <2>2. /\ word = << >> => text \in {<<"REPORT">>, <<"REPORT", "newline">>}
        /\ \/ text = (<<"REPORT">> \o word) \o <<"newline">>
           \/ text = (<<"REPORT">> \o word) /\ Last(text) # "newline"
    BY <1>4, ReportOf
  <2> HIDE DEF word
  <2>3. CASE word = << >>
    <3>1. Report(text) = Error
      BY <2>1, <2>3
    <3>2. QED
      BY <2>2, <2>3, <3>1
  <2>4. CASE word # << >>
    <3>1. Report(text) = word
      BY <2>1, <2>4
    <3>2. QED
      BY <2>2, <2>4, <3>1
  <2>5. QED
    BY <2>3, <2>4
<1> QED
  BY <1>2, <1>3, <1>4

LEMMA ReadEndStep ==
    ASSUME SpawnInv, ReadEnd
    PROVE  SpawnInv'
<1> DEFINE m == Min({OutMax, Len(said)})
           seen == SubSeq(said, 1, m)
<1>1. /\ reading # 0 /\ reading' = 0 /\ winner_told' = Report(outbuf)
      /\ unread = << >> \/ Len(outbuf) = OutMax
      /\ UNCHANGED <<outbuf, unread, programs, zombies, ignored_pid, unknown, said>>
  BY DEF ReadEnd
<1>2. /\ outbuf \in Seq(STRING) /\ unread \in Seq(STRING) /\ said \in Seq(STRING)
      /\ Len(outbuf) \in Nat /\ Len(unread) \in Nat /\ Len(said) \in Nat
      /\ OutMax \in Nat \ {0}
      /\ Len(outbuf) <= OutMax /\ Len(outbuf) + Len(unread) = Len(said)
      /\ \A i \in 1..Len(outbuf) : outbuf[i] = said[i]
  BY <1>1, SpawnAssumption DEF SpawnInv, SpawnTypeOK, Heard
<1>3. SpawnTypeOK'
  BY <1>1, SpawnAssumption DEF SpawnInv, SpawnTypeOK
<1>4. Heard'
  BY <1>1 DEF Heard
<1>5. ASSUME said # << >>
      PROVE  seen = outbuf /\ outbuf # << >>
  <2>1. m = Len(outbuf)
    <3>1. m = IF OutMax <= Len(said) THEN OutMax ELSE Len(said)
      BY <1>2, MinOfTwo
    <3>2. CASE unread = << >>
      <4>1. Len(unread) = 0
        BY <3>2
      <4>2. QED
        BY <1>2, <3>1, <4>1
    <3>3. CASE Len(outbuf) = OutMax
      BY <1>2, <3>1, <3>3
    <3>4. QED
      BY <1>1, <3>2, <3>3
  <2> HIDE DEF m
  <2>2. m \in Nat \ {0}
    <3>1. Len(said) # 0
      BY <1>2, <1>5, EmptySeq
    <3>2. unread = << >> => Len(unread) = 0
      OBVIOUS
    <3>3. QED
      BY <1>1, <1>2, <2>1, <3>1, <3>2
  <2>3. \A i \in 1..m : said[i] \in STRING
    BY <1>2, <2>1, ElementOfSeq
  <2>4. /\ seen \in Seq(STRING)
        /\ Len(seen) = IF 1 <= m THEN m - 1 + 1 ELSE 0
        /\ \A i \in 1..(m - 1 + 1) : seen[i] = said[1 + i - 1]
    BY <2>2, <2>3, SubSeqProperties
  <2> HIDE DEF seen
  <2>5. \A i \in 1..m : i \in 1..(m - 1 + 1) /\ 1 + i - 1 = i
    BY <2>2
  <2>6. Len(seen) = m
    BY <2>2, <2>4
  <2>7. \A i \in 1..m : seen[i] = outbuf[i]
    BY <1>2, <2>1, <2>4, <2>5
  <2>8. seen = outbuf
    BY <1>2, <2>1, <2>4, <2>6, <2>7, SeqEqual
  <2>9. outbuf # << >>
    BY <2>1, <2>2
  <2>10. QED
    BY <2>8, <2>9
<1>6. WinnerIsTold'
  <2> SUFFICES ASSUME said # << >>
               PROVE  LET report == <<"REPORT">> \o Report(seen)
                      IN \/ Report(seen) = Won /\ seen[1] = "OK"
                         \/ /\ Report(seen) = Error
                            /\ \/ seen[1] \notin {"OK", "REPORT"}
                               \/ seen \in {<<"REPORT">>, <<"REPORT", "newline">>}
                         \/ /\ Report(seen) # << >>
                            /\ \/ seen = report \o <<"newline">>
                               \/ seen = report /\ Last(seen) # "newline"
    BY <1>1, <1>5 DEF WinnerIsTold
  <2>1. seen \in Seq(STRING) /\ seen # << >>
    BY <1>2, <1>5
  <2> HIDE DEF seen
  <2>2. QED
    BY <2>1, ReportSays
<1> QED
  BY <1>3, <1>4, <1>6 DEF SpawnInv

\* A process that ends, or is waited for, changes nothing of what was read.
LEMMA OtherSpawnStep ==
    ASSUME SpawnInv, (\E pid \in 1..WinsMax : Ends(pid)) \/ SigHandler \/ UNCHANGED winning
    PROVE  SpawnInv'
<1>1. UNCHANGED <<reading, outbuf, unread, winner_told, said>>
  BY DEF Ends, SigHandler, winning
<1>2. SpawnTypeOK'
  <2>1. CASE \E pid \in 1..WinsMax : Ends(pid)
    BY <1>1, <2>1, SpawnAssumption DEF Ends, SpawnInv, SpawnTypeOK
  <2>2. CASE SigHandler
    BY <1>1, <2>2, SpawnAssumption DEF SigHandler, SpawnInv, SpawnTypeOK
  <2>3. CASE UNCHANGED winning
    BY <2>3 DEF winning, SpawnInv, SpawnTypeOK
  <2>4. QED
    BY <2>1, <2>2, <2>3
<1>3. Heard'
  BY <1>1 DEF SpawnInv, Heard
<1>4. WinnerIsTold'
  BY <1>1 DEF SpawnInv, WinnerIsTold
<1> QED
  BY <1>2, <1>3, <1>4 DEF SpawnInv

\* The winner is told all of a report that fits, congratulated after OK and told
\* of an error after anything else, for any output in any pieces and a buffer of
\* any length (proto.c:164-184, spawn.c:112-131).
THEOREM Winner == SpawnSpec => []WinnerIsTold
<1>1. SpawnInit => SpawnInv
  <2> SUFFICES ASSUME SpawnInit
               PROVE  SpawnInv
    OBVIOUS
  <2>1. SpawnTypeOK
    BY SpawnAssumption DEF SpawnInit, SpawnTypeOK
  <2>2. Heard /\ WinnerIsTold
    BY DEF SpawnInit, Heard, WinnerIsTold
  <2>3. QED
    BY <2>1, <2>2 DEF SpawnInv
<1>2. SpawnInv /\ [SpawnNext]_winning => SpawnInv'
  <2> SUFFICES ASSUME SpawnInv, [SpawnNext]_winning
               PROVE  SpawnInv'
    OBVIOUS
  <2>1. CASE \E output \in Outputs : Win(output)
    BY <2>1, WinStep
  <2>2. CASE \E n \in 1..OutMax : ReadOut(n)
    BY <2>2, ReadOutStep
  <2>3. CASE ReadEnd
    BY <2>3, ReadEndStep
  <2>4. CASE (\E pid \in 1..WinsMax : Ends(pid)) \/ SigHandler \/ UNCHANGED winning
    BY <2>4, OtherSpawnStep
  <2>5. QED
    BY <2>1, <2>2, <2>3, <2>4 DEF SpawnNext
<1>3. SpawnInv => WinnerIsTold
  BY DEF SpawnInv
<1>4. QED
  BY <1>1, <1>2, <1>3, PTL DEF SpawnSpec
-----------------------------------------------------------------------------
(* The arithmetic of the rate limit                                        *)

\* A struct timespec, whether normalised or not.
Instants == [sec : Int, nsec : Int]

LEMMA Product == \A a, b \in Nat \ {0} : a * b \in Nat \ {0}
OBVIOUS

LEMMA ProductInt == \A a, b \in Int : a * b \in Int
OBVIOUS

LEMMA Division ==
    ASSUME NEW a \in Int, NEW b \in Nat \ {0}
    PROVE  /\ a \div b \in Int /\ a % b \in Int
           /\ a >= 0 => a \div b >= 0
OBVIOUS

LEMMA QuotType ==
    ASSUME NEW a \in Int, NEW b \in Nat \ {0}
    PROVE  Quot(a, b) \in Int /\ Rest(a, b) \in Int
<1>1. -a \in Int
  OBVIOUS
<1>2. Quot(a, b) \in Int
  BY <1>1, Division DEF Quot
<1> DEFINE q == Quot(a, b)
<1>3. b * q \in Int
  BY <1>2, ProductInt
<1>4. a - b * q \in Int
  BY <1>3
<1> QED
  BY <1>2, <1>4 DEF Rest

LEMMA WholeType == Whole \in Nat \ {0}
BY TimeAssumption, Product DEF Whole

LEMMA StampType ==
    ASSUME NEW t \in Int
    PROVE  Stamp(t) \in Instants
<1>1. t \div Whole \in Int /\ t % Whole \in Int
  BY WholeType, Division
<1> QED
  BY <1>1 DEF Stamp, Instants

LEMMA TimeAddType ==
    ASSUME NEW tp \in Instants, NEW ms \in Int
    PROVE  TimeAdd(tp, ms) \in Instants
<1> DEFINE a == Rest(ms, Sec)
           b == Quot(ms, Sec)
           c == a * Sub
           nsec == tp.nsec + c
           secs == tp.sec + b
<1>1. a \in Int /\ b \in Int
  BY QuotType, TimeAssumption
<1> HIDE DEF a, b
<1>2. c \in Int
  BY <1>1, ProductInt, TimeAssumption
<1> HIDE DEF c
<1>3. nsec \in Int /\ secs \in Int
  BY <1>1, <1>2 DEF Instants
<1>4. TimeAdd(tp, ms) = IF nsec >= Whole THEN [sec |-> secs + 1, nsec |-> nsec - Whole]
                        ELSE IF nsec < 0 THEN [sec |-> secs - 1, nsec |-> nsec + Whole]
                        ELSE [sec |-> secs, nsec |-> nsec]
  BY DEF TimeAdd, a, b, c
<1> HIDE DEF nsec, secs
<1>5. /\ secs + 1 \in Int /\ secs - 1 \in Int
      /\ nsec - Whole \in Int /\ nsec + Whole \in Int
  BY <1>3, WholeType
<1> QED
  BY <1>3, <1>4, <1>5 DEF Instants

LEMMA SetBucketType ==
    ASSUME NEW sent, NEW now \in Int, NEW bucket \in Int
    PROVE  SetBucket(sent, now, bucket) \in Instants
<1> DEFINE q == Quot(bucket * Sec, Rate)
<1>1. bucket * Sec \in Int
  BY ProductInt, TimeAssumption
<1>2. q \in Int
  BY <1>1, QuotType, RateAssumption
<1> HIDE DEF q
<1>3. -q \in Int
  BY <1>2
<1>4. TimeAdd(Stamp(now), -q) \in Instants
  BY <1>3, StampType, TimeAddType
<1> QED
  BY <1>4 DEF SetBucket, q

LEMMA BucketType ==
    ASSUME NEW sent \in Instants, NEW now \in Int
    PROVE  Bucket(sent, now) \in Int
<1> DEFINE st == Stamp(now)
           x == st.nsec - sent.nsec
           y == st.sec - sent.sec
           q == Quot(x, Sub)
           p == y * Sec
           d == p + q
           t == Quot(d * Rate, Sec)
<1>1. st \in Instants
  BY StampType
<1> HIDE DEF st
<1>2. x \in Int /\ y \in Int
  BY <1>1 DEF Instants
<1> HIDE DEF x, y
<1>3. q \in Int
  BY <1>2, QuotType, TimeAssumption
<1>4. p \in Int
  BY <1>2, ProductInt, TimeAssumption
<1> HIDE DEF p, q
<1>5. d \in Int
  BY <1>3, <1>4
<1>6. TimeDiff(Stamp(now), sent) = d
  BY DEF TimeDiff, d, p, q, x, y, st
<1> HIDE DEF d
<1>7. d * Rate \in Int
  BY <1>5, ProductInt, RateAssumption
<1>8. t \in Int
  BY <1>7, QuotType, TimeAssumption
<1> HIDE DEF t
<1>9. Bucket(sent, now) = IF t > BucketSize THEN BucketSize ELSE IF t < 0 THEN 0 ELSE t
  BY <1>6 DEF Bucket, t
<1>10. BucketSize \in Int
  BY RateAssumption
<1> QED
  BY <1>8, <1>9, <1>10

LEMMA FilledType ==
    ASSUME NEW b \in Int, NEW d \in Int
    PROVE  Filled(b, d) \in Int
<1> DEFINE p == Rate * d
<1>1. p \in Int
  BY ProductInt, RateAssumption
<1>2. Most \in Int
  BY ProductInt, RateAssumption, WholeType DEF Most
<1> HIDE DEF p
<1>3. b + p \in Int
  BY <1>1
<1> QED
  BY <1>2, <1>3 DEF Filled, p

-----------------------------------------------------------------------------
(* The loop of socket_process_wqueue                                       *)

Ideals == [lenient : Int, strict : Int, stale : BOOLEAN, at : Int]
Queues == Seq(1..Largest)

\* What the loop works on.
LoopStates == [last : Instants, okay : BOOLEAN, queue : Queues,
               ideal : Ideals, fair : BOOLEAN]

\* The first of some messages, and the others.
LEMMA FirstOf ==
    ASSUME NEW q \in Queues, q # << >>
    PROVE  /\ Head(q) \in 1..Largest /\ Head(q) \in Nat /\ Tail(q) \in Queues
           /\ Len(Tail(q)) = Len(q) - 1
<1>1. /\ Head(q) \in 1..Largest /\ Tail(q) \in Seq(1..Largest)
      /\ Len(Tail(q)) = Len(q) - 1
  BY HeadTailProperties DEF Queues
<1>2. QED
  BY <1>1, RateAssumption DEF Queues

LEMMA CountedType ==
    ASSUME NEW l \in LoopStates, NEW n \in Int, Now \in Int
    PROVE  /\ Counted(l, n) \in LoopStates
           /\ Counted(l, n).last = l.last
           /\ Counted(l, n).okay = l.okay
           /\ Counted(l, n).queue = l.queue
           /\ Counted(l, n).fair = l.fair
<1> DEFINE i == l.ideal
           p == n * Whole
           d == Now - i.at
           len1 == Filled(i.lenient, d) - p
           str1 == Filled(i.strict, d) - p
           fill == Filled(len1, 2 * Sub)
           j1 == [i EXCEPT !.strict = 0, !.stale = TRUE]
           j2 == [lenient |-> fill, strict |-> IF i.stale THEN 0 ELSE str1,
                  stale |-> i.stale, at |-> Now]
<1>1. i \in Ideals
  BY DEF LoopStates
<1>2. p \in Int
  BY ProductInt, WholeType
<1>3. d \in Int
  BY <1>1 DEF Ideals
<1>4. i.lenient \in Int /\ i.strict \in Int
  BY <1>1 DEF Ideals
<1>5. Counted(l, n) = IF l.okay /\ ~l.fair THEN [l EXCEPT !.ideal = j1]
                                           ELSE [l EXCEPT !.ideal = j2]
  BY <1>1 DEF Counted, LoopStates, Ideals
<1> HIDE DEF i, p, d
<1>6. len1 \in Int /\ str1 \in Int
  <2>1. Filled(i.lenient, d) \in Int /\ Filled(i.strict, d) \in Int
    BY <1>3, <1>4, FilledType
  <2>2. QED
    BY <1>2, <2>1
<1>7. 2 * Sub \in Int
  BY TimeAssumption
<1> HIDE DEF len1, str1
<1>8. fill \in Int
  BY <1>6, <1>7, FilledType
<1> HIDE DEF fill
<1>9. j1 \in Ideals
  <2> DEFINE k1 == [i EXCEPT !.strict = 0]
  <2>1. k1 \in Ideals
    BY <1>1 DEF Ideals
  <2>2. j1 = [k1 EXCEPT !.stale = TRUE]
    OBVIOUS
  <2> HIDE DEF k1, j1
  <2>3. [k1 EXCEPT !.stale = TRUE] \in Ideals
    BY <2>1 DEF Ideals
  <2>4. QED
    BY <2>2, <2>3
<1>10. j2 \in Ideals
  BY <1>1, <1>6, <1>8 DEF Ideals
<1> HIDE DEF j1, j2
<1>11. ASSUME NEW j \in Ideals
       PROVE  /\ [l EXCEPT !.ideal = j] \in LoopStates
              /\ [l EXCEPT !.ideal = j].last = l.last
              /\ [l EXCEPT !.ideal = j].okay = l.okay
              /\ [l EXCEPT !.ideal = j].queue = l.queue
              /\ [l EXCEPT !.ideal = j].fair = l.fair
  BY DEF LoopStates
<1>12. CASE l.okay /\ ~l.fair
  <2>1. Counted(l, n) = [l EXCEPT !.ideal = j1]
    BY <1>5, <1>12
  <2>2. QED
    BY <2>1, <1>9, <1>11
<1>13. CASE ~(l.okay /\ ~l.fair)
  <2>1. Counted(l, n) = [l EXCEPT !.ideal = j2]
    BY <1>5, <1>13
  <2>2. QED
    BY <2>1, <1>10, <1>11
<1>14. QED
  BY <1>12, <1>13

\* A whole message leaves the queue.
LEMMA SendWholeType ==
    ASSUME NEW l \in LoopStates, l.queue # << >>, Now \in Int
    PROVE  /\ SendWhole(l) \in LoopStates
           /\ Len(SendWhole(l).queue) = Len(l.queue) - 1
<1> DEFINE h == Head(l.queue)
           b == Bucket(l.last, Now)
           left == IF l.okay THEN 0 ELSE b - h
           c == Counted(l, h)
           stamp == SetBucket(c.last, Now, left)
<1>1. l.queue \in Queues /\ l.last \in Instants
  BY DEF LoopStates
<1>2. h \in Int /\ Tail(l.queue) \in Queues /\ Len(Tail(l.queue)) = Len(l.queue) - 1
  BY <1>1, FirstOf
<1>3. b \in Int
  BY <1>1, BucketType
<1> HIDE DEF b, h
<1>4. left \in Int
  BY <1>2, <1>3
<1>5. c \in LoopStates /\ c.queue = l.queue
  BY <1>2, CountedType
<1> HIDE DEF left, c
<1>6. stamp \in Instants
  BY <1>4, SetBucketType
<1>7. SendWhole(l) = [c EXCEPT !.queue = Tail(@), !.okay = FALSE, !.fair = FALSE,
                               !.last = stamp]
  <2>1. c \in LoopStates
    BY <1>5
  <2>2. QED
    BY <2>1 DEF SendWhole, stamp, c, left, h, b, LoopStates
<1> HIDE DEF stamp
<1>8. /\ SendWhole(l).last = stamp /\ SendWhole(l).okay = FALSE
      /\ SendWhole(l).fair = FALSE /\ SendWhole(l).ideal = c.ideal
      /\ SendWhole(l).queue = Tail(l.queue)
  BY <1>5, <1>7 DEF LoopStates
<1>9. SendWhole(l) \in LoopStates
  BY <1>2, <1>5, <1>6, <1>7 DEF LoopStates
<1>10. QED
  BY <1>2, <1>8, <1>9

\* A part of a message leaves the rest of it in front.
LEMMA SendPartType ==
    ASSUME NEW l \in LoopStates, l.queue # << >>, Now \in Int,
           NEW k \in 0..(Head(l.queue) - 1)
    PROVE  SendPart(l, k) \in LoopStates
<1> DEFINE h == Head(l.queue)
           b == Bucket(l.last, Now)
           c == Counted(l, k)
           rest == <<h - k>> \o Tail(l.queue)
           stamp == SetBucket(c.last, Now, b - k)
           sent == IF l.okay THEN c.last ELSE stamp
<1>1. l.queue \in Queues /\ l.last \in Instants
  BY DEF LoopStates
<1>2. h \in 1..Largest /\ Tail(l.queue) \in Queues
  BY <1>1, FirstOf
<1>3. k \in Int /\ h - k \in 1..Largest
  BY <1>2, RateAssumption
<1>4. b \in Int
  BY <1>1, BucketType
<1>5. b - k \in Int
  BY <1>3, <1>4
<1>6. rest \in Queues
  <2>1. <<h - k>> \in Seq(1..Largest) /\ Tail(l.queue) \in Seq(1..Largest)
    BY <1>2, <1>3 DEF Queues
  <2>2. QED
    BY <2>1, ConcatProperties DEF Queues
<1>7. /\ c \in LoopStates /\ c.queue = l.queue /\ c.okay = l.okay
      /\ c.last = l.last
  BY <1>3, CountedType
<1>8. stamp \in Instants
  BY <1>5, SetBucketType
<1>9. SendPart(l, k) = [c EXCEPT !.queue = rest, !.last = sent]
  BY <1>7 DEF SendPart, LoopStates
<1> HIDE DEF stamp, rest, c, b, h
<1>10. sent \in Instants
  BY <1>1, <1>7, <1>8
<1> HIDE DEF sent
<1>11. QED
  BY <1>6, <1>7, <1>9, <1>10 DEF LoopStates

\* The timer is armed for some time to come.
LEMMA DelayType ==
    ASSUME NEW l \in LoopStates, l.queue # << >>, Now \in Int,
           ~MayPass(l)
    PROVE  Delay(l) \in Nat
<1> DEFINE h == Head(l.queue)
           b == Bucket(l.last, Now)
           p == (h - b) * Sec
           ms == p \div Rate
<1>1. l.queue \in Queues /\ l.last \in Instants
  BY DEF LoopStates
<1>2. h \in Nat
  BY <1>1, FirstOf
<1>3. b \in Int
  BY <1>1, BucketType
<1>4. ~(h <= b)
  BY DEF MayPass
<1> HIDE DEF b, h
<1>5. h - b \in Nat \ {0}
  BY <1>2, <1>3, <1>4
<1>6. p \in Nat \ {0}
  BY <1>5, Product, TimeAssumption
<1> HIDE DEF p
<1>7. ms \in Int /\ ms >= 0
  BY <1>6, Division, RateAssumption
<1>8. Delay(l) = IF ms = 0 THEN 1 ELSE ms
  BY DEF Delay, ms, p, h, b
<1> HIDE DEF ms
<1>9. QED
  BY <1>7, <1>8

\* A stage of the loop, from the ones before it.
Stage(h, i) == IF i = 0 THEN Loop0 ELSE SendWhole(h[i - 1])

\* The function that Sent picks exists.
LEMMA StagesExist ==
    ASSUME NEW n \in Nat
    PROVE  \E h : h = [i \in 0..n |-> Stage(h, i)]
<1> DEFINE P(k) == \E h : h = [i \in 0..k |-> Stage(h, i)]
           S == {k \in Nat : ~P(k)}
<1>1. SUFFICES S = {}
  BY <1>1
<1>2. SUFFICES ASSUME S # {} PROVE FALSE
  OBVIOUS
<1>3. PICK k \in S : \A g \in S : k <= g
  <2>1. S \in SUBSET Nat
    OBVIOUS
  <2> HIDE DEF S
  <2>2. QED
    BY <1>2, <2>1, LowestNumber
<1>4. k \in Nat /\ ~P(k)
  BY <1>3
<1>5. k # 0
  <2> DEFINE h0 == [i \in 0..0 |-> Loop0]
  <2>1. \A i \in 0..0 : Stage(h0, i) = Loop0
    BY DEF Stage
  <2>2. h0 = [i \in 0..0 |-> Stage(h0, i)]
    BY <2>1
  <2>3. P(0)
    BY <2>2
  <2>4. QED
    BY <1>4, <2>3
<1>6. k - 1 \in Nat /\ k - 1 < k
  BY <1>4, <1>5
<1>7. P(k - 1)
  <2>1. ~(k <= k - 1)
    BY <1>4
  <2>2. k - 1 \notin S
    BY <1>3, <2>1
  <2>3. QED
    BY <1>6, <2>2
<1>8. PICK h : h = [i \in 0..(k - 1) |-> Stage(h, i)]
  BY <1>7
<1> DEFINE g == [i \in 0..k |-> IF i = k THEN SendWhole(h[k - 1]) ELSE h[i]]
<1>9. ASSUME NEW i \in 0..k
      PROVE  g[i] = Stage(g, i)
  <2>1. i \in Int /\ 0 <= i /\ i <= k
    BY <1>4
  <2>2. CASE i = 0
    <3>1. 0 \in 0..(k - 1) /\ 0 \in 0..k /\ 0 # k
      BY <1>5, <1>6
    <3>2. g[0] = h[0]
      BY <3>1
    <3>3. h[0] = Loop0
      BY <1>8, <3>1 DEF Stage
    <3>4. QED
      BY <2>2, <3>2, <3>3 DEF Stage
  <2>3. CASE i # 0
    <3>1. i - 1 \in 0..k /\ i - 1 # k /\ i - 1 \in 0..(k - 1)
      BY <1>4, <2>1, <2>3
    <3>2. g[i - 1] = h[i - 1]
      BY <3>1
    <3>3. CASE i = k
      <4>1. g[i] = SendWhole(h[k - 1])
        BY <3>3
      <4>2. g[i] = SendWhole(g[i - 1])
        BY <3>2, <3>3, <4>1
      <4> HIDE DEF g
      <4>3. QED
        BY <2>3, <4>2 DEF Stage
    <3>4. CASE i # k
      <4>1. i \in 0..(k - 1)
        BY <1>4, <2>1, <3>4
      <4>2. g[i] = h[i]
        BY <3>4
      <4>3. h[i] = SendWhole(h[i - 1])
        BY <1>8, <2>3, <4>1 DEF Stage
      <4>4. g[i] = SendWhole(g[i - 1])
        BY <3>2, <4>2, <4>3
      <4> HIDE DEF g
      <4>5. QED
        BY <2>3, <4>4 DEF Stage
    <3>5. QED
      BY <3>3, <3>4
  <2>4. QED
    BY <2>2, <2>3
<1>10. g = [i \in 0..k |-> g[i]]
  OBVIOUS
<1> HIDE DEF g
<1>11. g = [i \in 0..k |-> Stage(g, i)]
  BY <1>9, <1>10
<1>12. P(k)
  BY <1>11
<1>13. QED
  BY <1>4, <1>12

LEMMA SentStages ==
    ASSUME NEW n \in Nat
    PROVE  \E h : /\ Sent(n) = h[n]
                  /\ h[0] = Loop0
                  /\ \A i \in 1..n : h[i] = SendWhole(h[i - 1])
<1> DEFINE h == CHOOSE f : f = [i \in 0..n |-> Stage(f, i)]
<1>1. h = [i \in 0..n |-> Stage(h, i)]
  BY StagesExist
<1>2. Sent(n) = h[n]
  BY DEF Sent, Stage
<1> HIDE DEF h
<1>3. 0 \in 0..n /\ \A i \in 1..n : i \in 0..n /\ i # 0
  OBVIOUS
<1>4. h[0] = Loop0
  BY <1>1, <1>3 DEF Stage
<1>5. \A i \in 1..n : h[i] = SendWhole(h[i - 1])
  BY <1>1, <1>3 DEF Stage
<1>6. QED
  BY <1>2, <1>4, <1>5

\* After n messages that many have left the queue.
LEMMA SentType ==
    ASSUME Loop0 \in LoopStates, Now \in Int, NEW n \in 0..Len(s.queue),
           Len(s.queue) \in Nat
    PROVE  /\ Sent(n) \in LoopStates
           /\ Len(Sent(n).queue) = Len(s.queue) - n
<1>1. n \in Nat /\ n <= Len(s.queue)
  OBVIOUS
<1>2. PICK h : /\ Sent(n) = h[n] /\ h[0] = Loop0
               /\ \A i \in 1..n : h[i] = SendWhole(h[i - 1])
  BY <1>1, SentStages
<1> DEFINE P(i) == h[i] \in LoopStates /\ Len(h[i].queue) = Len(s.queue) - i
           S == {i \in 0..n : ~P(i)}
<1>3. SUFFICES S = {}
  <2>1. n \in 0..n
    BY <1>1
  <2>2. P(n)
    BY <1>3, <2>1
  <2>3. QED
    BY <1>2, <2>2
<1>4. SUFFICES ASSUME S # {} PROVE FALSE
  OBVIOUS
<1>5. PICK k \in S : \A g \in S : k <= g
  <2>1. S \in SUBSET Nat
    BY <1>1
  <2> HIDE DEF S
  <2>2. QED
    BY <1>4, <2>1, LowestNumber
<1>6. k \in 0..n /\ ~P(k)
  BY <1>5
<1>7. k # 0
  <2>1. Loop0.queue = s.queue
    BY DEF Loop0
  <2>2. P(0)
    BY <1>2, <2>1
  <2>3. QED
    BY <1>6, <2>2
<1>8. k - 1 \in 0..n /\ k \in 1..n /\ ~(k <= k - 1)
  BY <1>1, <1>6, <1>7
<1>9. P(k - 1)
  <2>1. k - 1 \notin S
    BY <1>5, <1>8
  <2>2. QED
    BY <1>8, <2>1
<1> DEFINE l == h[k - 1]
<1>10. h[k] = SendWhole(l)
  BY <1>2, <1>8
<1>11. l \in LoopStates /\ Len(l.queue) = Len(s.queue) - (k - 1)
  BY <1>9
<1> HIDE DEF l
<1>12. l.queue # << >>
  <2>1. Len(l.queue) > 0
    BY <1>1, <1>8, <1>11
  <2>2. QED
    BY <2>1
<1>13. /\ SendWhole(l) \in LoopStates
       /\ Len(SendWhole(l).queue) = Len(l.queue) - 1
  BY <1>11, <1>12, SendWholeType
<1>14. Len(s.queue) - (k - 1) - 1 = Len(s.queue) - k
  BY <1>1, <1>8
<1>15. P(k)
  BY <1>10, <1>11, <1>13, <1>14
<1>16. QED
  BY <1>6, <1>15

-----------------------------------------------------------------------------
(* A message that waits                                                    *)

RateTypeOK ==
    /\ real \in Nat /\ cached \in Int
    /\ s \in [last : Instants, okay : BOOLEAN, queue : Queues, write : BOOLEAN]
    /\ wakeup \in [due : Int, fired : Nat]
    /\ ideal \in Ideals /\ fair \in BOOLEAN

\* Between batches no event is pending, and an event for writing is only there
\* while the socket asks for it: what is left of the queue after a full kernel
\* is written when it asks again.
Polled ==
    /\ ~inLoop => events = {}
    /\ "write" \in events => s.write

RateInv == RateTypeOK /\ Polled /\ LimitedWaits

LEMMA NowType ==
    ASSUME RateTypeOK
    PROVE  Now \in Int
BY DEF RateTypeOK, Now

LEMMA Loop0Type ==
    ASSUME RateTypeOK
    PROVE  Loop0 \in LoopStates
BY DEF RateTypeOK, Loop0, LoopStates

LEMMA RateStarts ==
    ASSUME RateInit
    PROVE  RateInv
<1>1. real \in Nat /\ cached \in Int
  <2>1. Whole \in Nat
    BY WholeType
  <2>2. QED
    BY <2>1 DEF RateInit
<1>2. s \in [last : Instants, okay : BOOLEAN, queue : Queues, write : BOOLEAN]
  <2> DEFINE stamp == SetBucket(Stamp(0), real, BucketSize)
  <2>1. stamp \in Instants
    BY <1>1, SetBucketType, RateAssumption
  <2> HIDE DEF stamp
  <2>2. s = [last |-> stamp, okay |-> FALSE, queue |-> << >>, write |-> FALSE]
    BY DEF RateInit, stamp
  <2>3. << >> \in Queues
    BY DEF Queues
  <2>4. QED
    BY <2>1, <2>2, <2>3
<1>3. wakeup \in [due : Int, fired : Nat]
  BY DEF RateInit
<1>4. ideal \in Ideals /\ fair \in BOOLEAN
  <2>1. Full \in Int
    BY ProductInt, RateAssumption, WholeType DEF Full
  <2>2. QED
    BY <1>1, <2>1 DEF RateInit, Ideals
<1>5. Polled
  BY DEF RateInit, Polled
<1>6. LimitedWaits
  BY DEF RateInit, LimitedWaits
<1>7. QED
  BY <1>1, <1>2, <1>3, <1>4, <1>5, <1>6 DEF RateInv, RateTypeOK

\* What socket_process_wqueue leaves in the socket.
LEMMA LeaveType ==
    ASSUME NEW l \in LoopStates, NEW write \in BOOLEAN, Leave(l, write)
    PROVE  /\ s' \in [last : Instants, okay : BOOLEAN, queue : Queues,
                      write : BOOLEAN]
           /\ ideal' \in Ideals /\ fair' \in BOOLEAN
           /\ s'.queue = l.queue /\ s'.write = write
<1>1. /\ l.last \in Instants /\ l.okay \in BOOLEAN /\ l.queue \in Queues
      /\ l.ideal \in Ideals /\ l.fair \in BOOLEAN
  BY DEF LoopStates
<1>2. /\ s' = [last |-> l.last, okay |-> l.okay, queue |-> l.queue,
               write |-> write]
      /\ ideal' = l.ideal /\ fair' = l.fair
  BY DEF Leave
<1>3. QED
  BY <1>1, <1>2

LEMMA ProcessWqueueStep ==
    ASSUME RateInv, ProcessWqueue
    PROVE  RateInv'
<1>1. /\ RateTypeOK /\ Polled /\ LimitedWaits
      /\ inLoop /\ "write" \in events
      /\ events' = events \ {"write"} /\ real' = real /\ inLoop' = inLoop
  BY DEF RateInv, ProcessWqueue
<1>2. s.write = TRUE
  BY <1>1 DEF Polled, RateTypeOK
<1>3. Now \in Int /\ Loop0 \in LoopStates
  BY <1>1, NowType, Loop0Type
<1>4. s.queue \in Queues /\ Len(s.queue) \in Nat
  BY <1>1 DEF RateTypeOK, Queues
<1>5. PICK n \in 0..Len(s.queue) :
         /\ AllSent(n) \/ Limited(n) \/ KernelFull(n)
         /\ cached' = IF s.queue = << >> \/ (n = 0 /\ s.okay) THEN cached ELSE Now
  BY DEF ProcessWqueue
<1> DEFINE l == Sent(n)
<1>6. l \in LoopStates /\ Len(l.queue) = Len(s.queue) - n
  BY <1>3, <1>4, SentType
<1>7. real' \in Nat /\ cached' \in Int
  BY <1>1, <1>3, <1>5 DEF RateTypeOK
<1>8. Polled'
  BY <1>1 DEF Polled
<1>9. l.queue \in Queues
  BY <1>6 DEF LoopStates
<1>10. n < Len(s.queue) => l.queue # << >>
  <2>1. << >> = << >> /\ Len(<< >>) = 0
    OBVIOUS
  <2>2. n < Len(s.queue) => Len(s.queue) - n # 0
    BY <1>4
  <2>3. QED
    BY <1>6, <2>1, <2>2
<1> DEFINE Done == /\ s' \in [last : Instants, okay : BOOLEAN, queue : Queues,
                              write : BOOLEAN]
                   /\ ideal' \in Ideals /\ fair' \in BOOLEAN
                   /\ wakeup' \in [due : Int, fired : Nat]
                   /\ LimitedWaits'
<1>11. ASSUME AllSent(n)
       PROVE  Done
  <2>1. n = Len(s.queue) /\ Leave(l, FALSE) /\ wakeup' = wakeup
    BY <1>11 DEF AllSent
  <2> HIDE DEF l
  <2>2. Len(l.queue) = 0
    BY <1>4, <1>6, <2>1
  <2>3. l.queue = << >>
    BY <1>9, <2>2 DEF Queues
  <2>4. /\ s' \in [last : Instants, okay : BOOLEAN, queue : Queues, write : BOOLEAN]
        /\ ideal' \in Ideals /\ fair' \in BOOLEAN /\ s'.queue = l.queue
    BY <1>6, <2>1, LeaveType
  <2>5. QED
    BY <1>1, <2>1, <2>3, <2>4 DEF RateTypeOK, LimitedWaits
<1>12. ASSUME Limited(n)
       PROVE  Done
  <2> DEFINE m == [l EXCEPT !.fair = TRUE]
             d == Delay(l)
  <2>1. /\ n < Len(s.queue) /\ ~MayPass(l) /\ Leave(m, FALSE)
        /\ wakeup' = [due |-> real + d * Sub, fired |-> 0]
    BY <1>12 DEF Limited
  <2>2. d \in Nat
    BY <1>3, <1>6, <1>10, <2>1, DelayType
  <2> HIDE DEF d, l
  <2>3. m \in LoopStates
    BY <1>6 DEF LoopStates
  <2> HIDE DEF m
  <2>4. d * Sub \in Nat
    BY <2>2, TimeAssumption
  <2>5. real + d * Sub \in Nat
    BY <1>1, <2>4 DEF RateTypeOK
  <2>6. wakeup' \in [due : Int, fired : Nat] /\ wakeup'.due >= 0
    BY <2>1, <2>5
  <2>7. /\ s' \in [last : Instants, okay : BOOLEAN, queue : Queues, write : BOOLEAN]
        /\ ideal' \in Ideals /\ fair' \in BOOLEAN
    BY <2>1, <2>3, LeaveType
  <2>8. QED
    BY <2>6, <2>7 DEF LimitedWaits
<1>13. ASSUME KernelFull(n)
       PROVE  Done
  <2>1. n < Len(s.queue) /\ wakeup' = wakeup
    BY <1>13 DEF KernelFull
  <2>2. PICK k \in 0..(Head(l.queue) - 1) :
           Leave(IF k = 0 THEN l ELSE SendPart(l, k), s.write)
    BY <1>13 DEF KernelFull
  <2> DEFINE m == IF k = 0 THEN l ELSE SendPart(l, k)
  <2> HIDE DEF l
  <2>3. SendPart(l, k) \in LoopStates
    BY <1>3, <1>6, <1>10, <2>1, SendPartType
  <2>4. m \in LoopStates
    BY <1>6, <2>3
  <2>5. Leave(m, s.write)
    BY <2>2
  <2> HIDE DEF m
  <2>6. s.write \in BOOLEAN
    BY <1>2
  <2>7. /\ s' \in [last : Instants, okay : BOOLEAN, queue : Queues, write : BOOLEAN]
        /\ ideal' \in Ideals /\ fair' \in BOOLEAN /\ s'.write = s.write
    BY <2>4, <2>5, <2>6, LeaveType
  <2>8. QED
    BY <1>1, <1>2, <2>1, <2>7 DEF RateTypeOK, LimitedWaits
<1>14. Done
  BY <1>5, <1>11, <1>12, <1>13
<1>15. QED
  BY <1>7, <1>8, <1>14 DEF RateInv, RateTypeOK

LEMMA RateStep ==
    ASSUME RateInv, [RateNext]_rate
    PROVE  RateInv'
<1>1. RateTypeOK /\ Polled /\ LimitedWaits
  BY DEF RateInv
<1>2. ASSUME RateTick
      PROVE  RateInv'
  <2>1. PICK d \in Steps :
           /\ real' = real + d
           /\ wakeup' = IF wakeup.due >= 0 /\ wakeup.due <= real + d
                        THEN [due |-> -1, fired |-> 1] ELSE wakeup
           /\ ideal' = ideal
           /\ cached' = cached /\ s' = s /\ events' = events
           /\ inLoop' = inLoop /\ fair' = fair
    BY <1>2 DEF RateTick
  <2>2. d \in Nat
    BY RateAssumption
  <2>3. real' \in Nat
    BY <1>1, <2>1, <2>2 DEF RateTypeOK
  <2>4. wakeup' \in [due : Int, fired : Nat]
    BY <1>1, <2>1 DEF RateTypeOK
  <2>6. RateTypeOK'
    BY <1>1, <2>1, <2>3, <2>4 DEF RateTypeOK
  <2>7. Polled'
    BY <1>1, <2>1 DEF Polled
  <2>8. LimitedWaits'
    BY <1>1, <2>1 DEF LimitedWaits
  <2>9. QED
    BY <2>6, <2>7, <2>8 DEF RateInv
<1>3. ASSUME RateEpoll
      PROVE  RateInv'
  <2>1. /\ ~inLoop /\ inLoop' /\ cached' = -1 /\ real' = real /\ s' = s
        /\ wakeup' = wakeup /\ ideal' = ideal /\ fair' = fair
        /\ "write" \in events' => s.write
        /\ "timer" \in events' <=> wakeup.fired > 0
    BY <1>3 DEF RateEpoll
  <2>2. RateTypeOK'
    BY <1>1, <2>1 DEF RateTypeOK
  <2>3. Polled'
    BY <2>1 DEF Polled
  <2>4. LimitedWaits'
    BY <1>1, <2>1 DEF LimitedWaits, Polled
  <2>5. QED
    BY <2>2, <2>3, <2>4 DEF RateInv
<1>4. ASSUME RateEndBatch \/ ReadDone
      PROVE  RateInv'
  <2>1. /\ real' = real /\ cached' \in {cached, Now} /\ s' = s /\ wakeup' = wakeup
        /\ ideal' = ideal /\ fair' = fair
        /\ events' \subseteq events
        /\ "timer" \in events => "timer" \in events'
        /\ ~inLoop' => events' = {}
    BY <1>4 DEF RateEndBatch, ReadDone
  <2>2. RateTypeOK'
    BY <1>1, <2>1, NowType DEF RateTypeOK
  <2>3. Polled'
    BY <1>1, <2>1 DEF Polled
  <2>4. LimitedWaits'
    BY <1>1, <2>1 DEF LimitedWaits
  <2>5. QED
    BY <2>2, <2>3, <2>4 DEF RateInv
<1>5. ASSUME NEW size \in Sizes, QueueMessage(size)
      PROVE  RateInv'
  <2> DEFINE q == Append(s.queue, size)
  <2>1. /\ inLoop /\ inLoop' = inLoop /\ real' = real /\ cached' = cached
        /\ wakeup' = wakeup /\ events' = events /\ ideal' = ideal /\ fair' = fair
        /\ s' = [s EXCEPT !.queue = q, !.write = TRUE]
    BY <1>5 DEF QueueMessage
  <2>2. s \in [last : Instants, okay : BOOLEAN, queue : Queues, write : BOOLEAN]
    BY <1>1 DEF RateTypeOK
  <2>3. q \in Queues
    <3>1. size \in 1..Largest /\ s.queue \in Seq(1..Largest)
      BY <2>2, RateAssumption DEF Queues
    <3>2. QED
      BY <3>1 DEF Queues
  <2> HIDE DEF q
  <2>4. /\ s' \in [last : Instants, okay : BOOLEAN, queue : Queues, write : BOOLEAN]
        /\ s'.write = TRUE
    BY <2>1, <2>2, <2>3
  <2>5. RateTypeOK'
    BY <1>1, <2>1, <2>4 DEF RateTypeOK
  <2>6. Polled'
    BY <2>1, <2>4 DEF Polled
  <2>7. LimitedWaits'
    BY <2>4 DEF LimitedWaits
  <2>8. QED
    BY <2>5, <2>6, <2>7 DEF RateInv
<1>6. ASSUME RateLimitCb
      PROVE  RateInv'
  <2>1. /\ inLoop /\ inLoop' = inLoop /\ real' = real /\ cached' = cached
        /\ s' = [s EXCEPT !.write = TRUE, !.okay = TRUE]
        /\ fair' = (fair /\ wakeup.fired > 0)
        /\ wakeup' = [wakeup EXCEPT !.fired = 0] /\ ideal' = ideal
    BY <1>6 DEF RateLimitCb
  <2>2. /\ s' \in [last : Instants, okay : BOOLEAN, queue : Queues, write : BOOLEAN]
        /\ s'.write = TRUE
    BY <1>1, <2>1 DEF RateTypeOK
  <2>3. wakeup' \in [due : Int, fired : Nat]
    BY <1>1, <2>1 DEF RateTypeOK
  <2>4. RateTypeOK'
    BY <1>1, <2>1, <2>2, <2>3 DEF RateTypeOK
  <2>5. Polled'
    BY <2>1, <2>2 DEF Polled
  <2>6. LimitedWaits'
    BY <2>2 DEF LimitedWaits
  <2>7. QED
    BY <2>4, <2>5, <2>6 DEF RateInv
<1>7. ASSUME ProcessWqueue
      PROVE  RateInv'
  BY <1>7, ProcessWqueueStep
<1>8. ASSUME UNCHANGED rate
      PROVE  RateInv'
  BY <1>1, <1>8 DEF rate, RateInv, RateTypeOK, Polled, LimitedWaits
<1>9. QED
  BY <1>2, <1>3, <1>4, <1>5, <1>6, <1>7, <1>8 DEF RateNext

\* A message that the bucket holds back is never forgotten, whatever the rate,
\* the size of the bucket, the messages and the passing of time: the socket asks
\* to be polled for writing, the timer is armed, or its expiration is still to be
\* handled (socket.c:330-331 and event.c's timer_cb).
THEOREM Waits == RateSpec => []LimitedWaits
<1>1. RateInit => RateInv
  BY RateStarts
<1>2. RateInv /\ [RateNext]_rate => RateInv'
  BY RateStep
<1>3. RateInv => LimitedWaits
  BY DEF RateInv
<1>4. QED
  BY <1>1, <1>2, <1>3, PTL DEF RateSpec

-----------------------------------------------------------------------------
(* The rate that is held: the arithmetic of time.c and of the bucket        *)

LEMMA ProductNat == \A a, b \in Nat : a * b \in Nat
OBVIOUS

LEMMA Distributes == \A a, b, c \in Int : a * (b + c) = a * b + a * c
OBVIOUS

LEMMA Commutes == \A a, b \in Int : a * b = b * a
OBVIOUS

LEMMA Associates == \A a, b, c \in Int : a * (b * c) = (a * b) * c
OBVIOUS

LEMMA Grows == \A a \in Nat : \A b, c \in Int : b <= c => a * b <= a * c
OBVIOUS

LEMMA DivMod ==
    ASSUME NEW a \in Int, NEW b \in Nat \ {0}
    PROVE  /\ a \div b \in Int /\ a % b \in 0..(b - 1)
           /\ a = b * (a \div b) + (a % b)
OBVIOUS

\* A quotient of C is off by less than the divisor, towards zero.
LEMMA QuotBounds ==
    ASSUME NEW a \in Int, NEW b \in Nat \ {0}
    PROVE  /\ Quot(a, b) \in Int
           /\ a - b < b * Quot(a, b) /\ b * Quot(a, b) < a + b
           /\ a >= 0 => Quot(a, b) >= 0 /\ b * Quot(a, b) <= a
<1> DEFINE q == a \div b
           c == -a
           r == c \div b
<1>1. CASE a >= 0
  <2>1. q \in Int /\ a % b \in 0..(b - 1) /\ a = b * q + (a % b) /\ q >= 0
    BY <1>1, DivMod, Division
  <2>2. Quot(a, b) = q
    BY <1>1 DEF Quot
  <2>3. b * q \in Int
    BY <2>1, ProductInt
  <2> HIDE DEF q
  <2> DEFINE m == a % b
             p == b * q
  <2>4. m \in 0..(b - 1) /\ a = p + m /\ p \in Int
    BY <2>1, <2>3
  <2> HIDE DEF m, p
  <2>5. a - b < p /\ p < a + b /\ p <= a
    BY <2>4
  <2>6. QED
    BY <2>1, <2>2, <2>5 DEF p
<1>2. CASE ~(a >= 0)
  <2>1. c \in Int
    OBVIOUS
  <2>2. r \in Int /\ c % b \in 0..(b - 1) /\ c = b * r + (c % b)
    BY <2>1, DivMod
  <2>3. Quot(a, b) = -r
    BY <1>2 DEF Quot
  <2>4. b * r \in Int /\ b * (-r) = -(b * r)
    BY <2>2
  <2>5. c = -a
    OBVIOUS
  <2> DEFINE m == c % b
             p == b * r
  <2>6. m \in 0..(b - 1) /\ c = p + m /\ p \in Int
    BY <2>2, <2>4
  <2>7. b * (-r) = -p
    BY <2>4
  <2>8. -r \in Int
    BY <2>2
  <2> HIDE DEF c, r, m, p
  <2>9. a - b < -p /\ -p < a + b
    BY <2>5, <2>6
  <2>10. QED
    BY <1>2, <2>3, <2>7, <2>8, <2>9
<1>3. QED
  BY <1>1, <1>2

LEMMA RestBounds ==
    ASSUME NEW a \in Int, NEW b \in Nat \ {0}
    PROVE  /\ Rest(a, b) \in Int /\ -b < Rest(a, b) /\ Rest(a, b) < b
           /\ a = b * Quot(a, b) + Rest(a, b)
<1> DEFINE p == b * Quot(a, b)
<1>1. Quot(a, b) \in Int /\ a - b < p /\ p < a + b
  BY QuotBounds
<1>2. p \in Int
  BY <1>1, ProductInt
<1>3. Rest(a, b) = a - p
  BY DEF Rest
<1> HIDE DEF p
<1>4. /\ Rest(a, b) \in Int /\ -b < Rest(a, b) /\ Rest(a, b) < b
      /\ a = p + Rest(a, b)
  BY <1>1, <1>2, <1>3
<1>5. QED
  BY <1>4 DEF p

\* What clock_gettime returns stands for its instant.
LEMMA StampInstant ==
    ASSUME NEW t \in Int
    PROVE  Stamp(t) \in Timespec /\ Instant(Stamp(t)) = t
<1> DEFINE q == t \div Whole
           m == t % Whole
<1>1. q \in Int /\ m \in 0..(Whole - 1) /\ t = Whole * q + m
  BY DivMod, WholeType
<1>2. Stamp(t) = [sec |-> q, nsec |-> m]
  BY DEF Stamp
<1> HIDE DEF q, m
<1>3. Stamp(t) \in Timespec
  BY <1>1, <1>2 DEF Timespec
<1>4. Instant(Stamp(t)) = q * Whole + m
  BY <1>2 DEF Instant
<1>5. q * Whole = Whole * q
  BY <1>1, WholeType
<1>6. QED
  BY <1>1, <1>3, <1>4, <1>5

\* time_add normalises again, and moves the instant by exactly ms.
LEMMA TimeAddInstant ==
    ASSUME NEW tp \in Timespec, NEW ms \in Int
    PROVE  /\ TimeAdd(tp, ms) \in Timespec
           /\ Instant(TimeAdd(tp, ms)) = Instant(tp) + ms * Sub
<1> DEFINE r == Rest(ms, Sec)
           q == Quot(ms, Sec)
           c == r * Sub
           u == tp.nsec
           e == tp.sec
           nsec == u + c
           secs == e + q
<1>1. /\ q \in Int /\ r \in Int /\ -Sec < r /\ r < Sec /\ ms = Sec * q + r
  BY RestBounds, QuotBounds, TimeAssumption
<1>2. u \in 0..(Whole - 1) /\ e \in Int
  BY DEF Timespec
<1>3. TimeAdd(tp, ms) = IF nsec >= Whole THEN [sec |-> secs + 1, nsec |-> nsec - Whole]
                        ELSE IF nsec < 0 THEN [sec |-> secs - 1, nsec |-> nsec + Whole]
                        ELSE [sec |-> secs, nsec |-> nsec]
  BY DEF TimeAdd
<1>4. Instant(tp) = e * Whole + u
  BY DEF Instant
<1> HIDE DEF r, q, u, e
<1>5. c \in Int /\ -Whole < c /\ c < Whole
  <2>1. Sub * r <= Sub * (Sec - 1) /\ Sub * (1 - Sec) <= Sub * r
    BY <1>1, TimeAssumption, Grows
  <2>2. /\ Sub * (Sec - 1) = Sec * Sub - Sub /\ Sub * (1 - Sec) = Sub - Sec * Sub
        /\ Sub * r = r * Sub /\ r * Sub \in Int /\ Sec * Sub \in Int
    BY <1>1, TimeAssumption
  <2> DEFINE y == Sub * (Sec - 1)
             z == Sub * (1 - Sec)
             w == Sec * Sub
  <2>3. c <= y /\ z <= c /\ y = w - Sub /\ z = Sub - w /\ c \in Int /\ w \in Int
    BY <2>1, <2>2
  <2>4. Whole = w
    BY DEF Whole
  <2> HIDE DEF y, z, w, c
  <2>5. QED
    BY <2>3, <2>4, TimeAssumption
<1>6. q * Whole + c = ms * Sub
  <2>1. q * (Sec * Sub) + r * Sub = (Sec * q + r) * Sub
    BY <1>1, TimeAssumption
  <2>2. QED
    BY <1>1, <2>1 DEF Whole, c
<1> HIDE DEF c
<1>7. Whole \in Nat
  BY WholeType
<1>8. ASSUME NEW k \in {-1, 0, 1}
      PROVE  (secs + k) * Whole + (nsec - k * Whole) = Instant(tp) + ms * Sub
  <2>1. (e + q + k) * Whole = e * Whole + q * Whole + k * Whole
    BY <1>1, <1>2, <1>7
  <2> DEFINE x == e * Whole
             y == q * Whole
             z == k * Whole
  <2>2. x \in Int /\ y \in Int /\ z \in Int
    BY <1>1, <1>2, <1>7
  <2>3. (secs + k) * Whole = x + y + z
    BY <2>1
  <2>4. Instant(tp) = x + u /\ y + c = ms * Sub
    BY <1>4, <1>6
  <2> HIDE DEF x, y
  <2>5. x + y + z + (nsec - z) = x + u + (y + c)
    BY <1>2, <1>5, <2>2
  <2>6. QED
    BY <2>3, <2>4, <2>5
<1>9. CASE nsec >= Whole
  <2>1. TimeAdd(tp, ms) = [sec |-> secs + 1, nsec |-> nsec - Whole]
    BY <1>3, <1>9
  <2>2. secs + 1 \in Int /\ nsec - Whole \in 0..(Whole - 1)
    BY <1>1, <1>2, <1>5, <1>7, <1>9
  <2>3. (secs + 1) * Whole + (nsec - 1 * Whole) = Instant(tp) + ms * Sub
    BY <1>8
  <2>4. 1 * Whole = Whole
    BY <1>7
  <2> HIDE DEF secs, nsec
  <2>5. QED
    BY <2>1, <2>2, <2>3, <2>4 DEF Timespec, Instant
<1>10. CASE nsec < 0
  <2>1. TimeAdd(tp, ms) = [sec |-> secs - 1, nsec |-> nsec + Whole]
    <3>1. nsec \in Int
      BY <1>2, <1>5
    <3> HIDE DEF nsec, secs
    <3>2. ~(nsec >= Whole)
      BY <1>7, <1>10, <3>1
    <3>3. QED
      BY <1>3, <1>10, <3>2
  <2>2. secs - 1 \in Int /\ nsec + Whole \in 0..(Whole - 1)
    BY <1>1, <1>2, <1>5, <1>7, <1>10
  <2>3. (secs + (-1)) * Whole + (nsec - (-1) * Whole) = Instant(tp) + ms * Sub
    BY <1>8
  <2>4. /\ secs + (-1) = secs - 1 /\ (-1) * Whole = -Whole
        /\ nsec - (-Whole) = nsec + Whole
    BY <1>1, <1>2, <1>5, <1>7
  <2> HIDE DEF secs, nsec
  <2>5. QED
    BY <2>1, <2>2, <2>3, <2>4 DEF Timespec, Instant
<1>11. CASE ~(nsec >= Whole) /\ ~(nsec < 0)
  <2>1. TimeAdd(tp, ms) = [sec |-> secs, nsec |-> nsec]
    BY <1>3, <1>11
  <2>2. secs \in Int /\ nsec \in 0..(Whole - 1)
    BY <1>1, <1>2, <1>5, <1>7, <1>11
  <2>3. (secs + 0) * Whole + (nsec - 0 * Whole) = Instant(tp) + ms * Sub
    BY <1>8
  <2>4. secs + 0 = secs /\ nsec - 0 * Whole = nsec
    BY <1>7, <2>2
  <2> HIDE DEF secs, nsec
  <2>5. QED
    BY <2>1, <2>2, <2>3, <2>4 DEF Timespec, Instant
<1>12. QED
  BY <1>9, <1>10, <1>11

\* time_diff gains less than a millisecond.
LEMMA TimeDiffBound ==
    ASSUME NEW a \in Timespec, NEW b \in Timespec
    PROVE  /\ TimeDiff(a, b) \in Int /\ Instant(a) - Instant(b) \in Int
           /\ TimeDiff(a, b) * Sub <= Instant(a) - Instant(b) + Sub
<1> DEFINE d == a.sec - b.sec
           e == a.nsec - b.nsec
           q == Quot(e, Sub)
<1>1. /\ a.sec \in Int /\ b.sec \in Int /\ a.nsec \in Int /\ b.nsec \in Int
      /\ d \in Int /\ e \in Int
  BY DEF Timespec
<1>2. TimeDiff(a, b) = d * Sec + q
  BY DEF TimeDiff
<1>3. Instant(a) - Instant(b) = d * Whole + e
  <2>1. d * Whole = a.sec * Whole - b.sec * Whole
    BY <1>1, WholeType
  <2> DEFINE x == a.sec * Whole
             y == b.sec * Whole
  <2>2. x \in Int /\ y \in Int /\ d * Whole = x - y
    BY <1>1, <2>1, WholeType
  <2>3. Instant(a) = x + a.nsec /\ Instant(b) = y + b.nsec
    BY DEF Instant
  <2> HIDE DEF x, y, d
  <2>4. QED
    BY <1>1, <2>2, <2>3
<1> HIDE DEF d, e
<1>4. q \in Int /\ Sub * q < e + Sub
  BY <1>1, QuotBounds, TimeAssumption
<1> HIDE DEF q
<1>5. (d * Sec + q) * Sub = d * Whole + Sub * q
  <2>1. (d * Sec + q) * Sub = d * (Sec * Sub) + Sub * q
    BY <1>1, <1>4, TimeAssumption
  <2>2. QED
    BY <2>1 DEF Whole
<1> DEFINE x == d * Whole
           y == Sub * q
<1>6. x \in Int /\ y \in Int /\ d * Sec + q \in Int
  BY <1>1, <1>4, WholeType, TimeAssumption
<1>7. (d * Sec + q) * Sub = x + y /\ Instant(a) - Instant(b) = x + e /\ y < e + Sub
  BY <1>3, <1>4, <1>5
<1> HIDE DEF x, y
<1>8. x + y <= x + e + Sub /\ x + e \in Int
  BY <1>1, <1>6, <1>7, TimeAssumption
<1>9. QED
  BY <1>2, <1>6, <1>7, <1>8

\* What socket_get_bucket returns is in the bucket, but for a millisecond.
LEMMA BucketBound ==
    ASSUME NEW sent \in Timespec, NEW now \in Int
    PROVE  /\ Bucket(sent, now) \in 0..BucketSize
           /\ Bucket(sent, now) > 0 =>
                 Bucket(sent, now) * Whole
                    <= Rate * (now - Instant(sent)) + Rate * Sub
<1> DEFINE d == TimeDiff(Stamp(now), sent)
           t == Quot(d * Rate, Sec)
           b == Bucket(sent, now)
           i == now - Instant(sent)
<1>1. d \in Int /\ d * Sub <= i + Sub /\ i \in Int
  BY StampInstant, TimeDiffBound
<1>2. b = IF t > BucketSize THEN BucketSize ELSE IF t < 0 THEN 0 ELSE t
  BY DEF Bucket
<1> HIDE DEF d, i, b
<1>3. /\ t \in Int /\ d * Rate \in Int
      /\ d * Rate >= 0 => Sec * t <= d * Rate
      /\ Sec * t < d * Rate + Sec
  BY <1>1, ProductInt, QuotBounds, TimeAssumption, RateAssumption
<1> HIDE DEF t
<1>4. b \in 0..BucketSize /\ (b > 0 => b <= t)
  BY <1>2, <1>3, RateAssumption
<1>5. ASSUME b > 0
      PROVE  b * Whole <= Rate * i + Rate * Sub
  <2>1. t >= 1 /\ b <= t
    BY <1>3, <1>4, <1>5
  <2>2. d * Rate >= 0
    <3>1. Sec * 1 <= Sec * t
      BY <1>3, <2>1, Grows, TimeAssumption
    <3> DEFINE x == Sec * t
               y == d * Rate
    <3>2. Sec <= x /\ x \in Int /\ x < y + Sec /\ y \in Int
      BY <1>3, <3>1, ProductInt, TimeAssumption
    <3> HIDE DEF x, y
    <3>3. y >= 0
      BY <3>2, TimeAssumption
    <3>4. QED
      BY <3>3 DEF y
  <2>3. Sec * t <= d * Rate
    BY <1>3, <2>2
  <2>4. Sub * (Sec * t) <= Sub * (d * Rate)
    BY <1>3, <2>3, ProductInt, Grows, TimeAssumption
  <2>5. Sub * (Sec * t) = Whole * t
    <3>1. Sub * (Sec * t) = (Sec * Sub) * t
      BY <1>3, TimeAssumption
    <3>2. QED
      BY <3>1 DEF Whole
  <2>6. Whole * b <= Whole * t
    BY <1>3, <1>4, <2>1, Grows, WholeType
  <2>7. Rate * (d * Sub) <= Rate * (i + Sub)
    BY <1>1, ProductInt, Grows, TimeAssumption, RateAssumption
  <2>8. Sub * (d * Rate) = Rate * (d * Sub)
    BY <1>1, TimeAssumption, RateAssumption
  <2>9. Rate * (i + Sub) = Rate * i + Rate * Sub
    BY <1>1, Distributes, TimeAssumption, RateAssumption
  <2>10. b * Whole = Whole * b
    BY <1>4, WholeType
  <2> DEFINE x1 == b * Whole
             x2 == Whole * t
             x3 == Rate * (d * Sub)
             x4 == Rate * i + Rate * Sub
  <2>11. x1 \in Int /\ x2 \in Int /\ x3 \in Int /\ x4 \in Int
    BY <1>1, <1>3, <1>4, ProductInt, WholeType, TimeAssumption, RateAssumption
  <2>12. x1 <= x2 /\ x2 <= x3 /\ x3 <= x4
    BY <2>4, <2>5, <2>6, <2>7, <2>8, <2>9, <2>10
  <2> HIDE DEF x1, x2, x3, x4
  <2>13. x1 <= x4
    BY <2>11, <2>12
  <2>14. QED
    BY <2>13 DEF x1, x4
<1>6. QED
  BY <1>4, <1>5 DEF b, i

\* What socket_set_bucket stores is no more than what it was given.
LEMMA SetBucketBound ==
    ASSUME NEW sent, NEW now \in Int, NEW bucket \in Nat
    PROVE  LET stamp == SetBucket(sent, now, bucket)
           IN /\ stamp \in Timespec /\ Instant(stamp) \in Int
              /\ Instant(stamp) <= now
              /\ Rate * (now - Instant(stamp)) <= bucket * Whole
<1> DEFINE q == Quot(bucket * Sec, Rate)
           stamp == SetBucket(sent, now, bucket)
           i == Instant(stamp)
<1>1. bucket * Sec \in Nat
  BY TimeAssumption
<1>2. q \in Int /\ q >= 0 /\ Rate * q <= bucket * Sec
  BY <1>1, QuotBounds, RateAssumption
<1>3. stamp = TimeAdd(Stamp(now), -q)
  BY DEF SetBucket
<1> HIDE DEF q, stamp
<1>4. -q \in Int
  BY <1>2
<1>5. stamp \in Timespec /\ i = now + (-q) * Sub
  BY <1>3, <1>4, StampInstant, TimeAddInstant
<1>6. (-q) * Sub = -(q * Sub) /\ q * Sub \in Nat
  BY <1>2, TimeAssumption
<1> HIDE DEF i
<1> DEFINE p == q * Sub
<1>7. p \in Nat /\ i = now - p
  BY <1>5, <1>6
<1> HIDE DEF p
<1>8. i \in Int /\ i <= now /\ now - i = p
  BY <1>7
<1>9. Rate * p <= bucket * Whole
  <2>1. Sub * (Rate * q) <= Sub * (bucket * Sec)
    BY <1>1, <1>2, ProductInt, Grows, TimeAssumption, RateAssumption
  <2>2. Sub * (Rate * q) = Rate * (q * Sub)
    BY <1>2, TimeAssumption, RateAssumption
  <2>3. Sub * (bucket * Sec) = bucket * (Sec * Sub)
    BY TimeAssumption
  <2>4. QED
    BY <2>1, <2>2, <2>3 DEF p, Whole
<1>10. QED
  BY <1>5, <1>8, <1>9 DEF stamp, i

\* The lenient bucket covers what the socket believes to have.
Covered(i, sent) ==
    Full <= i.lenient \/ Rate * (i.at - Instant(sent)) <= i.lenient

\* At instant t the lenient bucket has enough for the message in front.
Enough(i, queue, t) ==
    Head(queue) * Whole <= Filled(i.lenient, t - i.at) + Rate * (2 * Sub)

Held(l) ==
    /\ l.last \in Timespec /\ Instant(l.last) \in Int /\ Instant(l.last) <= Now
    /\ l.ideal.lenient \in 0..Most /\ l.ideal.at <= Now
    /\ ~l.okay => Covered(l.ideal, l.last)
    /\ l.okay /\ l.fair => Enough(l.ideal, l.queue, Now)

LEMMA MostType ==
    /\ Full \in Nat /\ Most \in Nat /\ Full <= Most
    /\ \A n \in 0..Largest : n * Whole \in Nat /\ n * Whole <= Most
    /\ \A n \in 0..BucketSize : n * Whole \in Nat /\ n * Whole <= Full
<1> DEFINE m == IF BucketSize > Largest THEN BucketSize ELSE Largest
<1>1. /\ m \in Nat /\ Largest <= m /\ BucketSize <= m
      /\ BucketSize \in Nat /\ Largest \in Nat
  BY RateAssumption
<1>2. Most = m * Whole
  BY DEF Most
<1> HIDE DEF m
<1>3. \A a, b \in Nat : a <= b => a * Whole \in Nat /\ a * Whole <= b * Whole
  <2> SUFFICES ASSUME NEW a \in Nat, NEW b \in Nat, a <= b
               PROVE  a * Whole \in Nat /\ a * Whole <= b * Whole
    OBVIOUS
  <2>1. Whole * a <= Whole * b
    BY Grows, WholeType
  <2>2. Whole * a = a * Whole /\ Whole * b = b * Whole /\ a * Whole \in Nat
    BY WholeType
  <2>3. QED
    BY <2>1, <2>2
<1>4. \A n \in 0..Largest : n \in Nat /\ n <= m
  BY <1>1
<1>5. \A n \in 0..BucketSize : n \in Nat /\ n <= BucketSize
  BY <1>1
<1>6. m * Whole \in Nat /\ BucketSize * Whole \in Nat
  BY <1>1, <1>3
<1>7. QED
  BY <1>1, <1>2, <1>3, <1>4, <1>5, <1>6 DEF Full

\* A bucket that fills does not overflow and loses nothing.
LEMMA FilledBound ==
    ASSUME NEW b \in Int, NEW d \in Nat, b <= Most
    PROVE  /\ Filled(b, d) \in Int /\ b <= Filled(b, d) /\ Filled(b, d) <= Most
           /\ Rate * d \in Nat
           /\ Filled(b, d) = Most \/ Filled(b, d) = b + Rate * d
<1> DEFINE p == Rate * d
<1>1. p \in Nat
  BY RateAssumption
<1>2. Filled(b, d) = IF b + p > Most THEN Most ELSE b + p
  BY DEF Filled
<1> HIDE DEF p
<1>3. /\ Filled(b, d) \in Int /\ b <= Filled(b, d) /\ Filled(b, d) <= Most
      /\ Filled(b, d) = Most \/ Filled(b, d) = b + p
  BY <1>1, <1>2, MostType
<1>4. QED
  BY <1>1, <1>3 DEF p

LEMMA FilledLater ==
    ASSUME NEW b \in Int, NEW d \in Int, NEW e \in Int, d <= e
    PROVE  Filled(b, d) <= Filled(b, e)
<1> DEFINE p == Rate * d
           q == Rate * e
<1>1. p \in Int /\ q \in Int /\ p <= q
  BY Grows, ProductInt, RateAssumption
<1>2. /\ Filled(b, d) = IF b + p > Most THEN Most ELSE b + p
      /\ Filled(b, e) = IF b + q > Most THEN Most ELSE b + q
  BY DEF Filled
<1> HIDE DEF p, q
<1>3. QED
  BY <1>1, <1>2, MostType

LEMMA EnoughLater ==
    ASSUME NEW i \in Ideals, NEW queue \in Queues, queue # << >>,
           NEW t \in Int, NEW u \in Int, t <= u, Enough(i, queue, t)
    PROVE  Enough(i, queue, u)
<1> DEFINE f == Filled(i.lenient, t - i.at)
           g == Filled(i.lenient, u - i.at)
           h == Head(queue) * Whole
           m == Rate * (2 * Sub)
<1>1. i.lenient \in Int /\ i.at \in Int
  BY DEF Ideals
<1>2. t - i.at \in Int /\ u - i.at \in Int /\ t - i.at <= u - i.at
  BY <1>1
<1>3. f \in Int /\ g \in Int /\ f <= g
  BY <1>1, <1>2, FilledLater, FilledType
<1>4. h \in Int /\ m \in Int
  BY FirstOf, ProductInt, WholeType, RateAssumption, TimeAssumption
<1>5. h <= f + m
  BY DEF Enough
<1> HIDE DEF f, g, h, m
<1>6. h <= g + m
  BY <1>3, <1>4, <1>5
<1>7. QED
  BY <1>6 DEF Enough, g, h, m

\* What a message that is counted leaves in the lenient bucket.
LEMMA CountedIs ==
    ASSUME NEW l \in LoopStates, NEW n \in Int
    PROVE  /\ l.okay /\ ~l.fair =>
                 /\ Counted(l, n).ideal.lenient = l.ideal.lenient
                 /\ Counted(l, n).ideal.at = l.ideal.at
           /\ ~(l.okay /\ ~l.fair) =>
                 /\ Counted(l, n).ideal.lenient =
                       Filled(Filled(l.ideal.lenient, Now - l.ideal.at) - n * Whole,
                              2 * Sub)
                 /\ Counted(l, n).ideal.at = Now
<1> DEFINE i == l.ideal
           left == Filled(i.lenient, Now - i.at) - n * Whole
           strict == IF i.stale THEN 0 ELSE Filled(i.strict, Now - i.at) - n * Whole
           fill == Filled(left, 2 * Sub)
           j == [lenient |-> fill, strict |-> strict, stale |-> i.stale, at |-> Now]
           k == [i EXCEPT !.strict = 0, !.stale = TRUE]
<1>1. i \in Ideals
  BY DEF LoopStates
<1>2. Counted(l, n) = IF l.okay /\ ~l.fair THEN [l EXCEPT !.ideal = k]
                                           ELSE [l EXCEPT !.ideal = j]
  BY <1>1 DEF Counted, LoopStates, Ideals
<1>3. k.lenient = i.lenient /\ k.at = i.at
  BY <1>1 DEF Ideals
<1>4. j.lenient = fill /\ j.at = Now
  OBVIOUS
<1> HIDE DEF j, k, fill
<1> HIDE DEF i
<1>5. [l EXCEPT !.ideal = k].ideal = k /\ [l EXCEPT !.ideal = j].ideal = j
  BY DEF LoopStates
<1>6. CASE l.okay /\ ~l.fair
  BY <1>2, <1>3, <1>5, <1>6 DEF i
<1>7. CASE ~(l.okay /\ ~l.fair)
  BY <1>2, <1>4, <1>5, <1>7 DEF fill, i
<1>8. QED
  BY <1>6, <1>7

\* What the bucket says it has, the lenient bucket has within a millisecond.
LEMMA BucketCovered ==
    ASSUME NEW l \in LoopStates, Held(l), ~l.okay, Now \in Int
    PROVE  /\ Filled(l.ideal.lenient, Now - l.ideal.at) \in 0..Most
           /\ Bucket(l.last, Now) \in 0..BucketSize
           /\ Bucket(l.last, Now) * Whole
                 <= Filled(l.ideal.lenient, Now - l.ideal.at) + Rate * Sub
<1> DEFINE i == l.ideal
           b == Bucket(l.last, Now)
           d == Now - i.at
           f == Filled(i.lenient, d)
           x == i.at - Instant(l.last)
           y == Now - Instant(l.last)
<1>1. /\ i \in Ideals /\ l.last \in Timespec /\ Instant(l.last) \in Int
      /\ i.lenient \in 0..Most /\ i.at <= Now
      /\ Full <= i.lenient \/ Rate * x <= i.lenient
  BY DEF LoopStates, Held, Covered
<1>2. i.at \in Int /\ i.lenient \in Int
  BY <1>1 DEF Ideals
<1>3. x \in Int /\ y \in Int /\ d \in Nat /\ x + d = y
  BY <1>1, <1>2
<1>4. /\ b \in 0..BucketSize
      /\ b > 0 => b * Whole <= Rate * y + Rate * Sub
  BY <1>1, BucketBound
<1>5. b * Whole \in Nat /\ b * Whole <= Full
  BY <1>4, MostType
<1>6. /\ f \in Int /\ i.lenient <= f /\ f <= Most /\ Rate * d \in Nat
      /\ f = Most \/ f = i.lenient + Rate * d
  <2> DEFINE e == i.lenient
  <2>1. e \in Int /\ e <= Most /\ d \in Nat
    BY <1>1, <1>2, <1>3, MostType
  <2> HIDE DEF d, e
  <2>2. /\ Filled(e, d) \in Int /\ e <= Filled(e, d) /\ Filled(e, d) <= Most
        /\ Rate * d \in Nat
        /\ Filled(e, d) = Most \/ Filled(e, d) = e + Rate * d
    BY <2>1, FilledBound
  <2>3. QED
    BY <2>2 DEF e
<1>7. Rate * x + Rate * d = Rate * y
  BY <1>3, Distributes, RateAssumption
<1> DEFINE p == Rate * x
           q == Rate * d
           r == Rate * y
           g == Rate * Sub
           w == b * Whole
<1>8. p \in Int /\ q \in Nat /\ r \in Int /\ g \in Nat
  BY <1>3, <1>6, ProductInt, RateAssumption, TimeAssumption
<1>9. /\ w \in Nat /\ w <= Full /\ p + q = r
      /\ b > 0 => w <= r + g
      /\ Full <= i.lenient \/ p <= i.lenient
      /\ f = Most \/ f = i.lenient + q
  BY <1>1, <1>4, <1>5, <1>6, <1>7
<1>10. b = 0 => w = 0
  BY WholeType
<1>11. b > 0 \/ b = 0
  BY <1>4, RateAssumption
<1> HIDE DEF i, b, d, x, y, p, q, r, g, w, f
<1>12. f \in 0..Most /\ w <= f + g
  BY <1>1, <1>2, <1>6, <1>8, <1>9, <1>10, <1>11, MostType
<1>13. QED
  BY <1>4, <1>12 DEF i, b, d, f, g, w

\* What a message that passes the bucket, or the timer, leaves.
LEMMA SendWholeIs ==
    ASSUME NEW l \in LoopStates, l.queue # << >>, Now \in Int
    PROVE  LET h == Head(l.queue)
               left == IF l.okay THEN 0 ELSE Bucket(l.last, Now) - h
           IN /\ SendWhole(l).okay = FALSE /\ SendWhole(l).fair = FALSE
              /\ SendWhole(l).ideal = Counted(l, h).ideal
              /\ SendWhole(l).last = SetBucket(l.last, Now, left)
<1> DEFINE h == Head(l.queue)
           left == IF l.okay THEN 0 ELSE Bucket(l.last, Now) - h
           c == Counted(l, h)
           stamp == SetBucket(c.last, Now, left)
<1>1. h \in Int
  BY FirstOf DEF LoopStates
<1>2. c \in LoopStates /\ c.last = l.last
  BY <1>1, CountedType
<1>3. SendWhole(l) = [c EXCEPT !.queue = Tail(@), !.okay = FALSE, !.fair = FALSE,
                               !.last = stamp]
  BY <1>2 DEF SendWhole, LoopStates
<1> HIDE DEF c, stamp
<1>4. /\ SendWhole(l).last = stamp /\ SendWhole(l).okay = FALSE
      /\ SendWhole(l).fair = FALSE /\ SendWhole(l).ideal = c.ideal
  BY <1>2, <1>3 DEF LoopStates
<1>5. QED
  BY <1>2, <1>4 DEF c, stamp

LEMMA SendPartIs ==
    ASSUME NEW l \in LoopStates, l.queue # << >>, Now \in Int,
           NEW k \in 0..(Head(l.queue) - 1)
    PROVE  LET h == Head(l.queue)
           IN /\ SendPart(l, k).okay = l.okay /\ SendPart(l, k).fair = l.fair
              /\ SendPart(l, k).ideal = Counted(l, k).ideal
              /\ SendPart(l, k).queue # << >>
              /\ Head(SendPart(l, k).queue) = h - k
              /\ SendPart(l, k).last =
                    IF l.okay THEN l.last
                    ELSE SetBucket(l.last, Now, Bucket(l.last, Now) - k)
<1> DEFINE h == Head(l.queue)
           c == Counted(l, k)
           rest == <<h - k>> \o Tail(l.queue)
           sent == IF l.okay THEN l.last
                   ELSE SetBucket(l.last, Now, Bucket(l.last, Now) - k)
<1>1. l.queue \in Queues
  BY DEF LoopStates
<1>2. h \in 1..Largest /\ Tail(l.queue) \in Seq(1..Largest)
  BY <1>1, FirstOf DEF Queues
<1>3. k \in Int /\ h - k \in 1..Largest
  BY <1>2, RateAssumption
<1>4. /\ c \in LoopStates /\ c.queue = l.queue /\ c.okay = l.okay
      /\ c.last = l.last /\ c.fair = l.fair
  BY <1>3, CountedType
<1>5. SendPart(l, k) = [c EXCEPT !.queue = rest, !.last = sent]
  BY <1>4 DEF SendPart, LoopStates
<1>6. rest # << >> /\ Head(rest) = h - k
  <2> DEFINE x == h - k
             t == Tail(l.queue)
  <2>1. <<x>> \in Seq(1..Largest) /\ t \in Seq(1..Largest) /\ Len(<<x>>) = 1
    BY <1>2, <1>3
  <2> HIDE DEF x, t
  <2>2. /\ <<x>> \o t \in Seq(1..Largest)
        /\ Len(<<x>> \o t) = 1 + Len(t)
        /\ (<<x>> \o t)[1] = x
    BY <2>1
  <2>3. Len(t) \in Nat
    BY <2>1
  <2>4. <<x>> \o t # << >> /\ Head(<<x>> \o t) = x
    BY <2>2, <2>3
  <2>5. QED
    BY <2>4 DEF x, t
<1> HIDE DEF c, rest, sent, h
<1>7. /\ SendPart(l, k).okay = c.okay /\ SendPart(l, k).fair = c.fair
      /\ SendPart(l, k).ideal = c.ideal /\ SendPart(l, k).queue = rest
      /\ SendPart(l, k).last = sent
  BY <1>4, <1>5 DEF LoopStates
<1>8. QED
  BY <1>4, <1>6, <1>7 DEF c, sent, h

\* Bytes that pass are in the lenient bucket, and it covers what is left.
LEMMA CountedHeld ==
    ASSUME NEW l \in LoopStates, l.queue # << >>, Now \in Int, Held(l),
           MayPass(l), NEW n \in 1..Head(l.queue), ~(l.okay /\ ~l.fair)
    PROVE  LET j == Counted(l, n).ideal
           IN /\ j.lenient \in 0..Most /\ j.at = Now
              /\ ~l.okay => /\ Bucket(l.last, Now) - n \in 0..BucketSize
                            /\ (Bucket(l.last, Now) - n) * Whole <= j.lenient
<1> DEFINE i == l.ideal
           j == Counted(l, n).ideal
           h == Head(l.queue)
           b == Bucket(l.last, Now)
           f == Filled(i.lenient, Now - i.at)
           left == f - n * Whole
           p == n * Whole
           q == h * Whole
           g == Rate * Sub
           m == Rate * (2 * Sub)
<1>1. h \in 1..Largest /\ n \in 1..h /\ n \in Int /\ h \in Int
  BY FirstOf, RateAssumption DEF LoopStates
<1>2. j.lenient = Filled(left, 2 * Sub) /\ j.at = Now
  BY <1>1, CountedIs
<1>3. q \in Nat /\ q <= Most /\ p \in Nat /\ p <= q
  <2>1. h \in 0..Largest /\ n \in 0..Largest /\ n <= h
    BY <1>1, RateAssumption
  <2>2. Whole * n <= Whole * h
    BY <1>1, <2>1, Grows, WholeType
  <2>3. Whole * n = n * Whole /\ Whole * h = h * Whole
    BY <1>1, WholeType
  <2>4. QED
    BY <2>1, <2>2, <2>3, MostType
<1>4. g \in Nat /\ m = g + g /\ m \in Nat
  BY RateAssumption, TimeAssumption
<1>5. l.okay => f \in 0..Most /\ q <= f + m
  <2>1. SUFFICES ASSUME l.okay PROVE f \in 0..Most /\ q <= f + m
    OBVIOUS
  <2>2. /\ i.lenient \in 0..Most /\ i.at <= Now /\ i.at \in Int
        /\ Enough(i, l.queue, Now)
    BY <2>1 DEF Held, LoopStates, Ideals
  <2> DEFINE d == Now - i.at
             e == i.lenient
  <2>3. d \in Nat /\ e \in Int /\ e <= Most /\ e >= 0
    BY <2>2, MostType
  <2> HIDE DEF d, e
  <2>4. Filled(e, d) \in Int /\ e <= Filled(e, d) /\ Filled(e, d) <= Most
    BY <2>3, FilledBound
  <2>5. Filled(e, d) \in 0..Most
    BY <2>3, <2>4, MostType
  <2>6. QED
    BY <2>2, <2>5 DEF d, e, Enough
<1>6. ~l.okay => f \in 0..Most /\ b \in 0..BucketSize /\ b * Whole <= f + g /\ h <= b
  BY BucketCovered DEF MayPass
<1>7. ~l.okay => /\ b - n \in 0..BucketSize
                 /\ (b - n) * Whole = b * Whole - p /\ b * Whole \in Nat
                 /\ (b - n) * Whole \in Nat /\ (b - n) * Whole <= Most
  <2>1. SUFFICES ASSUME ~l.okay
                 PROVE  /\ b - n \in 0..BucketSize
                        /\ (b - n) * Whole = b * Whole - p /\ b * Whole \in Nat
                        /\ (b - n) * Whole \in Nat /\ (b - n) * Whole <= Most
    OBVIOUS
  <2>2. b \in 0..BucketSize /\ h <= b /\ b \in Int
    BY <1>6, <2>1, RateAssumption
  <2>3. b - n \in 0..BucketSize /\ b - n \in Int
    BY <1>1, <2>2, RateAssumption
  <2>4. (b - n) * Whole = b * Whole - n * Whole
    BY <1>1, <2>2, WholeType
  <2>5. \A a \in 0..BucketSize : a * Whole \in Nat /\ a * Whole <= Full
    BY MostType
  <2>6. b * Whole \in Nat /\ (b - n) * Whole \in Nat /\ (b - n) * Whole <= Full
    BY <2>2, <2>3, <2>5
  <2> HIDE DEF b
  <2>7. QED
    BY <2>3, <2>4, <2>6, MostType
<1> DEFINE v == (b - n) * Whole
           w == b * Whole
<1>8. f \in 0..Most
  BY <1>5, <1>6
<1>9. Filled(left, 2 * Sub) = IF left + m > Most THEN Most ELSE left + m
  BY DEF Filled
<1>10. left = f - p
  OBVIOUS
<1>11. /\ l.okay => q <= f + m
       /\ ~l.okay => v = w - p /\ w <= f + g /\ v \in Nat /\ v <= Most /\ w \in Nat
  BY <1>5, <1>6, <1>7
<1> DEFINE x == Filled(left, 2 * Sub)
<1>12. x = IF left + m > Most THEN Most ELSE left + m
  BY <1>9
<1>13. ~l.okay => q <= w
  <2>1. SUFFICES ASSUME ~l.okay PROVE q <= w
    OBVIOUS
  <2>2. b \in Int /\ h <= b
    BY <1>6, <2>1, RateAssumption
  <2>3. Whole * h <= Whole * b
    BY <1>1, <2>2, Grows, WholeType
  <2>4. Whole * h = h * Whole /\ Whole * b = b * Whole
    BY <1>1, <2>2, WholeType
  <2>5. QED
    BY <2>3, <2>4
<1> HIDE DEF i, j, h, b, f, left, p, q, g, m, v, w, x
<1>14. x \in 0..Most /\ (~l.okay => v <= x)
  <2>1. Most \in Nat
    BY MostType
  <2>2. f \in Nat /\ f <= Most
    BY <1>8, <2>1
  <2>3. q <= f + m
    BY <1>4, <1>3, <1>11, <1>13, <2>2
  <2>4. x \in 0..Most
    BY <1>3, <1>4, <1>10, <1>12, <2>1, <2>2, <2>3
  <2>5. ~l.okay => v <= left + m
    BY <1>3, <1>4, <1>10, <1>11, <2>2
  <2>6. QED
    BY <1>11, <1>12, <2>1, <2>4, <2>5
<1>15. QED
  BY <1>2, <1>7, <1>14 DEF x, v, j, b

\* What a part of a message costs does not take away what the rest needs.
LEMMA CountedEnough ==
    ASSUME NEW l \in LoopStates, l.queue # << >>, Now \in Int, Held(l),
           NEW n \in 1..Head(l.queue), ~(l.okay /\ ~l.fair),
           NEW t \in Int, Now <= t, Enough(l.ideal, l.queue, t)
    PROVE  LET j == Counted(l, n).ideal
           IN (Head(l.queue) - n) * Whole
                 <= Filled(j.lenient, t - j.at) + Rate * (2 * Sub)
<1> DEFINE i == l.ideal
           j == Counted(l, n).ideal
           h == Head(l.queue)
           e == i.lenient
           d == Now - i.at
           c == t - Now
           k == t - i.at
           f == Filled(e, d)
           p == n * Whole
           q == h * Whole
           m == Rate * (2 * Sub)
           left == f - p
           x == Filled(left, 2 * Sub)
           y == Filled(x, c)
           z == Filled(e, k)
<1>1. h \in 1..Largest /\ n \in 1..h /\ n \in Int /\ h \in Int
  BY FirstOf, RateAssumption DEF LoopStates
<1>2. j.lenient = x /\ j.at = Now
  BY <1>1, CountedIs
<1>3. q \in Nat /\ q <= Most /\ p \in Nat /\ (h - n) * Whole = q - p
  <2>1. h \in 0..Largest /\ n \in 0..Largest /\ n <= h
    BY <1>1, RateAssumption
  <2>2. (h - n) * Whole = h * Whole - n * Whole
    BY <1>1, WholeType
  <2>3. QED
    BY <2>1, <2>2, MostType
<1>4. i.at \in Int /\ i.at <= Now /\ e \in Int /\ e <= Most
  BY MostType DEF Held, LoopStates, Ideals
<1>5. d \in Nat /\ c \in Nat /\ k \in Nat /\ d + c = k
  BY <1>4
<1>6. m \in Nat
  BY RateAssumption, TimeAssumption
<1> DEFINE rd == Rate * d
           rc == Rate * c
           rk == Rate * k
<1>7. rd \in Nat /\ rc \in Nat /\ rk \in Nat /\ rd + rc = rk
  <2> HIDE DEF d, c, k
  <2>1. Rate \in Nat /\ Rate \in Int /\ d \in Int /\ c \in Int
    BY <1>5, RateAssumption
  <2>2. rd \in Nat /\ rc \in Nat /\ rk \in Nat
    BY <1>5, <2>1, ProductNat
  <2>3. Rate * (d + c) = rd + rc
    BY <2>1, Distributes
  <2>4. QED
    BY <1>5, <2>2, <2>3
<1>8. /\ f = IF e + rd > Most THEN Most ELSE e + rd
      /\ x = IF left + m > Most THEN Most ELSE left + m
      /\ y = IF x + rc > Most THEN Most ELSE x + rc
      /\ z = IF e + rk > Most THEN Most ELSE e + rk
  BY DEF Filled
<1>9. q <= z + m
  BY DEF Enough
<1>10. left = f - p
  OBVIOUS
<1> HIDE DEF i, j, h, e, d, c, k, f, p, q, m, left, x, y, z, rd, rc, rk
<1>11. q - p <= y + m
  <2>1. Most \in Nat
    BY MostType
  <2>2. f \in Int /\ (f = Most \/ f = e + rd) /\ e + rd \in Int
    BY <1>4, <1>7, <1>8, <2>1
  <2>3. left \in Int /\ x \in Int /\ (x = Most \/ x = left + m)
    BY <1>3, <1>6, <1>8, <1>10, <2>1, <2>2
  <2>4. y \in Int /\ (y = Most \/ y = x + rc)
    BY <1>7, <1>8, <2>1, <2>3
  <2>5. z \in Int /\ z <= Most /\ z <= e + rd + rc
    BY <1>4, <1>7, <1>8, <2>1
  <2>6. CASE y = Most
    BY <1>3, <1>6, <2>1, <2>6
  <2>7. CASE y = x + rc /\ x = Most
    BY <1>3, <1>6, <1>7, <2>1, <2>7
  <2>8. CASE y = x + rc /\ x = left + m /\ f = Most
    BY <1>3, <1>6, <1>7, <1>10, <2>1, <2>8
  <2>9. CASE y = x + rc /\ x = left + m /\ f = e + rd
    BY <1>3, <1>4, <1>6, <1>7, <1>9, <1>10, <2>5, <2>9
  <2>10. QED
    BY <2>2, <2>3, <2>4, <2>6, <2>7, <2>8, <2>9
<1>12. QED
  BY <1>2, <1>3, <1>11 DEF y, m, h, j, c

LEMMA SendWholeHeld ==
    ASSUME NEW l \in LoopStates, l.queue # << >>, Now \in Int, Held(l), MayPass(l)
    PROVE  Held(SendWhole(l))
<1> DEFINE h == Head(l.queue)
           b == Bucket(l.last, Now)
           left == IF l.okay THEN 0 ELSE b - h
           stamp == SetBucket(l.last, Now, left)
           j == Counted(l, h).ideal
           e == SendWhole(l)
           x == j.at - Instant(stamp)
<1>1. /\ e.okay = FALSE /\ e.fair = FALSE /\ e.ideal = j /\ e.last = stamp
  BY SendWholeIs
<1>2. h \in 1..h /\ h \in Int
  BY FirstOf DEF LoopStates
<1>3. left \in Nat
  BY <1>2, BucketCovered, RateAssumption DEF MayPass
<1>4. /\ stamp \in Timespec /\ Instant(stamp) \in Int /\ Instant(stamp) <= Now
      /\ Rate * (Now - Instant(stamp)) <= left * Whole
  BY <1>3, SetBucketBound
<1>5. /\ l.ideal.lenient \in 0..Most /\ l.ideal.at <= Now /\ l.ideal.at \in Int
  BY DEF Held, LoopStates, Ideals
<1>6. /\ j.lenient \in 0..Most /\ j.at \in Int /\ j.at <= Now
      /\ left * Whole <= j.lenient
  <2>1. CASE l.okay /\ ~l.fair
    <3>1. j.lenient = l.ideal.lenient /\ j.at = l.ideal.at
      BY <1>2, <2>1, CountedIs
    <3>2. left = 0 /\ 0 * Whole = 0
      BY <2>1, WholeType
    <3> HIDE DEF j, left
    <3>3. QED
      BY <1>5, <3>1, <3>2, MostType
  <2>2. CASE l.okay /\ l.fair
    <3>1. j.lenient \in 0..Most /\ j.at = Now
      BY <1>2, <2>2, CountedHeld
    <3>2. left = 0 /\ 0 * Whole = 0
      BY <2>2, WholeType
    <3> HIDE DEF j, left
    <3>3. QED
      BY <1>5, <3>1, <3>2, MostType
  <2>3. CASE ~l.okay
    <3>1. j.lenient \in 0..Most /\ j.at = Now /\ (b - h) * Whole <= j.lenient
      BY <1>2, <2>3, CountedHeld
    <3>2. left = b - h
      BY <2>3
    <3> HIDE DEF j, left, b, h
    <3>3. QED
      BY <1>5, <3>1, <3>2
  <2>4. QED
    BY <2>1, <2>2, <2>3
<1> HIDE DEF j, stamp, left, e
<1>7. Rate * x <= j.lenient
  <2> DEFINE y == Now - Instant(stamp)
  <2>1. x \in Int /\ y \in Int /\ x <= y
    BY <1>4, <1>6
  <2> HIDE DEF x, y
  <2>2. Rate * x <= Rate * y /\ Rate * x \in Int /\ Rate * y \in Int
    BY <2>1, Grows, ProductInt, RateAssumption
  <2> DEFINE p == Rate * x
             q == Rate * y
             w == left * Whole
  <2>3. p <= q /\ p \in Int /\ q \in Int /\ q <= w /\ w <= j.lenient /\ w \in Int
    BY <1>3, <1>4, <1>6, <2>2, ProductInt, WholeType DEF y
  <2>4. j.lenient \in Int
    BY <1>6, MostType
  <2> HIDE DEF p, q, w
  <2>5. p <= j.lenient
    BY <2>3, <2>4
  <2>6. QED
    BY <2>5 DEF p
<1>8. Covered(e.ideal, e.last)
  BY <1>1, <1>7 DEF Covered
<1>9. ~(e.okay /\ e.fair)
  BY <1>1
<1>10. Held(e)
  BY <1>1, <1>4, <1>6, <1>8, <1>9 DEF Held
<1>11. QED
  BY <1>10 DEF e

LEMMA SendPartHeld ==
    ASSUME NEW l \in LoopStates, l.queue # << >>, Now \in Int, Held(l), MayPass(l),
           NEW k \in 1..(Head(l.queue) - 1)
    PROVE  /\ Held(SendPart(l, k))
           /\ SendPart(l, k).okay = l.okay /\ SendPart(l, k).fair = l.fair
           /\ SendPart(l, k).queue # << >>
           /\ \A t \in Int :
                 l.fair /\ Now <= t /\ Enough(l.ideal, l.queue, t) =>
                    Enough(SendPart(l, k).ideal, SendPart(l, k).queue, t)
<1> DEFINE h == Head(l.queue)
           b == Bucket(l.last, Now)
           left == b - k
           stamp == SetBucket(l.last, Now, left)
           j == Counted(l, k).ideal
           e == SendPart(l, k)
           x == j.at - Instant(stamp)
<1>1. h \in Int /\ k \in 1..h /\ k \in 0..(h - 1) /\ k \in Int /\ k <= h
  BY FirstOf DEF LoopStates
<1>2. /\ e.okay = l.okay /\ e.fair = l.fair /\ e.ideal = j
      /\ e.queue # << >> /\ Head(e.queue) = h - k
      /\ e.last = IF l.okay THEN l.last ELSE stamp
  BY <1>1, SendPartIs
<1>3. /\ l.last \in Timespec /\ Instant(l.last) \in Int /\ Instant(l.last) <= Now
      /\ l.ideal.lenient \in 0..Most /\ l.ideal.at <= Now /\ l.ideal.at \in Int
  BY DEF Held, LoopStates, Ideals
<1>4. /\ j.lenient \in 0..Most /\ j.at \in Int /\ j.at <= Now
  <2>1. CASE l.okay /\ ~l.fair
    <3>1. j.lenient = l.ideal.lenient /\ j.at = l.ideal.at
      BY <1>1, <2>1, CountedIs
    <3> HIDE DEF j
    <3>2. QED
      BY <1>3, <3>1
  <2>2. CASE ~(l.okay /\ ~l.fair)
    <3>1. j.lenient \in 0..Most /\ j.at = Now
      BY <1>1, <2>2, CountedHeld
    <3> HIDE DEF j
    <3>2. QED
      BY <3>1
  <2>3. QED
    BY <2>1, <2>2
<1>5. ASSUME ~l.okay
      PROVE  /\ stamp \in Timespec /\ Instant(stamp) \in Int /\ Instant(stamp) <= Now
             /\ Rate * x <= j.lenient
  <2>1. /\ j.at = Now /\ left \in 0..BucketSize /\ left * Whole <= j.lenient
    BY <1>1, <1>5, CountedHeld
  <2>2. left \in Nat
    BY <2>1
  <2>3. /\ stamp \in Timespec /\ Instant(stamp) \in Int /\ Instant(stamp) <= Now
        /\ Rate * (Now - Instant(stamp)) <= left * Whole
    BY <2>2, SetBucketBound
  <2> DEFINE p == Rate * (Now - Instant(stamp))
             w == left * Whole
  <2>4. p \in Int /\ w \in Int /\ p <= w /\ w <= j.lenient /\ j.lenient \in Int
    BY <1>4, <2>1, <2>2, <2>3, ProductInt, RateAssumption, WholeType, MostType
  <2> HIDE DEF p, w, j, stamp, left
  <2>5. p <= j.lenient
    BY <2>4
  <2>6. QED
    BY <2>1, <2>3, <2>5 DEF p
<1>6. ASSUME NEW t \in Int, l.fair, Now <= t, Enough(l.ideal, l.queue, t)
      PROVE  Enough(e.ideal, e.queue, t)
  <2>1. (h - k) * Whole <= Filled(j.lenient, t - j.at) + Rate * (2 * Sub)
    BY <1>1, <1>6, CountedEnough
  <2> HIDE DEF j, h, e
  <2>2. QED
    BY <1>2, <2>1 DEF Enough
<1>7. l.okay /\ l.fair => Enough(e.ideal, e.queue, Now)
  <2>1. l.okay /\ l.fair => Enough(l.ideal, l.queue, Now)
    BY DEF Held
  <2> HIDE DEF e
  <2>2. QED
    BY <1>6, <2>1
<1> HIDE DEF j, stamp, left, e
<1>8. Held(e)
  BY <1>2, <1>3, <1>4, <1>5, <1>7 DEF Held, Covered
<1>9. QED
  BY <1>2, <1>6, <1>8 DEF e

\* Two ways to go through the loop are one.
Stages(h, n) == h[0] = Loop0 /\ \A i \in 1..n : h[i] = SendWhole(h[i - 1])

LEMMA StagesAgree ==
    ASSUME NEW n \in Nat, NEW m \in Nat, NEW g, NEW h, Stages(g, n), Stages(h, m)
    PROVE  \A i \in Nat : i <= n /\ i <= m => g[i] = h[i]
<1> DEFINE S == {i \in Nat : i <= n /\ i <= m /\ g[i] # h[i]}
<1>1. SUFFICES S = {}
  OBVIOUS
<1>2. SUFFICES ASSUME S # {} PROVE FALSE
  OBVIOUS
<1>3. PICK k \in S : \A i \in S : k <= i
  <2>1. S \in SUBSET Nat
    OBVIOUS
  <2> HIDE DEF S
  <2>2. QED
    BY <1>2, <2>1, LowestNumber
<1>4. k \in Nat /\ k <= n /\ k <= m /\ g[k] # h[k]
  OBVIOUS
<1>5. k # 0
  BY <1>4 DEF Stages
<1>6. k - 1 \in Nat /\ k - 1 <= n /\ k - 1 <= m /\ k \in 1..n /\ k \in 1..m
  BY <1>4, <1>5
<1>7. g[k - 1] = h[k - 1]
  <2>1. ~(k <= k - 1)
    BY <1>4
  <2>2. k - 1 \notin S
    BY <1>3, <2>1
  <2>3. QED
    BY <1>6, <2>2
<1>8. g[k] = SendWhole(g[k - 1]) /\ h[k] = SendWhole(h[k - 1])
  BY <1>6 DEF Stages
<1>9. QED
  BY <1>4, <1>7, <1>8

LEMMA SentNext ==
    ASSUME NEW n \in Nat
    PROVE  Sent(0) = Loop0 /\ Sent(n + 1) = SendWhole(Sent(n))
<1>1. n + 1 \in Nat /\ 0 \in Nat
  OBVIOUS
<1>2. PICK h : /\ Sent(n + 1) = h[n + 1] /\ h[0] = Loop0
               /\ \A i \in 1..(n + 1) : h[i] = SendWhole(h[i - 1])
  BY <1>1, SentStages
<1>3. PICK g : /\ Sent(n) = g[n] /\ g[0] = Loop0
               /\ \A i \in 1..n : g[i] = SendWhole(g[i - 1])
  BY SentStages
<1>4. Sent(0) = Loop0
  BY <1>1, SentStages
<1>5. \A i \in Nat : i <= n /\ i <= n + 1 => g[i] = h[i]
  <2> DEFINE m == n + 1
  <2>1. m \in Nat
    BY <1>1
  <2>2. Stages(g, n) /\ Stages(h, m)
    BY <1>2, <1>3 DEF Stages
  <2> HIDE DEF m
  <2>3. \A i \in Nat : i <= n /\ i <= m => g[i] = h[i]
    BY <2>1, <2>2, StagesAgree
  <2>4. QED
    BY <2>3 DEF m
<1>6. g[n] = h[n]
  BY <1>5
<1>7. n + 1 \in 1..(n + 1) /\ (n + 1) - 1 = n
  OBVIOUS
<1>8. h[n + 1] = SendWhole(h[n])
  BY <1>2, <1>7
<1>9. QED
  BY <1>2, <1>3, <1>4, <1>6, <1>8

\* After any messages that pass, the rate is held; the timer was for the first.
LEMMA SentHeld ==
    ASSUME Loop0 \in LoopStates, Now \in Int, Held(Loop0), Len(s.queue) \in Nat,
           NEW n \in 0..Len(s.queue), CanSend(n)
    PROVE  /\ Held(Sent(n))
           /\ n > 0 => Sent(n).fair = FALSE /\ Sent(n).okay = FALSE
<1> DEFINE P(i) == Held(Sent(i)) /\ (i > 0 => Sent(i).fair = FALSE /\ Sent(i).okay = FALSE)
           S == {i \in 0..n : ~P(i)}
<1>1. n \in Nat /\ n <= Len(s.queue)
  OBVIOUS
<1>2. SUFFICES S = {}
  <2>1. n \in 0..n
    BY <1>1
  <2>2. P(n)
    BY <1>2, <2>1
  <2>3. QED
    BY <2>2
<1>3. SUFFICES ASSUME S # {} PROVE FALSE
  OBVIOUS
<1>4. PICK k \in S : \A g \in S : k <= g
  <2>1. S \in SUBSET Nat
    BY <1>1
  <2> HIDE DEF S
  <2>2. QED
    BY <1>3, <2>1, LowestNumber
<1>5. k \in 0..n /\ ~P(k)
  OBVIOUS
<1>6. k # 0
  <2>1. Sent(0) = Loop0
    BY SentNext
  <2>2. P(0)
    BY <2>1
  <2>3. QED
    BY <1>5, <2>2
<1> DEFINE i == k - 1
           l == Sent(i)
<1>7. /\ i \in 0..n /\ i \in Nat /\ i + 1 = k /\ ~(k <= i) /\ i \in 0..(n - 1)
      /\ i \in 0..Len(s.queue) /\ i < Len(s.queue) /\ k > 0
  BY <1>1, <1>5, <1>6
<1>8. P(i)
  <2>1. i \notin S
    BY <1>4, <1>7
  <2>2. QED
    BY <1>7, <2>1
<1>9. Sent(k) = SendWhole(l)
  BY <1>7, SentNext
<1>10. l \in LoopStates /\ Len(l.queue) = Len(s.queue) - i
  BY <1>7, SentType
<1>11. MayPass(l)
  BY <1>7 DEF CanSend
<1>12. Held(l)
  BY <1>8
<1> HIDE DEF l, i
<1>13. l.queue # << >>
  <2>1. Len(<< >>) = 0
    OBVIOUS
  <2>2. Len(s.queue) - i # 0
    BY <1>7
  <2>3. QED
    BY <1>10, <2>1, <2>2
<1>14. Held(SendWhole(l))
  BY <1>10, <1>11, <1>12, <1>13, SendWholeHeld
<1>15. SendWhole(l).fair = FALSE /\ SendWhole(l).okay = FALSE
  BY <1>10, <1>13, SendWholeIs
<1>16. QED
  BY <1>5, <1>9, <1>14, <1>15

\* What the socket believes to have, the lenient bucket has.
Believed ==
    /\ cached <= real
    /\ s.last \in Timespec /\ Instant(s.last) \in Int /\ Instant(s.last) <= Now
    /\ ideal.lenient \in 0..Most /\ ideal.at <= Now
    /\ ~s.okay => Covered(ideal, s.last)

\* When the timer that was armed for a message has expired, there is enough for
\* it, also by the clock that was read in this batch.
Armed ==
    /\ wakeup.due >= 0 => wakeup.due >= real /\ wakeup.fired = 0
    /\ {"timer", "write"} \subseteq events => wakeup.fired > 0
    /\ fair =>
         /\ s.queue # << >>
         /\ wakeup.due >= 0 => Enough(ideal, s.queue, wakeup.due)
         /\ wakeup.fired > 0 \/ s.okay => Enough(ideal, s.queue, real)
         /\ wakeup.fired > 0 /\ {"timer", "write"} \subseteq events =>
               Enough(ideal, s.queue, Now)
         /\ s.okay /\ "write" \in events => Enough(ideal, s.queue, Now)

HeldInv == RateInv /\ Believed /\ Armed

LEMMA HeldStarts ==
    ASSUME RateInit
    PROVE  HeldInv
<1> DEFINE stamp == SetBucket(Stamp(0), real, BucketSize)
<1>1. RateInv
  BY RateStarts
<1>2. /\ real \in Nat /\ cached = real
      /\ ideal.lenient = Full /\ ideal.at = real
      /\ s.last = stamp /\ s.okay = FALSE
      /\ wakeup.due = -1 /\ wakeup.fired = 0 /\ events = {"read"} /\ fair = FALSE
  BY <1>1 DEF RateInit, RateInv, RateTypeOK
<1>3. Now = real
  BY <1>2 DEF Now
<1>4. stamp \in Timespec /\ Instant(stamp) \in Int /\ Instant(stamp) <= real
  BY <1>2, SetBucketBound, RateAssumption
<1> HIDE DEF stamp
<1>5. Believed
  BY <1>2, <1>3, <1>4, MostType DEF Believed, Covered
<1>6. Armed
  BY <1>2 DEF Armed
<1>7. QED
  BY <1>1, <1>5, <1>6 DEF HeldInv

\* The state of the loop is as good as the invariant, and the other way round.
LEMMA HeldLoop0 ==
    ASSUME HeldInv, "write" \in events
    PROVE  Loop0 \in LoopStates /\ Now \in Int /\ Held(Loop0) /\ Len(s.queue) \in Nat
<1>1. RateTypeOK /\ Believed /\ Armed
  BY DEF HeldInv, RateInv
<1>2. Loop0 \in LoopStates /\ Now \in Int
  BY <1>1, NowType, Loop0Type
<1>3. /\ Loop0.last = s.last /\ Loop0.okay = s.okay /\ Loop0.queue = s.queue
      /\ Loop0.ideal = ideal /\ Loop0.fair = fair
  BY DEF Loop0
<1>4. Held(Loop0)
  BY <1>1, <1>3 DEF Held, Believed, Armed
<1>5. Len(s.queue) \in Nat
  BY <1>1 DEF RateTypeOK, Queues
<1>6. QED
  BY <1>2, <1>4, <1>5

LEMMA LeaveHeld ==
    ASSUME NEW l \in LoopStates, NEW write \in BOOLEAN, Leave(l, write), Held(l),
           Now \in Int, Now' = Now, cached' <= real'
    PROVE  /\ Believed'
           /\ s'.queue = l.queue /\ s'.okay = l.okay /\ fair' = l.fair /\ ideal' = l.ideal
<1>1. /\ s'.last = l.last /\ s'.okay = l.okay /\ s'.queue = l.queue
      /\ ideal' = l.ideal /\ fair' = l.fair
  BY DEF Leave
<1>2. QED
  BY <1>1 DEF Believed, Held

\* The timer is armed for when there is enough.
LEMMA DelayEnough ==
    ASSUME NEW l \in LoopStates, l.queue # << >>, Now \in Int, Held(l), ~MayPass(l),
           real \in Int, Now <= real
    PROVE  /\ Delay(l) \in Nat \ {0} /\ Delay(l) * Sub \in Nat
           /\ Enough(l.ideal, l.queue, real + Delay(l) * Sub)
<1> DEFINE h == Head(l.queue)
           b == Bucket(l.last, Now)
           a == (h - b) * Sec
           ms == a \div Rate
           d == Delay(l)
           i == l.ideal
           e == i.lenient
           f == Filled(e, Now - i.at)
           t == real + d * Sub
           z == Filled(e, t - i.at)
           g == Rate * Sub
<1>1. ~l.okay /\ ~(h <= b)
  BY DEF MayPass
<1>2. f \in 0..Most /\ b \in 0..BucketSize /\ b * Whole <= f + g
  BY <1>1, BucketCovered
<1>3. h \in 1..Largest /\ h \in Int /\ b \in Int /\ h - b \in Nat \ {0}
  <2>1. h \in 1..Largest
    BY FirstOf DEF LoopStates
  <2> HIDE DEF h, b
  <2>2. QED
    BY <1>1, <1>2, <2>1, RateAssumption
<1>4. d = IF ms = 0 THEN 1 ELSE ms
  BY DEF Delay
<1>5. i.at \in Int /\ i.at <= Now /\ e \in Int /\ e <= Most /\ e >= 0
  BY MostType DEF Held, LoopStates, Ideals
<1> HIDE DEF h, b, d, i
<1>6. a \in Nat \ {0}
  BY <1>3, Product, TimeAssumption
<1> HIDE DEF a
<1>7. /\ ms \in Int /\ ms >= 0 /\ Rate * ms \in Int
      /\ a <= Rate * ms + Rate
  <2> DEFINE r == a % Rate
             p == Rate * ms
  <2>1. /\ ms \in Int /\ ms >= 0 /\ r \in 0..(Rate - 1) /\ a = p + r
        /\ p \in Int
    <3>1. a \in Int /\ a >= 0 /\ Rate \in Nat \ {0} /\ Rate \in Int
      BY <1>6, RateAssumption
    <3>2. ms \in Int /\ r \in 0..(Rate - 1) /\ a = Rate * ms + r
      BY <3>1, DivMod
    <3>3. ms >= 0
      BY <3>1, Division
    <3> HIDE DEF ms, r
    <3>4. p \in Int
      BY <3>1, <3>2, ProductInt
    <3>5. QED
      BY <3>2, <3>3, <3>4
  <2> HIDE DEF r, p, ms
  <2>2. a <= p + Rate
    BY <1>6, <2>1, RateAssumption
  <2>3. QED
    BY <2>1, <2>2 DEF p
<1> HIDE DEF ms
<1>8. d \in Nat \ {0} /\ ms <= d
  BY <1>4, <1>7
<1> DEFINE c == d * Sub
<1>9. c \in Nat
  BY <1>8, TimeAssumption
\* Until then the bucket gains all that is missing but for a millisecond.
<1>10. (h - b) * Whole <= Rate * c + g
  <2>1. Rate * ms <= Rate * d
    BY <1>7, <1>8, Grows, RateAssumption
  <2>2. Sub * a <= Sub * (Rate * d + Rate)
    <3>1. a <= Rate * d + Rate /\ Rate * d \in Int
      BY <1>6, <1>7, <1>8, <2>1, ProductInt, RateAssumption
    <3>2. Rate * d + Rate \in Int
      BY <3>1, RateAssumption
    <3>3. QED
      BY <1>6, <3>1, <3>2, Grows, TimeAssumption
  <2>3. Sub * a = (h - b) * Whole
    <3>1. Sub * ((h - b) * Sec) = (h - b) * (Sec * Sub)
      BY <1>3, TimeAssumption
    <3>2. QED
      BY <3>1 DEF a, Whole
  <2>4. Sub * (Rate * d + Rate) = Rate * (d * Sub) + Rate * Sub
    BY <1>8, TimeAssumption, RateAssumption
  <2>5. QED
    BY <2>2, <2>3, <2>4
<1>11. (h - b) * Whole = h * Whole - b * Whole
  BY <1>3, WholeType
<1> DEFINE u == Now - i.at
           v == t - i.at
           y == (h - b) * Whole
           q == h * Whole
           w == b * Whole
<1>12. t \in Int /\ u \in Nat /\ v \in Nat /\ u + c <= v
  BY <1>5, <1>9
<1> DEFINE ru == Rate * u
           rv == Rate * v
           rc == Rate * c
<1>13. ru \in Nat /\ rv \in Nat /\ rc \in Nat /\ ru + rc <= rv
  <2>1. /\ u \in Nat /\ v \in Nat /\ c \in Nat /\ u + c <= v /\ Rate \in Nat
        /\ u \in Int /\ v \in Int /\ c \in Int /\ u + c \in Int /\ Rate \in Int
    BY <1>9, <1>12, RateAssumption
  <2> HIDE DEF u, v, c
  <2>2. Rate * (u + c) = Rate * u + Rate * c
    BY <2>1, Distributes
  <2>3. Rate * (u + c) <= Rate * v
    BY <2>1, Grows
  <2>4. Rate * u \in Nat /\ Rate * v \in Nat /\ Rate * c \in Nat
    BY <2>1
  <2>5. QED
    BY <2>2, <2>3, <2>4
<1>14. q \in Nat /\ q <= Most /\ w \in Nat /\ y = q - w /\ y <= rc + g /\ w <= f + g
  <2>1. h \in 0..Largest /\ b \in 0..BucketSize
    BY <1>2, <1>3, RateAssumption
  <2>2. QED
    BY <1>2, <1>10, <1>11, <2>1, MostType
<1>15. g \in Nat /\ Rate * (2 * Sub) = g + g
  BY RateAssumption, TimeAssumption
<1>16. /\ f = IF e + ru > Most THEN Most ELSE e + ru
       /\ z = IF e + rv > Most THEN Most ELSE e + rv
  BY DEF Filled
<1>17. Most \in Nat
  BY MostType
<1> HIDE DEF e, f, z, g, t, u, v, ru, rv, rc, y, q, w, c
<1>18. f \in Int /\ f <= e + ru
  BY <1>5, <1>13, <1>16, <1>17
<1>19. q <= f + rc + g + g
  BY <1>13, <1>14, <1>15, <1>18
<1>20. q <= z + (g + g)
  BY <1>5, <1>13, <1>14, <1>15, <1>16, <1>17, <1>18, <1>19
<1>21. Enough(i, l.queue, t)
  BY <1>15, <1>20 DEF Enough, q, z, h, e
<1>22. QED
  BY <1>8, <1>9, <1>21 DEF t, i, c, d

LEMMA ProcessWqueueHeld ==
    ASSUME HeldInv, ProcessWqueue
    PROVE  HeldInv'
<1>1. RateInv /\ RateTypeOK /\ Believed /\ Armed /\ Polled
  BY DEF HeldInv, RateInv
<1>2. RateInv'
  BY <1>1, ProcessWqueueStep
<1>3. /\ inLoop /\ "write" \in events /\ "write" \notin events'
      /\ real' = real /\ inLoop' = inLoop
  BY DEF ProcessWqueue
<1>4. /\ real \in Nat /\ cached \in Int /\ wakeup.due \in Int /\ wakeup.fired \in Nat
      /\ s.write \in BOOLEAN /\ wakeup \in [due : Int, fired : Nat]
  BY <1>1 DEF RateTypeOK
<1>5. Loop0 \in LoopStates /\ Now \in Int /\ Held(Loop0) /\ Len(s.queue) \in Nat
  BY <1>3, HeldLoop0
<1>6. Now <= real /\ (Now = cached \/ Now = real) /\ (cached >= 0 => Now = cached)
  BY <1>1, <1>4 DEF Now, Believed
<1>7. PICK n \in 0..Len(s.queue) :
         /\ CanSend(n)
         /\ AllSent(n) \/ Limited(n) \/ KernelFull(n)
         /\ cached' = IF s.queue = << >> \/ (n = 0 /\ s.okay) THEN cached ELSE Now
  BY DEF ProcessWqueue
<1>8. cached' <= real' /\ Now' = Now
  BY <1>1, <1>3, <1>4, <1>6, <1>7 DEF Now, Believed
<1> DEFINE l == Sent(n)
<1>9. l \in LoopStates /\ Len(l.queue) = Len(s.queue) - n
  BY <1>5, SentType
<1>10. Held(l) /\ (n > 0 => l.fair = FALSE /\ l.okay = FALSE)
  BY <1>5, <1>7, SentHeld
<1>11. n = 0 => l = Loop0
  BY SentNext
<1>12. l.queue \in Queues /\ l.okay \in BOOLEAN /\ l.fair \in BOOLEAN /\ l.ideal \in Ideals
  BY <1>9 DEF LoopStates
<1>13. n \in Nat /\ n <= Len(s.queue) /\ (n = 0 \/ n > 0)
  BY <1>5
<1>14. n < Len(s.queue) => l.queue # << >>
  <2>1. Len(<< >>) = 0
    OBVIOUS
  <2>2. n < Len(s.queue) => Len(s.queue) - n # 0
    BY <1>5, <1>13
  <2>3. QED
    BY <1>9, <2>1, <2>2
<1>15. ASSUME AllSent(n)
       PROVE  Believed' /\ Armed'
  <2>1. n = Len(s.queue) /\ Leave(l, FALSE) /\ wakeup' = wakeup
    BY <1>15 DEF AllSent
  <2> HIDE DEF l
  <2>2. Believed' /\ fair' = l.fair
    BY <1>5, <1>8, <1>9, <1>10, <2>1, LeaveHeld
  <2>3. l.fair = FALSE
    <3>1. CASE n > 0
      BY <1>10, <3>1
    <3>2. CASE n = 0
      <4>1. s.queue = << >>
        <5>1. s.queue \in Queues
          BY <1>1 DEF RateTypeOK
        <5>2. Len(s.queue) = 0
          BY <2>1, <3>2
        <5>3. QED
          BY <5>1, <5>2 DEF Queues
      <4>2. ~fair
        BY <1>1, <4>1 DEF Armed
      <4>3. l.fair = fair
        BY <1>11, <3>2 DEF Loop0
      <4>4. QED
        BY <1>12, <4>2, <4>3
    <3>3. QED
      BY <1>13, <3>1, <3>2
  <2>4. Armed'
    BY <1>1, <1>3, <2>1, <2>2, <2>3 DEF Armed
  <2>5. QED
    BY <2>2, <2>4
<1>16. ASSUME Limited(n)
       PROVE  Believed' /\ Armed'
  <2> DEFINE m == [l EXCEPT !.fair = TRUE]
             d == Delay(l)
             due == real + d * Sub
  <2>1. /\ n < Len(s.queue) /\ ~MayPass(l) /\ Leave(m, FALSE)
        /\ wakeup' = [due |-> due, fired |-> 0]
    BY <1>16 DEF Limited
  <2> HIDE DEF l
  <2>2. /\ m \in LoopStates /\ m.last = l.last /\ m.okay = l.okay
        /\ m.queue = l.queue /\ m.ideal = l.ideal /\ m.fair = TRUE
    BY <1>9 DEF LoopStates
  <2>3. ~l.okay
    BY <2>1 DEF MayPass
  <2>4. Held(m)
    BY <1>10, <2>2, <2>3 DEF Held
  <2>5. /\ d * Sub \in Nat /\ Enough(l.ideal, l.queue, due)
    BY <1>4, <1>5, <1>6, <1>9, <1>10, <1>14, <2>1, DelayEnough
  <2> HIDE DEF m, d
  <2>6. /\ Believed' /\ s'.queue = m.queue /\ s'.okay = m.okay /\ fair' = m.fair
        /\ ideal' = m.ideal
    BY <1>5, <1>8, <2>1, <2>2, <2>4, LeaveHeld
  <2>7. due \in Int /\ due >= real
    BY <1>4, <2>5
  <2> HIDE DEF due
  <2>8. wakeup'.due = due /\ wakeup'.fired = 0
    BY <2>1
  <2>9. Armed'
    BY <1>3, <1>14, <2>1, <2>2, <2>3, <2>5, <2>6, <2>7, <2>8 DEF Armed
  <2>10. QED
    BY <2>6, <2>9
<1>17. ASSUME KernelFull(n)
       PROVE  Believed' /\ Armed'
  <2>1. n < Len(s.queue) /\ wakeup' = wakeup /\ MayPass(l)
    BY <1>17 DEF KernelFull
  <2>2. PICK k \in 0..(Head(l.queue) - 1) :
           Leave(IF k = 0 THEN l ELSE SendPart(l, k), s.write)
    BY <1>17 DEF KernelFull
  <2> DEFINE m == IF k = 0 THEN l ELSE SendPart(l, k)
  <2>3. Leave(m, s.write)
    BY <2>2
  <2> HIDE DEF l
  <2>4. SendPart(l, k) \in LoopStates
    BY <1>5, <1>9, <1>14, <2>1, SendPartType
  <2>5. k # 0 => k \in 1..(Head(l.queue) - 1)
    BY <1>12, <1>14, <2>1, FirstOf
  <2>6. /\ m \in LoopStates /\ Held(m) /\ m.okay = l.okay /\ m.fair = l.fair
        /\ m.queue # << >>
        /\ \A t \in Int : l.fair /\ Now <= t /\ Enough(l.ideal, l.queue, t) =>
                             Enough(m.ideal, m.queue, t)
    <3>1. CASE k = 0
      BY <1>9, <1>10, <1>14, <2>1, <3>1
    <3>2. CASE k # 0
      <4>1. m = SendPart(l, k)
        BY <3>2
      <4> HIDE DEF m
      <4>2. /\ Held(SendPart(l, k))
            /\ SendPart(l, k).okay = l.okay /\ SendPart(l, k).fair = l.fair
            /\ SendPart(l, k).queue # << >>
            /\ \A t \in Int :
                 l.fair /\ Now <= t /\ Enough(l.ideal, l.queue, t) =>
                    Enough(SendPart(l, k).ideal, SendPart(l, k).queue, t)
        BY <1>5, <1>9, <1>10, <1>14, <2>1, <2>5, <3>2, SendPartHeld
      <4>3. QED
        BY <2>4, <4>1, <4>2
    <3>3. QED
      BY <3>1, <3>2
  <2> HIDE DEF m
  <2>7. /\ Believed' /\ s'.queue = m.queue /\ s'.okay = m.okay /\ fair' = m.fair
        /\ ideal' = m.ideal
    BY <1>4, <1>5, <1>8, <2>3, <2>6, LeaveHeld
  <2>8. CASE l.fair
    <3>1. n = 0
      BY <1>10, <1>13, <2>8
    <3>2. l.fair = fair /\ l.okay = s.okay /\ l.queue = s.queue /\ l.ideal = ideal
      BY <1>11, <3>1 DEF Loop0
    <3>3. /\ wakeup.due >= 0 => Enough(m.ideal, m.queue, wakeup.due)
          /\ wakeup.fired > 0 \/ s.okay => Enough(m.ideal, m.queue, real)
      <4>1. /\ wakeup.due >= 0 => /\ wakeup.due >= real
                                  /\ Enough(ideal, s.queue, wakeup.due)
            /\ wakeup.fired > 0 \/ s.okay => Enough(ideal, s.queue, real)
        BY <1>1, <2>8, <3>2 DEF Armed
      <4>2. wakeup.due >= 0 => Now <= wakeup.due
        BY <1>4, <1>5, <1>6, <4>1
      <4>3. wakeup.due \in Int /\ real \in Int
        BY <1>4
      <4>4. QED
        BY <1>6, <2>6, <2>8, <3>2, <4>1, <4>2, <4>3
    <3>4. Armed'
      BY <1>1, <1>3, <2>1, <2>6, <2>7, <3>2, <3>3 DEF Armed
    <3>5. QED
      BY <2>7, <3>4
  <2>9. CASE ~l.fair
    <3>1. ~fair'
      BY <2>6, <2>7, <2>9
    <3>2. Armed'
      BY <1>1, <1>3, <2>1, <3>1 DEF Armed
    <3>3. QED
      BY <2>7, <3>2
  <2>10. QED
    BY <2>8, <2>9
<1>18. QED
  BY <1>2, <1>7, <1>15, <1>16, <1>17 DEF HeldInv

LEMMA HeldStep ==
    ASSUME HeldInv, [RateNext]_rate
    PROVE  HeldInv'
<1>1. RateInv /\ RateTypeOK /\ Believed /\ Armed /\ Polled
  BY DEF HeldInv, RateInv
<1>2. RateInv'
  BY <1>1, RateStep
<1>3. /\ real \in Nat /\ cached \in Int /\ wakeup.due \in Int /\ wakeup.fired \in Nat
      /\ wakeup \in [due : Int, fired : Nat] /\ ideal \in Ideals
      /\ ideal.at \in Int /\ s.queue \in Queues /\ fair \in BOOLEAN
      /\ s \in [last : Instants, okay : BOOLEAN, queue : Queues, write : BOOLEAN]
  BY <1>1 DEF RateTypeOK, Ideals
<1>4. Now \in Int /\ Now <= real /\ cached <= real
  BY <1>1, <1>3 DEF Now, Believed
<1>5. SUFFICES Believed' /\ Armed'
  BY <1>2 DEF HeldInv
\* Nothing is less true when the clock goes on.
<1>6. ASSUME s' = s, ideal' = ideal, cached' <= real', Now <= Now', Now' \in Int
      PROVE  Believed'
  <2>1. /\ Instant(s.last) \in Int /\ Instant(s.last) <= Now
        /\ ideal.at <= Now
    BY <1>1 DEF Believed
  <2>2. Instant(s.last) <= Now' /\ ideal.at <= Now'
    BY <1>3, <1>4, <1>6, <2>1
  <2>3. QED
    BY <1>1, <1>6, <2>1, <2>2 DEF Believed
<1>7. \A t, u \in Int : fair /\ t <= u /\ Enough(ideal, s.queue, t) =>
                           Enough(ideal, s.queue, u)
  <2>1. fair => s.queue # << >>
    BY <1>1 DEF Armed
  <2>2. QED
    BY <1>3, <2>1, EnoughLater
<1>8. ASSUME RateTick
      PROVE  Believed' /\ Armed'
  <2>1. PICK d \in Steps :
           /\ real' = real + d
           /\ wakeup' = IF wakeup.due >= 0 /\ wakeup.due <= real + d
                        THEN [due |-> -1, fired |-> 1] ELSE wakeup
           /\ ideal' = ideal
           /\ cached' = cached /\ s' = s /\ events' = events
           /\ inLoop' = inLoop /\ fair' = fair
    BY <1>8 DEF RateTick
  <2>2. d \in Nat
    BY RateAssumption
  <2>3. real' \in Nat /\ real <= real' /\ real' = real + d
    BY <1>3, <2>1, <2>2
  <2>4. Now' \in Int /\ Now <= Now' /\ cached' <= real'
    BY <1>3, <1>4, <2>1, <2>3 DEF Now
  <2>5. Believed'
    BY <1>6, <2>1, <2>4
  <2>6. /\ fair /\ Enough(ideal, s.queue, real) => Enough(ideal, s.queue, real')
        /\ fair /\ Enough(ideal, s.queue, Now) => Enough(ideal, s.queue, Now')
    BY <1>3, <1>4, <1>7, <2>3, <2>4
  <2>7. CASE wakeup.due >= 0 /\ wakeup.due <= real'
    <3>1. wakeup'.due = -1 /\ wakeup'.fired = 1
      BY <2>1, <2>3, <2>7
    <3>2. fair => Enough(ideal, s.queue, real')
      <4>1. fair => Enough(ideal, s.queue, wakeup.due)
        BY <1>1, <2>7 DEF Armed
      <4>2. real' \in Int
        BY <2>3
      <4>3. QED
        BY <1>3, <1>7, <2>7, <4>1, <4>2
    <3>3. ~({"timer", "write"} \subseteq events)
      BY <1>1, <2>7 DEF Armed
    <3>4. Armed'
      BY <1>1, <2>1, <2>6, <3>1, <3>2, <3>3 DEF Armed
    <3>5. QED
      BY <2>5, <3>4
  <2>8. CASE ~(wakeup.due >= 0 /\ wakeup.due <= real')
    <3>1. wakeup' = wakeup
      BY <2>1, <2>3, <2>8
    <3>2. wakeup.due >= 0 => wakeup.due >= real'
      BY <1>3, <2>3, <2>8
    <3>3. Armed'
      BY <1>1, <2>1, <2>6, <3>1, <3>2 DEF Armed
    <3>4. QED
      BY <2>5, <3>3
  <2>9. QED
    BY <2>7, <2>8
<1>9. ASSUME RateEpoll
      PROVE  Believed' /\ Armed'
  <2>1. /\ ~inLoop /\ cached' = -1 /\ real' = real /\ s' = s
        /\ wakeup' = wakeup /\ ideal' = ideal /\ fair' = fair
        /\ "timer" \in events' <=> wakeup.fired > 0
    BY <1>9 DEF RateEpoll
  <2>2. Now' = real /\ cached' <= real'
    BY <1>3, <2>1 DEF Now
  <2>3. Believed'
    BY <1>3, <1>4, <1>6, <2>1, <2>2
  <2>4. Armed'
    BY <1>1, <2>1, <2>2 DEF Armed
  <2>5. QED
    BY <2>3, <2>4
<1>10. ASSUME RateEndBatch \/ ReadDone
       PROVE  Believed' /\ Armed'
  <2>1. /\ real' = real /\ cached' \in {cached, Now} /\ s' = s /\ wakeup' = wakeup
        /\ ideal' = ideal /\ fair' = fair /\ events' \subseteq events
    BY <1>10 DEF RateEndBatch, ReadDone
  <2>2. Now' = Now /\ cached' <= real'
    BY <1>3, <1>4, <2>1 DEF Now
  <2>3. Believed'
    BY <1>4, <1>6, <2>1, <2>2
  <2>4. Armed'
    BY <1>1, <2>1, <2>2 DEF Armed
  <2>5. QED
    BY <2>3, <2>4
<1>11. ASSUME NEW size \in Sizes, QueueMessage(size)
       PROVE  Believed' /\ Armed'
  <2> DEFINE q == Append(s.queue, size)
  <2>1. /\ real' = real /\ cached' = cached /\ wakeup' = wakeup
        /\ events' = events /\ ideal' = ideal /\ fair' = fair
        /\ s' = [s EXCEPT !.queue = q, !.write = TRUE]
    BY <1>11 DEF QueueMessage
  <2>2. q # << >> /\ (s.queue # << >> => Head(q) = Head(s.queue))
    <3>1. s.queue \in Seq(1..Largest) /\ Len(s.queue) \in Nat
      BY <1>3 DEF Queues
    <3>2. Len(q) = Len(s.queue) + 1 /\ Len(<< >>) = 0
      BY <3>1
    <3>3. s.queue # << >> => Len(s.queue) >= 1
      BY <3>1
    <3>4. s.queue # << >> => q[1] = s.queue[1]
      BY <3>1, <3>3
    <3>5. q # << >> /\ Head(q) = q[1]
      <4>1. size \in 1..Largest
        BY RateAssumption
      <4>2. q \in Seq(1..Largest) /\ Len(q) > 0
        BY <3>1, <3>2, <4>1
      <4> HIDE DEF q
      <4>3. q # << >>
        BY <4>2, <3>2
      <4>4. QED
        BY <4>2, <4>3
    <3>6. Head(s.queue) = s.queue[1]
      BY <3>1
    <3> HIDE DEF q
    <3>7. QED
      BY <3>4, <3>5, <3>6
  <2> HIDE DEF q
  <2>3. s'.queue = q /\ s'.okay = s.okay /\ s'.last = s.last
    BY <1>3, <2>1
  <2>4. Now' = Now
    BY <2>1 DEF Now
  <2>5. Believed'
    BY <1>1, <2>1, <2>3, <2>4 DEF Believed
  <2>6. fair => \A t \in Int : Enough(ideal, s.queue, t) => Enough(ideal, q, t)
    BY <1>1, <2>2 DEF Armed, Enough
  <2>7. real \in Int
    BY <1>3
  <2>8. Armed'
    BY <1>1, <1>3, <1>4, <2>1, <2>2, <2>3, <2>4, <2>6, <2>7 DEF Armed
  <2>9. QED
    BY <2>5, <2>8
<1>12. ASSUME RateLimitCb
       PROVE  Believed' /\ Armed'
  <2>1. /\ "timer" \in events /\ events' = events \ {"timer"}
        /\ real' = real /\ cached' = cached
        /\ s' = [s EXCEPT !.write = TRUE, !.okay = TRUE]
        /\ fair' = (fair /\ wakeup.fired > 0)
        /\ wakeup' = [wakeup EXCEPT !.fired = 0] /\ ideal' = ideal
    BY <1>12 DEF RateLimitCb
  <2>2. s'.queue = s.queue /\ s'.okay = TRUE /\ s'.last = s.last
    BY <1>3, <2>1
  <2>3. wakeup'.due = wakeup.due /\ wakeup'.fired = 0
    BY <1>3, <2>1
  <2>4. Now' = Now
    BY <2>1 DEF Now
  <2>5. Believed'
    BY <1>1, <2>1, <2>2, <2>4 DEF Believed
  <2>6. fair' => /\ fair /\ wakeup.fired > 0 /\ s.queue # << >>
                 /\ ~(wakeup.due >= 0)
                 /\ Enough(ideal, s.queue, real)
                 /\ "write" \in events => Enough(ideal, s.queue, Now)
    <3>1. fair' => fair /\ wakeup.fired > 0
      BY <2>1
    <3>2. wakeup.fired > 0 => ~(wakeup.due >= 0)
      BY <1>1, <1>3 DEF Armed
    <3>3. fair => s.queue # << >>
      BY <1>1 DEF Armed
    <3>4. fair /\ wakeup.fired > 0 => Enough(ideal, s.queue, real)
      BY <1>1 DEF Armed
    <3>5. fair /\ wakeup.fired > 0 /\ {"timer", "write"} \subseteq events =>
             Enough(ideal, s.queue, Now)
      BY <1>1 DEF Armed
    <3>6. QED
      BY <2>1, <3>1, <3>2, <3>3, <3>4, <3>5
  <2>7. Armed'
    BY <1>1, <2>1, <2>2, <2>3, <2>4, <2>6 DEF Armed
  <2>8. QED
    BY <2>5, <2>7
<1>13. ASSUME ProcessWqueue
       PROVE  Believed' /\ Armed'
  BY <1>13, ProcessWqueueHeld DEF HeldInv
<1>14. ASSUME UNCHANGED rate
       PROVE  Believed' /\ Armed'
  BY <1>1, <1>14 DEF rate, Believed, Armed, Now
<1>15. QED
  BY <1>8, <1>9, <1>10, <1>11, <1>12, <1>13, <1>14 DEF RateNext

\* Whatever the rate, the bucket, the messages and the passing of time in and
\* between batches, a socket sends no more than a full bucket and the rate allow by
\* the clock of the program, but for two milliseconds of each message and for stale
\* wakeups, and last_xmit is a timespec of the past (socket.c:126-141, 313-386,
\* time.c:22-61).
THEOREM Rates == RateSpec => []RateHeldButStale
<1>1. RateInit => HeldInv
  BY HeldStarts
<1>2. HeldInv /\ [RateNext]_rate => HeldInv'
  BY HeldStep
<1>3. HeldInv => RateHeldButStale
  <2> SUFFICES ASSUME HeldInv PROVE RateHeldButStale
    OBVIOUS
  <2>1. RateTypeOK /\ Believed
    BY DEF HeldInv, RateInv
  <2>2. Now <= real /\ Now \in Int /\ real \in Nat
    BY <2>1 DEF RateTypeOK, Believed, Now
  <2>3. ideal.lenient >= 0
    BY <2>1, MostType DEF Believed
  <2>4. Instant(s.last) <= real
    BY <2>1, <2>2 DEF Believed
  <2>5. QED
    BY <2>1, <2>3, <2>4 DEF RateHeldButStale, Believed
<1>4. QED
  BY <1>1, <1>2, <1>3, PTL DEF RateSpec

-----------------------------------------------------------------------------
(* The parser: what the first m bytes of a line are.  The body of a message *)
(* ends after the n-th of them, and the blanks before its value after the   *)
(* k-th.                                                                    *)

Printable == {"A", "a", "blank"}

BodyTo(l, n, k) ==
    /\ CmdLen <= k /\ k <= n
    /\ \A i \in 1..CmdLen : l[i] = "A"
    /\ \A i \in (CmdLen + 1)..k : l[i] = "blank"
    /\ \A i \in (k + 1)..n : l[i] \in Printable
    /\ k < n => l[k + 1] # "blank" /\ k > CmdLen
    /\ n - k <= ValLen

Early(l, m) == m < CmdLen /\ \A i \in 1..m : l[i] = "A"
Open(l, n, k, m) == BodyTo(l, n, k) /\ m = n
Half(l, n, k, m) == BodyTo(l, n, k) /\ m = n + 1 /\ l[n + 1] = "CR"
Lone(l, n, k, m) == BodyTo(l, n, k) /\ m = n + 1 /\ l[n + 1] = "LF"
Both(l, n, k, m) ==
    BodyTo(l, n, k) /\ m = n + 2 /\ l[n + 1] = "CR" /\ l[n + 2] = "LF"

Unfinished(l, m) ==
    Early(l, m) \/ \E n, k \in Nat : Open(l, n, k, m) \/ Half(l, n, k, m)
Finished(l, m) == \E n, k \in Nat : Lone(l, n, k, m) \/ Both(l, n, k, m)
Fine(l, m) == Unfinished(l, m) \/ Finished(l, m)

LEMMA Lens == CmdLen \in Nat /\ CmdLen >= 1 /\ ValLen \in Nat /\ ValLen >= 1
BY MsgParserAssumption

\* There is one way only to split a line.
LEMMA OneBody ==
    ASSUME NEW l, NEW n \in Nat, NEW k \in Nat, BodyTo(l, n, k)
    PROVE  /\ n >= CmdLen
           /\ \A i \in 1..n : l[i] \in Printable
           /\ \A j \in Nat : BodyTo(l, n, j) => j = k
<1>1. /\ CmdLen <= k /\ k <= n
      /\ \A i \in 1..CmdLen : l[i] = "A"
      /\ \A i \in (CmdLen + 1)..k : l[i] = "blank"
      /\ \A i \in (k + 1)..n : l[i] \in Printable
      /\ k < n => l[k + 1] # "blank"
  BY DEF BodyTo
<1>2. ASSUME NEW i \in 1..n PROVE l[i] \in Printable
  <2>1. i \in 1..CmdLen \/ i \in (CmdLen + 1)..k \/ i \in (k + 1)..n
    BY <1>1, Lens
  <2>2. QED
    BY <1>1, <2>1 DEF Printable
<1>3. ASSUME NEW j \in Nat, BodyTo(l, n, j) PROVE j = k
  <2>1. /\ CmdLen <= j /\ j <= n
        /\ \A i \in (CmdLen + 1)..j : l[i] = "blank"
        /\ j < n => l[j + 1] # "blank"
    BY <1>3 DEF BodyTo
  <2>2. ~(j < k)
    <3>1. j < k => j + 1 \in (CmdLen + 1)..k /\ j < n
      BY <1>1, <2>1, Lens
    <3>2. QED
      BY <1>1, <2>1, <3>1
  <2>3. ~(k < j)
    <3>1. k < j => k + 1 \in (CmdLen + 1)..j /\ k < n
      BY <1>1, <2>1, Lens
    <3>2. QED
      BY <1>1, <2>1, <3>1
  <2>4. QED
    BY <2>2, <2>3
<1>4. n >= CmdLen
  BY <1>1, Lens
<1> QED
  BY <1>2, <1>3, <1>4

\* What is to come before one more byte of anything the protocol has.
LEMMA Before ==
    ASSUME NEW l, NEW m \in Nat, Fine(l, m + 1)
    PROVE  LET c == l[m + 1]
           IN \/ Early(l, m) /\ c = "A"
              \/ \E n, k \in Nat :
                    \/ Open(l, n, k, m) /\ c \in {"CR", "LF"}
                    \/ Half(l, n, k, m) /\ c = "LF"
                    \/ /\ Open(l, n, k, m)
                       /\ \/ k = n /\ c = "blank"
                          \/ k = n /\ n > CmdLen /\ c \in Printable
                          \/ k < n /\ n - k < ValLen /\ c \in Printable
<1> DEFINE c == l[m + 1]
           Goal == \/ Early(l, m) /\ c = "A"
                   \/ \E n, k \in Nat :
                         \/ Open(l, n, k, m) /\ c \in {"CR", "LF"}
                         \/ Half(l, n, k, m) /\ c = "LF"
                         \/ /\ Open(l, n, k, m)
                            /\ \/ k = n /\ c = "blank"
                               \/ k = n /\ n > CmdLen /\ c \in Printable
                               \/ k < n /\ n - k < ValLen /\ c \in Printable
<1>1. CASE Early(l, m + 1)
  <2>1. Early(l, m) /\ c = "A"
    BY <1>1, Lens DEF Early
  <2>2. QED
    BY <2>1
<1>2. ASSUME NEW n \in Nat, NEW k \in Nat,
             Half(l, n, k, m + 1) \/ Lone(l, n, k, m + 1)
      PROVE  Goal
  <2>1. BodyTo(l, n, k) /\ m = n /\ c \in {"CR", "LF"}
    BY <1>2 DEF Half, Lone
  <2>2. QED
    BY <2>1 DEF Open
<1>3. ASSUME NEW n \in Nat, NEW k \in Nat, Both(l, n, k, m + 1)
      PROVE  Goal
  <2>1. BodyTo(l, n, k) /\ m = n + 1 /\ l[n + 1] = "CR" /\ c = "LF"
    <3>1. BodyTo(l, n, k) /\ m + 1 = n + 2 /\ l[n + 1] = "CR" /\ l[n + 2] = "LF"
      BY <1>3 DEF Both
    <3>2. m = n + 1 /\ m + 1 = n + 2
      BY <3>1
    <3>3. QED
      BY <3>1, <3>2
  <2>2. QED
    BY <2>1 DEF Half
<1>4. ASSUME NEW n \in Nat, NEW k \in Nat, Open(l, n, k, m + 1)
      PROVE  Goal
  <2>1. /\ n = m + 1 /\ c = l[n]
        /\ CmdLen <= k /\ k <= n
        /\ \A i \in 1..CmdLen : l[i] = "A"
        /\ \A i \in (CmdLen + 1)..k : l[i] = "blank"
        /\ \A i \in (k + 1)..n : l[i] \in Printable
        /\ k < n => l[k + 1] # "blank" /\ k > CmdLen
        /\ n - k <= ValLen
    BY <1>4 DEF Open, BodyTo
  <2>2. CASE n = CmdLen
    <3>1. Early(l, m) /\ c = "A"
      BY <2>1, <2>2, Lens DEF Early
    <3>2. QED
      BY <3>1
  <2>3. CASE n > CmdLen /\ k = n
    <3>1. c = "blank" /\ m \in Nat /\ BodyTo(l, m, m)
      BY <2>1, <2>3, Lens DEF BodyTo
    <3>2. QED
      BY <3>1 DEF Open
  <2>4. CASE k < n
    <3>1. c \in Printable
      BY <2>1, <2>4
    <3>2. BodyTo(l, m, k)
      BY <2>1, <2>4, Lens DEF BodyTo
    <3>3. \/ k = m /\ m > CmdLen
          \/ k < m /\ m - k < ValLen
      BY <2>1, <2>4, Lens
    <3>4. QED
      BY <3>1, <3>2, <3>3 DEF Open
  <2>5. QED
    BY <2>1, <2>2, <2>3, <2>4, Lens
<1> QED
  BY <1>1, <1>2, <1>3, <1>4 DEF Fine, Unfinished, Finished

\* What went wrong stays wrong.
LEMMA Beginning ==
    ASSUME NEW l, NEW m \in Nat, Fine(l, m + 1)
    PROVE  Fine(l, m)
BY Before DEF Fine, Unfinished

-----------------------------------------------------------------------------
(* The parser: what its fields say of the first m bytes of a line          *)

Fields ==
    [cmdLen : Nat, val : Seq(Byte), valLen : Nat, isVal : BOOLEAN,
     expectLf : BOOLEAN, crlf : BOOLEAN, complete : BOOLEAN, failed : BOOLEAN]

InCommand(p, l, m) ==
    /\ Early(l, m) /\ p.cmdLen = m /\ p.valLen = 0
    /\ ~p.isVal /\ ~p.complete /\ ~p.expectLf

InBody(p, l, n, k) ==
    /\ p.cmdLen = CmdLen /\ BodyTo(l, n, k)
    /\ p.valLen = n - k /\ (p.isVal <=> n > CmdLen)
    /\ n > k => Len(p.val) = n - k /\ \A i \in 1..(n - k) : p.val[i] = l[k + i]

At(p, l, n, m) ==
    \/ ~p.complete /\ ~p.expectLf /\ m = n
    \/ ~p.complete /\ p.expectLf /\ m = n + 1 /\ l[n + 1] = "CR"
    \/ p.complete /\ ~p.expectLf /\ ~p.crlf /\ m = n + 1 /\ l[n + 1] = "LF"
    \/ p.complete /\ ~p.expectLf /\ p.crlf /\ m = n + 2 /\ l[n + 1] = "CR" /\ l[n + 2] = "LF"

Follows(p, l, m) ==
    /\ p \in Fields
    /\ p.failed => ~Fine(l, m)
    /\ ~p.failed => \/ InCommand(p, l, m)
                    \/ \E n, k \in Nat : InBody(p, l, n, k) /\ At(p, l, n, m)

LEMMA FailsIs ==
    ASSUME NEW p \in Fields, NEW l, NEW m, ~Fine(l, m)
    PROVE  Follows(Fails(p), l, m)
<1> DEFINE q == Fails(p)
<1>1. q \in Fields /\ q.failed = TRUE
  BY DEF Fails, Fields
<1> HIDE DEF q
<1> QED
  BY <1>1 DEF q, Follows

LEMMA CompletesIs ==
    ASSUME NEW p \in Fields, NEW crlf \in BOOLEAN
    PROVE  LET q == Completes(p, crlf)
           IN /\ q \in Fields
              /\ q.cmdLen = p.cmdLen /\ q.val = p.val /\ q.valLen = p.valLen
              /\ q.isVal = p.isVal /\ q.failed = p.failed
              /\ q.complete = TRUE /\ q.expectLf = FALSE /\ q.crlf = crlf
BY DEF Completes, Fields

LEMMA AddToValIs ==
    ASSUME NEW p \in Fields, NEW c \in Byte, p.valLen <= Len(p.val) \/ p.valLen = 0
    PROVE  LET q == AddToVal(p, c)
           IN /\ q \in Fields
              /\ q.cmdLen = p.cmdLen /\ q.valLen = p.valLen + 1
              /\ q.isVal = p.isVal /\ q.failed = p.failed
              /\ q.complete = p.complete /\ q.expectLf = p.expectLf /\ q.crlf = p.crlf
              /\ Len(q.val) = p.valLen + 1 /\ q.val[p.valLen + 1] = c
              /\ \A i \in 1..p.valLen : q.val[i] = p.val[i]
<1> DEFINE old == SubSeq(p.val, 1, p.valLen)
           v == Append(old, c)
           n == p.valLen + 1
           q == AddToVal(p, c)
<1>1. p.val \in Seq(Byte) /\ p.valLen \in Nat
  BY DEF Fields
<1>2. /\ old \in Seq(Byte) /\ Len(old) = p.valLen
      /\ \A i \in 1..p.valLen : old[i] = p.val[i]
  <2>1. \A i \in 1..p.valLen : p.val[i] \in Byte
    BY <1>1
  <2>2. 1 \in Int /\ p.valLen \in Int
    BY <1>1
  <2>3. /\ old \in Seq(Byte)
        /\ Len(old) = IF 1 <= p.valLen THEN p.valLen - 1 + 1 ELSE 0
        /\ \A i \in 1..(p.valLen - 1 + 1) : old[i] = p.val[1 + i - 1]
    BY <2>1, <2>2, SubSeqProperties
  <2> HIDE DEF old
  <2>4. p.valLen - 1 + 1 = p.valLen /\ \A i \in 1..p.valLen : 1 + i - 1 = i
    BY <1>1
  <2>5. Len(old) = p.valLen
    BY <1>1, <2>3
  <2>6. QED
    BY <2>3, <2>4, <2>5
<1> HIDE DEF old
<1>3. /\ v \in Seq(Byte) /\ Len(v) = n /\ v[n] = c
      /\ \A i \in 1..p.valLen : v[i] = p.val[i]
  BY <1>1, <1>2
<1>4. q = [p EXCEPT !.val = v, !.valLen = n]
  BY DEF AddToVal, old
<1>5. n \in Nat
  BY <1>1
<1> HIDE DEF v, n, q
<1>6. /\ q \in Fields
      /\ q.cmdLen = p.cmdLen /\ q.val = v /\ q.valLen = n
      /\ q.isVal = p.isVal /\ q.failed = p.failed
      /\ q.complete = p.complete /\ q.expectLf = p.expectLf /\ q.crlf = p.crlf
  BY <1>3, <1>4, <1>5 DEF Fields
<1> QED
  BY <1>3, <1>6 DEF n, q

\* A command is followed by letters.
LEMMA CommandStep ==
    ASSUME NEW l, NEW m \in Nat, NEW p, Follows(p, l, m), ~p.failed, InCommand(p, l, m)
    PROVE  Follows(Advance(p, l[m + 1]), l, m + 1)
<1> DEFINE c == l[m + 1]
           q == [p EXCEPT !.cmdLen = @ + 1]
<1>1. /\ p \in Fields /\ m < CmdLen /\ p.cmdLen = m /\ p.valLen = 0
      /\ \A i \in 1..m : l[i] = "A"
      /\ ~p.isVal /\ ~p.complete /\ ~p.expectLf
  BY DEF Follows, InCommand, Early
<1>2. Advance(p, c) = IF c = "A" THEN q ELSE Fails(p)
  <2>1. Phase(p) = "command"
    BY <1>1 DEF Phase
  <2>2. QED
    BY <2>1 DEF Advance
<1>3. CASE c = "A"
  <2>1. /\ q \in Fields /\ q.cmdLen = m + 1 /\ q.valLen = 0 /\ ~q.failed
        /\ ~q.isVal /\ ~q.complete /\ ~q.expectLf
    BY <1>1 DEF Fields
  <2>2. \A i \in 1..(m + 1) : l[i] = "A"
    BY <1>1, <1>3
  <2> HIDE DEF q
  <2>3. CASE m + 1 < CmdLen
    <3>1. InCommand(q, l, m + 1)
      BY <2>1, <2>2, <2>3 DEF InCommand, Early
    <3>2. QED
      BY <1>2, <1>3, <2>1, <3>1 DEF Follows
  <2>4. CASE ~(m + 1 < CmdLen)
    <3>1. m + 1 = CmdLen
      BY <1>1, <2>4, Lens
    <3>2. BodyTo(l, CmdLen, CmdLen)
      BY <2>2, <3>1, Lens DEF BodyTo
    <3>3. InBody(q, l, CmdLen, CmdLen)
      BY <2>1, <3>1, <3>2, Lens DEF InBody
    <3>4. At(q, l, CmdLen, m + 1)
      BY <2>1, <3>1 DEF At
    <3>5. QED
      BY <1>2, <1>3, <2>1, <3>3, <3>4, Lens DEF Follows
  <2>5. QED
    BY <2>3, <2>4
<1>4. CASE c # "A"
  <2>1. ~Fine(l, m + 1)
    <3> SUFFICES ASSUME Fine(l, m + 1) PROVE FALSE
      OBVIOUS
    <3>1. PICK n \in Nat, k \in Nat : Open(l, n, k, m) \/ Half(l, n, k, m)
      <4> HIDE DEF c
      <4>1. c # "A"
        BY <1>4
      <4>2. \/ Early(l, m) /\ c = "A"
            \/ \E n, k \in Nat : Open(l, n, k, m) \/ Half(l, n, k, m)
        BY Before DEF c
      <4>3. QED
        BY <4>1, <4>2
    <3>2. BodyTo(l, n, k) /\ (m = n \/ (m = n + 1 /\ l[n + 1] = "CR"))
      BY <3>1 DEF Open, Half
    <3>3. n >= CmdLen
      BY <3>2, OneBody
    <3>4. QED
      BY <1>1, <3>2, <3>3, Lens
  <2>2. QED
    BY <1>1, <1>2, <1>4, <2>1, FailsIs
<1> QED
  BY <1>3, <1>4

\* Nothing follows a message, and only LF follows CR.
LEMMA EndStep ==
    ASSUME NEW l, NEW m \in Nat, NEW p, Follows(p, l, m), ~p.failed,
           NEW n \in Nat, NEW k \in Nat, InBody(p, l, n, k), At(p, l, n, m), m # n
    PROVE  Follows(Advance(p, l[m + 1]), l, m + 1)
<1> DEFINE c == l[m + 1]
<1>1. p \in Fields /\ p.cmdLen = CmdLen /\ BodyTo(l, n, k)
  BY DEF Follows, InBody
<1>2. n >= CmdLen /\ \A i \in 1..n : l[i] \in Printable
  BY <1>1, OneBody
<1>3. /\ m > n /\ n + 1 \in 1..m /\ l[n + 1] \notin Printable
      /\ ~p.complete => m = n + 1
      /\ p.complete => l[m] = "LF"
      /\ ~p.complete => p.expectLf
  BY DEF At, Printable
<1>4. ~Early(l, m)
  BY <1>2, <1>3, Lens DEF Early
<1>5. ASSUME NEW o \in Nat, NEW j \in Nat PROVE ~Open(l, o, j, m)
  <2>1. BodyTo(l, o, j) => \A i \in 1..o : l[i] \in Printable
    BY OneBody
  <2>2. QED
    BY <1>3, <2>1 DEF Open
<1>6. Fine(l, m + 1) => c = "LF" /\ \E o, j \in Nat : Half(l, o, j, m)
  BY <1>4, <1>5, Before
<1>7. CASE p.complete
  <2>1. ASSUME NEW o \in Nat, NEW j \in Nat PROVE ~Half(l, o, j, m)
    BY <1>3, <1>7 DEF Half
  <2>2. ~Fine(l, m + 1)
    BY <1>6, <2>1
  <2>3. Advance(p, c) = Fails(p)
    BY <1>1, <1>7, Lens DEF Advance, Phase
  <2>4. QED
    BY <1>1, <2>2, <2>3, FailsIs
<1>8. CASE ~p.complete /\ c # "LF"
  <2>1. Advance(p, c) = Fails(p)
    BY <1>1, <1>3, <1>8, Lens DEF Advance, Phase
  <2>2. QED
    BY <1>1, <1>6, <1>8, <2>1, FailsIs
<1>9. CASE ~p.complete /\ c = "LF"
  <2> DEFINE q == Completes(p, TRUE)
  <2>1. Advance(p, c) = q
    <3>1. Phase(p) = "lf"
      BY <1>1, <1>3, <1>9, Lens DEF Phase
    <3>2. QED
      BY <1>9, <3>1 DEF Advance
  <2>2. /\ q \in Fields
        /\ q.cmdLen = p.cmdLen /\ q.val = p.val /\ q.valLen = p.valLen
        /\ q.isVal = p.isVal /\ q.failed = p.failed
        /\ q.complete = TRUE /\ q.expectLf = FALSE /\ q.crlf = TRUE
    BY <1>1, CompletesIs
  <2> HIDE DEF q
  <2>3. InBody(q, l, n, k)
    BY <2>2 DEF InBody
  <2>4. m = n + 1 /\ l[n + 1] = "CR" /\ m + 1 = n + 2 /\ l[n + 2] = "LF"
    <3>1. m = n + 1 /\ l[n + 1] = "CR"
      BY <1>3, <1>9 DEF At
    <3>2. m + 1 = n + 2
      BY <3>1
    <3>3. QED
      BY <1>9, <3>1, <3>2
  <2>5. At(q, l, n, m + 1)
    BY <2>2, <2>4 DEF At
  <2>6. QED
    BY <2>1, <2>2, <2>3, <2>5 DEF Follows
<1> QED
  BY <1>7, <1>8, <1>9

\* What can follow a body that is not at its end.
LEMMA MayFollow ==
    ASSUME NEW l, NEW n \in Nat, NEW k \in Nat, BodyTo(l, n, k), Fine(l, n + 1)
    PROVE  LET c == l[n + 1]
           IN \/ c \in {"CR", "LF"}
              \/ k = n /\ c = "blank"
              \/ k = n /\ n > CmdLen /\ c \in Printable
              \/ k < n /\ n - k < ValLen /\ c \in Printable
<1>1. n >= CmdLen /\ (\A i \in 1..n : l[i] \in Printable)
      /\ \A j \in Nat : BodyTo(l, n, j) => j = k
  BY OneBody
<1>2. ~Early(l, n)
  BY <1>1, Lens DEF Early
<1>3. ASSUME NEW o \in Nat, NEW j \in Nat, Half(l, o, j, n) PROVE FALSE
  <2>1. n = o + 1 /\ l[n] = "CR" /\ n \in 1..n
    BY <1>3 DEF Half
  <2>2. QED
    BY <1>1, <2>1 DEF Printable
<1>4. ASSUME NEW o \in Nat, NEW j \in Nat, Open(l, o, j, n) PROVE o = n /\ j = k
  BY <1>1, <1>4 DEF Open
<1> QED
  BY <1>2, <1>3, <1>4, Before

\* A byte of the value, or the end of the line.
LEMMA ValueStep ==
    ASSUME NEW l, NEW p \in Fields, ~p.failed,
           NEW n \in Nat, NEW k \in Nat, InBody(p, l, n, k), At(p, l, n, n),
           l[n + 1] \in Byte,
           n > CmdLen \/ l[n + 1] \in {"CR", "LF"},
           n > k \/ l[n + 1] # "blank"
    PROVE  Follows(InValue(p, l[n + 1]), l, n + 1)
<1> DEFINE c == l[n + 1]
<1>1. /\ p.cmdLen = CmdLen /\ BodyTo(l, n, k) /\ p.valLen = n - k
      /\ n > k => Len(p.val) = n - k /\ \A i \in 1..(n - k) : p.val[i] = l[k + i]
      /\ p.isVal <=> n > CmdLen
      /\ ~p.complete /\ ~p.expectLf
  BY DEF InBody, At
<1>2. CASE c = "CR"
  <2> DEFINE q == [p EXCEPT !.expectLf = TRUE]
  <2>1. InValue(p, c) = q
    BY <1>2 DEF InValue
  <2>2. /\ q \in Fields
        /\ q.cmdLen = p.cmdLen /\ q.val = p.val /\ q.valLen = p.valLen
        /\ q.isVal = p.isVal /\ q.failed = p.failed
        /\ q.complete = p.complete /\ q.expectLf = TRUE /\ q.crlf = p.crlf
    BY DEF Fields
  <2> HIDE DEF q
  <2>3. InBody(q, l, n, k)
    BY <2>2 DEF InBody
  <2>4. At(q, l, n, n + 1)
    BY <1>1, <1>2, <2>2 DEF At
  <2>5. QED
    BY <2>1, <2>2, <2>3, <2>4 DEF Follows
<1>3. CASE c = "LF"
  <2> DEFINE q == Completes(p, FALSE)
  <2>1. InValue(p, c) = q
    BY <1>3 DEF InValue
  <2>2. /\ q \in Fields
        /\ q.cmdLen = p.cmdLen /\ q.val = p.val /\ q.valLen = p.valLen
        /\ q.isVal = p.isVal /\ q.failed = p.failed
        /\ q.complete = TRUE /\ q.expectLf = FALSE /\ q.crlf = FALSE
    BY CompletesIs
  <2> HIDE DEF q
  <2>3. InBody(q, l, n, k)
    BY <2>2 DEF InBody
  <2>4. At(q, l, n, n + 1)
    BY <1>3, <2>2 DEF At
  <2>5. QED
    BY <2>1, <2>2, <2>3, <2>4 DEF Follows
<1>4. CASE c = "NUL"
  <2>1. InValue(p, c) = Fails(p)
    BY <1>4 DEF InValue
  <2>2. ~Fine(l, n + 1)
    BY <1>1, <1>4, MayFollow DEF Printable
  <2>3. QED
    BY <2>1, <2>2, FailsIs
<1>5. CASE c \in Printable
  <2>1. InValue(p, c) = IF p.valLen = ValLen THEN Fails(p) ELSE AddToVal(p, c)
    BY <1>5 DEF InValue, Printable
  <2>2. n > CmdLen /\ (n > k \/ c # "blank") /\ k <= n
    BY <1>1, <1>5 DEF Printable, BodyTo
  <2>3. CASE p.valLen = ValLen
    <3>1. k < n /\ ~(n - k < ValLen)
      BY <1>1, <2>2, <2>3, Lens
    <3>2. ~Fine(l, n + 1)
      BY <1>1, <1>5, <3>1, MayFollow DEF Printable
    <3>3. QED
      BY <2>1, <2>3, <3>2, FailsIs
  <2>4. CASE p.valLen # ValLen
    <3> DEFINE q == AddToVal(p, c)
    <3>1. p.valLen <= Len(p.val) \/ p.valLen = 0
      BY <1>1, <2>2
    <3>2. /\ q \in Fields
          /\ q.cmdLen = p.cmdLen /\ q.valLen = p.valLen + 1
          /\ q.isVal = p.isVal /\ q.failed = p.failed
          /\ q.complete = p.complete /\ q.expectLf = p.expectLf /\ q.crlf = p.crlf
          /\ Len(q.val) = p.valLen + 1 /\ q.val[p.valLen + 1] = c
          /\ \A i \in 1..p.valLen : q.val[i] = p.val[i]
      BY <3>1, AddToValIs
    <3> HIDE DEF q
    <3>3. BodyTo(l, n + 1, k)
      BY <1>1, <1>5, <2>2, <2>4, Lens DEF BodyTo
    <3>4. q.valLen = (n + 1) - k /\ Len(q.val) = (n + 1) - k
      BY <1>1, <3>2
    <3>5. ASSUME NEW i \in 1..((n + 1) - k) PROVE q.val[i] = l[k + i]
      <4>1. CASE i = p.valLen + 1
        BY <1>1, <3>2, <4>1
      <4>2. CASE i # p.valLen + 1
        <5>1. i \in 1..(n - k) /\ n > k
          BY <1>1, <2>2, <4>2
        <5>2. QED
          BY <1>1, <3>2, <5>1
      <4>3. QED
        BY <4>1, <4>2
    <3>6. InBody(q, l, n + 1, k)
      <4>1. p.isVal /\ q.isVal
        BY <1>1, <2>2, <3>2
      <4>2. n + 1 > CmdLen /\ q.cmdLen = CmdLen
        BY <1>1, <2>2, <3>2, Lens
      <4>3. QED
        BY <3>3, <3>4, <3>5, <4>1, <4>2 DEF InBody
    <3>7. At(q, l, n + 1, n + 1)
      BY <1>1, <3>2 DEF At
    <3>8. QED
      BY <2>1, <2>4, <3>2, <3>6, <3>7 DEF Follows, q
  <2>5. QED
    BY <2>3, <2>4
<1> QED
  BY <1>2, <1>3, <1>4, <1>5 DEF Byte, Printable

\* One round of the loop.
LEMMA AdvanceStep ==
    ASSUME NEW l, NEW m \in Nat, NEW p, Follows(p, l, m), l[m + 1] \in Byte
    PROVE  Follows(Advance(p, l[m + 1]), l, m + 1)
<1> DEFINE c == l[m + 1]
<1>1. p \in Fields
  BY DEF Follows
<1>2. CASE p.failed
  <2>1. Advance(p, c) = p
    BY <1>2 DEF Advance
  <2>2. ~Fine(l, m + 1)
    BY <1>2, Beginning DEF Follows
  <2>3. QED
    BY <1>1, <1>2, <2>1, <2>2 DEF Follows
<1>3. CASE ~p.failed /\ InCommand(p, l, m)
  BY <1>3, CommandStep
<1>4. ASSUME ~p.failed, NEW n \in Nat, NEW k \in Nat, InBody(p, l, n, k), At(p, l, n, m)
      PROVE  Follows(Advance(p, c), l, m + 1)
  <2>1. CASE m # n
    BY <1>4, <2>1, EndStep
  <2>2. CASE m = n
    <3>1. /\ p.cmdLen = CmdLen /\ BodyTo(l, n, k) /\ p.valLen = n - k
          /\ p.isVal <=> n > CmdLen
          /\ ~p.complete /\ ~p.expectLf
      BY <1>4, <2>2 DEF InBody, At
    <3>2. CmdLen <= k /\ k <= n
      BY <3>1 DEF BodyTo
    <3>3. CASE n > k
      <4>1. Phase(p) = "value"
        BY <3>1, <3>2, <3>3, Lens DEF Phase
      <4>2. Advance(p, c) = InValue(p, c)
        BY <1>4, <4>1 DEF Advance
      <4>3. n > CmdLen
        BY <3>2, <3>3, Lens
      <4>4. QED
        BY <1>1, <1>4, <2>2, <3>3, <4>2, <4>3, ValueStep
    <3>4. CASE n = k
      <4>1. Phase(p) = "gap"
        BY <3>1, <3>2, <3>4, Lens DEF Phase
      <4>2. Advance(p, c) = InGap(p, c)
        BY <1>4, <4>1 DEF Advance
      <4>3. CASE c = "blank"
        <5> DEFINE q == [p EXCEPT !.isVal = TRUE]
        <5>1. Advance(p, c) = q
          BY <4>2, <4>3 DEF InGap
        <5>2. /\ q \in Fields
              /\ q.cmdLen = p.cmdLen /\ q.val = p.val /\ q.valLen = p.valLen
              /\ q.isVal = TRUE /\ q.failed = p.failed
              /\ q.complete = p.complete /\ q.expectLf = p.expectLf /\ q.crlf = p.crlf
          BY <1>1 DEF Fields
        <5> HIDE DEF q
        <5>3. BodyTo(l, n + 1, n + 1)
          BY <2>2, <3>1, <3>4, <4>3, Lens DEF BodyTo
        <5>4. n + 1 > CmdLen /\ q.valLen = (n + 1) - (n + 1)
          BY <3>1, <3>2, <3>4, <5>2, Lens
        <5>5. InBody(q, l, n + 1, n + 1)
          BY <3>1, <5>2, <5>3, <5>4 DEF InBody
        <5>6. At(q, l, n + 1, m + 1)
          BY <2>2, <3>1, <5>2 DEF At
        <5>7. QED
          BY <1>4, <5>1, <5>2, <5>5, <5>6 DEF Follows
      <4>4. CASE c # "blank" /\ ~p.isVal /\ c \notin {"CR", "LF"}
        <5>1. Advance(p, c) = Fails(p)
          BY <4>2, <4>4 DEF InGap
        <5>2. ~(n > CmdLen)
          BY <3>1, <4>4
        <5>3. ~Fine(l, m + 1)
          BY <2>2, <3>1, <3>4, <4>4, <5>2, MayFollow
        <5>4. QED
          BY <1>1, <5>1, <5>3, FailsIs
      <4>5. CASE c # "blank" /\ (p.isVal \/ c \in {"CR", "LF"})
        <5>1. Advance(p, c) = InValue(p, c)
          BY <4>2, <4>5 DEF InGap
        <5>2. n > CmdLen \/ c \in {"CR", "LF"}
          BY <3>1, <4>5
        <5>3. QED
          BY <1>1, <1>4, <2>2, <4>5, <5>1, <5>2, ValueStep
      <4>6. QED
        BY <4>3, <4>4, <4>5
    <3>5. QED
      BY <3>2, <3>3, <3>4
  <2>3. QED
    BY <2>1, <2>2
<1> QED
  BY <1>2, <1>3, <1>4 DEF Follows

-----------------------------------------------------------------------------
(* The parser: a buffer of bytes                                           *)

\* The parser after a byte, from the ones before it.
Round(bytes, h, i) == IF i = 0 THEN pd ELSE Advance(h[i - 1], bytes[i])

\* The function that Parsed picks exists.
LEMMA RoundsExist ==
    ASSUME NEW n \in Nat, NEW bytes
    PROVE  \E h : h = [i \in 0..n |-> Round(bytes, h, i)]
<1> DEFINE P(k) == \E h : h = [i \in 0..k |-> Round(bytes, h, i)]
           S == {k \in Nat : ~P(k)}
<1>1. SUFFICES P(n)
  BY <1>1
<1>2. SUFFICES ASSUME S # {} PROVE FALSE
  OBVIOUS
<1>3. PICK k \in S : \A g \in S : k <= g
  <2>1. S \in SUBSET Nat
    OBVIOUS
  <2> HIDE DEF S
  <2>2. QED
    BY <1>2, <2>1, LowestNumber
<1>4. k \in Nat /\ ~P(k)
  BY <1>3
<1>5. k # 0
  <2> DEFINE h0 == [i \in 0..0 |-> pd]
  <2>1. \A i \in 0..0 : Round(bytes, h0, i) = pd
    BY DEF Round
  <2>2. h0 = [i \in 0..0 |-> Round(bytes, h0, i)]
    BY <2>1
  <2>3. P(0)
    BY <2>2
  <2>4. QED
    BY <1>4, <2>3
<1>6. k - 1 \in Nat /\ ~(k <= k - 1)
  BY <1>4, <1>5
<1>7. P(k - 1)
  <2>1. k - 1 \notin S
    BY <1>3, <1>6
  <2>2. QED
    BY <1>6, <2>1
<1>8. PICK h : h = [i \in 0..(k - 1) |-> Round(bytes, h, i)]
  BY <1>7
<1> DEFINE g == [i \in 0..k |-> IF i = k THEN Advance(h[k - 1], bytes[k]) ELSE h[i]]
<1>9. ASSUME NEW i \in 0..k
      PROVE  g[i] = Round(bytes, g, i)
  <2>1. i \in Int /\ 0 <= i /\ i <= k
    BY <1>4
  <2>2. CASE i = 0
    <3>1. 0 \in 0..(k - 1) /\ 0 \in 0..k /\ 0 # k
      BY <1>5, <1>6
    <3>2. g[0] = h[0]
      BY <3>1
    <3>3. h[0] = pd
      BY <1>8, <3>1 DEF Round
    <3>4. QED
      BY <2>2, <3>2, <3>3 DEF Round
  <2>3. CASE i # 0
    <3>1. i - 1 \in 0..k /\ i - 1 # k /\ i - 1 \in 0..(k - 1)
      BY <1>4, <2>1, <2>3
    <3>2. g[i - 1] = h[i - 1]
      BY <3>1
    <3>3. CASE i = k
      <4>1. g[i] = Advance(g[i - 1], bytes[i])
        BY <3>2, <3>3
      <4> HIDE DEF g
      <4>2. QED
        BY <2>3, <4>1 DEF Round
    <3>4. CASE i # k
      <4>1. i \in 0..(k - 1)
        BY <1>4, <2>1, <3>4
      <4>2. g[i] = h[i]
        BY <3>4
      <4>3. h[i] = Advance(h[i - 1], bytes[i])
        BY <1>8, <2>3, <4>1 DEF Round
      <4>4. g[i] = Advance(g[i - 1], bytes[i])
        BY <3>2, <4>2, <4>3
      <4> HIDE DEF g
      <4>5. QED
        BY <2>3, <4>4 DEF Round
    <3>5. QED
      BY <3>3, <3>4
  <2>4. QED
    BY <2>2, <2>3
<1>10. g = [i \in 0..k |-> g[i]]
  OBVIOUS
<1> HIDE DEF g
<1>11. g = [i \in 0..k |-> Round(bytes, g, i)]
  BY <1>9, <1>10
<1>12. P(k)
  BY <1>11
<1>13. QED
  BY <1>4, <1>12

\* After a buffer the parser still says what all the bytes are.
LEMMA ParsedFollows ==
    ASSUME NEW l, NEW m \in Nat, Follows(pd, l, m), NEW bytes \in Seq(Byte),
           \A i \in 1..Len(bytes) : l[m + i] = bytes[i]
    PROVE  Follows(Parsed(bytes), l, m + Len(bytes))
<1> DEFINE n == Len(bytes)
           h == CHOOSE f : f = [i \in 0..n |-> Round(bytes, f, i)]
<1>1. n \in Nat
  OBVIOUS
<1>2. h = [i \in 0..n |-> Round(bytes, h, i)]
  BY <1>1, RoundsExist
<1>3. Parsed(bytes) = h[n]
  BY DEF Parsed, Round
<1> HIDE DEF h
<1>4. 0 \in 0..n /\ \A i \in 1..n : i \in 0..n /\ i # 0
  BY <1>1
<1>5. h[0] = pd /\ \A i \in 1..n : h[i] = Advance(h[i - 1], bytes[i])
  BY <1>2, <1>4 DEF Round
<1> DEFINE P(i) == Follows(h[i], l, m + i)
           S == {i \in 0..n : ~P(i)}
<1> HIDE DEF n
<1>6. SUFFICES P(n)
  BY <1>3, <1>6 DEF n
<1>7. SUFFICES ASSUME S # {} PROVE FALSE
  <2>1. n \in 0..n
    BY <1>1
  <2>2. QED
    BY <1>7, <2>1
<1>8. PICK k \in S : \A g \in S : k <= g
  <2>1. S \in SUBSET Nat
    BY <1>1
  <2> HIDE DEF S
  <2>2. QED
    BY <1>7, <2>1, LowestNumber
<1>9. k \in 0..n /\ ~P(k)
  BY <1>8
<1>10. k # 0
  <2>1. m + 0 = m
    OBVIOUS
  <2>2. P(0)
    BY <1>5, <2>1
  <2>3. QED
    BY <1>9, <2>2
<1>11. k - 1 \in 0..n /\ k \in 1..n /\ ~(k <= k - 1)
  BY <1>1, <1>9, <1>10
<1>12. P(k - 1)
  <2>1. k - 1 \notin S
    BY <1>8, <1>11
  <2>2. QED
    BY <1>11, <2>1
<1> DEFINE j == m + (k - 1)
<1>13. j \in Nat /\ j + 1 = m + k
  BY <1>11
<1>14. Follows(h[k - 1], l, j)
  BY <1>12
<1> HIDE DEF j
<1>15. l[j + 1] = bytes[k] /\ bytes[k] \in Byte
  <2>1. k \in 1..Len(bytes)
    BY <1>11 DEF n
  <2>2. l[m + k] = bytes[k]
    BY <2>1
  <2>3. bytes[k] \in Byte
    BY <2>1
  <2>4. QED
    BY <1>13, <2>2, <2>3
<1>16. Follows(Advance(h[k - 1], l[j + 1]), l, j + 1)
  BY <1>13, <1>14, <1>15, AdvanceStep
<1>17. h[k] = Advance(h[k - 1], l[j + 1])
  BY <1>5, <1>11, <1>15
<1>18. P(k)
  BY <1>13, <1>16, <1>17
<1> QED
  BY <1>9, <1>18

-----------------------------------------------------------------------------
(* The parser: the messages of the protocol                                *)

\* A line up to its n-th byte.
LEMMA PiecesOf ==
    ASSUME NEW l \in Seq(Byte), NEW m \in 1..(Len(l) + 1), NEW n \in (m - 1)..Len(l)
    PROVE  /\ SubSeq(l, m, n) \in Seq(Byte)
           /\ Len(SubSeq(l, m, n)) = n - m + 1
           /\ \A i \in 1..(n - m + 1) : SubSeq(l, m, n)[i] = l[m - 1 + i]
<1> DEFINE t == SubSeq(l, m, n)
<1>1. m \in Int /\ n \in Int /\ Len(l) \in Nat /\ m <= n + 1
  OBVIOUS
<1>2. \A i \in m..n : l[i] \in Byte
  OBVIOUS
<1>3. /\ t \in Seq(Byte)
      /\ Len(t) = IF m <= n THEN n - m + 1 ELSE 0
      /\ \A i \in 1..(n - m + 1) : t[i] = l[m + i - 1]
  BY <1>1, <1>2, SubSeqProperties
<1> HIDE DEF t
<1>4. Len(t) = n - m + 1
  BY <1>1, <1>3
<1>5. \A i \in 1..(n - m + 1) : m + i - 1 = m - 1 + i
  BY <1>1
<1> QED
  BY <1>3, <1>4, <1>5 DEF t

LEMMA SuffixOf ==
    ASSUME NEW l \in Seq(Byte), NEW n \in 0..Len(l)
    PROVE  /\ SubSeq(l, n + 1, Len(l)) \in Seq(Byte)
           /\ Len(SubSeq(l, n + 1, Len(l))) = Len(l) - n
           /\ \A i \in 1..(Len(l) - n) : SubSeq(l, n + 1, Len(l))[i] = l[n + i]
<1> DEFINE m == n + 1
           o == Len(l)
<1>1. m \in 1..(Len(l) + 1) /\ o \in (m - 1)..Len(l) /\ m - 1 = n /\ o - m + 1 = o - n
  OBVIOUS
<1> HIDE DEF m, o
<1>2. /\ SubSeq(l, m, o) \in Seq(Byte)
      /\ Len(SubSeq(l, m, o)) = o - m + 1
      /\ \A i \in 1..(o - m + 1) : SubSeq(l, m, o)[i] = l[m - 1 + i]
  BY <1>1, PiecesOf
<1>3. /\ SubSeq(l, m, o) \in Seq(Byte)
      /\ Len(SubSeq(l, m, o)) = o - n
      /\ \A i \in 1..(o - n) : SubSeq(l, m, o)[i] = l[n + i]
  BY <1>1, <1>2
<1> QED
  BY <1>3 DEF m, o

\* What a value is.
LEMMA ValueIs ==
    ASSUME NEW b \in Seq(Byte), NEW k \in 0..Len(b),
           \A i \in 1..k : b[i] = "blank", k < Len(b) => b[k + 1] # "blank"
    PROVE  /\ Value(b) \in Seq(Byte) /\ Len(Value(b)) = Len(b) - k
           /\ \A i \in 1..(Len(b) - k) : Value(b)[i] = b[k + i]
<1> DEFINE Q(n) == /\ \A i \in 1..n : b[i] = "blank"
                   /\ n < Len(b) => b[n + 1] # "blank"
           j == CHOOSE n \in 0..Len(b) : Q(n)
<1>1. Len(b) \in Nat
  OBVIOUS
<1>2. Q(k)
  OBVIOUS
<1>3. j \in 0..Len(b) /\ Q(j)
  BY <1>2
<1>4. j = k
  <2> HIDE DEF j
  <2>1. j < k => j + 1 \in 1..k /\ j < Len(b)
    BY <1>1, <1>3
  <2>2. k < j => k + 1 \in 1..j /\ k < Len(b)
    BY <1>1, <1>3
  <2>3. QED
    BY <1>1, <1>2, <1>3, <2>1, <2>2
<1>5. Value(b) = SubSeq(b, k + 1, Len(b))
  BY <1>4 DEF Value
<1> QED
  BY <1>5, SuffixOf

LEMMA BlanksExist ==
    ASSUME NEW b \in Seq(Byte)
    PROVE  \E k \in 0..Len(b) :
              (\A i \in 1..k : b[i] = "blank") /\ (k < Len(b) => b[k + 1] # "blank")
<1> DEFINE S == {n \in 0..Len(b) : n < Len(b) => b[n + 1] # "blank"}
<1>1. Len(b) \in Nat
  OBVIOUS
<1>2. Len(b) \in S /\ S \in SUBSET Nat
  BY <1>1
<1>3. PICK k \in S : \A g \in S : k <= g
  <2> HIDE DEF S
  <2>1. QED
    BY <1>2, LowestNumber
<1>4. ASSUME NEW i \in 1..k PROVE b[i] = "blank"
  <2>1. i - 1 \in 0..Len(b) /\ ~(k <= i - 1) /\ i - 1 < Len(b) /\ (i - 1) + 1 = i
    BY <1>1, <1>3
  <2>2. i - 1 \notin S
    BY <1>3, <2>1
  <2>3. QED
    BY <2>1, <2>2
<1> QED
  BY <1>3, <1>4

\* The body of a message.
LEMMA BodyIs ==
    ASSUME NEW l \in Seq(Byte), NEW n \in CmdLen..Len(l)
    PROVE  /\ Body(l, n) \in Seq(Byte) /\ Len(Body(l, n)) = n - CmdLen
           /\ \A i \in 1..(n - CmdLen) : Body(l, n)[i] = l[CmdLen + i]
<1>1. Len(l) \in Nat /\ CmdLen \in Nat
  BY Lens
<1>2. /\ CmdLen + 1 \in 1..(Len(l) + 1) /\ n \in ((CmdLen + 1) - 1)..Len(l)
      /\ n - (CmdLen + 1) + 1 = n - CmdLen /\ (CmdLen + 1) - 1 = CmdLen
  BY <1>1
<1> QED
  BY <1>2, PiecesOf DEF Body

LEMMA CommandIs ==
    ASSUME NEW l \in Seq(Byte), NEW m \in 0..Len(l)
    PROVE  IsCommand(SubSeq(l, 1, m)) <=> \A i \in 1..m : l[i] = "A"
<1> DEFINE t == SubSeq(l, 1, m)
<1>1. /\ 1 \in 1..(Len(l) + 1) /\ m \in (1 - 1)..Len(l) /\ m - 1 + 1 = m
      /\ \A i \in 1..m : 1 - 1 + i = i
  OBVIOUS
<1>2. t \in Seq(Byte) /\ Len(t) = m /\ \A i \in 1..m : t[i] = l[i]
  BY <1>1, PiecesOf
<1> HIDE DEF t
<1>3. DOMAIN t = 1..m
  BY <1>2
<1>4. IsCommand(t) <=> \A i \in 1..m : l[i] = "A"
  BY <1>2, <1>3 DEF IsCommand
<1> QED
  BY <1>4 DEF t

\* A line that splits into a command and a body.
LEMMA SplitIs ==
    ASSUME NEW l \in Seq(Byte), NEW n \in CmdLen..Len(l)
    PROVE  /\ IsCommand(SubSeq(l, 1, CmdLen)) /\ IsBody(Body(l, n))
                 => \E k \in Nat : BodyTo(l, n, k)
           /\ \A k \in Nat : BodyTo(l, n, k) =>
                 /\ IsCommand(SubSeq(l, 1, CmdLen)) /\ IsBody(Body(l, n))
                 /\ Value(Body(l, n)) \in Seq(Byte) /\ Len(Value(Body(l, n))) = n - k
                 /\ \A i \in 1..(n - k) : Value(Body(l, n))[i] = l[k + i]
<1> DEFINE b == Body(l, n)
           v == Value(b)
<1>1. Len(l) \in Nat /\ CmdLen \in Nat /\ n \in Nat /\ CmdLen <= n /\ CmdLen \in 0..Len(l)
  BY Lens
<1>2. /\ b \in Seq(Byte) /\ Len(b) = n - CmdLen
      /\ \A i \in 1..(n - CmdLen) : b[i] = l[CmdLen + i]
  BY BodyIs
<1>3. IsCommand(SubSeq(l, 1, CmdLen)) <=> \A i \in 1..CmdLen : l[i] = "A"
  BY <1>1, CommandIs
<1> HIDE DEF b
<1>4. /\ DOMAIN b = 1..(n - CmdLen)
      /\ b # << >> <=> n > CmdLen
  <2>1. b # << >> => Len(b) # 0
    BY <1>2, EmptySeq
  <2>2. b = << >> => Len(b) = 0
    OBVIOUS
  <2>3. QED
    BY <1>1, <1>2, <2>1, <2>2
<1>5. ASSUME IsCommand(SubSeq(l, 1, CmdLen)), IsBody(b)
      PROVE  \E k \in Nat : BodyTo(l, n, k)
  <2>1. /\ \A i \in 1..(n - CmdLen) : b[i] \notin {"CR", "LF", "NUL"}
        /\ n > CmdLen => b[1] = "blank"
        /\ Len(v) <= ValLen
    BY <1>4, <1>5 DEF IsBody
  <2>2. PICK j \in 0..Len(b) :
           (\A i \in 1..j : b[i] = "blank") /\ (j < Len(b) => b[j + 1] # "blank")
    BY <1>2, BlanksExist
  <2>3. Len(v) = Len(b) - j
    BY <1>2, <2>2, ValueIs
  <2> HIDE DEF v
  <2> DEFINE k == CmdLen + j
  <2>4. k \in Nat /\ CmdLen <= k /\ k <= n /\ n - k <= ValLen /\ j = k - CmdLen
    BY <1>1, <1>2, <2>1, <2>2, <2>3
  <2> HIDE DEF k
  <2>5. \A i \in 1..CmdLen : l[i] = "A"
    BY <1>3, <1>5
  <2>6. ASSUME NEW i \in (CmdLen + 1)..k PROVE l[i] = "blank"
    <3>1. i - CmdLen \in 1..j /\ i - CmdLen \in 1..(n - CmdLen) /\ CmdLen + (i - CmdLen) = i
      BY <1>1, <2>4
    <3>2. QED
      BY <1>2, <2>2, <3>1
  <2>7. ASSUME NEW i \in (k + 1)..n PROVE l[i] \in Printable
    <3>1. /\ i - CmdLen \in 1..(n - CmdLen) /\ CmdLen + (i - CmdLen) = i
          /\ i \in 1..Len(l)
      BY <1>1, <2>4
    <3>2. l[i] = b[i - CmdLen] /\ l[i] \in Byte
      BY <1>2, <3>1
    <3>3. QED
      BY <2>1, <3>1, <3>2 DEF Byte, Printable
  <2>8. k < n => l[k + 1] # "blank" /\ k > CmdLen
    <3> SUFFICES ASSUME k < n PROVE l[k + 1] # "blank" /\ k > CmdLen
      OBVIOUS
    <3>1. j < Len(b) /\ j + 1 \in 1..(n - CmdLen) /\ CmdLen + (j + 1) = k + 1 /\ n > CmdLen
      BY <1>1, <1>2, <2>4
    <3>2. b[j + 1] # "blank" /\ b[1] = "blank"
      BY <2>1, <2>2, <3>1
    <3>3. l[k + 1] # "blank"
      BY <1>2, <3>1, <3>2
    <3>4. j # 0
      <4>1. j = 0 => j + 1 = 1
        OBVIOUS
      <4>2. QED
        BY <3>2, <4>1
    <3>5. QED
      BY <1>1, <2>4, <3>3, <3>4
  <2>9. BodyTo(l, n, k)
    BY <2>4, <2>5, <2>6, <2>7, <2>8 DEF BodyTo
  <2>10. QED
    BY <2>4, <2>9
<1>6. ASSUME NEW k \in Nat, BodyTo(l, n, k)
      PROVE  /\ IsCommand(SubSeq(l, 1, CmdLen)) /\ IsBody(b)
             /\ v \in Seq(Byte) /\ Len(v) = n - k
             /\ \A i \in 1..(n - k) : v[i] = l[k + i]
  <2>1. /\ CmdLen <= k /\ k <= n
        /\ \A i \in 1..CmdLen : l[i] = "A"
        /\ \A i \in (CmdLen + 1)..k : l[i] = "blank"
        /\ k < n => l[k + 1] # "blank" /\ k > CmdLen
        /\ n - k <= ValLen
    BY <1>6 DEF BodyTo
  <2>2. \A i \in 1..n : l[i] \in Printable
    BY <1>1, <1>6, OneBody
  <2> DEFINE j == k - CmdLen
  <2>3. j \in 0..Len(b) /\ Len(b) - j = n - k /\ CmdLen + j = k
    BY <1>1, <1>2, <2>1
  <2> HIDE DEF j
  <2>4. ASSUME NEW i \in 1..j PROVE b[i] = "blank"
    <3>1. CmdLen + i \in (CmdLen + 1)..k /\ i \in 1..(n - CmdLen)
      BY <1>1, <2>1, <2>3
    <3>2. QED
      BY <1>2, <2>1, <3>1
  <2>5. j < Len(b) => b[j + 1] # "blank"
    <3> SUFFICES ASSUME j < Len(b) PROVE b[j + 1] # "blank"
      OBVIOUS
    <3>1. j + 1 \in 1..(n - CmdLen) /\ CmdLen + (j + 1) = k + 1 /\ k < n
      BY <1>1, <1>2, <2>1, <2>3
    <3>2. QED
      BY <1>2, <2>1, <3>1
  <2>6. /\ v \in Seq(Byte) /\ Len(v) = Len(b) - j
        /\ \A i \in 1..(Len(b) - j) : v[i] = b[j + i]
    BY <1>2, <2>3, <2>4, <2>5, ValueIs
  <2> HIDE DEF v
  <2>7. ASSUME NEW i \in 1..(n - k) PROVE v[i] = l[k + i]
    <3>1. j + i \in 1..(n - CmdLen) /\ CmdLen + (j + i) = k + i
      BY <1>1, <2>1, <2>3
    <3>2. QED
      BY <1>2, <2>3, <2>6, <3>1
  <2>8. ASSUME NEW i \in 1..(n - CmdLen) PROVE b[i] \notin {"CR", "LF", "NUL"}
    <3>1. CmdLen + i \in 1..n
      BY <1>1
    <3>2. b[i] \in Printable
      BY <1>2, <2>2, <3>1
    <3>3. QED
      BY <3>2 DEF Printable
  <2>9. n > CmdLen => b[1] = "blank"
    <3> SUFFICES ASSUME n > CmdLen PROVE b[1] = "blank"
      OBVIOUS
    <3>1. 1 \in 1..j
      BY <1>1, <2>1, <2>3
    <3>2. QED
      BY <2>4, <3>1
  <2>10. Len(v) <= ValLen
    BY <2>1, <2>3, <2>6
  <2>11. IsBody(b)
    BY <1>4, <2>8, <2>9, <2>10 DEF IsBody, v
  <2>12. QED
    BY <1>3, <2>1, <2>3, <2>6, <2>7, <2>11
<1> QED
  BY <1>5, <1>6 DEF b, v

\* What is behind the body.
LEMMA BehindIs ==
    ASSUME NEW l \in Seq(Byte), NEW n \in 0..Len(l)
    PROVE  /\ Behind(l, n) = << >> <=> Len(l) = n
           /\ \A x \in Byte : Behind(l, n) = <<x>> <=> Len(l) = n + 1 /\ l[n + 1] = x
           /\ \A x, y \in Byte : Behind(l, n) = <<x, y>> <=>
                 Len(l) = n + 2 /\ l[n + 1] = x /\ l[n + 2] = y
<1> DEFINE t == Behind(l, n)
<1>1. Len(l) \in Nat /\ n \in Nat /\ n <= Len(l)
  OBVIOUS
<1>2. t \in Seq(Byte) /\ Len(t) = Len(l) - n /\ \A i \in 1..(Len(l) - n) : t[i] = l[n + i]
  BY SuffixOf DEF Behind
<1> HIDE DEF t
<1>3. t = << >> <=> Len(l) = n
  <2>1. t # << >> => Len(t) # 0
    BY <1>2, EmptySeq
  <2>2. t = << >> => Len(t) = 0
    OBVIOUS
  <2>3. QED
    BY <1>1, <1>2, <2>1, <2>2
<1>4. ASSUME NEW x \in Byte
      PROVE  t = <<x>> <=> Len(l) = n + 1 /\ l[n + 1] = x
  <2> DEFINE u == <<x>>
  <2>1. u \in Seq(Byte) /\ Len(u) = 1 /\ u[1] = x
    OBVIOUS
  <2> HIDE DEF u
  <2>2. ASSUME t = u PROVE Len(l) = n + 1 /\ l[n + 1] = x
    <3>1. Len(t) = 1 /\ t[1] = x
      BY <2>1, <2>2
    <3>2. Len(l) = n + 1 /\ 1 \in 1..(Len(l) - n)
      <4>1. Len(l) - n = Len(t)
        BY <1>2
      <4>2. QED
        BY <1>1, <3>1, <4>1
    <3>3. QED
      BY <1>2, <3>1, <3>2
  <2>3. ASSUME Len(l) = n + 1, l[n + 1] = x PROVE t = u
    <3>1. Len(t) = Len(u) /\ \A i \in 1..Len(t) : t[i] = u[i]
      BY <1>1, <1>2, <2>1, <2>3
    <3>2. QED
      BY <1>2, <2>1, <3>1, SeqEqual
  <2>4. QED
    BY <2>2, <2>3 DEF u
<1>5. ASSUME NEW x \in Byte, NEW y \in Byte
      PROVE  t = <<x, y>> <=> Len(l) = n + 2 /\ l[n + 1] = x /\ l[n + 2] = y
  <2> DEFINE u == <<x, y>>
  <2>1. u \in Seq(Byte) /\ Len(u) = 2 /\ u[1] = x /\ u[2] = y
    OBVIOUS
  <2> HIDE DEF u
  <2>2. ASSUME t = u PROVE Len(l) = n + 2 /\ l[n + 1] = x /\ l[n + 2] = y
    <3>1. Len(t) = 2 /\ t[1] = x /\ t[2] = y
      BY <2>1, <2>2
    <3>2. Len(l) = n + 2 /\ 1 \in 1..(Len(l) - n) /\ 2 \in 1..(Len(l) - n)
      <4>1. Len(l) - n = Len(t)
        BY <1>2
      <4>2. QED
        BY <1>1, <3>1, <4>1
    <3>3. QED
      BY <1>2, <3>1, <3>2
  <2>3. ASSUME Len(l) = n + 2, l[n + 1] = x, l[n + 2] = y PROVE t = u
    <3>1. Len(t) = Len(u) /\ \A i \in 1..Len(t) : i = 1 \/ i = 2
      BY <1>1, <1>2, <2>1, <2>3
    <3>2. t[1] = u[1] /\ t[2] = u[2]
      BY <1>1, <1>2, <2>1, <2>3
    <3>3. \A i \in 1..Len(t) : t[i] = u[i]
      BY <3>1, <3>2
    <3>4. QED
      BY <1>2, <2>1, <3>1, <3>3, SeqEqual
  <2>4. QED
    BY <2>2, <2>3 DEF u
<1> QED
  BY <1>3, <1>4, <1>5 DEF t

\* Messages and what can become one, in places.
LEMMA LinesAre ==
    ASSUME NEW l \in Seq(Byte)
    PROVE  /\ IsMessage(l) <=> Finished(l, Len(l))
           /\ IsUnfinished(l) <=> Unfinished(l, Len(l))
<1> DEFINE C == IsCommand(SubSeq(l, 1, CmdLen))
           B(n) == IsBody(Body(l, n))
<1>1. Len(l) \in Nat /\ CmdLen \in Nat
  BY Lens
<1>2. \A n \in CmdLen..Len(l) : C /\ B(n) <=> \E k \in Nat : BodyTo(l, n, k)
  BY SplitIs
<1>3. ASSUME NEW n \in CmdLen..Len(l)
      PROVE  /\ Behind(l, n) \in {<< >>, <<"CR">>} <=>
                   Len(l) = n \/ (Len(l) = n + 1 /\ l[n + 1] = "CR")
             /\ Behind(l, n) \in {<<"LF">>, <<"CR", "LF">>} <=>
                   \/ Len(l) = n + 1 /\ l[n + 1] = "LF"
                   \/ Len(l) = n + 2 /\ l[n + 1] = "CR" /\ l[n + 2] = "LF"
  <2>1. n \in 0..Len(l) /\ "CR" \in Byte /\ "LF" \in Byte
    BY <1>1 DEF Byte
  <2>2. /\ Behind(l, n) = << >> <=> Len(l) = n
        /\ Behind(l, n) = <<"CR">> <=> Len(l) = n + 1 /\ l[n + 1] = "CR"
        /\ Behind(l, n) = <<"LF">> <=> Len(l) = n + 1 /\ l[n + 1] = "LF"
        /\ Behind(l, n) = <<"CR", "LF">> <=>
              Len(l) = n + 2 /\ l[n + 1] = "CR" /\ l[n + 2] = "LF"
    BY <2>1, BehindIs
  <2> DEFINE t == Behind(l, n)
             e1 == <<"CR">>
             e2 == <<"LF">>
             e3 == <<"CR", "LF">>
  <2>3. /\ t \in {<< >>, e1} <=> t = << >> \/ t = e1
        /\ t \in {e2, e3} <=> t = e2 \/ t = e3
    OBVIOUS
  <2> HIDE DEF t, e1, e2, e3
  <2>4. /\ t = << >> <=> Len(l) = n
        /\ t = e1 <=> Len(l) = n + 1 /\ l[n + 1] = "CR"
        /\ t = e2 <=> Len(l) = n + 1 /\ l[n + 1] = "LF"
        /\ t = e3 <=> Len(l) = n + 2 /\ l[n + 1] = "CR" /\ l[n + 2] = "LF"
    BY <2>2 DEF t, e1, e2, e3
  <2>5. /\ t \in {<< >>, e1} <=>
             Len(l) = n \/ (Len(l) = n + 1 /\ l[n + 1] = "CR")
        /\ t \in {e2, e3} <=>
             \/ Len(l) = n + 1 /\ l[n + 1] = "LF"
             \/ Len(l) = n + 2 /\ l[n + 1] = "CR" /\ l[n + 2] = "LF"
    BY <2>3, <2>4
  <2>6. QED
    BY <2>5 DEF t, e1, e2, e3
<1>4. ASSUME NEW n \in Nat, NEW k \in Nat, BodyTo(l, n, k)
      PROVE  n >= CmdLen
  BY <1>4, OneBody
<1>5. IsMessage(l) <=> Finished(l, Len(l))
  <2>1. ASSUME IsMessage(l) PROVE Finished(l, Len(l))
    <3>1. PICK n \in CmdLen..Len(l) :
             C /\ B(n) /\ Behind(l, n) \in {<<"LF">>, <<"CR", "LF">>}
      BY <2>1 DEF IsMessage, Splits
    <3>2. PICK k \in Nat : BodyTo(l, n, k)
      BY <1>2, <3>1
    <3>3. Lone(l, n, k, Len(l)) \/ Both(l, n, k, Len(l))
      BY <1>3, <3>1, <3>2 DEF Lone, Both
    <3>4. n \in Nat
      BY <1>1
    <3>5. QED
      BY <3>3, <3>4 DEF Finished
  <2>2. ASSUME Finished(l, Len(l)) PROVE IsMessage(l)
    <3>1. PICK n \in Nat, k \in Nat : Lone(l, n, k, Len(l)) \/ Both(l, n, k, Len(l))
      BY <2>2 DEF Finished
    <3>2. /\ BodyTo(l, n, k)
          /\ \/ Len(l) = n + 1 /\ l[n + 1] = "LF"
             \/ Len(l) = n + 2 /\ l[n + 1] = "CR" /\ l[n + 2] = "LF"
      BY <3>1 DEF Lone, Both
    <3>3. n \in CmdLen..Len(l)
      BY <1>1, <1>4, <3>2
    <3>4. C /\ B(n) /\ Behind(l, n) \in {<<"LF">>, <<"CR", "LF">>}
      BY <1>2, <1>3, <3>2, <3>3
    <3>5. QED
      BY <3>3, <3>4 DEF IsMessage, Splits
  <2>3. QED
    BY <2>1, <2>2
<1>6. IsUnfinished(l) <=> Unfinished(l, Len(l))
  <2>1. Len(l) < CmdLen /\ IsCommand(l) <=> Early(l, Len(l))
    <3>1. DOMAIN l = 1..Len(l)
      OBVIOUS
    <3>2. QED
      BY <3>1 DEF IsCommand, Early
  <2>2. ASSUME NEW n \in CmdLen..Len(l), Splits(l, n, {<< >>, <<"CR">>})
        PROVE  Unfinished(l, Len(l))
    <3>1. C /\ B(n) /\ Behind(l, n) \in {<< >>, <<"CR">>}
      BY <2>2 DEF Splits
    <3>2. PICK k \in Nat : BodyTo(l, n, k)
      BY <1>2, <3>1
    <3>3. Open(l, n, k, Len(l)) \/ Half(l, n, k, Len(l))
      BY <1>3, <3>1, <3>2 DEF Open, Half
    <3>4. n \in Nat
      BY <1>1
    <3>5. QED
      BY <3>3, <3>4 DEF Unfinished
  <2>3. ASSUME NEW n \in Nat, NEW k \in Nat, Open(l, n, k, Len(l)) \/ Half(l, n, k, Len(l))
        PROVE  IsUnfinished(l)
    <3>1. /\ BodyTo(l, n, k)
          /\ Len(l) = n \/ (Len(l) = n + 1 /\ l[n + 1] = "CR")
      BY <2>3 DEF Open, Half
    <3>2. n \in CmdLen..Len(l)
      BY <1>1, <1>4, <3>1
    <3>3. C /\ B(n) /\ Behind(l, n) \in {<< >>, <<"CR">>}
      BY <1>2, <1>3, <3>1, <3>2
    <3>4. QED
      BY <3>2, <3>3 DEF IsUnfinished, Splits
  <2>4. QED
    BY <2>1, <2>2, <2>3 DEF IsUnfinished, Unfinished
<1> QED
  BY <1>5, <1>6

\* The parser tells what a line is, and has its value.
LEMMA Tells ==
    ASSUME NEW l \in Seq(Byte), NEW p, Follows(p, l, Len(l))
    PROVE  /\ p.failed => ~IsMessage(l) /\ ~IsUnfinished(l)
           /\ ~p.failed /\ p.complete => IsMessage(l) /\ ~IsUnfinished(l)
           /\ ~p.failed /\ ~p.complete => ~IsMessage(l) /\ IsUnfinished(l)
           /\ ~p.failed /\ p.complete =>
                 \E n \in CmdLen..Len(l) :
                    /\ Splits(l, n, {IF p.crlf THEN <<"CR", "LF">> ELSE <<"LF">>})
                    /\ Value(Body(l, n)) \in {<< >>, p.val}
<1> DEFINE o == Len(l)
<1>1. o \in Nat /\ p \in Fields
  BY DEF Follows
<1>2. CASE p.failed
  <2>1. ~Finished(l, o) /\ ~Unfinished(l, o)
    BY <1>2 DEF Follows, Fine
  <2>2. QED
    BY <1>2, <2>1, LinesAre
<1>3. ASSUME NEW n \in Nat, NEW k \in Nat, Lone(l, n, k, o) \/ Both(l, n, k, o)
      PROVE  l[o] = "LF" /\ n < o /\ \A i \in 1..n : l[i] \in Printable
  <2>1. BodyTo(l, n, k) /\ n < o /\ l[o] = "LF"
    BY <1>1, <1>3 DEF Lone, Both
  <2>2. QED
    BY <2>1, OneBody
<1>4. CASE ~p.failed /\ InCommand(p, l, o)
  <2>1. Early(l, o) /\ ~p.complete
    BY <1>4 DEF InCommand
  <2>2. ~Finished(l, o)
    <3> SUFFICES ASSUME NEW n \in Nat, NEW k \in Nat, BodyTo(l, n, k), n < o
                 PROVE  FALSE
      BY <1>1 DEF Finished, Lone, Both
    <3>1. n >= CmdLen /\ o < CmdLen
      BY <2>1, OneBody DEF Early
    <3>2. QED
      BY <1>1, <3>1, Lens
  <2>3. Unfinished(l, o)
    BY <2>1 DEF Unfinished
  <2>4. QED
    BY <1>4, <2>1, <2>2, <2>3, LinesAre
<1>5. ASSUME ~p.failed, NEW n \in Nat, NEW k \in Nat, InBody(p, l, n, k), At(p, l, n, o)
      PROVE  /\ p.complete => IsMessage(l) /\ ~IsUnfinished(l)
             /\ ~p.complete => ~IsMessage(l) /\ IsUnfinished(l)
             /\ p.complete =>
                   \E j \in CmdLen..Len(l) :
                      /\ Splits(l, j, {IF p.crlf THEN <<"CR", "LF">> ELSE <<"LF">>})
                      /\ Value(Body(l, j)) \in {<< >>, p.val}
  <2>1. /\ BodyTo(l, n, k) /\ p.valLen = n - k
        /\ n > k => Len(p.val) = n - k /\ \A i \in 1..(n - k) : p.val[i] = l[k + i]
    BY <1>5 DEF InBody
  <2>2. n >= CmdLen /\ k <= n /\ n <= o /\ \A i \in 1..n : l[i] \in Printable
    <3>1. n >= CmdLen /\ \A i \in 1..n : l[i] \in Printable
      BY <2>1, OneBody
    <3>2. k <= n
      BY <2>1 DEF BodyTo
    <3>3. o = n \/ o = n + 1 \/ o = n + 2
      BY <1>5 DEF At
    <3> HIDE DEF o
    <3>4. n <= o
      BY <1>1, <3>3
    <3>5. QED
      BY <3>1, <3>2, <3>4
  <2>3. CASE ~p.complete
    <3>1. Open(l, n, k, o) \/ Half(l, n, k, o)
      BY <1>5, <2>1, <2>3 DEF At, Open, Half
    <3>2. Unfinished(l, o)
      BY <3>1 DEF Unfinished
    <3>3. o = 0 \/ l[o] # "LF"
      <4>1. CASE Open(l, n, k, o)
        <5>1. o = n /\ (o = 0 \/ o \in 1..n)
          BY <1>1, <4>1 DEF Open
        <5>2. QED
          BY <2>2, <5>1 DEF Printable
      <4>2. CASE Half(l, n, k, o)
        BY <4>2 DEF Half
      <4>3. QED
        BY <3>1, <4>1, <4>2
    <3>4. ~Finished(l, o)
      BY <1>1, <1>3, <3>3 DEF Finished
    <3>5. QED
      BY <2>3, <3>2, <3>4, LinesAre
  <2>4. CASE p.complete
    <3>1. \/ ~p.crlf /\ Lone(l, n, k, o)
          \/ p.crlf /\ Both(l, n, k, o)
      BY <1>5, <2>1, <2>4 DEF At, Lone, Both
    <3>2. Finished(l, o)
      BY <3>1 DEF Finished
    <3>2a. ~Unfinished(l, o)
      <4>1. l[o] = "LF" /\ n < o
        BY <1>3, <3>1
      <4>2. ~Early(l, o)
        BY <1>1, <2>2, <4>1, Lens DEF Early
      <4>3. ASSUME NEW m \in Nat, NEW j \in Nat, Open(l, m, j, o) PROVE FALSE
        <5>1. BodyTo(l, m, j) /\ o = m /\ o \in 1..o
          BY <1>1, <4>1, <4>3 DEF Open
        <5>2. l[o] \in Printable
          BY <5>1, OneBody
        <5>3. QED
          BY <4>1, <5>2 DEF Printable
      <4>4. ASSUME NEW m \in Nat, NEW j \in Nat, Half(l, m, j, o) PROVE FALSE
        BY <4>1, <4>4 DEF Half
      <4>5. QED
        BY <4>2, <4>3, <4>4 DEF Unfinished
    <3>3. n \in CmdLen..Len(l)
      BY <1>1, <2>2, Lens
    <3> DEFINE b == Body(l, n)
               v == Value(b)
               e == IF p.crlf THEN <<"CR", "LF">> ELSE <<"LF">>
    <3>4. /\ IsCommand(SubSeq(l, 1, CmdLen)) /\ IsBody(b)
          /\ v \in Seq(Byte) /\ Len(v) = n - k
          /\ \A i \in 1..(n - k) : v[i] = l[k + i]
      BY <2>1, <3>3, SplitIs
    <3>5. Behind(l, n) = e
      <4>1. n \in 0..Len(l) /\ "CR" \in Byte /\ "LF" \in Byte
        BY <1>1, <2>2 DEF Byte
      <4>2. CASE p.crlf /\ Both(l, n, k, o)
        BY <4>1, <4>2, BehindIs DEF Both
      <4>3. CASE ~p.crlf /\ Lone(l, n, k, o)
        BY <4>1, <4>3, BehindIs DEF Lone
      <4>4. QED
        BY <3>1, <4>2, <4>3
    <3> HIDE DEF b, v, e
    <3>6. Splits(l, n, {e})
      BY <3>4, <3>5 DEF Splits, b
    <3>7. v \in {<< >>, p.val}
      <4>1. CASE n = k
        <5>1. Len(v) = 0
          BY <3>4, <4>1
        <5>2. v = << >>
          BY <3>4, <5>1, EmptySeq
        <5>3. QED
          BY <5>2
      <4>2. CASE n > k
        <5>1. p.val \in Seq(Byte) /\ Len(p.val) = Len(v)
          BY <1>1, <2>1, <3>4, <4>2 DEF Fields
        <5>2. \A i \in 1..Len(v) : v[i] = p.val[i]
          BY <2>1, <3>4, <4>2
        <5>3. v = p.val
          BY <3>4, <5>1, <5>2, SeqEqual
        <5>4. QED
          BY <5>3
      <4>3. QED
        BY <2>2, <4>1, <4>2
    <3>8. Splits(l, n, {e}) /\ Value(Body(l, n)) \in {<< >>, p.val}
      BY <3>6, <3>7 DEF b, v
    <3>9. \E j \in CmdLen..Len(l) :
             Splits(l, j, {e}) /\ Value(Body(l, j)) \in {<< >>, p.val}
      BY <3>3, <3>8
    <3>10. QED
      BY <2>4, <3>2, <3>2a, <3>9, LinesAre DEF e
  <2>5. QED
    BY <2>3, <2>4
<1> QED
  BY <1>2, <1>4, <1>5 DEF Follows

-----------------------------------------------------------------------------
(* The parser: callbacks                                                   *)

\* What a line is depends on the bytes of it that are there.
LEMMA BodyAgrees ==
    ASSUME NEW l, NEW w, NEW m \in Nat, \A i \in 1..m : w[i] = l[i],
           NEW n \in Nat, n <= m, NEW k \in Nat, BodyTo(l, n, k)
    PROVE  BodyTo(w, n, k)
<1>1. /\ CmdLen <= k /\ k <= n
      /\ \A i \in 1..CmdLen : l[i] = "A"
      /\ \A i \in (CmdLen + 1)..k : l[i] = "blank"
      /\ \A i \in (k + 1)..n : l[i] \in Printable
      /\ k < n => l[k + 1] # "blank" /\ k > CmdLen
      /\ n - k <= ValLen
  BY DEF BodyTo
<1>2. /\ \A i \in 1..CmdLen : i \in 1..m
      /\ \A i \in (CmdLen + 1)..k : i \in 1..m
      /\ \A i \in (k + 1)..n : i \in 1..m
      /\ k < n => k + 1 \in 1..m
  BY <1>1, Lens
<1>3. \A i \in 1..CmdLen : w[i] = "A"
  BY <1>1, <1>2
<1>4. \A i \in (CmdLen + 1)..k : w[i] = "blank"
  BY <1>1, <1>2
<1>5. \A i \in (k + 1)..n : w[i] \in Printable
  BY <1>1, <1>2
<1>6. k < n => w[k + 1] # "blank" /\ k > CmdLen
  BY <1>1, <1>2
<1> QED
  BY <1>1, <1>3, <1>4, <1>5, <1>6 DEF BodyTo

LEMMA FineAgrees ==
    ASSUME NEW l, NEW w, NEW m \in Nat, \A i \in 1..m : w[i] = l[i], Fine(l, m)
    PROVE  Fine(w, m)
<1>1. CASE Early(l, m)
  <2>1. Early(w, m)
    BY <1>1 DEF Early
  <2>2. QED
    BY <2>1 DEF Fine, Unfinished
<1>2. ASSUME NEW n \in Nat, NEW k \in Nat,
             \/ Open(l, n, k, m) \/ Half(l, n, k, m)
             \/ Lone(l, n, k, m) \/ Both(l, n, k, m)
      PROVE  Fine(w, m)
  <2>1. BodyTo(l, n, k) /\ n <= m
    BY <1>2 DEF Open, Half, Lone, Both
  <2>2. BodyTo(w, n, k)
    BY <2>1, BodyAgrees
  <2>3. \/ m = n
        \/ m = n + 1 /\ w[n + 1] = "CR"
        \/ m = n + 1 /\ w[n + 1] = "LF"
        \/ m = n + 2 /\ w[n + 1] = "CR" /\ w[n + 2] = "LF"
    <3>1. \/ m = n
          \/ m = n + 1 /\ l[n + 1] = "CR"
          \/ m = n + 1 /\ l[n + 1] = "LF"
          \/ m = n + 2 /\ l[n + 1] = "CR" /\ l[n + 2] = "LF"
      BY <1>2 DEF Open, Half, Lone, Both
    <3>2. /\ m = n + 1 => n + 1 \in 1..m
          /\ m = n + 2 => n + 1 \in 1..m /\ n + 2 \in 1..m
      OBVIOUS
    <3>3. QED
      BY <3>1, <3>2
  <2>4. \/ Open(w, n, k, m) \/ Half(w, n, k, m)
        \/ Lone(w, n, k, m) \/ Both(w, n, k, m)
    BY <2>2, <2>3 DEF Open, Half, Lone, Both
  <2>5. QED
    BY <2>4 DEF Fine, Unfinished, Finished
<1> QED
  BY <1>1, <1>2 DEF Fine, Unfinished, Finished

LEMMA Agrees ==
    ASSUME NEW l, NEW w, NEW m \in Nat, \A i \in 1..m : w[i] = l[i],
           NEW p, Follows(p, l, m)
    PROVE  Follows(p, w, m)
<1>1. p \in Fields
  BY DEF Follows
<1>2. CASE p.failed
  <2>1. ~Fine(l, m) /\ \A i \in 1..m : l[i] = w[i]
    BY <1>2 DEF Follows
  <2>2. ~Fine(w, m)
    BY <2>1, FineAgrees
  <2>3. QED
    BY <1>1, <1>2, <2>2 DEF Follows
<1>3. CASE ~p.failed /\ InCommand(p, l, m)
  <2>1. InCommand(p, w, m)
    BY <1>3 DEF InCommand, Early
  <2>2. QED
    BY <1>1, <1>3, <2>1 DEF Follows
<1>4. ASSUME ~p.failed, NEW n \in Nat, NEW k \in Nat, InBody(p, l, n, k), At(p, l, n, m)
      PROVE  Follows(p, w, m)
  <2>1. n <= m /\ BodyTo(l, n, k) /\ k <= n
    BY <1>4 DEF At, InBody, BodyTo
  <2>2. BodyTo(w, n, k)
    BY <2>1, BodyAgrees
  <2>3. \A i \in 1..(n - k) : k + i \in 1..m
    BY <2>1
  <2>4. n > k => \A i \in 1..(n - k) : p.val[i] = w[k + i]
    BY <1>4, <2>3 DEF InBody
  <2>5. InBody(p, w, n, k)
    BY <1>4, <2>2, <2>4 DEF InBody
  <2>6. At(p, w, n, m)
    <3>1. /\ m = n + 1 => n + 1 \in 1..m
          /\ m = n + 2 => n + 1 \in 1..m /\ n + 2 \in 1..m
      OBVIOUS
    <3>2. QED
      BY <1>4, <3>1 DEF At
  <2>7. QED
    BY <1>1, <1>4, <2>5, <2>6 DEF Follows
<1> QED
  BY <1>2, <1>3, <1>4 DEF Follows

ParserInv == line \in Seq(Byte) /\ Follows(pd, line, Len(line)) /\ Verdict

LEMMA ParserStarts == ParserInit => ParserInv
<1> SUFFICES ASSUME ParserInit PROVE ParserInv
  OBVIOUS
<1>1. line \in Seq(Byte) /\ Len(line) = 0 /\ line = << >>
  BY DEF ParserInit
<1>2. /\ pd \in Fields /\ ~pd.failed /\ pd.cmdLen = 0 /\ pd.valLen = 0
      /\ ~pd.isVal /\ ~pd.complete /\ ~pd.expectLf
  BY DEF ParserInit, Fields
<1>3. Early(line, 0)
  BY Lens DEF Early
<1>4. Follows(pd, line, Len(line))
  BY <1>1, <1>2, <1>3 DEF Follows, InCommand
<1>5. ~IsMessage(line) /\ IsUnfinished(line)
  BY <1>1, <1>2, <1>4, Tells
<1>6. last.line = line /\ last.did = "more"
  BY <1>1 DEF ParserInit
<1>7. Verdict
  BY <1>5, <1>6 DEF Verdict, RightVerdict, OwnValue
<1> QED
  BY <1>1, <1>4, <1>7 DEF ParserInv

LEMMA ReadStep ==
    ASSUME ParserInv, NEW n \in 1..ReadMax, NEW bytes \in [1..n -> Byte], PRead(bytes)
    PROVE  ParserInv'
<1> DEFINE w == line \o bytes
           p == Parsed(bytes)
           did == IF p.failed THEN "error" ELSE IF p.complete THEN "message" ELSE "more"
<1>1. line \in Seq(Byte) /\ Follows(pd, line, Len(line)) /\ n \in Nat
  BY MsgParserAssumption DEF ParserInv
<1>2. bytes \in Seq(Byte) /\ Len(bytes) = n
  BY <1>1
<1>3. /\ w \in Seq(Byte) /\ Len(w) = Len(line) + Len(bytes)
      /\ \A i \in 1..Len(line) : w[i] = line[i]
      /\ \A i \in 1..Len(bytes) : w[Len(line) + i] = bytes[i]
  BY <1>1, <1>2
<1>4. /\ pd' = IF did = "message" THEN Forget(p) ELSE p
      /\ line' = IF did = "message" THEN << >> ELSE w
      /\ last' = [line |-> w, did |-> did, val |-> p.val, crlf |-> p.crlf]
  BY DEF PRead
<1> HIDE DEF w, p
<1>5. Len(line) \in Nat
  BY <1>1
<1>6. Follows(pd, w, Len(line))
  BY <1>1, <1>3, <1>5, Agrees
<1>7. Follows(p, w, Len(w))
  BY <1>2, <1>3, <1>5, <1>6, ParsedFollows DEF p
<1>8. /\ p.failed => ~IsMessage(w) /\ ~IsUnfinished(w)
      /\ ~p.failed /\ p.complete => IsMessage(w) /\ ~IsUnfinished(w)
      /\ ~p.failed /\ ~p.complete => ~IsMessage(w) /\ IsUnfinished(w)
      /\ ~p.failed /\ p.complete =>
            \E j \in CmdLen..Len(w) :
               /\ Splits(w, j, {IF p.crlf THEN <<"CR", "LF">> ELSE <<"LF">>})
               /\ Value(Body(w, j)) \in {<< >>, p.val}
  BY <1>3, <1>7, Tells
<1>9. did = CASE IsMessage(w) -> "message"
              [] IsUnfinished(w) -> "more"
              [] OTHER -> "error"
  <2>1. CASE p.failed
    BY <1>8, <2>1
  <2>2. CASE ~p.failed /\ ~p.complete
    BY <1>8, <2>2
  <2>3. CASE ~p.failed /\ p.complete
    BY <1>8, <2>3
  <2>4. QED
    BY <2>1, <2>2, <2>3
<1>10. /\ last'.line = w /\ last'.did = did /\ last'.val = p.val /\ last'.crlf = p.crlf
  BY <1>4
<1>11. did = "message" => ~p.failed /\ p.complete
  OBVIOUS
<1> HIDE DEF did
<1>12. Verdict'
  <2>1. RightVerdict'
    BY <1>9, <1>10 DEF RightVerdict, IsMessage, IsUnfinished, Splits, IsCommand, IsBody,
                       Body, Behind, Value
  <2>2. OwnValue'
    BY <1>8, <1>10, <1>11 DEF OwnValue
  <2>3. QED
    BY <2>1, <2>2 DEF Verdict
<1>13. CASE did = "message"
  <2> DEFINE q == Forget(p)
  <2>1. p \in Fields /\ ~p.failed
    BY <1>7, <1>11, <1>13 DEF Follows
  <2>2. /\ q \in Fields /\ ~q.failed /\ q.cmdLen = 0 /\ q.valLen = 0
        /\ ~q.isVal /\ ~q.complete /\ ~q.expectLf
    BY <2>1 DEF Forget, Fields
  <2>3. pd' = q /\ line' = << >>
    BY <1>4, <1>13
  <2> HIDE DEF q
  <2>4. Early(<< >>, 0)
    BY Lens DEF Early
  <2>5. Follows(q, << >>, 0)
    BY <2>2, <2>4 DEF Follows, InCommand
  <2>6. line' \in Seq(Byte) /\ Follows(pd', line', Len(line'))
    BY <2>3, <2>5
  <2>7. QED
    BY <1>12, <2>6 DEF ParserInv
<1>14. CASE did # "message"
  <2>1. pd' = p /\ line' = w
    BY <1>4, <1>14
  <2>2. line' \in Seq(Byte) /\ Follows(pd', line', Len(line'))
    BY <1>3, <1>7, <2>1
  <2>3. QED
    BY <1>12, <2>2 DEF ParserInv
<1> QED
  BY <1>13, <1>14

\* However the bytes of a connection are cut, a message is handled, waited for
\* or refused for what came since the last one, and has its own value and end
\* of line, for any lengths of commands and values and any size of the buffer
\* (proto.c:189-277).
THEOREM Judged == ParserSpec => []Verdict
<1>1. ParserInv /\ [ParserNext]_parser => ParserInv'
  <2> SUFFICES ASSUME ParserInv, [ParserNext]_parser
               PROVE  ParserInv'
    OBVIOUS
  <2>1. CASE ParserNext
    BY <2>1, ReadStep DEF ParserNext
  <2>2. CASE UNCHANGED parser
    <3>1. pd' = pd /\ line' = line /\ last' = last
      BY <2>2 DEF parser
    <3>2. Verdict'
      BY <3>1 DEF ParserInv, Verdict, RightVerdict, OwnValue
    <3>3. QED
      BY <3>1, <3>2 DEF ParserInv
  <2>3. QED
    BY <2>1, <2>2
<1>2. ParserInv => Verdict
  BY DEF ParserInv
<1>3. QED
  BY <1>1, <1>2, ParserStarts, PTL DEF ParserSpec
=============================================================================
