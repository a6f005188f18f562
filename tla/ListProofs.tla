------------------------------ MODULE ListProofs ------------------------------
(***************************************************************************)
(* Proofs about the lists of modules PyLevel and DbFile: for any numbers   *)
(* of players and timers, whatever the code of a level does to its timers  *)
(* in whatever method, the level's lists are those of the objects that     *)
(* exist, and its methods are called with nothing else; whatever file of   *)
(* logins is read, however often, the lists of users are true to it and no *)
(* child is lost.                                                          *)
(***************************************************************************)
EXTENDS PyLevel, DbFile, FiniteSetTheorems, SequenceTheorems, WellFoundedInduction, TLAPS

TdType == [fd : Nat, armed : BOOLEAN, runs : {"no", "once", "again"}]

TypeOK ==
    /\ played \in [Player -> {"new", "bound", "over", "deleted"}]
    /\ data_list \in Seq(Player)
    /\ timer_td \in [PyTimer -> TdType]
    /\ living \in SUBSET PyTimer /\ IsFiniteSet(living)
    /\ level_timers \in Seq(Nat)

\* The level has one object for each connection it took.
Given ==
    /\ \A i, j \in 1..Len(data_list) : data_list[i] = data_list[j] => i = j
    /\ \A i \in 1..Len(data_list) : played[data_list[i]] # "new"

\* Who was gone when the batch began never comes back, and no object was made
\* for him; a redraw is only due with an object.
Began ==
    /\ \A c \in gone : c \in Player /\ played[c] = "deleted"
    /\ \A i \in 1..Len(data_list) : data_list[i] \notin gone
    /\ drawTimer \in batched => data_list # << >>

\* A descriptor in the list is that of one timer that exists.
Timed ==
    /\ \A t \in PyTimer \ living : timer_td[t] = NoTd
    /\ \A t \in living : \E i \in 1..Len(level_timers) : level_timers[i] = timer_td[t].fd
    /\ \A i \in 1..Len(level_timers) : \E t \in living : timer_td[t].fd = level_timers[i]
    /\ \A t, u \in living : timer_td[t].fd = timer_td[u].fd => t = u
    /\ \A i, j \in 1..Len(level_timers) : level_timers[i] = level_timers[j] => i = j
    /\ Len(level_timers) = Cardinality(living)

\* What the last call was given.
CalledOK ==
    /\ RedrawGetsPlayers
    /\ called.what = "fired" => called.on[2]

Inv == TypeOK /\ Given /\ Began /\ Timed /\ CalledOK
-----------------------------------------------------------------------------
(* Numbers and sequences                                                   *)

\* There is a lowest of any numbers.
LEMMA MinExists ==
    ASSUME NEW S \in SUBSET Nat, S # {}
    PROVE  Min(S) \in S /\ \A g \in S : Min(S) <= g
<1> DEFINE R == OpToRel(<, Nat)
<1>1. IsWellFoundedOn(R, Nat)
  BY NatLessThanWellFounded
<1>2. \A f, g \in Nat : <<g, f>> \in R <=> g < f
  BY DEF OpToRel
<1> HIDE DEF R
<1>3. PICK f \in S : \A g \in S : <<g, f>> \notin R
  BY <1>1, WFMin
<1>4. ASSUME NEW g \in S
      PROVE  f <= g
  <2>1. f \in Nat /\ g \in Nat /\ ~(g < f)
    BY <1>2, <1>3
  <2>2. QED
    BY <2>1
<1>5. QED
  BY <1>4 DEF Min

\* level_timer_del takes one descriptor out of the list.
LEMMA RemovedFirst ==
    ASSUME NEW s \in Seq(Nat), NEW k \in 1..Len(s),
           \A i, j \in 1..Len(s) : s[i] = s[j] => i = j
    PROVE  LET r == RemoveFirst(s, s[k])
           IN /\ r \in Seq(Nat) /\ Len(r) = Len(s) - 1
              /\ \A i \in 1..Len(r) : \E j \in 1..Len(s) \ {k} : r[i] = s[j]
              /\ \A j \in 1..Len(s) \ {k} : \E i \in 1..Len(r) : r[i] = s[j]
              /\ \A i, j \in 1..Len(r) : r[i] = r[j] => i = j
<1> DEFINE a == SubSeq(s, 1, k - 1)
           b == SubSeq(s, k + 1, Len(s))
           r == RemoveFirst(s, s[k])
           old(i) == IF i < k THEN i ELSE i + 1
<1>1. Len(s) \in Nat /\ k \in Nat /\ 1 <= k /\ k <= Len(s)
  OBVIOUS
<1>2. r = a \o b
  <2> DEFINE I == {i \in 1..Len(s) : s[i] = s[k]}
  <2>1. I = {k}
    OBVIOUS
  <2>2. I \in SUBSET Nat /\ I # {}
    BY <1>1, <2>1
  <2>3. Min(I) = k
    BY <2>1, <2>2, MinExists
  <2>4. r = RemoveAt(s, Min(I))
    BY <2>1 DEF RemoveFirst, SelectInSeq
  <2>5. QED
    BY <2>3, <2>4 DEF RemoveAt
<1>3. /\ a \in Seq(Nat) /\ Len(a) = k - 1 /\ \A i \in 1..(k - 1) : a[i] = s[i]
  <2>1. \A i \in 1..(k - 1) : s[i] \in Nat
    BY <1>1
  <2>2. QED
    BY <1>1, <2>1, SubSeqProperties
<1>4. /\ b \in Seq(Nat) /\ Len(b) = Len(s) - k /\ \A i \in 1..(Len(s) - k) : b[i] = s[k + i]
  BY <1>1, SubSeqProperties
<1> HIDE DEF a, b, r
<1>5. r \in Seq(Nat) /\ Len(r) = Len(s) - 1
  <2>1. a \o b \in Seq(Nat) /\ Len(a \o b) = Len(a) + Len(b)
    BY <1>3, <1>4, ConcatProperties, ZenonT(60)
  <2>2. (k - 1) + (Len(s) - k) = Len(s) - 1
    BY <1>1
  <2>3. QED
    BY <1>2, <1>3, <1>4, <2>1, <2>2
<1>6. ASSUME NEW i \in 1..Len(r)
      PROVE  old(i) \in 1..Len(s) /\ old(i) # k /\ r[i] = s[old(i)]
  <2>0. Len(a) = k - 1 /\ Len(b) = Len(s) - k /\ i \in 1..(Len(s) - 1)
    BY <1>3, <1>4, <1>5
  <2>1. old(i) \in 1..Len(s) /\ old(i) # k
    BY <1>1, <1>5
  <2>2. CASE i < k
    <3>1. i \in 1..(k - 1) /\ i \in 1..(Len(a) + Len(b)) /\ i <= Len(a)
      BY <1>1, <2>0, <2>2
    <3>2. QED
      BY <1>2, <1>3, <1>4, <2>1, <2>2, <3>1, ConcatProperties
  <2>3. CASE ~(i < k)
    <3>1. i \in 1..(Len(a) + Len(b)) /\ i > Len(a)
      BY <1>1, <2>0, <2>3
    <3>2. (a \o b)[i] = b[i - Len(a)]
      <4>1. (a \o b)[i] = IF i <= Len(a) THEN a[i] ELSE b[i - Len(a)]
        <5>1. a \in Seq(Nat) /\ b \in Seq(Nat)
          BY <1>3, <1>4
        <5>2. \A j \in 1..(Len(a) + Len(b)) :
                  (a \o b)[j] = IF j <= Len(a) THEN a[j] ELSE b[j - Len(a)]
          BY <5>1, ConcatProperties
        <5>3. QED
          BY <3>1, <5>2
      <4>2. i \in Nat /\ Len(a) \in Nat /\ ~(i <= Len(a))
        BY <1>3, <3>1
      <4>3. QED
        BY <4>1, <4>2
    <3>3. i - (k - 1) \in 1..(Len(s) - k) /\ k + (i - (k - 1)) = i + 1
      BY <1>1, <1>5, <2>3
    <3>4. QED
      BY <1>2, <1>3, <1>4, <2>1, <2>3, <3>2, <3>3
  <2>4. QED
    BY <2>2, <2>3
<1>7. ASSUME NEW j \in 1..Len(s) \ {k}
      PROVE  \E i \in 1..Len(r) : r[i] = s[j]
  <2> DEFINE i == IF j < k THEN j ELSE j - 1
  <2>1. i \in 1..Len(r) /\ old(i) = j
    BY <1>1, <1>5
  <2>2. QED
    BY <1>6, <2>1
<1>8. ASSUME NEW i \in 1..Len(r), NEW j \in 1..Len(r), r[i] = r[j]
      PROVE  i = j
  <2>1. old(i) = old(j)
    <3> HIDE DEF old
    <3>1. QED
      BY <1>6, <1>8
  <2>2. QED
    BY <1>1, <1>5, <2>1
<1>9. \A i \in 1..Len(r) : \E j \in 1..Len(s) \ {k} : r[i] = s[j]
  <2> HIDE DEF old
  <2>1. QED
    BY <1>6
<1> QED
  BY <1>5, <1>7, <1>8, <1>9 DEF r
-----------------------------------------------------------------------------
(* What the code of a level does                                           *)

LEMMA NoTdType ==
    NoTd \in TdType /\ NoTd.fd = 0 /\ NoTd.armed = FALSE /\ NoTd.runs = "no"
BY DEF NoTd, TdType

\* A new timer gets a descriptor no timer has.
LEMMA LowestFdFree ==
    ASSUME TypeOK, Timed
    PROVE  LowestFd \in Nat \ {0} /\ \A t \in PyTimer : timer_td[t].fd # LowestFd
<1> DEFINE n == Len(level_timers)
           used == {timer_td[t].fd : t \in PyTimer}
           free == (1..n + 1) \ used
<1>1. n \in Nat
  BY DEF TypeOK
<1>2. free # {}
  <2> SUFFICES ASSUME 1..n + 1 \subseteq used
               PROVE  FALSE
    OBVIOUS
  <2>1. \A f \in 1..n + 1 : \E i \in 1..n : level_timers[i] = f
    <3> SUFFICES ASSUME NEW f \in 1..n + 1
                 PROVE  \E i \in 1..n : level_timers[i] = f
      OBVIOUS
    <3>1. PICK t \in PyTimer : timer_td[t].fd = f
      OBVIOUS
    <3>2. f # 0
      BY <1>1
    <3>3. t \in living
      BY <3>1, <3>2, NoTdType DEF Timed
    <3>4. QED
      BY <3>1, <3>3 DEF Timed
  <2> DEFINE place == [f \in 1..n + 1 |-> CHOOSE i \in 1..n : level_timers[i] = f]
  <2>2. \A f \in 1..n + 1 : place[f] \in 1..n /\ level_timers[place[f]] = f
    BY <2>1
  <2>3. place \in [1..n + 1 -> 1..n]
    BY <2>2
  <2>4. /\ IsFiniteSet(1..n + 1) /\ Cardinality(1..n + 1) = n + 1
        /\ IsFiniteSet(1..n) /\ Cardinality(1..n) = n
    <3>1. IsFiniteSet(1..n) /\ Cardinality(1..n) = IF 1 > n THEN 0 ELSE n - 1 + 1
      BY <1>1, FS_Interval, SMTT(30)
    <3>2. /\ IsFiniteSet(1..n + 1)
          /\ Cardinality(1..n + 1) = IF 1 > n + 1 THEN 0 ELSE n + 1 - 1 + 1
      BY <1>1, FS_Interval
    <3>3. QED
      BY <1>1, <3>1, <3>2
  <2>5. n < n + 1
    BY <1>1
  <2> HIDE DEF place
  <2>6. PICK f, g \in 1..n + 1 : f # g /\ place[f] = place[g]
    BY <2>3, <2>4, <2>5, FS_PigeonHole
  <2>7. QED
    BY <2>2, <2>6
<1>3. free \in SUBSET Nat
  BY <1>1
<1>4. LowestFd \in free
  BY <1>2, <1>3, MinExists DEF LowestFd
<1>5. 0 \notin 1..n + 1
  BY <1>1
<1> QED
  BY <1>3, <1>4, <1>5

\* What a step keeps of the timers, and the types of their variables.
TimersOK ==
    /\ Timed
    /\ timer_td \in [PyTimer -> TdType] /\ living \in SUBSET PyTimer /\ IsFiniteSet(living)
    /\ level_timers \in Seq(Nat)

LEMMA TimerNewStep ==
    ASSUME TypeOK, Timed, NEW t \in PyTimer, TimerNew(t)
    PROVE  TimersOK'
<1> DEFINE fd == LowestFd
           r == [NoTd EXCEPT !.fd = fd]
           n == Len(level_timers)
<1>1. fd \in Nat /\ \A u \in PyTimer : timer_td[u].fd # fd
  BY LowestFdFree
<1>2. t \notin living
  <2>1. PyTimer \ (living \cup batched) \in SUBSET Nat
    BY PyLevelAssumption
  <2>2. t \in PyTimer \ (living \cup batched)
    BY <2>1, MinExists DEF TimerNew
  <2>3. QED
    BY <2>2
<1>3. /\ timer_td' = [timer_td EXCEPT ![t] = r] /\ level_timers' = Append(level_timers, fd)
      /\ living' = living \cup {t}
  BY DEF TimerNew
<1>4. r \in TdType /\ r.fd = fd
  BY <1>1 DEF NoTd, TdType
<1> HIDE DEF r, fd
<1>5. /\ timer_td' \in [PyTimer -> TdType] /\ timer_td'[t].fd = fd
      /\ \A u \in PyTimer \ {t} : timer_td'[u] = timer_td[u]
  BY <1>3, <1>4 DEF TypeOK
<1>6. /\ n \in Nat /\ level_timers' \in Seq(Nat) /\ Len(level_timers') = n + 1
      /\ \A i \in 1..n : level_timers'[i] = level_timers[i]
      /\ level_timers'[n + 1] = fd
  BY <1>1, <1>3, AppendProperties DEF TypeOK
<1>7. \A i \in 1..(n + 1) : i \in 1..n \/ i = n + 1
  BY <1>6
<1>8. n + 1 \in 1..(n + 1) /\ \A i \in 1..n : i \in 1..(n + 1)
  BY <1>6
<1>9. /\ living' \in SUBSET PyTimer /\ IsFiniteSet(living')
      /\ Cardinality(living') = n + 1
  BY <1>2, <1>3, FS_AddElement DEF TypeOK, Timed
<1>10. living \subseteq PyTimer \ {t}
  BY <1>2 DEF TypeOK
<1>11. \A i \in 1..n : level_timers[i] # fd
  BY <1>1, <1>10 DEF Timed
<1> HIDE DEF n
<1>12. \A u \in PyTimer \ living' : timer_td'[u] = NoTd
  BY <1>3, <1>5 DEF Timed
<1>13. ASSUME NEW u \in living'
       PROVE  \E i \in 1..Len(level_timers') : level_timers'[i] = timer_td'[u].fd
  <2>1. CASE u = t
    BY <1>5, <1>6, <1>8, <2>1
  <2>2. CASE u # t
    <3>1. u \in living /\ timer_td'[u] = timer_td[u]
      BY <1>3, <1>5, <1>10, <2>2
    <3>2. PICK i \in 1..n : level_timers[i] = timer_td[u].fd
      BY <3>1 DEF Timed, n
    <3>3. QED
      BY <1>6, <1>8, <3>1, <3>2
  <2>3. QED
    BY <2>1, <2>2
<1>14. ASSUME NEW i \in 1..Len(level_timers')
       PROVE  \E u \in living' : timer_td'[u].fd = level_timers'[i]
  <2>1. CASE i = n + 1
    BY <1>3, <1>5, <1>6, <2>1
  <2>2. CASE i \in 1..n
    <3>1. PICK u \in living : timer_td[u].fd = level_timers[i]
      BY <2>2 DEF Timed, n
    <3>2. QED
      BY <1>3, <1>5, <1>6, <1>10, <2>2, <3>1
  <2>3. QED
    BY <1>6, <1>7, <2>1, <2>2
<1>15. ASSUME NEW u \in living', NEW v \in living', timer_td'[u].fd = timer_td'[v].fd
       PROVE  u = v
  <2>1. CASE u = t \/ v = t
    BY <1>1, <1>3, <1>5, <1>10, <1>15, <2>1
  <2>2. CASE u # t /\ v # t
    <3>1. /\ u \in living /\ v \in living /\ timer_td'[u] = timer_td[u]
          /\ timer_td'[v] = timer_td[v]
      BY <1>3, <1>5, <1>10, <2>2
    <3>2. QED
      BY <1>15, <3>1 DEF Timed
  <2>3. QED
    BY <2>1, <2>2
<1>16. \A i, j \in 1..Len(level_timers') : level_timers'[i] = level_timers'[j] => i = j
  <2>1. \A i, j \in 1..n : level_timers[i] = level_timers[j] => i = j
    BY DEF Timed, n
  <2>2. QED
    BY <1>6, <1>7, <1>11, <2>1
<1> QED
  BY <1>5, <1>6, <1>9, <1>12, <1>13, <1>14, <1>15, <1>16 DEF Timed, TimersOK

LEMMA TimerArmStep ==
    ASSUME TypeOK, Timed, NEW t \in PyTimer, TimerArm(t)
    PROVE  TimersOK'
<1>1. t \in living /\ UNCHANGED <<living, level_timers>>
  BY DEF TimerArm
<1>2. /\ timer_td' \in [PyTimer -> TdType] /\ timer_td'[t].fd = timer_td[t].fd
      /\ \A u \in PyTimer \ {t} : timer_td'[u] = timer_td[u]
  <2>1. timer_td \in [PyTimer -> TdType]
    BY DEF TypeOK
  <2> DEFINE q == timer_td[t]
  <2>2. q \in TdType
    BY <2>1
  <2>3. PICK r \in TdType : r.fd = q.fd /\ timer_td' = [timer_td EXCEPT ![t] = r]
    <3>1. CASE \E runs \in {"once", "again"} :
                 timer_td' = [timer_td EXCEPT ![t].armed = TRUE, ![t].runs = runs]
      <4>1. PICK runs \in {"once", "again"} :
                 timer_td' = [timer_td EXCEPT ![t].armed = TRUE, ![t].runs = runs]
        BY <3>1
      <4> DEFINE p == [q EXCEPT !.armed = TRUE, !.runs = runs]
      <4>2. timer_td' = [timer_td EXCEPT ![t] = p]
        BY <2>1, <4>1
      <4> HIDE DEF q
      <4>3. p \in TdType /\ p.fd = q.fd
        BY <2>2 DEF TdType
      <4>4. QED
        BY <4>2, <4>3
    <3>2. CASE timer_td' = [timer_td EXCEPT ![t].armed = FALSE, ![t].runs = "no"]
      <4> DEFINE p == [q EXCEPT !.armed = FALSE, !.runs = "no"]
      <4>1. timer_td' = [timer_td EXCEPT ![t] = p]
        BY <2>1, <3>2
      <4> HIDE DEF q
      <4>2. p \in TdType /\ p.fd = q.fd
        BY <2>2 DEF TdType
      <4>3. QED
        BY <4>1, <4>2
    <3>3. QED
      BY <3>1, <3>2 DEF TimerArm
  <2>4. QED
    BY <2>1, <2>3
<1>3. \A u \in living : timer_td'[u].fd = timer_td[u].fd
  BY <1>1, <1>2 DEF TypeOK
<1>4. \A u \in PyTimer \ living : timer_td'[u] = timer_td[u]
  BY <1>1, <1>2
<1> QED
  BY <1>1, <1>2, <1>3, <1>4, SMTT(30) DEF TypeOK, Timed, TimersOK

LEMMA TimerDeallocStep ==
    ASSUME TypeOK, Timed, NEW t \in PyTimer, TimerDealloc(t)
    PROVE  TimersOK'
<1> DEFINE s == level_timers
           r == level_timers'
<1>1. /\ t \in living /\ living' = living \ {t} /\ timer_td' = [timer_td EXCEPT ![t] = NoTd]
      /\ r = RemoveFirst(s, timer_td[t].fd)
  BY DEF TimerDealloc
<1>2. PICK k \in 1..Len(s) : s[k] = timer_td[t].fd
  BY <1>1 DEF Timed
<1>3. \A i, j \in 1..Len(s) : s[i] = s[j] => i = j
  BY DEF Timed
<1>4. s \in Seq(Nat)
  BY DEF TypeOK
<1>5. /\ r \in Seq(Nat) /\ Len(r) = Len(s) - 1
      /\ \A i \in 1..Len(r) : \E j \in 1..Len(s) \ {k} : r[i] = s[j]
      /\ \A j \in 1..Len(s) \ {k} : \E i \in 1..Len(r) : r[i] = s[j]
      /\ \A i, j \in 1..Len(r) : r[i] = r[j] => i = j
  BY <1>1, <1>2, <1>3, <1>4, RemovedFirst
<1>6. /\ timer_td' \in [PyTimer -> TdType] /\ timer_td'[t] = NoTd
      /\ \A u \in PyTimer \ {t} : timer_td'[u] = timer_td[u]
  BY <1>1, NoTdType DEF TypeOK
<1>7. /\ living' \in SUBSET PyTimer /\ IsFiniteSet(living')
      /\ Cardinality(living') = Len(s) - 1
  BY <1>1, FS_RemoveElement DEF TypeOK, Timed
<1>8. \A u \in living' : u \in living /\ u # t /\ timer_td'[u] = timer_td[u]
  BY <1>1, <1>6 DEF TypeOK
<1>9. \A u \in PyTimer \ living' : timer_td'[u] = NoTd
  BY <1>1, <1>6 DEF Timed
<1>10. ASSUME NEW u \in living'
       PROVE  \E i \in 1..Len(r) : r[i] = timer_td'[u].fd
  <2>1. PICK j \in 1..Len(s) : s[j] = timer_td[u].fd
    BY <1>8 DEF Timed
  <2>2. j # k
    BY <1>1, <1>2, <1>8, <2>1 DEF Timed
  <2>3. QED
    BY <1>5, <1>8, <2>1, <2>2
<1>11. ASSUME NEW i \in 1..Len(r)
       PROVE  \E u \in living' : timer_td'[u].fd = r[i]
  <2>1. PICK j \in 1..Len(s) \ {k} : r[i] = s[j]
    BY <1>5
  <2>2. PICK u \in living : timer_td[u].fd = s[j]
    BY <2>1 DEF Timed
  <2>3. u # t
    BY <1>2, <1>3, <2>1, <2>2
  <2>4. QED
    BY <1>1, <1>8, <2>1, <2>2, <2>3
<1>12. \A u, v \in living' : timer_td'[u].fd = timer_td'[v].fd => u = v
  BY <1>8 DEF Timed
<1> QED
  BY <1>5, <1>6, <1>7, <1>9, <1>10, <1>11, <1>12 DEF Timed, TimersOK

LEMMA PythonCodeStep ==
    ASSUME TypeOK, Timed, PythonCode
    PROVE  TimersOK'
<1>1. CASE UNCHANGED objects
  BY <1>1 DEF objects, TypeOK, Timed, TimersOK
<1>2. CASE \E t \in PyTimer : TimerNew(t) \/ TimerArm(t) \/ TimerDealloc(t)
  BY <1>2, TimerNewStep, TimerArmStep, TimerDeallocStep
<1> QED
  BY <1>1, <1>2 DEF PythonCode
-----------------------------------------------------------------------------
(* The callbacks                                                           *)

\* What a callback does to the timers and to nobody's objects.
LEMMA CallbackStep ==
    ASSUME Inv, TimersOK',
           played' \in [Player -> {"new", "bound", "over", "deleted"}],
           data_list' = data_list, gone' = gone,
           batched' \subseteq batched,
           \A c \in Player : /\ played'[c] = "new" => played[c] = "new"
                             /\ played[c] = "deleted" => played'[c] = "deleted",
           CalledOK'
    PROVE  Inv'
<1>1. \A i \in 1..Len(data_list) : data_list[i] \in Player
  BY DEF Inv, TypeOK
<1>2. TypeOK'
  BY DEF Inv, TypeOK, TimersOK
<1>3. Given'
  BY <1>1 DEF Inv, Given
<1>4. Began'
  BY <1>1 DEF Inv, Began
<1> QED
  BY <1>2, <1>3, <1>4 DEF Inv, TimersOK

\* A call of another method.
LEMMA OtherCall ==
    ASSUME CallsOther
    PROVE  CalledOK'
<1>1. called'.what = "nothing"
  BY DEF CallsOther, NoCall
<1> QED
  BY <1>1 DEF CalledOK, RedrawGetsPlayers

LEMMA SameTimers ==
    ASSUME Inv, UNCHANGED objects
    PROVE  TimersOK'
BY DEF Inv, TypeOK, Timed, TimersOK, objects

LEMMA FatalStep ==
    ASSUME Inv, NEW e, Fatal(e)
    PROVE  Inv'
<1>1. /\ batched' \subseteq batched /\ CallsOther
      /\ UNCHANGED <<played, data_list, objects, marked, gone>>
  BY DEF Fatal, Handles
<1>2. UNCHANGED objects /\ played' = played /\ data_list' = data_list /\ gone' = gone
  BY <1>1
<1>3. played' \in [Player -> {"new", "bound", "over", "deleted"}]
  BY <1>2 DEF Inv, TypeOK
<1>4. TimersOK'
  BY <1>2, SameTimers
<1>5. CalledOK'
  BY <1>1, OtherCall
<1> QED
  BY <1>1, <1>2, <1>3, <1>4, <1>5, CallbackStep

\* What socket_cb does with a connection that had an event.
LEMMA ThenStep ==
    ASSUME Inv, NEW c \in Player, played[c] \in {"new", "bound"},
           \E stage \in {"bound", "over"} : IsThen(c, stage)
    PROVE  /\ played' \in [Player -> {"new", "bound", "over", "deleted"}]
           /\ played'[c] \in {"bound", "over", "deleted"}
           /\ \A d \in Player \ {c} : played'[d] = played[d]
           /\ \A d \in Player : /\ played'[d] = "new" => played[d] = "new"
                                /\ played[d] = "deleted" => played'[d] = "deleted"
<1>1. PICK stage \in {"bound", "over", "deleted"} : played' = [played EXCEPT ![c] = stage]
  BY DEF IsThen
<1>2. played \in [Player -> {"new", "bound", "over", "deleted"}]
  BY DEF Inv, TypeOK
<1> QED
  BY <1>1, <1>2

LEMMA PybMoveStep ==
    ASSUME Inv, NEW c \in Player, PybMove(c)
    PROVE  Inv'
<1>1. /\ batched' \subseteq batched /\ CallsOther /\ data_list' = data_list /\ gone' = gone
      /\ played[c] = "bound"
  BY DEF PybMove, Handles
<1>2. \E stage \in {"bound", "over"} : IsThen(c, stage)
  BY DEF PybMove
<1>3. /\ played' \in [Player -> {"new", "bound", "over", "deleted"}]
      /\ \A d \in Player : /\ played'[d] = "new" => played[d] = "new"
                           /\ played[d] = "deleted" => played'[d] = "deleted"
  BY <1>1, <1>2, ThenStep
<1>4. TimersOK'
  <2>1. CASE UNCHANGED objects
    BY <2>1, SameTimers
  <2>2. CASE PythonCode
    BY <2>2, PythonCodeStep DEF Inv
  <2>3. QED
    BY <2>1, <2>2 DEF PybMove
<1>5. CalledOK'
  BY <1>1, OtherCall
<1> QED
  BY <1>1, <1>3, <1>4, <1>5, CallbackStep

LEMMA PybAskStep ==
    ASSUME Inv, NEW c \in Player, PybAsk(c)
    PROVE  Inv'
<1>1. /\ batched' \subseteq batched /\ CallsOther /\ PythonCode
      /\ data_list' = data_list /\ gone' = gone /\ played[c] = "bound" /\ IsThen(c, "bound")
  BY DEF PybAsk, Handles
<1>2. /\ played' \in [Player -> {"new", "bound", "over", "deleted"}]
      /\ \A d \in Player : /\ played'[d] = "new" => played[d] = "new"
                           /\ played[d] = "deleted" => played'[d] = "deleted"
  BY <1>1, ThenStep
<1>3. TimersOK'
  BY <1>1, PythonCodeStep DEF Inv
<1>4. CalledOK'
  BY <1>1, OtherCall
<1> QED
  BY <1>1, <1>2, <1>3, <1>4, CallbackStep

LEMMA LeavesStep ==
    ASSUME Inv, NEW c \in Player, Leaves(c)
    PROVE  Inv'
<1>1. /\ batched' \subseteq batched /\ CallsOther
      /\ played' = [played EXCEPT ![c] = "deleted"]
      /\ data_list' = data_list /\ gone' = gone /\ UNCHANGED objects
  BY DEF Leaves, Handles
<1>2. /\ played' \in [Player -> {"new", "bound", "over", "deleted"}]
      /\ \A d \in Player :
             /\ played'[d] = "new" => played[d] = "new"
             /\ played[d] = "deleted" => played'[d] = "deleted"
  BY <1>1 DEF Inv, TypeOK
<1>3. TimersOK'
  BY <1>1, SameTimers
<1>4. CalledOK'
  BY <1>1, OtherCall
<1> QED
  BY <1>1, <1>2, <1>3, <1>4, CallbackStep

\* The method fired is called on a timer that is armed, and so exists.
LEMMA CbTimerStep ==
    ASSUME Inv, NEW t \in PyTimer, CbTimer(t)
    PROVE  Inv'
<1>1. /\ batched' \subseteq batched
      /\ played' = played /\ data_list' = data_list /\ gone' = gone
  BY DEF CbTimer, Handles
<1>2. played' \in [Player -> {"new", "bound", "over", "deleted"}]
  BY <1>1 DEF Inv, TypeOK
<1>3. TimersOK' /\ CalledOK'
  <2>1. CASE timer_td[t].armed
    <3>1. PythonCode /\ CallsFired(t)
      BY <2>1 DEF CbTimer
    <3>2. t \in living
      BY <2>1, NoTdType DEF Inv, Timed
    <3>3. called'.what = "fired" /\ called'.on = <<t, t \in living>>
      BY <3>1 DEF CallsFired, NoCall
    <3>4. called'.on[2]
      <4>1. (t \in living) = TRUE
        BY <3>2
      <4>2. called'.on = <<t, TRUE>>
        BY <3>3, <4>1
      <4>3. called'.on[2] = TRUE
        BY <4>2
      <4>4. QED
        BY <4>3
    <3>5. CalledOK'
      BY <3>3, <3>4 DEF CalledOK, RedrawGetsPlayers
    <3>6. QED
      BY <3>1, <3>5, PythonCodeStep DEF Inv
  <2>2. CASE ~timer_td[t].armed
    <3>1. CallsOther /\ UNCHANGED objects
      BY <2>2 DEF CbTimer, objects
    <3>2. QED
      BY <3>1, OtherCall, SameTimers
  <2>3. QED
    BY <2>1, <2>2
<1> QED
  BY <1>1, <1>2, <1>3, CallbackStep

\* The level draws all its players and nobody who left before the batch.
LEMMA PybRedrawStep ==
    ASSUME Inv, PybRedraw
    PROVE  Inv'
<1>1. /\ batched' \subseteq batched /\ drawTimer \in batched
      /\ played' = played /\ data_list' = data_list /\ gone' = gone
  BY DEF PybRedraw, Handles
<1>2. played' \in [Player -> {"new", "bound", "over", "deleted"}]
  BY <1>1 DEF Inv, TypeOK
<1>3. TimersOK' /\ CalledOK'
  <2>1. CASE marked
    <3>1. PythonCode /\ CallsRedraw
      BY <2>1 DEF PybRedraw
    <3>2. /\ called'.what = "redraw" /\ called'.on = data_list
          /\ called'.players = Playing /\ called'.gone = gone
      BY <3>1 DEF CallsRedraw
    <3>3. data_list # << >> /\ data_list \in Seq(Player)
      BY <1>1 DEF Inv, Began, TypeOK
    <3>4. DOMAIN data_list = 1..Len(data_list)
      BY <3>3
    <3>5. IsInjective(data_list)
      BY <3>4 DEF Inv, Given, IsInjective
    <3>6. Playing \subseteq Range(data_list)
      BY DEF Playing
    <3>7. Range(data_list) \cap gone = {}
      BY <3>4 DEF Inv, Began, Range
    <3>8. RedrawGetsPlayers'
      BY <3>2, <3>3, <3>5, <3>6, <3>7 DEF RedrawGetsPlayers
    <3>9. CalledOK'
      BY <3>2, <3>8 DEF CalledOK
    <3>10. QED
      BY <3>1, <3>9, PythonCodeStep DEF Inv
  <2>2. CASE ~marked
    <3>1. CallsOther /\ UNCHANGED objects
      BY <2>2 DEF PybRedraw, objects
    <3>2. QED
      BY <3>1, OtherCall, SameTimers
  <2>3. QED
    BY <2>1, <2>2
<1> QED
  BY <1>1, <1>2, <1>3, CallbackStep

\* A new player's object comes last.
LEMMA LevlStep ==
    ASSUME Inv, NEW c \in Player, Levl(c)
    PROVE  Inv'
<1>1. /\ batched' = batched \ {c} /\ CallsOther /\ played[c] = "new" /\ gone' = gone
  BY DEF Levl, Handles
<1>2. CalledOK'
  BY <1>1, OtherCall
<1>3. CASE Len(data_list) < ConnMax
  <2> DEFINE n == Len(data_list)
  <2>1. IsThen(c, "bound") /\ PythonCode /\ data_list' = Append(data_list, c)
    BY <1>3 DEF Levl, PybGetData
  <2>2. /\ played' \in [Player -> {"new", "bound", "over", "deleted"}] /\ played'[c] # "new"
        /\ \A d \in Player \ {c} : played'[d] = played[d]
    BY <1>1, <2>1, ThenStep
  <2>3. /\ n \in Nat /\ data_list' \in Seq(Player) /\ Len(data_list') = n + 1
        /\ \A i \in 1..n : data_list'[i] = data_list[i] /\ data_list[i] \in Player \ {c}
        /\ data_list'[n + 1] = c
    <3>1. /\ data_list \in Seq(Player) /\ n \in Nat
          /\ \A i \in 1..n : data_list[i] \in Player /\ played[data_list[i]] # "new"
      BY DEF Inv, TypeOK, Given
    <3>2. \A i \in 1..n : data_list[i] \in Player \ {c}
      BY <1>1, <3>1
    <3>3. QED
      BY <2>1, <3>1, <3>2, AppendProperties
  <2>4. TimersOK'
    BY <2>1, PythonCodeStep DEF Inv
  <2>5. TypeOK'
    BY <2>2, <2>3, <2>4 DEF TypeOK, TimersOK
  <2>6. \A i \in 1..Len(data_list') : i \in 1..n \/ i = n + 1
    BY <2>3
  <2>7. Given'
    <3>1. /\ \A i, j \in 1..n : data_list[i] = data_list[j] => i = j
          /\ \A i \in 1..n : played[data_list[i]] # "new"
      BY DEF Inv, Given
    <3> HIDE DEF n
    <3>2. QED
      BY <2>2, <2>3, <2>6, <3>1 DEF Given
  <2>8. Began'
    <3>1. /\ \A i \in 1..n : data_list[i] \notin gone
          /\ \A d \in gone : d \in Player /\ played[d] = "deleted"
      BY DEF Inv, Began
    <3>2. data_list' # << >>
      BY <2>3
    <3>3. c \notin gone
      BY <1>1, <3>1
    <3> HIDE DEF n
    <3>4. QED
      BY <1>1, <2>2, <2>3, <2>6, <3>1, <3>2, <3>3 DEF Began
  <2>9. QED
    BY <1>2, <2>4, <2>5, <2>7, <2>8 DEF Inv, TimersOK
<1>4. CASE ~(Len(data_list) < ConnMax)
  <2>1. /\ IsThen(c, "over") /\ data_list' = data_list
        /\ UNCHANGED objects /\ batched' \subseteq batched
    BY <1>1, <1>4 DEF Levl, objects
  <2>2. /\ played' \in [Player -> {"new", "bound", "over", "deleted"}]
        /\ \A d \in Player : /\ played'[d] = "new" => played[d] = "new"
                             /\ played[d] = "deleted" => played'[d] = "deleted"
    BY <1>1, <2>1, ThenStep
  <2>3. TimersOK'
    BY <2>1, SameTimers
  <2>4. QED
    BY <1>1, <1>2, <2>1, <2>2, <2>3, CallbackStep
<1> QED
  BY <1>3, <1>4

\* A process that somebody bound has left does not go on to another batch.
LEMMA PyEpollWaitStep ==
    ASSUME Inv, PyEpollWait
    PROVE  Inv'
<1>1. /\ CallsOther /\ batched = {}
      /\ UNCHANGED <<played, data_list, living, level_timers>>
  BY DEF PyEpollWait
<1>2. CalledOK'
  BY <1>1, OtherCall
<1>3. CASE LastLeaves
  <2>1. UNCHANGED <<timer_td, batched, gone>>
    BY <1>3 DEF PyEpollWait
  <2>2. TimersOK'
    BY <1>1, <2>1, SameTimers DEF objects
  <2>3. played' \in [Player -> {"new", "bound", "over", "deleted"}]
    BY <1>1 DEF Inv, TypeOK
  <2>4. QED
    BY <1>1, <1>2, <2>1, <2>2, <2>3, CallbackStep
<1>4. CASE ~LastLeaves
  <2>1. /\ batched' \subseteq Ready
        /\ timer_td' = [t \in PyTimer |->
                          IF t \in batched' /\ timer_td[t].runs = "once"
                          THEN [timer_td[t] EXCEPT !.runs = "no"] ELSE timer_td[t]]
        /\ gone' = Deleted
    BY <1>4 DEF PyEpollWait
  <2>2. ASSUME NEW t \in PyTimer
        PROVE  /\ timer_td'[t] \in TdType /\ timer_td'[t].fd = timer_td[t].fd
               /\ timer_td[t].runs = "no" => timer_td'[t] = timer_td[t]
    <3> DEFINE q == timer_td[t]
               p == [q EXCEPT !.runs = "no"]
    <3>1. q \in TdType
      BY DEF Inv, TypeOK
    <3>2. timer_td'[t] = IF t \in batched' /\ q.runs = "once" THEN p ELSE q
      BY <2>1
    <3> HIDE DEF q
    <3>3. p \in TdType /\ p.fd = q.fd
      BY <3>1 DEF TdType
    <3> HIDE DEF p
    <3>4. /\ timer_td'[t] \in TdType /\ timer_td'[t].fd = q.fd
          /\ q.runs = "no" => timer_td'[t] = q
      BY <3>1, <3>2, <3>3
    <3>5. QED
      BY <3>4 DEF q
  <2>3. timer_td' \in [PyTimer -> TdType]
    BY <2>1, <2>2
  <2>4. TimersOK'
    <3>1. \A t \in PyTimer \ living : timer_td'[t] = NoTd
      BY <2>2, NoTdType DEF Inv, Timed
    <3>2. \A t \in living : timer_td'[t].fd = timer_td[t].fd
      BY <2>2 DEF Inv, TypeOK
    <3>3. Timed /\ TypeOK
      BY DEF Inv
    <3>4. living' = living /\ level_timers' = level_timers
      BY <1>1
    <3>5. QED
      BY <2>3, <3>1, <3>2, <3>3, <3>4, SMTT(30) DEF TypeOK, Timed, TimersOK
  <2>5. TypeOK'
    BY <1>1, <2>4 DEF Inv, TypeOK, TimersOK
  <2>6. Given'
    BY <1>1 DEF Inv, Given
  <2>7. Began'
    <3>1. data_list \in Seq(Player)
      BY DEF Inv, TypeOK
    <3>2. \A i \in 1..Len(data_list) : data_list[i] \in Range(data_list) /\ data_list[i] \in Player
      BY <3>1 DEF Range
    <3>3. \A i \in 1..Len(data_list) : played[data_list[i]] # "deleted"
      BY <1>4, <3>2 DEF LastLeaves, Deleted
    <3>4. /\ \A i \in 1..Len(data_list) : data_list[i] \notin gone'
          /\ \A c \in gone' : c \in Player /\ played[c] = "deleted"
      BY <2>1, <3>2, <3>3 DEF Deleted
    <3>5. drawTimer \in batched' => data_list # << >>
      BY <2>1, PyLevelAssumption DEF Ready
    <3>6. QED
      BY <1>1, <3>4, <3>5 DEF Began
  <2>8. QED
    BY <1>2, <2>4, <2>5, <2>6, <2>7 DEF Inv, TimersOK
<1> QED
  BY <1>3, <1>4
-----------------------------------------------------------------------------
(* The theorems                                                            *)

LEMMA PyInitInv == PyInit => Inv
<1> SUFFICES ASSUME PyInit
             PROVE  Inv
  OBVIOUS
<1>1. /\ played = [c \in Player |-> "new"] /\ data_list = << >>
      /\ timer_td = [t \in PyTimer |-> NoTd] /\ living = {} /\ level_timers = << >>
      /\ batched = {} /\ gone = {} /\ called = NoCall
  BY DEF PyInit
<1>2. IsFiniteSet({}) /\ Cardinality({}) = 0
  BY FS_EmptySet
<1>3. TypeOK
  BY <1>1, <1>2, NoTdType DEF TypeOK
<1>4. Len(data_list) = 0 /\ Len(level_timers) = 0
  BY <1>1
<1>5. Given /\ Began
  BY <1>1, <1>4 DEF Given, Began
<1>6. Timed
  BY <1>1, <1>2, <1>4 DEF Timed
<1>7. CalledOK
  BY <1>1 DEF CalledOK, RedrawGetsPlayers, NoCall
<1> QED
  BY <1>3, <1>5, <1>6, <1>7 DEF Inv

LEMMA PyNextInv == Inv /\ [PyNext]_python => Inv'
<1> SUFFICES ASSUME Inv, [PyNext]_python
             PROVE  Inv'
  OBVIOUS
<1>1. CASE PyEpollWait
  BY <1>1, PyEpollWaitStep
<1>2. CASE PybRedraw
  BY <1>2, PybRedrawStep
<1>3. CASE \E c \in Player : Levl(c) \/ PybMove(c) \/ PybAsk(c) \/ Leaves(c)
  BY <1>3, LevlStep, PybMoveStep, PybAskStep, LeavesStep
<1>4. CASE \E t \in PyTimer : CbTimer(t)
  BY <1>4, CbTimerStep
<1>5. CASE \E e \in batched : Fatal(e)
  BY <1>5, FatalStep
<1>6. CASE UNCHANGED python
  <2>1. /\ UNCHANGED <<played, data_list, timer_td, living, level_timers, batched, gone>>
        /\ called' = called
    BY <1>6 DEF python
  <2>2. TypeOK' /\ Given' /\ Began' /\ Timed'
    BY <2>1, ZenonT(60) DEF Inv, TypeOK, Given, Began, Timed
  <2>3. CalledOK'
    BY <2>1 DEF Inv, CalledOK, RedrawGetsPlayers
  <2>4. QED
    BY <2>2, <2>3 DEF Inv
<1> QED
  BY <1>1, <1>2, <1>3, <1>4, <1>5, <1>6 DEF PyNext

\* The lists of a level are those of the objects that exist, whatever the code
\* of the level does in its methods.
THEOREM PyInvariant == PySpec => []Inv
<1>1. PyInit => Inv
  BY PyInitInv
<1>2. Inv /\ [PyNext]_python => Inv'
  BY PyNextInv
<1>3. QED
  BY <1>1, <1>2, PTL DEF PySpec

\* A redraw is given the objects of all players, each once, and of nobody who
\* had left before this batch of events (pybindings.c:584-598).
THEOREM RedrawnPlayers == PySpec => []RedrawGetsPlayers
<1>1. Inv => RedrawGetsPlayers
  BY DEF Inv, CalledOK
<1>2. QED
  BY <1>1, PyInvariant, PTL

\* The method of a timer is called on an object that exists, and a hold finds
\* exactly the timers that exist, however the code of the level made and freed
\* timers in the same batch (pybindings.c:197-214, proto.c:620-650).
THEOREM LivingSelf == PySpec => []NoDeadSelf
<1>1. Inv => NoDeadSelf
  <2> SUFFICES ASSUME Inv
               PROVE  NoDeadSelf
    OBVIOUS
  <2>1. level_timers \in Seq(Nat) /\ DOMAIN level_timers = 1..Len(level_timers)
    BY DEF Inv, TypeOK
  <2>2. Range(level_timers) = {timer_td[t].fd : t \in living}
    <3>1. /\ \A t \in living : \E i \in 1..Len(level_timers) : level_timers[i] = timer_td[t].fd
          /\ \A i \in 1..Len(level_timers) : \E t \in living : timer_td[t].fd = level_timers[i]
      BY DEF Inv, Timed
    <3>2. Range(level_timers) \subseteq {timer_td[t].fd : t \in living}
      BY <2>1, <3>1 DEF Range
    <3>3. ASSUME NEW t \in living
          PROVE  timer_td[t].fd \in Range(level_timers)
      <4>1. PICK i \in 1..Len(level_timers) : level_timers[i] = timer_td[t].fd
        BY <3>1
      <4>2. QED
        BY <2>1, <4>1 DEF Range
    <3>4. QED
      BY <3>2, <3>3
  <2>3. QED
    BY <2>2 DEF Inv, Timed, CalledOK, NoDeadSelf
<1>2. QED
  BY <1>1, PyInvariant, PTL
-----------------------------------------------------------------------------
(* The lists of users                                                      *)

Entries == [login : Seq(Char), pid : Pids \cup {0}]
Lists == Seq(Entries)

Logins(u) == {u[i].login : i \in 1..Len(u)}
Running(u) == {a \in {u[i] : i \in 1..Len(u)} : a.pid # 0}

Once(u) == \A i, j \in 1..Len(u) : u[i].login = u[j].login => i = j
Apart(u, v) == Logins(u) \cap Logins(v) = {}

\* What find_login_ptr and find_login return.
LEMMA FindsLogin ==
    ASSUME NEW u \in Lists, NEW x
    PROVE  LET i == FindLogin(u, x)
           IN /\ i \in 0..Len(u)
              /\ i > 0 => u[i].login = x
              /\ i = 0 => x \notin Logins(u)
<1> DEFINE I == {i \in 1..Len(u) : u[i].login = x}
<1>1. I \in SUBSET Nat /\ Len(u) \in Nat
  BY DEF Lists
<1>2. FindLogin(u, x) = IF I # {} THEN Min(I) ELSE 0
  BY DEF FindLogin, SelectInSeq
<1>3. CASE I = {}
  <2>1. x \notin Logins(u)
    BY <1>3 DEF Logins
  <2>2. QED
    BY <1>1, <1>2, <1>3, <2>1
<1>4. CASE I # {}
  <2>1. Min(I) \in I
    BY <1>1, <1>4, MinExists
  <2>2. Min(I) \in 1..Len(u) /\ u[Min(I)].login = x
    BY <2>1
  <2> HIDE DEF I
  <2>3. QED
    BY <1>1, <1>2, <1>4, <2>2
<1>5. QED
  BY <1>3, <1>4

\* What find_pid returns.
LEMMA FindsPid ==
    ASSUME NEW u \in Lists, NEW x
    PROVE  LET i == FindPid(u, x)
           IN /\ i \in 0..Len(u)
              /\ i > 0 => u[i].pid = x
              /\ i = 0 => \A j \in 1..Len(u) : u[j].pid # x
<1> DEFINE I == {i \in 1..Len(u) : u[i].pid = x}
<1>1. I \in SUBSET Nat /\ Len(u) \in Nat
  BY DEF Lists
<1>2. FindPid(u, x) = IF I # {} THEN Min(I) ELSE 0
  BY DEF FindPid, SelectInSeq
<1>3. CASE I = {}
  BY <1>1, <1>2, <1>3
<1>4. CASE I # {}
  <2>1. Min(I) \in I
    BY <1>1, <1>4, MinExists
  <2>2. Min(I) \in 1..Len(u) /\ u[Min(I)].pid = x
    BY <2>1
  <2> HIDE DEF I
  <2>3. QED
    BY <1>1, <1>2, <1>4, <2>2
<1>5. QED
  BY <1>3, <1>4

\* A user at the end of a list.
LEMMA Appended ==
    ASSUME NEW u \in Lists, NEW a \in Entries
    PROVE  /\ Append(u, a) \in Lists
           /\ Logins(Append(u, a)) = Logins(u) \cup {a.login}
           /\ Running(Append(u, a)) = Running(u) \cup (IF a.pid = 0 THEN {} ELSE {a})
           /\ Once(u) /\ a.login \notin Logins(u) => Once(Append(u, a))
<1> DEFINE v == Append(u, a)
           n == Len(u)
<1>1. n \in Nat /\ v \in Lists /\ Len(v) = n + 1
  BY DEF Lists
<1>2. v[n + 1] = a /\ \A i \in 1..n : v[i] = u[i]
  BY DEF Lists
<1> HIDE DEF v
<1>3. 1..(n + 1) = (1..n) \cup {n + 1}
  BY <1>1
<1>4. {v[i] : i \in 1..Len(v)} = {u[i] : i \in 1..n} \cup {a}
  <2>1. {v[i] : i \in (1..n) \cup {n + 1}} = {u[i] : i \in 1..n} \cup {a}
    BY <1>2
  <2>2. QED
    BY <1>1, <1>3, <2>1
<1>5. Logins(v) = Logins(u) \cup {a.login}
  <2>1. {v[i].login : i \in (1..n) \cup {n + 1}} = {u[i].login : i \in 1..n} \cup {a.login}
    BY <1>2
  <2>2. QED
    BY <1>1, <1>3, <2>1 DEF Logins
<1>6. Running(v) = Running(u) \cup (IF a.pid = 0 THEN {} ELSE {a})
  <2> DEFINE E == {v[i] : i \in 1..Len(v)}
             F == {u[i] : i \in 1..n}
  <2>1. E = F \cup {a} /\ Running(v) = {b \in E : b.pid # 0}
        /\ Running(u) = {b \in F : b.pid # 0}
    BY <1>4 DEF Running
  <2> HIDE DEF E, F
  <2>2. QED
    BY <2>1
<1>7. ASSUME Once(u), a.login \notin Logins(u)
      PROVE  Once(v)
  <2> SUFFICES ASSUME NEW i \in 1..(n + 1), NEW j \in 1..(n + 1), v[i].login = v[j].login
               PROVE  i = j
    BY <1>1 DEF Once
  <2>1. \A k \in 1..n : u[k].login # a.login
    BY <1>7 DEF Logins
  <2>2. \A k, l \in 1..n : u[k].login = u[l].login => k = l
    BY <1>7 DEF Once
  <2>3. CASE i \in 1..n /\ j \in 1..n
    BY <1>2, <2>2, <2>3
  <2>4. CASE i = n + 1 /\ j = n + 1
    BY <2>4
  <2>5. CASE i \in 1..n /\ j = n + 1
    BY <1>2, <2>1, <2>5
  <2>6. CASE i = n + 1 /\ j \in 1..n
    BY <1>2, <2>1, <2>6
  <2>7. QED
    BY <1>3, <2>3, <2>4, <2>5, <2>6
<1>8. QED
  BY <1>1, <1>5, <1>6, <1>7 DEF v

\* One list after another.
LEMMA Joined ==
    ASSUME NEW u \in Lists, NEW v \in Lists
    PROVE  /\ u \o v \in Lists
           /\ Logins(u \o v) = Logins(u) \cup Logins(v)
           /\ Running(u \o v) = Running(u) \cup Running(v)
           /\ Once(u \o v) <=> Once(u) /\ Once(v) /\ Apart(u, v)
<1> DEFINE w == u \o v
           n == Len(u)
           m == Len(v)
<1>1. n \in Nat /\ m \in Nat /\ w \in Lists /\ Len(w) = n + m
  BY DEF Lists
<1>2. /\ \A i \in 1..n : w[i] = u[i]
      /\ \A i \in 1..m : w[n + i] = v[i]
  BY DEF Lists
<1> HIDE DEF w
<1>3. \A i \in 1..(n + m) : i \in 1..n \/ (i - n \in 1..m /\ i = n + (i - n))
  BY <1>1
<1>4. /\ \A i \in 1..n : i \in 1..(n + m)
      /\ \A i \in 1..m : n + i \in 1..(n + m)
  BY <1>1
<1>5. {w[i] : i \in 1..Len(w)} = {u[i] : i \in 1..n} \cup {v[i] : i \in 1..m}
  <2>1. \A i \in 1..(n + m) : w[i] \in {u[j] : j \in 1..n} \cup {v[j] : j \in 1..m}
    BY <1>2, <1>3, ZenonT(60)
  <2>2. \A i \in 1..n : u[i] \in {w[j] : j \in 1..(n + m)}
    BY <1>2, <1>4
  <2>3. \A i \in 1..m : v[i] \in {w[j] : j \in 1..(n + m)}
    BY <1>2, <1>4
  <2>4. QED
    BY <1>1, <2>1, <2>2, <2>3
<1>6. Logins(w) = Logins(u) \cup Logins(v)
  <2>1. \A i \in 1..(n + m) :
            w[i].login \in {u[j].login : j \in 1..n} \cup {v[j].login : j \in 1..m}
    BY <1>2, <1>3, ZenonT(60)
  <2>2. \A i \in 1..n : u[i].login \in {w[j].login : j \in 1..(n + m)}
    BY <1>2, <1>4
  <2>3. \A i \in 1..m : v[i].login \in {w[j].login : j \in 1..(n + m)}
    BY <1>2, <1>4
  <2>4. QED
    BY <1>1, <2>1, <2>2, <2>3 DEF Logins
<1>7. Running(w) = Running(u) \cup Running(v)
  <2> DEFINE E == {w[i] : i \in 1..Len(w)}
             F == {u[i] : i \in 1..n}
             G == {v[i] : i \in 1..m}
  <2>1. E = F \cup G /\ Running(w) = {b \in E : b.pid # 0}
        /\ Running(u) = {b \in F : b.pid # 0} /\ Running(v) = {b \in G : b.pid # 0}
    BY <1>5 DEF Running
  <2> HIDE DEF E, F, G
  <2>2. QED
    BY <2>1
<1>8. ASSUME Once(w)
      PROVE  Once(u) /\ Once(v) /\ Apart(u, v)
  <2>1. \A i, j \in 1..(n + m) : w[i].login = w[j].login => i = j
    BY <1>1, <1>8 DEF Once
  <2>2. Once(u)
    BY <1>2, <1>4, <2>1 DEF Once
  <2>3. Once(v)
    <3> SUFFICES ASSUME NEW i \in 1..m, NEW j \in 1..m, v[i].login = v[j].login
                 PROVE  i = j
      BY DEF Once
    <3>1. n + i = n + j
      BY <1>2, <1>4, <2>1, ZenonT(60)
    <3>2. QED
      BY <1>1, <3>1
  <2>4. Apart(u, v)
    <3> SUFFICES ASSUME NEW i \in 1..n, NEW j \in 1..m, u[i].login = v[j].login
                 PROVE  FALSE
      BY DEF Apart, Logins
    <3>1. i = n + j
      BY <1>2, <1>4, <2>1
    <3>2. QED
      BY <1>1, <3>1
  <2>5. QED
    BY <2>2, <2>3, <2>4
<1>9. ASSUME Once(u), Once(v), Apart(u, v)
      PROVE  Once(w)
  <2> SUFFICES ASSUME NEW i \in 1..(n + m), NEW j \in 1..(n + m), w[i].login = w[j].login
               PROVE  i = j
    BY <1>1 DEF Once
  <2>1. \A k \in 1..n, l \in 1..m : u[k].login # v[l].login
    BY <1>9 DEF Apart, Logins
  <2>2. /\ \A k, l \in 1..n : u[k].login = u[l].login => k = l
        /\ \A k, l \in 1..m : v[k].login = v[l].login => k = l
    BY <1>9 DEF Once
  <2>3. CASE i \in 1..n /\ j \in 1..n
    BY <1>2, <2>2, <2>3
  <2>4. CASE i - n \in 1..m /\ j - n \in 1..m
    <3>1. w[i] = v[i - n] /\ w[j] = v[j - n]
      BY <1>2, <1>3, <2>4
    <3>2. i - n = j - n
      BY <2>2, <2>4, <3>1
    <3>3. QED
      BY <1>1, <3>2
  <2>5. CASE i \in 1..n /\ j - n \in 1..m
    <3>1. w[i] = u[i] /\ w[j] = v[j - n]
      BY <1>2, <1>3, <2>5
    <3>2. QED
      BY <2>1, <2>5, <3>1
  <2>6. CASE i - n \in 1..m /\ j \in 1..n
    <3>1. w[i] = v[i - n] /\ w[j] = u[j]
      BY <1>2, <1>3, <2>6
    <3>2. QED
      BY <2>1, <2>6, <3>1
  <2>7. QED
    BY <1>3, <2>3, <2>4, <2>5, <2>6
<1>10. QED
  BY <1>1, <1>6, <1>7, <1>8, <1>9 DEF w

\* A list without its user k.
LEMMA Removed ==
    ASSUME NEW u \in Lists, NEW k \in 1..Len(u)
    PROVE  LET v == RemoveAt(u, k)
           IN /\ v \in Lists
              /\ Once(u) => /\ Once(v)
                            /\ Logins(v) = Logins(u) \ {u[k].login}
                            /\ Running(v) = Running(u) \ {u[k]}
<1> DEFINE v == RemoveAt(u, k)
           n == Len(u)
           a == SubSeq(u, 1, k - 1)
           b == SubSeq(u, k + 1, n)
           old(i) == IF i < k THEN i ELSE i + 1
<1>1. n \in Nat /\ k \in Nat /\ 1 <= k /\ k <= n
  BY DEF Lists
<1>2. v = a \o b
  BY DEF RemoveAt
<1>3. /\ a \in Lists /\ Len(a) = k - 1 /\ \A i \in 1..(k - 1) : a[i] = u[i]
  <2>1. \A i \in 1..(k - 1) : u[i] \in Entries
    BY <1>1 DEF Lists
  <2>2. QED
    BY <1>1, <2>1, SubSeqProperties DEF Lists
<1>4. b \in Lists /\ Len(b) = n - k /\ \A i \in 1..(n - k) : b[i] = u[k + i]
  <2>1. \A i \in (k + 1)..n : u[i] \in Entries
    BY <1>1 DEF Lists
  <2>2. QED
    BY <1>1, <2>1, SubSeqProperties DEF Lists
<1> HIDE DEF a, b, v
<1>5. v \in Lists /\ Len(v) = n - 1
  <2>1. a \o b \in Lists /\ Len(a \o b) = Len(a) + Len(b)
    <3>1. a \o b \in Lists
      BY <1>3, <1>4, Joined
    <3>2. a \in Seq(Entries) /\ b \in Seq(Entries)
      BY <1>3, <1>4 DEF Lists
    <3>3. Len(a \o b) = Len(a) + Len(b)
      BY <3>2, ConcatProperties
    <3>4. QED
      BY <3>1, <3>3
  <2>2. (k - 1) + (n - k) = n - 1
    BY <1>1
  <2>3. QED
    BY <1>2, <1>3, <1>4, <2>1, <2>2
<1>6. ASSUME NEW i \in 1..(n - 1)
      PROVE  v[i] = u[old(i)]
  <2>1. CASE i < k
    <3>1. i \in 1..Len(a)
      BY <1>1, <1>3, <2>1
    <3>2. (a \o b)[i] = a[i]
      BY <1>3, <1>4, <3>1 DEF Lists
    <3>3. QED
      BY <1>2, <1>3, <2>1, <3>1, <3>2
  <2>2. CASE ~(i < k)
    <3>1. i - (k - 1) \in 1..Len(b) /\ i = Len(a) + (i - (k - 1))
      BY <1>1, <1>3, <1>4, <2>2
    <3>2. (a \o b)[i] = b[i - (k - 1)]
      <4> DEFINE x == Len(a)
                 y == Len(b)
      <4>1. a \in Seq(Entries) /\ b \in Seq(Entries) /\ x \in Nat /\ y \in Nat
        BY <1>3, <1>4 DEF Lists
      <4>2. \A l \in 1..(x + y) : (a \o b)[l] = IF l <= x THEN a[l] ELSE b[l - x]
        BY <4>1, ConcatProperties
      <4> HIDE DEF x, y
      <4>3. i \in 1..(x + y) /\ ~(i <= x) /\ i - x = i - (k - 1)
        BY <1>1, <3>1, <4>1 DEF x, y
      <4>4. QED
        BY <4>2, <4>3
    <3>3. k + (i - (k - 1)) = i + 1
      BY <1>1
    <3>4. QED
      BY <1>2, <1>4, <2>2, <3>1, <3>2, <3>3
  <2>3. QED
    BY <2>1, <2>2
<1>7. /\ \A i \in 1..(n - 1) : old(i) \in (1..n) \ {k}
      /\ \A i, j \in 1..(n - 1) : old(i) = old(j) => i = j
  BY <1>1
<1>8. ASSUME NEW j \in (1..n) \ {k}
      PROVE  \E i \in 1..(n - 1) : old(i) = j
  <2>1. CASE j < k
    <3>1. j \in 1..(n - 1) /\ old(j) = j
      BY <1>1, <2>1
    <3>2. QED
      BY <3>1
  <2>2. CASE ~(j < k)
    <3>1. j - 1 \in 1..(n - 1) /\ old(j - 1) = j
      BY <1>1, <2>2
    <3>2. QED
      BY <3>1
  <2>3. QED
    BY <2>1, <2>2
<1> HIDE DEF old
<1>9. SUFFICES ASSUME Once(u)
               PROVE  /\ Once(v)
                      /\ Logins(v) = Logins(u) \ {u[k].login}
                      /\ Running(v) = Running(u) \ {u[k]}
  BY <1>5 DEF v
<1>15. \A i, j \in 1..n : u[i].login = u[j].login => i = j
  BY <1>9 DEF Once
<1>10. Once(v)
  BY <1>5, <1>6, <1>7, <1>15 DEF Once
<1>11. \A j \in (1..n) \ {k} : u[j].login # u[k].login /\ u[j] # u[k]
  BY <1>15
<1>12. Logins(v) = Logins(u) \ {u[k].login}
  <2>1. \A i \in 1..(n - 1) : v[i].login \in {u[j].login : j \in 1..n} \ {u[k].login}
    BY <1>6, <1>7, <1>11
  <2>2. \A j \in 1..n : u[j].login # u[k].login => u[j].login \in {v[i].login : i \in 1..(n - 1)}
    BY <1>6, <1>8, ZenonT(60)
  <2>3. QED
    BY <1>5, <2>1, <2>2 DEF Logins
<1>13. Running(v) = Running(u) \ {u[k]}
  <2> DEFINE E == {v[i] : i \in 1..(n - 1)}
             F == {u[i] : i \in 1..n}
  <2>1. \A i \in 1..(n - 1) : v[i] \in {u[j] : j \in 1..n} \ {u[k]}
    BY <1>6, <1>7, <1>11
  <2>2. \A j \in 1..n : u[j] # u[k] => u[j] \in {v[i] : i \in 1..(n - 1)}
    BY <1>6, <1>8, ZenonT(60)
  <2>3. E = F \ {u[k]}
    BY <2>1, <2>2
  <2>4. Running(v) = {x \in E : x.pid # 0} /\ Running(u) = {x \in F : x.pid # 0}
    BY <1>5 DEF Running
  <2> HIDE DEF E, F
  <2>5. QED
    BY <2>3, <2>4
<1>14. QED
  BY <1>10, <1>12, <1>13
-----------------------------------------------------------------------------
(* The file of logins                                                      *)

\* Where the lines of a text begin.
Begins(text) == {b \in 0..(Len(text) - 1) : b = 0 \/ text[b] = nl}

\* What is read as the login of a line that begins after b characters.
LoginAt(text, b) == StripNl(Fgets(text, b))

\* fgets stops at the first end of a line, unless its buffer or the file ends before.
LEMMA FgetsStops ==
    ASSUME NEW text \in Seq(Char), NEW p \in 0..(Len(text) - 1)
    PROVE  LET e == FgetsEnd(text, p)
           IN /\ e \in (p + 1)..Len(text) /\ e <= p + LoginLen
              /\ text[e] = nl \/ e = p + LoginLen \/ e = Len(text)
              /\ \A n \in (p + 1)..(e - 1) : text[n] # nl
<1> DEFINE o == Len(text)
           S == {n \in p + 1..Len(text) : text[n] = nl \/ n = p + LoginLen \/ n = Len(text)}
           e == FgetsEnd(text, p)
<1>1. o \in Nat /\ p \in Nat /\ p < o /\ LoginLen \in Nat /\ LoginLen > 0
  BY DbAssumption
<1>2. S \in SUBSET Nat /\ o \in S
  BY <1>1
<1>3. e \in S /\ \A g \in S : e <= g
  <2> HIDE DEF S
  <2>1. Min(S) \in S /\ \A g \in S : Min(S) <= g
    BY <1>2, MinExists
  <2>2. e = Min(S)
    BY DEF FgetsEnd, S
  <2>3. QED
    BY <2>1, <2>2
<1> HIDE DEF e
<1>4. e \in (p + 1)..o /\ (text[e] = nl \/ e = p + LoginLen \/ e = o)
  BY <1>3
<1>5. ASSUME NEW n \in (p + 1)..(e - 1)
      PROVE  text[n] # nl /\ n # p + LoginLen
  <2>1. n \in (p + 1)..o /\ ~(e <= n)
    BY <1>1, <1>4
  <2>2. n \notin S
    BY <1>3, <2>1
  <2>3. QED
    BY <2>1, <2>2
<1> HIDE DEF S
<1>6. e <= p + LoginLen
  <2>1. CASE p + LoginLen <= e - 1
    <3>1. p + LoginLen \in (p + 1)..(e - 1)
      BY <1>1, <1>4, <2>1
    <3>2. QED
      BY <1>5, <3>1
  <2>2. QED
    BY <1>1, <1>4, <2>1
<1>7. QED
  BY <1>4, <1>5, <1>6 DEF e

\* A piece of a text, with the end of its line and without.
LEMMA Piece ==
    ASSUME NEW text \in Seq(Char), NEW p \in Nat, NEW e \in (p + 1)..Len(text)
    PROVE  LET c == SubSeq(text, p + 1, e)
           IN /\ c \in Seq(Char) /\ Len(c) = e - p
              /\ \A i \in 1..(e - p) : c[i] = text[p + i]
              /\ EndsLine(c) <=> text[e] = nl
              /\ text[e] # nl => StripNl(c) = c
              /\ text[e] = nl => StripNl(c) = SubSeq(text, p + 1, e - 1)
              /\ StripNl(c) \in Seq(Char)
<1> DEFINE c == SubSeq(text, p + 1, e)
           o == Len(text)
<1>1. o \in Nat /\ p \in Nat /\ e \in Nat /\ p < e /\ e <= o
  OBVIOUS
<1>2. \A i \in (p + 1)..e : text[i] \in Char
  BY <1>1
<1>3. /\ c \in Seq(Char) /\ Len(c) = e - p
      /\ \A i \in 1..(e - p) : c[i] = text[p + i]
  BY <1>1, <1>2, SubSeqProperties
<1> DEFINE d == SubSeq(c, 1, Len(c) - 1)
<1> HIDE DEF c
<1>4. EndsLine(c) <=> text[e] = nl
  <2>1. e - p \in 1..(e - p) /\ p + (e - p) = e
    BY <1>1
  <2>2. c[Len(c)] = text[e]
    BY <1>3, <2>1
  <2>3. QED
    BY <2>2 DEF EndsLine, Last
<1>5. d = SubSeq(text, p + 1, e - 1) /\ d \in Seq(Char)
  <2> DEFINE f == SubSeq(text, p + 1, e - 1)
  <2>1. /\ f \in Seq(Char) /\ Len(f) = e - 1 - p
        /\ \A i \in 1..(e - 1 - p) : f[i] = text[p + i]
    <3> DEFINE m == p + 1
               n == e - 1
    <3>1. m \in Int /\ n \in Int /\ \A i \in m..n : text[i] \in Char
      BY <1>1
    <3>2. /\ n - m + 1 = e - 1 - p
          /\ ~(m <= n) => e - 1 - p = 0
          /\ \A i \in Int : m + i - 1 = p + i
      BY <1>1
    <3>3. f = SubSeq(text, m, n)
      OBVIOUS
    <3> HIDE DEF m, n, f
    <3>4. /\ f \in Seq(Char) /\ Len(f) = IF m <= n THEN n - m + 1 ELSE 0
          /\ \A i \in 1..(n - m + 1) : f[i] = text[m + i - 1]
      BY <3>1, <3>3, SubSeqProperties
    <3>5. QED
      BY <3>2, <3>4, SMTT(30)
  <2>2. /\ d \in Seq(Char) /\ Len(d) = e - p - 1
        /\ \A i \in 1..(e - p - 1) : d[i] = c[i]
    <3>1. \A i \in 1..(Len(c) - 1) : c[i] \in Char
      BY <1>1, <1>3
    <3>2. /\ 1 \in Int /\ Len(c) - 1 \in Int /\ Len(c) - 1 = e - p - 1
          /\ ~(1 <= Len(c) - 1) => e - p - 1 = 0
      BY <1>1, <1>3
    <3>3. /\ d \in Seq(Char)
          /\ Len(d) = IF 1 <= Len(c) - 1 THEN (Len(c) - 1) - 1 + 1 ELSE 0
          /\ \A i \in 1..((Len(c) - 1) - 1 + 1) : d[i] = c[1 + i - 1]
      BY <3>1, <3>2, SubSeqProperties
    <3>4. (Len(c) - 1) - 1 + 1 = e - p - 1 /\ \A i \in Int : 1 + i - 1 = i
      BY <3>2
    <3>5. QED
      BY <3>2, <3>3, <3>4
  <2>3. e - 1 - p = e - p - 1 /\ \A i \in 1..(e - p - 1) : i \in 1..(e - p)
    BY <1>1
  <2> HIDE DEF d, f
  <2>4. d = f
    BY <1>3, <2>1, <2>2, <2>3, SeqEqual
  <2>5. QED
    BY <2>2, <2>4 DEF f
<1>7. CASE text[e] # nl
  BY <1>3, <1>4, <1>7 DEF StripNl, c
<1>8. CASE text[e] = nl
  <2>1. StripNl(c) = d
    BY <1>4, <1>8 DEF StripNl, Front
  <2>2. QED
    BY <1>3, <1>4, <1>5, <1>8, <2>1 DEF c
<1>9. QED
  BY <1>7, <1>8

LEMMA ShortLine ==
    ASSUME NEW x \in Seq(Char), Len(x) <= LoginLen
    PROVE  Shortened(x) = x
<1>1. Len(x) \in Nat /\ LoginLen \in Nat
  BY DbAssumption
<1>2. (IF Len(x) < LoginLen THEN Len(x) ELSE LoginLen) = Len(x)
  BY <1>1
<1>3. SubSeq(x, 1, Len(x)) = x
  BY SubSeqFull
<1>4. QED
  BY <1>2, <1>3 DEF Shortened

LEMMA LongLine ==
    ASSUME NEW text \in Seq(Char), NEW b \in Nat, NEW g \in Nat,
           b + LoginLen <= g, g <= Len(text)
    PROVE  Shortened(SubSeq(text, b + 1, g)) = SubSeq(text, b + 1, b + LoginLen)
<1> DEFINE x == SubSeq(text, b + 1, g)
           y == SubSeq(x, 1, LoginLen)
           z == SubSeq(text, b + 1, b + LoginLen)
           m == b + 1
           n == b + LoginLen
<1>1. /\ LoginLen \in Nat /\ LoginLen > 0 /\ Len(text) \in Nat
      /\ m \in Int /\ n \in Int /\ g \in Int /\ 1 <= m /\ m <= n /\ n <= g
      /\ g <= Len(text) /\ n - m + 1 = LoginLen /\ g - m + 1 >= LoginLen
      /\ g - m + 1 \in Nat
      /\ \A i \in Int : m + i - 1 = b + i
  BY DbAssumption
<1>2. \A i \in m..g : text[i] \in Char
  BY <1>1
<1>3. x = SubSeq(text, m, g) /\ z = SubSeq(text, m, n)
  OBVIOUS
<1> HIDE DEF m, n, x, z
<1>4. /\ x \in Seq(Char) /\ Len(x) = g - m + 1
      /\ \A i \in 1..(g - m + 1) : x[i] = text[m + i - 1]
  <2>1. m <= g
    BY <1>1
  <2>2. QED
    BY <1>1, <1>2, <1>3, <2>1, SubSeqProperties
<1>5. /\ z \in Seq(Char) /\ Len(z) = LoginLen
      /\ \A i \in 1..LoginLen : z[i] = text[m + i - 1]
  <2>1. \A i \in m..n : text[i] \in Char
    BY <1>1, <1>2
  <2>2. m \in Int /\ n \in Int /\ m <= n /\ n - m + 1 = LoginLen
    BY <1>1
  <2>3. QED
    BY <1>3, <2>1, <2>2, SubSeqProperties, SMTT(30)
<1>6. /\ y \in Seq(Char) /\ Len(y) = LoginLen
      /\ \A i \in 1..LoginLen : y[i] = x[i]
  <2>1. \A i \in 1..LoginLen : i \in 1..(g - m + 1) /\ i \in 1..Len(x)
    BY <1>1, <1>4
  <2>2. \A i \in 1..LoginLen : x[i] \in Char
    BY <1>4, <2>1
  <2>3. LoginLen - 1 + 1 = LoginLen /\ 1 <= LoginLen /\ \A i \in Int : 1 + i - 1 = i
    BY <1>1
  <2>4. QED
    BY <1>1, <2>2, <2>3, SubSeqProperties
<1>7. Shortened(x) = y
  <2>1. (IF Len(x) < LoginLen THEN Len(x) ELSE LoginLen) = LoginLen
    BY <1>1, <1>4
  <2>2. QED
    BY <2>1 DEF Shortened
<1> HIDE DEF y
<1>8. y = z
  <2>1. \A i \in 1..LoginLen : i \in 1..(g - m + 1)
    BY <1>1
  <2>2. \A i \in 1..LoginLen : y[i] = z[i]
    BY <1>4, <1>5, <1>6, <2>1
  <2>3. QED
    BY <1>5, <1>6, <2>2, SeqEqual
<1>9. QED
  BY <1>7, <1>8 DEF x, z, n

\* What is read at the beginning of a line is the line, cut to LOGIN_LEN.
LEMMA LoginOfLine ==
    ASSUME NEW text \in Seq(Char), NEW b \in 0..(Len(text) - 1),
           NEW e \in (b + 1)..Len(text), text[e] = nl \/ e = Len(text),
           \A n \in (b + 1)..(e - 1) : text[n] # nl
    PROVE  LoginAt(text, b) = Shortened(StripNl(SubSeq(text, b + 1, e)))
<1> DEFINE f == FgetsEnd(text, b)
           o == Len(text)
           line == SubSeq(text, b + 1, e)
<1>1. /\ o \in Nat /\ b \in Nat /\ e \in Nat /\ b < e /\ e <= o /\ b < o
      /\ LoginLen \in Nat /\ LoginLen > 0
  BY DbAssumption
<1>2. /\ f \in (b + 1)..o /\ f <= b + LoginLen
      /\ text[f] = nl \/ f = b + LoginLen \/ f = o
      /\ \A n \in (b + 1)..(f - 1) : text[n] # nl
  BY FgetsStops
<1>3. LoginAt(text, b) = StripNl(SubSeq(text, b + 1, f))
  BY DEF LoginAt, Fgets
<1> HIDE DEF f
<1>4. f \in Nat
  BY <1>1, <1>2
<1>5. f < e => f = b + LoginLen
  <2> SUFFICES ASSUME f < e PROVE f = b + LoginLen
    OBVIOUS
  <2>1. f \in (b + 1)..(e - 1) /\ f # o
    BY <1>1, <1>2
  <2>2. QED
    BY <1>2, <2>1
<1>6. ~(e < f)
  <2> SUFFICES ASSUME e < f PROVE FALSE
    OBVIOUS
  <2>1. e \in (b + 1)..(f - 1) /\ e # o
    BY <1>1, <1>2, <1>4
  <2>2. QED
    BY <1>2, <2>1
<1>7. /\ StripNl(line) \in Seq(Char) /\ Len(line) = e - b
      /\ text[e] # nl => StripNl(line) = line
      /\ text[e] = nl => StripNl(line) = SubSeq(text, b + 1, e - 1)
  BY <1>1, Piece
<1>8. CASE f = e
  <2>1. Len(StripNl(line)) <= e - b
    <3>1. CASE text[e] # nl
      <4>1. Len(StripNl(line)) = e - b
        BY <1>7, <3>1
      <4>2. QED
        BY <1>1, <4>1
    <3>2. CASE text[e] = nl
      <4> DEFINE m == b + 1
                 n == e - 1
      <4>1. m \in Int /\ n \in Int /\ \A i \in m..n : text[i] \in Char
        BY <1>1
      <4>2. (IF m <= n THEN n - m + 1 ELSE 0) <= e - b
        BY <1>1
      <4>3. StripNl(line) = SubSeq(text, m, n)
        BY <1>7, <3>2
      <4> HIDE DEF m, n
      <4>4. Len(StripNl(line)) = IF m <= n THEN n - m + 1 ELSE 0
        BY <4>1, <4>3, SubSeqProperties
      <4>5. QED
        BY <4>2, <4>4
    <3>3. QED
      BY <3>1, <3>2
  <2>2. e - b <= LoginLen
    BY <1>1, <1>2, <1>8
  <2>3. Len(StripNl(line)) \in Nat
    BY <1>7
  <2>4. Len(StripNl(line)) <= LoginLen
    BY <1>1, <2>1, <2>2, <2>3
  <2>5. Shortened(StripNl(line)) = StripNl(line)
    BY <1>7, <2>4, ShortLine
  <2>6. QED
    BY <1>3, <1>8, <2>5
<1>9. CASE f < e
  <2>1. f = b + LoginLen /\ f \in (b + 1)..(e - 1)
    BY <1>1, <1>2, <1>5, <1>9
  <2>2. StripNl(SubSeq(text, b + 1, f)) = SubSeq(text, b + 1, b + LoginLen)
    BY <1>1, <1>2, <2>1, Piece
  <2>3. PICK g \in {e - 1, e} : StripNl(line) = SubSeq(text, b + 1, g)
    BY <1>7
  <2>4. g \in Nat /\ b + LoginLen <= g /\ g <= Len(text)
    BY <1>1, <1>4, <2>1, <2>3
  <2>5. Shortened(StripNl(line)) = SubSeq(text, b + 1, b + LoginLen)
    BY <1>1, <2>3, <2>4, LongLine
  <2>6. QED
    BY <1>3, <2>2, <2>5
<1>10. QED
  BY <1>1, <1>4, <1>6, <1>8, <1>9

\* The logins that are read at the beginnings of lines are those the file says.
LEMMA LinesAreRead ==
    ASSUME NEW text \in Seq(Char)
    PROVE  {Shortened(l) : l \in LinesOf(text)} = {LoginAt(text, b) : b \in Begins(text)}
<1> DEFINE o == Len(text)
           ends == ({p \in 1..Len(text) : text[p] = nl} \cup {Len(text)}) \ {0}
           before(p) == {q \in ends : q < p}
           begin(p) == IF before(p) = {} THEN 0
                       ELSE CHOOSE q \in before(p) : \A r \in before(p) : r <= q
           line(p) == SubSeq(text, begin(p) + 1, p)
<1>1. o \in Nat /\ \A p \in ends : p \in 1..o /\ (text[p] = nl \/ p = o)
  OBVIOUS
<1>2. LinesOf(text) = {StripNl(line(p)) : p \in ends}
  BY DEF LinesOf
<1>3. \A p \in 1..o : text[p] = nl => p \in ends
  OBVIOUS
<1>4. o > 0 => o \in ends
  BY <1>1
<1> HIDE DEF ends
<1>5. ASSUME NEW p \in ends
      PROVE  /\ begin(p) \in Begins(text) /\ begin(p) < p
             /\ \A n \in (begin(p) + 1)..(p - 1) : text[n] # nl
  <2>1. p \in Nat /\ p \in 1..o
    BY <1>1
  <2>2. CASE before(p) = {}
    <3>1. begin(p) = 0
      BY <2>2
    <3>2. ASSUME NEW n \in (0 + 1)..(p - 1)
          PROVE  text[n] # nl
      <4>1. n \in 1..o /\ n < p
        BY <1>1, <2>1
      <4>2. n \notin ends
        BY <2>2, <4>1
      <4>3. QED
        BY <1>3, <4>1, <4>2
    <3>3. 0 \in Begins(text) /\ 0 < p
      BY <1>1, <2>1 DEF Begins
    <3>4. QED
      BY <3>1, <3>2, <3>3
  <2>3. CASE before(p) # {}
    <3> DEFINE D == {p - q : q \in before(p)}
    <3>1. \A q \in before(p) : q \in Nat /\ q \in 1..o /\ q < p /\ p - q \in Nat
      BY <1>1, <2>1
    <3>2. D \in SUBSET Nat /\ D # {}
      BY <2>3, <3>1
    <3>3. Min(D) \in D /\ \A g \in D : Min(D) <= g
      <4> HIDE DEF D
      <4>1. QED
        BY <3>2, MinExists
    <3>4. PICK h \in before(p) : Min(D) = p - h
      BY <3>3
    <3>5. \A r \in before(p) : r <= h
      <4> SUFFICES ASSUME NEW r \in before(p) PROVE r <= h
        OBVIOUS
      <4>1. p - h <= p - r
        BY <3>3, <3>4
      <4>2. h \in Nat /\ r \in Nat
        BY <3>1
      <4>3. QED
        BY <2>1, <4>1, <4>2
    <3> HIDE DEF D
    <3> DEFINE k == begin(p)
    <3>6. k = CHOOSE q \in before(p) : \A r \in before(p) : r <= q
      BY <2>3
    <3>7. k \in before(p) /\ \A r \in before(p) : r <= k
      <4> HIDE DEF before, k, begin
      <4>1. QED
        BY <3>5, <3>6
    <3> HIDE DEF k
    <3>8. k \in ends /\ k < p /\ k \in 1..o
      BY <3>1, <3>7
    <3>9. text[k] = nl /\ k \in 0..(o - 1)
      BY <1>1, <2>1, <3>8
    <3>10. k \in Begins(text)
      BY <3>9 DEF Begins
    <3>11. ASSUME NEW n \in (k + 1)..(p - 1)
           PROVE  text[n] # nl
      <4>1. n \in 1..o /\ n < p /\ ~(n <= k)
        BY <1>1, <2>1, <3>8
      <4>2. n \notin ends
        BY <3>7, <4>1
      <4>3. QED
        BY <1>3, <4>1, <4>2
    <3>12. QED
      BY <3>8, <3>10, <3>11 DEF k
  <2>4. QED
    BY <2>2, <2>3
<1> HIDE DEF begin
<1>6. ASSUME NEW p \in ends
      PROVE  LoginAt(text, begin(p)) = Shortened(StripNl(line(p)))
  <2>1. begin(p) \in 0..(o - 1) /\ begin(p) < p /\ p \in 1..o
    BY <1>1, <1>5 DEF Begins
  <2>2. p \in (begin(p) + 1)..o
    BY <1>1, <2>1
  <2>3. QED
    BY <1>1, <1>5, <2>1, <2>2, LoginOfLine
<1>7. ASSUME NEW b \in Begins(text)
      PROVE  \E p \in ends : begin(p) = b
  <2> DEFINE S == {n \in (b + 1)..o : n \in ends}
             p == Min(S)
  <2>1. b \in 0..(o - 1) /\ o \in ends /\ (b = 0 \/ text[b] = nl)
    BY <1>1, <1>4 DEF Begins
  <2>2. S \in SUBSET Nat /\ o \in S
    BY <1>1, <2>1
  <2>3. p \in S /\ \A g \in S : p <= g
    <3> HIDE DEF S
    <3>1. QED
      BY <2>2, MinExists
  <2> HIDE DEF p
  <2>4. p \in (b + 1)..o /\ p \in ends
    BY <2>3
  <2> DEFINE c == begin(p)
  <2>5. /\ c \in 0..(o - 1) /\ (c = 0 \/ text[c] = nl) /\ c < p
        /\ \A n \in (c + 1)..(p - 1) : text[n] # nl
    BY <1>5, <2>4 DEF Begins
  <2> HIDE DEF c
  <2>6. \A n \in (b + 1)..(p - 1) : text[n] # nl
    <3> SUFFICES ASSUME NEW n \in (b + 1)..(p - 1) PROVE text[n] # nl
      OBVIOUS
    <3>1. n \in (b + 1)..o /\ ~(p <= n) /\ n \in 1..o
      BY <1>1, <2>1, <2>4
    <3>2. n \notin ends
      BY <2>3, <3>1
    <3>3. QED
      BY <1>3, <3>1, <3>2
  <2> HIDE DEF S
  <2>7. ~(b < c)
    <3> SUFFICES ASSUME b < c PROVE FALSE
      OBVIOUS
    <3>1. c \in (b + 1)..(p - 1) /\ c # 0
      BY <1>1, <2>1, <2>4, <2>5
    <3>2. QED
      BY <2>5, <2>6, <3>1
  <2>8. ~(c < b)
    <3> SUFFICES ASSUME c < b PROVE FALSE
      OBVIOUS
    <3>1. b \in (c + 1)..(p - 1) /\ b # 0
      BY <1>1, <2>1, <2>4, <2>5
    <3>2. QED
      BY <2>1, <2>5, <3>1
  <2>9. c = b
    BY <2>1, <2>5, <2>7, <2>8
  <2>10. QED
    BY <2>4, <2>9 DEF c
<1> HIDE DEF line
<1>8. {Shortened(l) : l \in LinesOf(text)} = {Shortened(StripNl(line(p))) : p \in ends}
  BY <1>2
<1>9. \A p \in ends : begin(p) \in Begins(text)
  BY <1>5
<1>10. QED
  BY <1>6, <1>7, <1>8, <1>9
-----------------------------------------------------------------------------
(* Reading the file                                                        *)

Readings == [users : Lists, inactive : Lists, consume : BOOLEAN, at : Nat]

\* After what was read of the file, from users list.
Reads(r, text, list) ==
    /\ r \in Readings /\ r.at <= Len(text)
    /\ r.consume <=> (r.at > 0 /\ text[r.at] # nl)
    /\ Logins(r.users) = {LoginAt(text, b) : b \in {c \in Begins(text) : c < r.at}}
    /\ Once(r.users) /\ Once(r.inactive) /\ Apart(r.users, r.inactive)
    /\ Running(r.users) \cup Running(r.inactive) = Running(list)

\* One round: the lists, and where it stops.
LEMMA TakeNextIs ==
    ASSUME NEW text \in Seq(Char), NEW r \in Readings, r.at < Len(text)
    PROVE  LET c == Fgets(text, r.at)
               x == StripNl(c)
               i == FindLogin(r.inactive, x)
               t == TakeNext(text, r)
           IN /\ t \in Readings /\ t.at = FgetsEnd(text, r.at)
              /\ t.consume <=> text[t.at] # nl
              /\ r.consume => t.users = r.users /\ t.inactive = r.inactive
              /\ ~r.consume /\ i > 0 =>
                    /\ t.users = Append(r.users, r.inactive[i])
                    /\ t.inactive = RemoveAt(r.inactive, i)
              /\ ~r.consume /\ i = 0 =>
                    /\ t.inactive = r.inactive
                    /\ t.users = IF FindLogin(r.users, x) > 0 THEN r.users
                                 ELSE Append(r.users, User(x, 0))
<1> DEFINE p == r.at
           e == FgetsEnd(text, p)
           c == Fgets(text, p)
           x == StripNl(c)
           i == FindLogin(r.inactive, x)
           z == ~EndsLine(c)
           next == [r EXCEPT !.consume = z]
           taken == Take(r, c)
           t == TakeNext(text, r)
<1>1. p \in 0..(Len(text) - 1) /\ p \in Nat /\ r.users \in Lists /\ r.inactive \in Lists
      /\ r.consume \in BOOLEAN
  BY DEF Readings
<1>2. e \in (p + 1)..Len(text) /\ e \in Nat
  <2>1. e \in (p + 1)..Len(text)
    BY <1>1, FgetsStops
  <2>2. QED
    BY <1>1, <2>1
<1>3. (z <=> text[e] # nl) /\ x \in Seq(Char) /\ z \in BOOLEAN
  <2>1. c = SubSeq(text, p + 1, e)
    BY DEF Fgets
  <2> HIDE DEF c, e, p
  <2>2. (EndsLine(c) <=> text[e] = nl) /\ StripNl(c) \in Seq(Char)
    BY <1>1, <1>2, <2>1, Piece
  <2>3. QED
    BY <2>2 DEF EndsLine
<1>4. t = [taken EXCEPT !.at = e]
  <2>1. p # Len(text)
    BY <1>1
  <2>2. QED
    BY <2>1 DEF TakeNext
<1> HIDE DEF z
<1>5. next \in Readings /\ next.users = r.users /\ next.inactive = r.inactive
      /\ next.consume = z
  BY <1>3 DEF Readings
<1>6. taken = IF r.consume THEN next
              ELSE IF i > 0 THEN [next EXCEPT !.users = Append(r.users, r.inactive[i]),
                                              !.inactive = RemoveAt(r.inactive, i)]
              ELSE IF FindLogin(r.users, x) > 0 THEN next
              ELSE [next EXCEPT !.users = Append(r.users, User(x, 0))]
  BY DEF Take, Readings, z
<1>7. ASSUME NEW u \in Lists, NEW v \in Lists
      PROVE  LET n == [next EXCEPT !.users = u, !.inactive = v]
             IN n \in Readings /\ n.users = u /\ n.inactive = v /\ n.consume = z
  BY <1>5 DEF Readings
<1>8. ASSUME NEW u \in Lists
      PROVE  LET n == [next EXCEPT !.users = u]
             IN n \in Readings /\ n.users = u /\ n.inactive = r.inactive /\ n.consume = z
  BY <1>5 DEF Readings
<1>9. ASSUME NEW n \in Readings
      PROVE  LET s == [n EXCEPT !.at = e]
             IN /\ s \in Readings /\ s.users = n.users /\ s.inactive = n.inactive
                /\ s.consume = n.consume /\ s.at = e
  BY <1>2 DEF Readings
<1> HIDE DEF e, next, taken, t, c
<1>10. i \in 0..Len(r.inactive) /\ Len(r.inactive) \in Nat
  <2>1. Len(r.inactive) \in Nat
    BY <1>1 DEF Lists
  <2>2. QED
    BY <1>1, <2>1, FindsLogin
<1> HIDE DEF i, x
<1>11. CASE r.consume
  <2>1. taken = next
    BY <1>6, <1>11
  <2>2. QED
    BY <1>3, <1>4, <1>5, <1>9, <1>11, <2>1 DEF t, e, p, x, c, i
<1>12. CASE ~r.consume /\ i > 0
  <2> DEFINE u == Append(r.users, r.inactive[i])
             v == RemoveAt(r.inactive, i)
  <2>1. taken = [next EXCEPT !.users = u, !.inactive = v]
    BY <1>6, <1>12
  <2>2. u \in Lists
    <3>1. i \in 1..Len(r.inactive)
      BY <1>10, <1>12
    <3>2. r.inactive[i] \in Entries
      BY <1>1, <3>1 DEF Lists
    <3>3. QED
      BY <1>1, <3>2, Appended
  <2>3. v \in Lists
    <3>1. i \in 1..Len(r.inactive)
      BY <1>10, <1>12
    <3>2. QED
      BY <1>1, <3>1, Removed
  <2> HIDE DEF u, v
  <2>4. taken \in Readings /\ taken.users = u /\ taken.inactive = v /\ taken.consume = z
    BY <1>7, <2>1, <2>2, <2>3
  <2>5. t \in Readings /\ t.users = u /\ t.inactive = v /\ t.consume = z /\ t.at = e
    BY <1>4, <1>9, <2>4
  <2>6. i # 0
    BY <1>10, <1>12
  <2>7. QED
    BY <1>3, <1>12, <2>5, <2>6 DEF t, e, p, x, c, i, u, v
<1>13. CASE ~r.consume /\ i = 0 /\ FindLogin(r.users, x) > 0
  <2>1. taken = next /\ ~(i > 0)
    BY <1>6, <1>10, <1>13
  <2>2. t \in Readings /\ t.users = r.users /\ t.inactive = r.inactive /\ t.consume = z
        /\ t.at = e
    BY <1>4, <1>5, <1>9, <2>1
  <2>3. QED
    BY <1>3, <1>13, <2>1, <2>2 DEF t, e, p, x, c, i
<1>14. CASE ~r.consume /\ i = 0 /\ ~(FindLogin(r.users, x) > 0)
  <2> DEFINE u == Append(r.users, User(x, 0))
  <2>1. ~(i > 0)
    BY <1>10, <1>14
  <2>2. taken = [next EXCEPT !.users = u]
    BY <1>6, <1>14, <2>1
  <2>3. u \in Lists
    <3>1. User(x, 0) \in Entries
      BY <1>3 DEF User, Entries, x
    <3>2. QED
      BY <1>1, <3>1, Appended
  <2> HIDE DEF u
  <2>4. taken \in Readings /\ taken.users = u /\ taken.inactive = r.inactive
        /\ taken.consume = z
    BY <1>8, <2>2, <2>3
  <2>5. t \in Readings /\ t.users = u /\ t.inactive = r.inactive /\ t.consume = z
        /\ t.at = e
    BY <1>4, <1>9, <2>4
  <2>6. QED
    BY <1>3, <1>14, <2>1, <2>5 DEF t, e, p, x, c, i, u
<1>15. QED
  <2>1. i = 0 \/ i > 0
    BY <1>10
  <2>2. QED
    BY <2>1, <1>11, <1>12, <1>13, <1>14

\* The lines that one round reads: the one that begins where it starts, or none.
LEMMA BeginsRead ==
    ASSUME NEW text \in Seq(Char), NEW p \in 0..(Len(text) - 1)
    PROVE  LET e == FgetsEnd(text, p)
           IN {b \in Begins(text) : b < e}
                = {b \in Begins(text) : b < p}
                    \cup (IF p > 0 /\ text[p] # nl THEN {} ELSE {p})
<1> DEFINE e == FgetsEnd(text, p)
           o == Len(text)
<1>1. o \in Nat /\ p \in Nat /\ p < o
  OBVIOUS
<1>2. e \in (p + 1)..o /\ \A n \in (p + 1)..(e - 1) : text[n] # nl
  BY FgetsStops
<1> HIDE DEF e
<1>3. p < e /\ \A b \in Begins(text) : b < e => b < p \/ b = p
  <2>1. p < e /\ e \in Int
    BY <1>1, <1>2
  <2>2. ASSUME NEW b \in Begins(text), b < e, ~(b < p), b # p
        PROVE  FALSE
    <3>1. b \in 0..(o - 1) /\ (b = 0 \/ text[b] = nl)
      BY <2>2 DEF Begins
    <3>2. b \in (p + 1)..(e - 1) /\ b # 0
      BY <1>1, <2>1, <2>2, <3>1
    <3>3. QED
      BY <1>2, <3>1, <3>2
  <2>3. QED
    BY <2>1, <2>2
<1>4. p \in Begins(text) <=> ~(p > 0 /\ text[p] # nl)
  BY <1>1 DEF Begins
<1>5. \A b \in Begins(text) : b < p => b < e
  <2>1. \A b \in Begins(text) : b \in Int
    BY <1>1 DEF Begins
  <2>2. e \in Int /\ p \in Int
    BY <1>1, <1>2
  <2>3. QED
    BY <1>3, <2>1, <2>2
<1>6. QED
  BY <1>3, <1>4, <1>5 DEF e

\* A round of db_reload takes the line where it starts, once, and no child is lost.
LEMMA TakeNextReads ==
    ASSUME NEW text \in Seq(Char), NEW list, NEW r, Reads(r, text, list),
           r.at < Len(text)
    PROVE  Reads(TakeNext(text, r), text, list) /\ TakeNext(text, r).at > r.at
<1> DEFINE p == r.at
           e == FgetsEnd(text, p)
           x == LoginAt(text, p)
           i == FindLogin(r.inactive, x)
           t == TakeNext(text, r)
           read(q) == {LoginAt(text, b) : b \in {c \in Begins(text) : c < q}}
           v == r.inactive
<1>1. /\ r \in Readings /\ p \in 0..(Len(text) - 1) /\ p \in Nat /\ Len(text) \in Nat
      /\ r.users \in Lists /\ v \in Lists
  BY DEF Reads, Readings
<1>2. /\ r.consume <=> (p > 0 /\ text[p] # nl)
      /\ Logins(r.users) = read(p)
      /\ Once(r.users) /\ Once(v) /\ Apart(r.users, v)
      /\ Running(r.users) \cup Running(v) = Running(list)
  BY DEF Reads
<1>3. /\ t \in Readings /\ t.at = e
      /\ t.consume <=> text[t.at] # nl
      /\ r.consume => t.users = r.users /\ t.inactive = v
      /\ ~r.consume /\ i > 0 => t.users = Append(r.users, v[i]) /\ t.inactive = RemoveAt(v, i)
      /\ ~r.consume /\ i = 0 =>
            /\ t.inactive = v
            /\ t.users = IF FindLogin(r.users, x) > 0 THEN r.users
                         ELSE Append(r.users, User(x, 0))
  BY <1>1, TakeNextIs DEF LoginAt
<1>4. e \in (p + 1)..Len(text) /\ e > p /\ e > 0 /\ e <= Len(text)
  <2>1. e \in (p + 1)..Len(text)
    BY <1>1, FgetsStops
  <2> HIDE DEF e
  <2>2. QED
    BY <1>1, <2>1
<1>5. read(e) = read(p) \cup (IF r.consume THEN {} ELSE {x})
  <2> DEFINE B == {c \in Begins(text) : c < e}
             A == {c \in Begins(text) : c < p}
  <2>1. B = A \cup (IF r.consume THEN {} ELSE {p})
    BY <1>1, <1>2, BeginsRead
  <2> HIDE DEF A, B
  <2>2. {LoginAt(text, b) : b \in B} = {LoginAt(text, b) : b \in A}
            \cup (IF r.consume THEN {} ELSE {LoginAt(text, p)})
    BY <2>1
  <2>3. QED
    BY <2>2 DEF A, B
<1>6. x \in Seq(Char)
  <2>1. SubSeq(text, p + 1, e) = Fgets(text, p)
    BY DEF Fgets
  <2> HIDE DEF e
  <2>2. StripNl(SubSeq(text, p + 1, e)) \in Seq(Char)
    BY <1>1, <1>4, Piece
  <2>3. QED
    BY <2>1, <2>2 DEF LoginAt
<1>7. i \in 0..Len(v) /\ Len(v) \in Nat /\ (i > 0 => v[i].login = x)
      /\ (i = 0 => x \notin Logins(v))
  <2>1. Len(v) \in Nat
    BY <1>1 DEF Lists
  <2> HIDE DEF x
  <2>2. QED
    BY <1>1, <2>1, FindsLogin
<1> HIDE DEF i, t, e, x, v, read
<1> DEFINE Kept == /\ Logins(t.users) = read(e)
                   /\ Once(t.users) /\ Once(t.inactive) /\ Apart(t.users, t.inactive)
                   /\ Running(t.users) \cup Running(t.inactive) = Running(list)
<1>8. ASSUME r.consume
      PROVE  Kept
  BY <1>2, <1>3, <1>5, <1>8
<1>9. ASSUME ~r.consume, i > 0
      PROVE  Kept
  <2> DEFINE a == v[i]
  <2>1. i \in 1..Len(v)
    BY <1>7, <1>9
  <2>2. a \in Entries /\ a.login = x
    BY <1>1, <1>7, <1>9, <2>1 DEF Lists
  <2>3. x \in Logins(v) /\ (a.pid # 0 => a \in Running(v)) /\ (a.pid = 0 => a \notin Running(v))
    BY <2>1, <2>2 DEF Logins, Running
  <2>4. x \notin Logins(r.users)
    BY <1>2, <2>3 DEF Apart
  <2>5. t.users = Append(r.users, a) /\ t.inactive = RemoveAt(v, i)
    BY <1>3, <1>9
  <2> HIDE DEF a
  <2>6. /\ Logins(t.users) = Logins(r.users) \cup {x}
        /\ Running(t.users) = Running(r.users) \cup (IF a.pid = 0 THEN {} ELSE {a})
        /\ Once(t.users)
    BY <1>1, <1>2, <2>2, <2>4, <2>5, Appended
  <2>7. /\ Once(t.inactive) /\ Logins(t.inactive) = Logins(v) \ {x}
        /\ Running(t.inactive) = Running(v) \ {a}
    BY <1>1, <1>2, <2>1, <2>2, <2>5, Removed DEF a
  <2>8. Apart(t.users, t.inactive)
    BY <1>2, <2>6, <2>7 DEF Apart
  <2>9. Running(t.users) \cup Running(t.inactive) = Running(list)
    BY <1>2, <2>3, <2>6, <2>7
  <2>10. Logins(t.users) = read(e)
    BY <1>2, <1>5, <1>9, <2>6
  <2>11. QED
    BY <2>6, <2>7, <2>8, <2>9, <2>10
<1>10. ASSUME ~r.consume, i = 0, FindLogin(r.users, x) > 0
       PROVE  Kept
  <2> DEFINE j == FindLogin(r.users, x)
             m == Len(r.users)
  <2>1. m \in Nat
    BY <1>1 DEF Lists
  <2>2. j \in 0..m /\ (j > 0 => r.users[j].login = x)
    BY <1>1, FindsLogin
  <2>3. j > 0
    BY <1>10
  <2> HIDE DEF j
  <2>4. j \in 1..m /\ r.users[j].login = x
    BY <2>1, <2>2, <2>3
  <2>5. x \in Logins(r.users)
    BY <2>4 DEF Logins
  <2>6. t.users = r.users /\ t.inactive = v
    BY <1>3, <1>10
  <2>7. QED
    BY <1>2, <1>5, <1>10, <2>5, <2>6
<1>11. ASSUME ~r.consume, i = 0, ~(FindLogin(r.users, x) > 0)
       PROVE  Kept
  <2> DEFINE a == User(x, 0)
             j == FindLogin(r.users, x)
             m == Len(r.users)
  <2>1. a \in Entries /\ a.login = x /\ a.pid = 0
    BY <1>6 DEF User, Entries
  <2>2. t.users = Append(r.users, a) /\ t.inactive = v
    BY <1>3, <1>11
  <2>3. m \in Nat
    BY <1>1 DEF Lists
  <2>4. j \in 0..m /\ (j = 0 => x \notin Logins(r.users))
    BY <1>1, FindsLogin
  <2>5. ~(j > 0)
    BY <1>11
  <2> HIDE DEF a, j
  <2>6. x \notin Logins(r.users)
    BY <2>3, <2>4, <2>5
  <2>7. /\ Logins(t.users) = Logins(r.users) \cup {x}
        /\ Running(t.users) = Running(r.users)
        /\ Once(t.users)
    <3>1. Running(t.users) = Running(r.users) \cup (IF a.pid = 0 THEN {} ELSE {a})
      BY <1>1, <2>1, <2>2, Appended
    <3>2. Logins(t.users) = Logins(r.users) \cup {a.login}
      BY <1>1, <2>1, <2>2, Appended
    <3>3. Once(t.users)
      BY <1>1, <1>2, <2>1, <2>2, <2>6, Appended
    <3>4. QED
      BY <2>1, <3>1, <3>2, <3>3
  <2>8. Apart(t.users, t.inactive)
    BY <1>2, <1>7, <1>11, <2>2, <2>7 DEF Apart
  <2>9. QED
    BY <1>2, <1>5, <1>11, <2>2, <2>7, <2>8
<1>12. Kept
  <2>1. i = 0 \/ i > 0
    BY <1>7
  <2>2. QED
    BY <2>1, <1>8, <1>9, <1>10, <1>11
<1>13. t.at = e /\ t.consume <=> text[e] # nl
  BY <1>3
<1>14. Reads(t, text, list)
  <2>1. t \in Readings /\ t.at <= Len(text)
    BY <1>3, <1>4
  <2>2. t.consume <=> (t.at > 0 /\ text[t.at] # nl)
    BY <1>3, <1>4
  <2>3. QED
    BY <1>3, <1>12, <2>1, <2>2 DEF Reads, read
<1>15. QED
  BY <1>3, <1>4, <1>14 DEF t

\* What was read after so many rounds, from the rounds before.
ReadBy(text, first, h, n) == IF n = 0 THEN first ELSE TakeNext(text, h[n - 1])

\* The function of the rounds of db_reload exists.
LEMMA ReadingsExist ==
    ASSUME NEW m \in Nat, NEW text, NEW first
    PROVE  \E h : h = [n \in 0..m |-> ReadBy(text, first, h, n)]
<1> DEFINE P(k) == \E h : h = [n \in 0..k |-> ReadBy(text, first, h, n)]
           S == {k \in Nat : ~P(k)}
<1>1. SUFFICES P(m)
  BY <1>1
<1>2. SUFFICES ASSUME S # {} PROVE FALSE
  OBVIOUS
<1>3. PICK k \in S : \A g \in S : k <= g
  <2>1. S \in SUBSET Nat
    OBVIOUS
  <2> HIDE DEF S
  <2>2. QED
    BY <1>2, <2>1, MinExists
<1>4. k \in Nat /\ ~P(k)
  BY <1>3
<1>5. k # 0
  <2> DEFINE h0 == [n \in 0..0 |-> first]
  <2>1. \A n \in 0..0 : ReadBy(text, first, h0, n) = first
    BY DEF ReadBy
  <2>2. h0 = [n \in 0..0 |-> ReadBy(text, first, h0, n)]
    BY <2>1
  <2>3. P(0)
    BY <2>2
  <2>4. QED
    BY <1>4, <2>3
<1>6. k - 1 \in Nat /\ ~(k <= k - 1)
  BY <1>4, <1>5
<1>7. P(k - 1)
  <2>1. k - 1 \notin S
    BY <1>3, <1>6
  <2>2. QED
    BY <1>6, <2>1
<1>8. PICK h : h = [n \in 0..(k - 1) |-> ReadBy(text, first, h, n)]
  BY <1>7
<1> DEFINE g == [n \in 0..k |-> IF n = k THEN TakeNext(text, h[k - 1]) ELSE h[n]]
<1>9. ASSUME NEW n \in 0..k
      PROVE  g[n] = ReadBy(text, first, g, n)
  <2>1. n \in Int /\ 0 <= n /\ n <= k
    BY <1>4
  <2>2. CASE n = 0
    <3>1. 0 \in 0..(k - 1) /\ 0 \in 0..k /\ 0 # k
      BY <1>5, <1>6
    <3>2. g[0] = h[0]
      BY <3>1
    <3>3. h[0] = first
      BY <1>8, <3>1 DEF ReadBy
    <3>4. QED
      BY <2>2, <3>2, <3>3 DEF ReadBy
  <2>3. CASE n # 0
    <3>1. n - 1 \in 0..k /\ n - 1 # k /\ n - 1 \in 0..(k - 1)
      BY <1>4, <2>1, <2>3
    <3>2. g[n - 1] = h[n - 1]
      BY <3>1
    <3>3. CASE n = k
      <4>1. g[n] = TakeNext(text, g[n - 1])
        BY <3>2, <3>3
      <4> HIDE DEF g
      <4>2. QED
        BY <2>3, <4>1 DEF ReadBy
    <3>4. CASE n # k
      <4>1. n \in 0..(k - 1)
        BY <1>4, <2>1, <3>4
      <4>2. g[n] = h[n]
        BY <3>4
      <4>3. h[n] = TakeNext(text, h[n - 1])
        BY <1>8, <2>3, <4>1 DEF ReadBy
      <4>4. g[n] = TakeNext(text, g[n - 1])
        BY <3>2, <4>2, <4>3
      <4> HIDE DEF g
      <4>5. QED
        BY <2>3, <4>4 DEF ReadBy
    <3>5. QED
      BY <3>3, <3>4
  <2>4. QED
    BY <2>2, <2>3
<1>10. g = [n \in 0..k |-> g[n]]
  OBVIOUS
<1> HIDE DEF g
<1>11. g = [n \in 0..k |-> ReadBy(text, first, g, n)]
  BY <1>9, <1>10
<1>12. P(k)
  BY <1>11
<1>13. QED
  BY <1>4, <1>12

\* The loops of db_reload end after the whole file.
LEMMA TakeAllReads ==
    ASSUME NEW text \in Seq(Char), NEW list, NEW first, Reads(first, text, list)
    PROVE  Reads(TakeAll(text, first), text, list) /\ TakeAll(text, first).at = Len(text)
<1> DEFINE o == Len(text)
           h == CHOOSE f : f = [n \in 0..o |-> ReadBy(text, first, f, n)]
<1>1. o \in Nat
  OBVIOUS
<1>2. h = [n \in 0..o |-> ReadBy(text, first, h, n)]
  BY <1>1, ReadingsExist
<1>3. TakeAll(text, first) = h[o]
  BY DEF TakeAll, ReadBy
<1> HIDE DEF h
<1>4. 0 \in 0..o /\ \A n \in 1..o : n \in 0..o /\ n # 0
  BY <1>1
<1>5. h[0] = first /\ \A n \in 1..o : h[n] = TakeNext(text, h[n - 1])
  BY <1>2, <1>4 DEF ReadBy
<1> DEFINE P(n) == Reads(h[n], text, list) /\ n <= h[n].at
           S == {n \in 0..o : ~P(n)}
<1>6. \A n \in 0..o : Reads(h[n], text, list) => h[n].at \in Nat /\ h[n].at <= o
  BY DEF Reads, Readings
<1>7. S = {}
  <2>1. SUFFICES ASSUME S # {} PROVE FALSE
    OBVIOUS
  <2>2. PICK k \in S : \A g \in S : k <= g
    <3>1. S \in SUBSET Nat
      BY <1>1
    <3> HIDE DEF S
    <3>2. QED
      BY <2>1, <3>1, MinExists
  <2>3. k \in 0..o /\ ~P(k)
    BY <2>2
  <2>4. k # 0
    <3>1. first.at \in Nat
      BY DEF Reads, Readings
    <3>2. P(0)
      BY <1>5, <3>1
    <3>3. QED
      BY <2>3, <3>2
  <2>5. k \in 1..o /\ k - 1 \in 0..o /\ ~(k <= k - 1) /\ k \in Nat
    BY <1>1, <2>3, <2>4
  <2>6. P(k - 1)
    <3>1. k - 1 \notin S
      BY <2>2, <2>5
    <3>2. QED
      BY <2>5, <3>1
  <2> DEFINE q == h[k - 1]
  <2>7. Reads(q, text, list) /\ k - 1 <= q.at /\ q.at \in Nat /\ q.at <= o
    BY <1>6, <2>5, <2>6
  <2>8. h[k] = TakeNext(text, q)
    BY <1>5, <2>5
  <2> HIDE DEF q
  <2>9. CASE q.at = o
    <3>1. h[k] = q
      BY <2>8, <2>9 DEF TakeNext
    <3>2. k <= q.at
      BY <2>5, <2>9
    <3>3. QED
      BY <2>3, <2>7, <3>1, <3>2
  <2>10. CASE q.at # o
    <3>1. q.at < o
      BY <1>1, <2>7, <2>10
    <3>2. Reads(h[k], text, list) /\ h[k].at > q.at
      BY <2>7, <2>8, <3>1, TakeNextReads
    <3>3. h[k].at \in Nat
      BY <1>6, <2>3, <3>2
    <3>4. k <= h[k].at
      BY <2>5, <2>7, <3>2, <3>3
    <3>5. QED
      BY <2>3, <3>2, <3>4
  <2>11. QED
    BY <2>9, <2>10
<1>8. o \in 0..o
  BY <1>1
<1>9. P(o)
  BY <1>7, <1>8
<1>10. h[o].at \in Nat /\ h[o].at <= o /\ o <= h[o].at
  BY <1>6, <1>8, <1>9
<1>11. h[o].at = o
  BY <1>1, <1>10
<1>12. QED
  BY <1>3, <1>9, <1>11

\* A whole file read, from any list of users of which none is there twice.
LEMMA FileIsRead ==
    ASSUME NEW text \in Seq(Char), NEW list \in Lists, Once(list)
    PROVE  LET r == TakeAll(text, Before(list))
           IN /\ r.users \in Lists /\ r.inactive \in Lists
              /\ Once(r.users) /\ Once(r.inactive) /\ Apart(r.users, r.inactive)
              /\ Logins(r.users) = {Shortened(l) : l \in LinesOf(text)}
              /\ Running(r.users) \cup Running(r.inactive) = Running(list)
<1> DEFINE f == Before(list)
           r == TakeAll(text, f)
<1>1. Reads(f, text, list)
  <2>1. f.users = << >> /\ f.inactive = list /\ f.consume = FALSE /\ f.at = 0
    BY DEF Before
  <2>2. f \in Readings
    BY DEF Before, Readings, Lists
  <2>3. Len(<< >>) = 0 /\ 1..0 = {}
    OBVIOUS
  <2>4. Logins(<< >>) = {} /\ Running(<< >>) = {} /\ Once(<< >>)
    BY <2>3 DEF Logins, Running, Once
  <2>5. {LoginAt(text, b) : b \in {c \in Begins(text) : c < 0}} = {}
    <3>1. {c \in Begins(text) : c < 0} = {}
      BY DEF Begins
    <3>2. QED
      BY <3>1
  <2>6. 0 <= Len(text) /\ ~(0 > 0)
    OBVIOUS
  <2> HIDE DEF f
  <2>7. Apart(f.users, f.inactive)
    BY <2>1, <2>4 DEF Apart
  <2>8. QED
    BY <2>1, <2>2, <2>4, <2>5, <2>6, <2>7 DEF Reads
<1>2. Reads(r, text, list) /\ r.at = Len(text)
  BY <1>1, TakeAllReads
<1>3. {c \in Begins(text) : c < Len(text)} = Begins(text)
  BY DEF Begins
<1> HIDE DEF r
<1>4. Logins(r.users) = {LoginAt(text, b) : b \in Begins(text)}
  BY <1>2, <1>3 DEF Reads
<1>5. Logins(r.users) = {Shortened(l) : l \in LinesOf(text)}
  BY <1>4, LinesAreRead
<1>6. r.users \in Lists /\ r.inactive \in Lists
  BY <1>2 DEF Reads, Readings
<1>7. QED
  BY <1>2, <1>5, <1>6 DEF Reads, r
-----------------------------------------------------------------------------
(* The users and their processes                                           *)

ListsOK ==
    /\ users \in Lists /\ inactive \in Lists /\ file \in Seq(Char)
    /\ Once(users) /\ Once(inactive) /\ Apart(users, inactive)
    /\ Logins(users) = {Shortened(l) : l \in LinesOf(file)}

\* The processes that run are those of the lists, one for each number.
ChildrenOK ==
    /\ Running(users) \cup Running(inactive) = spawned
    /\ \A a, b \in spawned : a.pid = b.pid => a = b

UsersInv == ListsOK /\ ChildrenOK

\* A list after db_start_process or db_end_process of its user k.
WithPid(v, u, k, pid) == v = [u EXCEPT ![k].pid = pid]

LEMMA PidSet ==
    ASSUME NEW u \in Lists, NEW k \in 1..Len(u), NEW pid \in Pids \cup {0},
           NEW v, WithPid(v, u, k, pid)
    PROVE  LET a == User(u[k].login, pid)
           IN /\ v \in Lists /\ Logins(v) = Logins(u)
              /\ Once(u) => /\ Once(v)
                            /\ Running(v) = (Running(u) \ {u[k]})
                                               \cup (IF pid = 0 THEN {} ELSE {a})
<1> DEFINE n == Len(u)
           a == User(u[k].login, pid)
<1>1. n \in Nat /\ u[k] \in Entries
  BY DEF Lists
<1>2. a \in Entries /\ a.login = u[k].login /\ a.pid = pid
  BY <1>1 DEF User, Entries
<1>3. [u[k] EXCEPT !.pid = pid] = a
  BY <1>1 DEF User, Entries
<1>4. v = [u EXCEPT ![k] = a]
  BY <1>3 DEF WithPid
<1> HIDE DEF a
<1>5. v \in Lists /\ Len(v) = n
  BY <1>2, <1>4 DEF Lists
<1>6. v[k] = a /\ \A i \in (1..n) \ {k} : v[i] = u[i]
  BY <1>4 DEF Lists
<1>7. \A i \in 1..n : v[i].login = u[i].login
  BY <1>2, <1>6
<1>8. Logins(v) = Logins(u)
  BY <1>5, <1>7 DEF Logins
<1>9. ASSUME Once(u)
      PROVE  Once(v)
  BY <1>5, <1>7, <1>9 DEF Once
<1>10. ASSUME Once(u)
       PROVE  Running(v) = (Running(u) \ {u[k]}) \cup (IF pid = 0 THEN {} ELSE {a})
  <2> DEFINE E == {u[i] : i \in 1..n}
             F == {v[i] : i \in 1..n}
  <2>1. F = (E \ {u[k]}) \cup {a}
    <3>1. \A i \in (1..n) \ {k} : u[i] # u[k]
      BY <1>10 DEF Once
    <3>2. QED
      BY <1>6, <3>1
  <2>2. Running(u) = {b \in E : b.pid # 0} /\ Running(v) = {b \in F : b.pid # 0}
    BY <1>5 DEF Running
  <2> HIDE DEF E, F
  <2>3. QED
    BY <1>2, <2>1, <2>2
<1>11. QED
  BY <1>5, <1>8, <1>9, <1>10 DEF a

LEMMA DbFirst == DbInit => UsersInv
<1> SUFFICES ASSUME DbInit PROVE UsersInv
  OBVIOUS
<1> DEFINE r == TakeAll(file, Before(<< >>))
<1>1. file \in Seq(Char) /\ users = r.users /\ inactive = << >> /\ spawned = {}
  BY DbAssumption DEF DbInit
<1>2. /\ << >> \in Lists /\ Once(<< >>)
      /\ Logins(<< >>) = {} /\ Running(<< >>) = {}
  <2>1. Len(<< >>) = 0 /\ 1..0 = {} /\ << >> \in Lists
    BY DEF Lists
  <2>2. QED
    BY <2>1 DEF Logins, Running, Once
<1>3. /\ r.users \in Lists /\ Once(r.users)
      /\ Logins(r.users) = {Shortened(l) : l \in LinesOf(file)}
      /\ Running(r.users) \cup Running(r.inactive) = Running(<< >>)
  BY <1>1, <1>2, FileIsRead
<1> HIDE DEF r
<1>4. ListsOK
  BY <1>1, <1>2, <1>3 DEF ListsOK, Apart
<1>5. ChildrenOK
  BY <1>1, <1>2, <1>3 DEF ChildrenOK
<1>6. QED
  BY <1>4, <1>5 DEF UsersInv

LEMMA DbSteps == UsersInv /\ [DbNext]_db => UsersInv'
<1> SUFFICES ASSUME UsersInv, [DbNext]_db PROVE UsersInv'
  OBVIOUS
<1>1. ListsOK /\ ChildrenOK
  BY DEF UsersInv
<1>2. /\ users \in Lists /\ inactive \in Lists /\ file \in Seq(Char)
      /\ Once(users) /\ Once(inactive) /\ Apart(users, inactive)
      /\ Logins(users) = {Shortened(l) : l \in LinesOf(file)}
  BY <1>1 DEF ListsOK
<1>3. /\ Running(users) \cup Running(inactive) = spawned
      /\ \A a, b \in spawned : a.pid = b.pid => a = b
  BY <1>1 DEF ChildrenOK
<1>4. ASSUME DbReload
      PROVE  UsersInv'
  <2> DEFINE list == inactive \o users
  <2>1. PICK text \in Files \cup {Default} :
          Read(text) /\ file' = text /\ spawned' = spawned
    BY <1>4 DEF DbReload
  <2>2. text \in Seq(Char)
    BY DbAssumption
  <2>3. list \in Lists /\ Once(list) /\ Running(list) = spawned
    <3>1. Apart(inactive, users)
      BY <1>2 DEF Apart
    <3>2. list \in Lists /\ Running(list) = Running(inactive) \cup Running(users)
      BY <1>2, Joined
    <3>3. Once(list)
      BY <1>2, <3>1, Joined
    <3>4. QED
      BY <1>3, <3>2, <3>3
  <2> DEFINE r == TakeAll(text, Before(list))
  <2>4. users' = r.users /\ inactive' = r.inactive
    BY <2>1 DEF Read
  <2> HIDE DEF list
  <2>5. /\ r.users \in Lists /\ r.inactive \in Lists
        /\ Once(r.users) /\ Once(r.inactive) /\ Apart(r.users, r.inactive)
        /\ Logins(r.users) = {Shortened(l) : l \in LinesOf(text)}
        /\ Running(r.users) \cup Running(r.inactive) = Running(list)
    BY <2>2, <2>3, FileIsRead
  <2> HIDE DEF r
  <2>6. ListsOK'
    BY <2>1, <2>2, <2>4, <2>5 DEF ListsOK
  <2>7. ChildrenOK'
    BY <1>3, <2>1, <2>3, <2>4, <2>5 DEF ChildrenOK
  <2>8. QED
    BY <2>6, <2>7 DEF UsersInv
<1>5. ASSUME NEW pid \in Pids, StartProcess(pid)
      PROVE  UsersInv'
  <2>1. PICK i \in DOMAIN users :
          /\ users[i].pid = 0
          /\ users' = [users EXCEPT ![i].pid = pid]
          /\ spawned' = spawned \cup {User(users[i].login, pid)}
    BY <1>5 DEF StartProcess
  <2> DEFINE a == User(users[i].login, pid)
  <2>2. inactive' = inactive /\ file' = file /\ \A b \in spawned : b.pid # pid
    BY <1>5 DEF StartProcess
  <2>3. i \in 1..Len(users) /\ pid # 0 /\ a.pid = pid
    BY <1>2, DbAssumption DEF Lists, User
  <2>4. /\ users' \in Lists /\ Logins(users') = Logins(users) /\ Once(users')
        /\ Running(users') = (Running(users) \ {users[i]}) \cup {a}
    <3>1. pid \in Pids \cup {0} /\ WithPid(users', users, i, pid)
      BY <2>1 DEF WithPid
    <3>2. /\ users' \in Lists /\ Logins(users') = Logins(users)
          /\ Once(users) => /\ Once(users')
                            /\ Running(users') = (Running(users) \ {users[i]})
                                   \cup (IF pid = 0 THEN {} ELSE {a})
      BY <1>2, <2>3, <3>1, PidSet
    <3> HIDE DEF a
    <3>3. QED
      BY <1>2, <2>3, <3>2
  <2>5. users[i] \notin Running(users)
    BY <2>1 DEF Running
  <2> HIDE DEF a
  <2>6. ListsOK'
    BY <1>2, <2>2, <2>4 DEF ListsOK, Apart
  <2>7. ChildrenOK'
    <3>1. spawned' = spawned \cup {a}
      BY <2>1 DEF a
    <3>2. Running(users') \cup Running(inactive') = spawned'
      BY <1>3, <2>2, <2>4, <2>5, <3>1
    <3>3. \A b, c \in spawned' : b.pid = c.pid => b = c
      BY <1>3, <2>2, <2>3, <3>1
    <3>4. QED
      BY <3>2, <3>3 DEF ChildrenOK
  <2>8. QED
    BY <2>6, <2>7 DEF UsersInv
<1>6. ASSUME NEW pid \in Pids, EndProcess(pid)
      PROVE  UsersInv'
  <2> DEFINE u == FindPid(users, pid)
             v == FindPid(inactive, pid)
  <2>1. /\ spawned' = {b \in spawned : b.pid # pid}
        /\ users' = IF u > 0 THEN [users EXCEPT ![u].pid = 0] ELSE users
        /\ inactive' = IF u = 0 /\ v > 0 THEN [inactive EXCEPT ![v].pid = 0] ELSE inactive
        /\ file' = file
    BY <1>6 DEF EndProcess
  <2>2. PICK a \in spawned : a.pid = pid
    BY <1>6 DEF EndProcess
  <2>3. pid # 0 /\ Len(users) \in Nat /\ Len(inactive) \in Nat
    BY <1>2, DbAssumption DEF Lists
  <2>4. /\ u \in 0..Len(users) /\ (u > 0 => users[u].pid = pid)
        /\ u = 0 => \A j \in 1..Len(users) : users[j].pid # pid
    BY <1>2, FindsPid
  <2>5. /\ v \in 0..Len(inactive) /\ (v > 0 => inactive[v].pid = pid)
        /\ v = 0 => \A j \in 1..Len(inactive) : inactive[j].pid # pid
    BY <1>2, FindsPid
  <2> HIDE DEF u, v
  <2>6. spawned' = spawned \ {a}
    BY <1>3, <2>1, <2>2
  <2>7. \A b, c \in spawned' : b.pid = c.pid => b = c
    BY <1>3, <2>6
  <2>8. CASE u > 0
    <3>1. u \in 1..Len(users) /\ u # 0
      BY <2>3, <2>4, <2>8
    <3>2. users[u] \in Running(users) /\ users[u].login \in Logins(users)
      BY <2>3, <2>4, <2>8, <3>1 DEF Running, Logins
    <3>3. users[u] = a
      BY <1>3, <2>2, <2>4, <2>8, <3>2
    <3>4. a \notin Running(inactive)
      BY <1>2, <3>2, <3>3 DEF Apart, Running, Logins
    <3>5. users' = [users EXCEPT ![u].pid = 0] /\ inactive' = inactive
      BY <2>1, <2>8, <3>1
    <3>6. /\ users' \in Lists /\ Logins(users') = Logins(users) /\ Once(users')
          /\ Running(users') = Running(users) \ {a}
      <4>1. 0 \in Pids \cup {0} /\ WithPid(users', users, u, 0)
        BY <3>5 DEF WithPid
      <4>2. /\ users' \in Lists /\ Logins(users') = Logins(users)
            /\ Once(users) => /\ Once(users')
                             /\ Running(users') = (Running(users) \ {users[u]})
                                   \cup (IF 0 = 0 THEN {} ELSE {User(users[u].login, 0)})
        BY <1>2, <3>1, <4>1, PidSet
      <4>3. QED
        BY <1>2, <3>3, <4>2
    <3>7. ListsOK'
      BY <1>2, <2>1, <3>5, <3>6 DEF ListsOK, Apart
    <3>8. Running(users') \cup Running(inactive') = spawned'
      BY <1>3, <2>6, <3>4, <3>5, <3>6
    <3>9. QED
      BY <2>7, <3>7, <3>8 DEF UsersInv, ChildrenOK
  <2>9. CASE u = 0
    <3>1. a \notin Running(users)
      BY <2>2, <2>4, <2>9 DEF Running
    <3>2. a \in Running(inactive)
      BY <1>3, <3>1
    <3>3. v \in 1..Len(inactive) /\ v > 0
      <4>1. v # 0
        BY <2>2, <2>5, <3>2 DEF Running
      <4>2. QED
        BY <2>3, <2>5, <4>1
    <3>4. inactive[v] \in Running(inactive)
      BY <2>3, <2>5, <3>3 DEF Running
    <3>5. inactive[v] = a
      BY <1>3, <2>2, <2>5, <3>3, <3>4
    <3>6. inactive' = [inactive EXCEPT ![v].pid = 0] /\ users' = users
      BY <2>1, <2>9, <3>3
    <3>7. /\ inactive' \in Lists /\ Logins(inactive') = Logins(inactive)
          /\ Once(inactive')
          /\ Running(inactive') = Running(inactive) \ {a}
      <4>1. 0 \in Pids \cup {0} /\ WithPid(inactive', inactive, v, 0)
        BY <3>6 DEF WithPid
      <4>2. /\ inactive' \in Lists /\ Logins(inactive') = Logins(inactive)
            /\ Once(inactive) => /\ Once(inactive')
                             /\ Running(inactive') = (Running(inactive) \ {inactive[v]})
                                   \cup (IF 0 = 0 THEN {} ELSE {User(inactive[v].login, 0)})
        BY <1>2, <3>3, <4>1, PidSet
      <4>3. QED
        BY <1>2, <3>5, <4>2
    <3>8. ListsOK'
      BY <1>2, <2>1, <3>6, <3>7 DEF ListsOK, Apart
    <3>9. Running(users') \cup Running(inactive') = spawned'
      BY <1>3, <2>6, <3>1, <3>6, <3>7
    <3>10. QED
      BY <2>7, <3>8, <3>9 DEF UsersInv, ChildrenOK
  <2>10. QED
    BY <2>3, <2>4, <2>8, <2>9
<1>7. CASE UNCHANGED db
  BY <1>2, <1>3, <1>7 DEF db, UsersInv, ListsOK, ChildrenOK
<1>8. QED
  BY <1>4, <1>5, <1>6, <1>7 DEF DbNext

LEMMA DbLists == UsersInv => UsersKept
<1> SUFFICES ASSUME UsersInv PROVE UsersKept
  OBVIOUS
<1> DEFINE all == users \o inactive
<1>1. /\ users \in Lists /\ inactive \in Lists
      /\ Once(users) /\ Once(inactive) /\ Apart(users, inactive)
      /\ Logins(users) = {Shortened(l) : l \in LinesOf(file)}
      /\ Running(users) \cup Running(inactive) = spawned
  BY DEF UsersInv, ListsOK, ChildrenOK
<1>2. all \in Lists /\ Once(all) /\ Running(all) = spawned
  BY <1>1, Joined
<1>3. DOMAIN users = 1..Len(users) /\ DOMAIN all = 1..Len(all)
  BY <1>1, <1>2 DEF Lists
<1> HIDE DEF all
<1>4. {users[i].login : i \in DOMAIN users} = {Shortened(l) : l \in LinesOf(file)}
  BY <1>1, <1>3 DEF Logins
<1>5. \A i, j \in DOMAIN all : all[i].login = all[j].login => i = j
  BY <1>2, <1>3 DEF Once
<1>6. LoginsOfFile
  BY <1>4, <1>5 DEF LoginsOfFile, all
<1>7. \A a \in spawned : \E i \in DOMAIN all : all[i] = a
  BY <1>2, <1>3 DEF Running
<1>8. \A i \in DOMAIN all : all[i].pid # 0 => all[i] \in spawned
  BY <1>2, <1>3 DEF Running
<1>9. QED
  BY <1>6, <1>7, <1>8 DEF UsersKept, ProcessesFound, all

\* After any history of reloads, starts and ends of children, the current users
\* are the lines of the file, cut to LOGIN_LEN, no login is there twice, and a
\* child that runs is found under the login it was started for, whatever the
\* contents of the file, the length of a login and the number of reloads
\* (db.c:78-219).
THEOREM Users == DbSpec => []UsersKept
<1>1. DbInit => UsersInv
  BY DbFirst
<1>2. UsersInv /\ [DbNext]_db => UsersInv'
  BY DbSteps
<1>3. UsersInv => UsersKept
  BY DbLists
<1>4. QED
  BY <1>1, <1>2, <1>3, PTL DEF DbSpec
=============================================================================
