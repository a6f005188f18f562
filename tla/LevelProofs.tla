---------------------------- MODULE LevelProofs ----------------------------
(***************************************************************************)
(* What a level promises, for all values of the constants: its clock with  *)
(* any limit, pause interval and number of connections (module LevelClock), *)
(* the generator of its maze with any width, height and number of holes    *)
(* (module Generator), what its players are told on any ground (module     *)
(* SimpleLevel), and how their programs read it from pieces of any length  *)
(* (module MazeLib).                                                       *)
(***************************************************************************)
EXTENDS LevelClock, Generator, SimpleLevel, MazeLib, FunctionTheorems, FiniteSetTheorems,
        SequenceTheorems, TLAPS

-----------------------------------------------------------------------------
(* The arithmetic of server/time.c                                         *)

LEMMA Product == \A a, b \in Nat \ {0} : a * b \in Nat \ {0}
OBVIOUS

LEMMA ProductNat == \A a, b \in Nat : a * b \in Nat
OBVIOUS

LEMMA ProductInt == \A a, b \in Int : a * b \in Int
OBVIOUS

LEMMA Grows == \A a \in Nat : \A b, c \in Int : b <= c => a * b <= a * c
OBVIOUS

LEMMA Commutes == \A a, b \in Int : a * b = b * a
OBVIOUS

LEMMA Division ==
    ASSUME NEW a \in Int, NEW b \in Nat \ {0}
    PROVE  /\ a \div b \in Int /\ a % b \in Int
           /\ a >= 0 => a \div b >= 0
OBVIOUS

LEMMA WholeType == Whole \in Nat \ {0}
BY TimeAssumption, Product DEF Whole

LEMMA DivMod ==
    ASSUME NEW a \in Int, NEW b \in Nat \ {0}
    PROVE  /\ a \div b \in Int /\ a % b \in 0..(b - 1)
           /\ a = b * (a \div b) + (a % b)
OBVIOUS

\* A quotient of C is off by less than the divisor, towards zero.
LEMMA QuotBounds ==
    ASSUME NEW a \in Int, NEW b \in Nat \ {0}
    PROVE  /\ Quot(a, b) \in Int
           /\ a - b < b * Quot(a, b) /\ b * Quot(a, b) < a + b
           /\ a >= 0 => Quot(a, b) >= 0 /\ b * Quot(a, b) <= a
<1> DEFINE q == a \div b
           c == -a
           r == c \div b
<1>1. CASE a >= 0
  <2>1. q \in Int /\ a % b \in 0..(b - 1) /\ a = b * q + (a % b) /\ q >= 0
    BY <1>1, DivMod, Division
  <2>2. Quot(a, b) = q
    BY <1>1 DEF Quot
  <2>3. b * q \in Int
    BY <2>1, ProductInt
  <2> HIDE DEF q
  <2> DEFINE m == a % b
             p == b * q
  <2>4. m \in 0..(b - 1) /\ a = p + m /\ p \in Int
    BY <2>1, <2>3
  <2> HIDE DEF m, p
  <2>5. a - b < p /\ p < a + b /\ p <= a
    BY <2>4
  <2>6. QED
    BY <2>1, <2>2, <2>5 DEF p
<1>2. CASE ~(a >= 0)
  <2>1. c \in Int
    OBVIOUS
  <2>2. r \in Int /\ c % b \in 0..(b - 1) /\ c = b * r + (c % b)
    BY <2>1, DivMod
  <2>3. Quot(a, b) = -r
    BY <1>2 DEF Quot
  <2>4. b * r \in Int /\ b * (-r) = -(b * r)
    BY <2>2
  <2>5. c = -a
    OBVIOUS
  <2> DEFINE m == c % b
             p == b * r
  <2>6. m \in 0..(b - 1) /\ c = p + m /\ p \in Int
    BY <2>2, <2>4
  <2>7. b * (-r) = -p
    BY <2>4
  <2>8. -r \in Int
    BY <2>2
  <2> HIDE DEF c, r, m, p
  <2>9. a - b < -p /\ -p < a + b
    BY <2>5, <2>6
  <2>10. QED
    BY <1>2, <2>3, <2>7, <2>8, <2>9
<1>3. QED
  BY <1>1, <1>2

LEMMA RestBounds ==
    ASSUME NEW a \in Int, NEW b \in Nat \ {0}
    PROVE  /\ Rest(a, b) \in Int /\ -b < Rest(a, b) /\ Rest(a, b) < b
           /\ a = b * Quot(a, b) + Rest(a, b)
<1> DEFINE p == b * Quot(a, b)
<1>1. Quot(a, b) \in Int /\ a - b < p /\ p < a + b
  BY QuotBounds
<1>2. p \in Int
  BY <1>1, ProductInt
<1>3. Rest(a, b) = a - p
  BY DEF Rest
<1> HIDE DEF p
<1>4. /\ Rest(a, b) \in Int /\ -b < Rest(a, b) /\ Rest(a, b) < b
      /\ a = p + Rest(a, b)
  BY <1>1, <1>2, <1>3
<1>5. QED
  BY <1>4 DEF p

\* What clock_gettime returns stands for its instant.
LEMMA StampInstant ==
    ASSUME NEW t \in Int
    PROVE  Stamp(t) \in Timespec /\ Instant(Stamp(t)) = t
<1> DEFINE q == t \div Whole
           m == t % Whole
<1>1. q \in Int /\ m \in 0..(Whole - 1) /\ t = Whole * q + m
  BY DivMod, WholeType
<1>2. Stamp(t) = [sec |-> q, nsec |-> m]
  BY DEF Stamp
<1> HIDE DEF q, m
<1>3. Stamp(t) \in Timespec
  BY <1>1, <1>2 DEF Timespec
<1>4. Instant(Stamp(t)) = q * Whole + m
  BY <1>2 DEF Instant
<1>5. q * Whole = Whole * q
  BY <1>1, WholeType
<1>6. QED
  BY <1>1, <1>3, <1>4, <1>5

\* time_add normalises again, and moves the instant by exactly ms.
LEMMA TimeAddInstant ==
    ASSUME NEW tp \in Timespec, NEW ms \in Int
    PROVE  /\ TimeAdd(tp, ms) \in Timespec
           /\ Instant(TimeAdd(tp, ms)) = Instant(tp) + ms * Sub
<1> DEFINE r == Rest(ms, Sec)
           q == Quot(ms, Sec)
           c == r * Sub
           u == tp.nsec
           e == tp.sec
           nsec == u + c
           secs == e + q
<1>1. /\ q \in Int /\ r \in Int /\ -Sec < r /\ r < Sec /\ ms = Sec * q + r
  BY RestBounds, QuotBounds, TimeAssumption
<1>2. u \in 0..(Whole - 1) /\ e \in Int
  BY DEF Timespec
<1>3. TimeAdd(tp, ms) = IF nsec >= Whole THEN [sec |-> secs + 1, nsec |-> nsec - Whole]
                        ELSE IF nsec < 0 THEN [sec |-> secs - 1, nsec |-> nsec + Whole]
                        ELSE [sec |-> secs, nsec |-> nsec]
  BY DEF TimeAdd
<1>4. Instant(tp) = e * Whole + u
  BY DEF Instant
<1> HIDE DEF r, q, u, e
<1>5. c \in Int /\ -Whole < c /\ c < Whole
  <2>1. Sub * r <= Sub * (Sec - 1) /\ Sub * (1 - Sec) <= Sub * r
    BY <1>1, TimeAssumption, Grows
  <2>2. /\ Sub * (Sec - 1) = Sec * Sub - Sub /\ Sub * (1 - Sec) = Sub - Sec * Sub
        /\ Sub * r = r * Sub /\ r * Sub \in Int /\ Sec * Sub \in Int
    BY <1>1, TimeAssumption
  <2> DEFINE y == Sub * (Sec - 1)
             z == Sub * (1 - Sec)
             w == Sec * Sub
  <2>3. c <= y /\ z <= c /\ y = w - Sub /\ z = Sub - w /\ c \in Int /\ w \in Int
    BY <2>1, <2>2
  <2>4. Whole = w
    BY DEF Whole
  <2> HIDE DEF y, z, w, c
  <2>5. QED
    BY <2>3, <2>4, TimeAssumption
<1>6. q * Whole + c = ms * Sub
  <2>1. q * (Sec * Sub) + r * Sub = (Sec * q + r) * Sub
    BY <1>1, TimeAssumption
  <2>2. QED
    BY <1>1, <2>1 DEF Whole, c
<1> HIDE DEF c
<1>7. Whole \in Nat
  BY WholeType
<1>8. ASSUME NEW k \in {-1, 0, 1}
      PROVE  (secs + k) * Whole + (nsec - k * Whole) = Instant(tp) + ms * Sub
  <2>1. (e + q + k) * Whole = e * Whole + q * Whole + k * Whole
    BY <1>1, <1>2, <1>7
  <2> DEFINE x == e * Whole
             y == q * Whole
             z == k * Whole
  <2>2. x \in Int /\ y \in Int /\ z \in Int
    BY <1>1, <1>2, <1>7
  <2>3. (secs + k) * Whole = x + y + z
    BY <2>1
  <2>4. Instant(tp) = x + u /\ y + c = ms * Sub
    BY <1>4, <1>6
  <2> HIDE DEF x, y
  <2>5. x + y + z + (nsec - z) = x + u + (y + c)
    BY <1>2, <1>5, <2>2
  <2>6. QED
    BY <2>3, <2>4, <2>5
<1>9. CASE nsec >= Whole
  <2>1. TimeAdd(tp, ms) = [sec |-> secs + 1, nsec |-> nsec - Whole]
    BY <1>3, <1>9
  <2>2. secs + 1 \in Int /\ nsec - Whole \in 0..(Whole - 1)
    BY <1>1, <1>2, <1>5, <1>7, <1>9
  <2>3. (secs + 1) * Whole + (nsec - 1 * Whole) = Instant(tp) + ms * Sub
    BY <1>8
  <2>4. 1 * Whole = Whole
    BY <1>7
  <2> HIDE DEF secs, nsec
  <2>5. QED
    BY <2>1, <2>2, <2>3, <2>4 DEF Timespec, Instant
<1>10. CASE nsec < 0
  <2>1. TimeAdd(tp, ms) = [sec |-> secs - 1, nsec |-> nsec + Whole]
    <3>1. nsec \in Int
      BY <1>2, <1>5
    <3> HIDE DEF nsec, secs
    <3>2. ~(nsec >= Whole)
      BY <1>7, <1>10, <3>1
    <3>3. QED
      BY <1>3, <1>10, <3>2
  <2>2. secs - 1 \in Int /\ nsec + Whole \in 0..(Whole - 1)
    BY <1>1, <1>2, <1>5, <1>7, <1>10
  <2>3. (secs + (-1)) * Whole + (nsec - (-1) * Whole) = Instant(tp) + ms * Sub
    BY <1>8
  <2>4. /\ secs + (-1) = secs - 1 /\ (-1) * Whole = -Whole
        /\ nsec - (-Whole) = nsec + Whole
    BY <1>1, <1>2, <1>5, <1>7
  <2> HIDE DEF secs, nsec
  <2>5. QED
    BY <2>1, <2>2, <2>3, <2>4 DEF Timespec, Instant
<1>11. CASE ~(nsec >= Whole) /\ ~(nsec < 0)
  <2>1. TimeAdd(tp, ms) = [sec |-> secs, nsec |-> nsec]
    BY <1>3, <1>11
  <2>2. secs \in Int /\ nsec \in 0..(Whole - 1)
    BY <1>1, <1>2, <1>5, <1>7, <1>11
  <2>3. (secs + 0) * Whole + (nsec - 0 * Whole) = Instant(tp) + ms * Sub
    BY <1>8
  <2>4. secs + 0 = secs /\ nsec - 0 * Whole = nsec
    BY <1>7, <2>2
  <2> HIDE DEF secs, nsec
  <2>5. QED
    BY <2>1, <2>2, <2>3, <2>4 DEF Timespec, Instant
<1>12. QED
  BY <1>9, <1>10, <1>11

\* time_diff gains less than a millisecond.
\* The milliseconds of time_diff are off by less than one.
LEMMA TimeDiffBounds ==
    ASSUME NEW a \in Timespec, NEW b \in Timespec
    PROVE  /\ TimeDiff(a, b) \in Int /\ Instant(a) \in Int /\ Instant(b) \in Int
           /\ TimeDiff(a, b) * Sub \in Int
           /\ TimeDiff(a, b) * Sub < Instant(a) - Instant(b) + Sub
           /\ Instant(a) - Instant(b) < TimeDiff(a, b) * Sub + Sub
<1> DEFINE d == a.sec - b.sec
           e == a.nsec - b.nsec
           q == Quot(e, Sub)
<1>1. /\ a.sec \in Int /\ b.sec \in Int /\ a.nsec \in Int /\ b.nsec \in Int
      /\ d \in Int /\ e \in Int
  BY DEF Timespec
<1>2. TimeDiff(a, b) = d * Sec + q
  BY DEF TimeDiff
<1>3. /\ Instant(a) \in Int /\ Instant(b) \in Int
      /\ Instant(a) - Instant(b) = d * Whole + e
  <2>1. d * Whole = a.sec * Whole - b.sec * Whole
    BY <1>1, WholeType
  <2> DEFINE x == a.sec * Whole
             y == b.sec * Whole
  <2>2. x \in Int /\ y \in Int /\ d * Whole = x - y
    BY <1>1, <2>1, WholeType
  <2>3. Instant(a) = x + a.nsec /\ Instant(b) = y + b.nsec
    BY DEF Instant
  <2> HIDE DEF x, y, d
  <2>4. QED
    BY <1>1, <2>2, <2>3
<1> HIDE DEF d, e
<1>4. q \in Int /\ e - Sub < Sub * q /\ Sub * q < e + Sub
  BY <1>1, QuotBounds, TimeAssumption
<1> HIDE DEF q
<1>5. (d * Sec + q) * Sub = d * Whole + Sub * q
  <2>1. (d * Sec + q) * Sub = d * (Sec * Sub) + Sub * q
    BY <1>1, <1>4, TimeAssumption
  <2>2. QED
    BY <2>1 DEF Whole
<1> DEFINE x == d * Whole
           y == Sub * q
<1>6. x \in Int /\ y \in Int /\ d * Sec + q \in Int
  BY <1>1, <1>4, WholeType, TimeAssumption
<1>7. /\ (d * Sec + q) * Sub = x + y /\ Instant(a) - Instant(b) = x + e
      /\ e - Sub < y /\ y < e + Sub
  BY <1>3, <1>4, <1>5
<1> HIDE DEF x, y
<1>8. x + y < x + e + Sub /\ x + e < x + y + Sub /\ x + e \in Int /\ x + y \in Int
  BY <1>1, <1>6, <1>7, TimeAssumption
<1>9. QED
  BY <1>2, <1>3, <1>6, <1>7, <1>8

\* time_after compares the instants.
LEMMA AfterIs ==
    ASSUME now \in Nat, NEW tp \in Timespec
    PROVE  TimeAfter(tp) <=> now > Instant(tp)
<1> DEFINE n == Stamp(now)
           x == n.sec * Whole
           y == tp.sec * Whole
<1>1. n \in Timespec /\ Instant(n) = now
  BY StampInstant
<1> HIDE DEF n
<1>2. /\ n.sec \in Int /\ tp.sec \in Int
      /\ n.nsec \in 0..(Whole - 1) /\ tp.nsec \in 0..(Whole - 1)
  BY <1>1 DEF Timespec
<1>3. now = x + n.nsec /\ Instant(tp) = y + tp.nsec
  BY <1>1 DEF Instant
<1>4. TimeAfter(tp) <=> n.sec > tp.sec \/ (n.sec = tp.sec /\ n.nsec > tp.nsec)
  BY DEF TimeAfter, n
<1>5. x \in Int /\ y \in Int
  BY <1>2, WholeType
<1>6. n.sec > tp.sec => x >= y + Whole
  <2> SUFFICES ASSUME n.sec > tp.sec PROVE x >= y + Whole
    OBVIOUS
  <2>1. Whole * (tp.sec + 1) <= Whole * n.sec
    BY <1>2, WholeType, Grows
  <2>2. Whole * (tp.sec + 1) = y + Whole /\ Whole * n.sec = x
    BY <1>2, WholeType
  <2>3. QED
    BY <2>1, <2>2, <1>5, WholeType
<1>7. n.sec < tp.sec => y >= x + Whole
  <2> SUFFICES ASSUME n.sec < tp.sec PROVE y >= x + Whole
    OBVIOUS
  <2>1. Whole * (n.sec + 1) <= Whole * tp.sec
    BY <1>2, WholeType, Grows
  <2>2. Whole * (n.sec + 1) = x + Whole /\ Whole * tp.sec = y
    BY <1>2, WholeType
  <2>3. QED
    BY <2>1, <2>2, <1>5, WholeType
<1>8. n.sec = tp.sec => x = y
  OBVIOUS
<1> HIDE DEF x, y
<1>9. QED
  BY <1>2, <1>3, <1>4, <1>5, <1>6, <1>7, <1>8, WholeType

\* time_from_now is exact.
LEMMA FromNowIs ==
    ASSUME now \in Nat, NEW ms \in Nat
    PROVE  /\ TimeFromNow(ms) \in Timespec
           /\ Instant(TimeFromNow(ms)) = now + ms * Sub
BY StampInstant, TimeAddInstant DEF TimeFromNow

\* time_left rounds up or down, and never beyond a whole number of
\* milliseconds.
LEMMA LeftIs ==
    ASSUME now \in Nat, NEW tp \in Timespec
    PROVE  /\ Instant(tp) \in Int /\ TimeLeft(tp) \in Nat
           /\ TimeLeft(tp) * Sub \in Nat
           /\ TimeLeft(tp) # 0 => TimeLeft(tp) * Sub < Instant(tp) - now + Sub
           /\ Instant(tp) - now < TimeLeft(tp) * Sub + Sub
           /\ \A k \in Nat : Instant(tp) - now <= k * Sub => TimeLeft(tp) <= k
<1> DEFINE m == TimeDiff(tp, Stamp(now))
           t == TimeLeft(tp)
           p == m * Sub
           d == Instant(tp) - now
<1>1. /\ m \in Int /\ Instant(tp) \in Int /\ p \in Int
      /\ p < d + Sub /\ d < p + Sub
  BY StampInstant, TimeDiffBounds
<1>2. d \in Int
  BY <1>1
<1>3. t = IF m < 0 THEN 0 ELSE m
  BY DEF TimeLeft
<1>4. m < 0 => p <= -Sub
  <2> SUFFICES ASSUME m < 0 PROVE p <= -Sub
    OBVIOUS
  <2>1. Sub * m <= Sub * (-1)
    BY <1>1, TimeAssumption, Grows
  <2>2. Sub * m = p /\ Sub * (-1) = -Sub
    BY <1>1, TimeAssumption
  <2>3. QED
    BY <2>1, <2>2
<1> HIDE DEF m, d, t
<1>5. t \in Nat /\ t * Sub \in Nat
  BY <1>1, <1>3, TimeAssumption, ProductNat
<1>6. t # 0 => t * Sub = p
  BY <1>3
<1>7. t = 0 => t * Sub = 0
  BY TimeAssumption
<1>8. t # 0 => t * Sub < d + Sub
  BY <1>1, <1>6
<1>9. d < t * Sub + Sub
  <2>1. CASE m < 0
    <3>1. t * Sub = 0
      BY <1>3, <1>7, <2>1
    <3> HIDE DEF p
    <3>2. d < 0
      BY <1>1, <1>2, <1>4, <2>1, TimeAssumption
    <3>3. QED
      BY <1>2, <3>1, <3>2, TimeAssumption
  <2>2. CASE ~(m < 0)
    BY <1>1, <1>3, <2>2
  <2>3. QED
    BY <2>1, <2>2
<1>10. ASSUME NEW k \in Nat, d <= k * Sub PROVE t <= k
  <2> SUFFICES ASSUME t > k PROVE FALSE
    BY <1>5
  <2> DEFINE x == t * Sub
             y == k * Sub
  <2>1. Sub * (k + 1) <= Sub * t
    BY <1>5, TimeAssumption, Grows
  <2>2. Sub * (k + 1) = y + Sub /\ Sub * t = x /\ y \in Nat
    BY <1>5, TimeAssumption
  <2>3. x < d + Sub
    BY <1>5, <1>8
  <2>4. d <= y
    BY <1>10
  <2> HIDE DEF x, y
  <2>5. QED
    BY <1>2, <1>5, <2>1, <2>2, <2>3, <2>4, TimeAssumption
<1>11. QED
  BY <1>1, <1>5, <1>8, <1>9, <1>10 DEF t, d

\* draw_seconds rounds up to whole seconds.
LEMMA WholeSecondsIs ==
    ASSUME NEW ms \in Nat
    PROVE  LET s == WholeSeconds(ms)
           IN /\ s \in Nat /\ s * Whole \in Nat
              /\ ms * Sub <= s * Whole
              /\ s > 0 => ms > 0 /\ (s - 1) * Whole <= ms * Sub - Sub
<1> DEFINE s == WholeSeconds(ms)
           a == ms + Sec - 1
           r == a % Sec
           p == Sec * s
<1>1. a \in Nat /\ Sec \in Nat \ {0} /\ Sub \in Nat \ {0}
  BY TimeAssumption
<1>2. s \in Int /\ s >= 0 /\ r \in 0..(Sec - 1) /\ a = p + r
  <2>1. s = a \div Sec
    BY DEF WholeSeconds
  <2>2. a \in Int /\ a >= 0
    BY <1>1
  <2> HIDE DEF a, s
  <2>3. QED
    BY <1>1, <2>1, <2>2, DivMod, Division
<1> HIDE DEF s, r
<1>3. p \in Int
  BY <1>1, <1>2, ProductInt
<1>4. ms <= p /\ p - Sec <= ms - 1
  <2> HIDE DEF p
  <2>1. QED
    BY <1>1, <1>2, <1>3
<1>5. s * Whole = Sub * p /\ (s - 1) * Whole = Sub * (p - Sec)
  BY <1>1, <1>2 DEF Whole
<1>6. Sub * ms <= Sub * p /\ Sub * (p - Sec) <= Sub * (ms - 1)
  <2> HIDE DEF p
  <2>1. p - Sec \in Int /\ ms - 1 \in Int /\ Sub \in Nat
    BY <1>1, <1>3
  <2>2. QED
    BY <1>3, <1>4, <2>1, Grows
<1>7. Sub * ms = ms * Sub /\ Sub * (ms - 1) = ms * Sub - Sub
  BY <1>1
<1>8. s > 0 => ms > 0
  <2> SUFFICES ASSUME s > 0, ms = 0 PROVE FALSE
    OBVIOUS
  <2>1. Sec * 1 <= p
    BY <1>1, <1>2, Grows
  <2> HIDE DEF p
  <2>2. QED
    BY <1>1, <1>3, <1>4, <2>1
<1>9. s * Whole \in Nat
  BY <1>2, WholeType, ProductNat
<1>10. QED
  BY <1>2, <1>5, <1>6, <1>7, <1>8, <1>9 DEF s

-----------------------------------------------------------------------------
(* The clock.  Whichever of p_end and p_paused_time is in force stores the *)
(* time that is left, but for the rounding of each hold (Sync), and only a *)
(* clock that was started can be held.                                     *)

\* The deadline exists exactly when a level with a limit was loaded, and only
\* a connection to a loaded level gives commands.
Loaded ==
    /\ pEndSet <=> started /\ MaxTime # 0
    /\ \A c \in Conn : stage[c] = "cmd" => started

\* Without a deadline nothing is ever stored to be resumed.
NoStaleHold == ~pEndSet => pausedTime = 0

\* The level cannot have run longer than the time since it was loaded.
Elapsed ==
    IF started THEN run <= now - (Instant(canPauseUntil) - Early) ELSE run = 0

IInv ==
    /\ TypeOK
    /\ Loaded
    /\ NoStaleHold
    /\ Elapsed
    /\ Sync
    /\ HoldIsEarly
    /\ LimitEnforced
    /\ NoEarlyRefusal
    /\ DisplayTruth

LEMMA Amounts ==
    /\ Limit \in Nat /\ Allowed \in Nat /\ Early \in Nat
    /\ Sub \in Nat /\ Sub >= 1
    /\ Limit * Sub = Allowed /\ CanPause * Sub = Early
<1>1. Limit \in Nat
  BY ClockAssumption, TimeAssumption, ProductNat DEF Limit
<1>2. Allowed \in Nat /\ Early \in Nat
  BY <1>1, ClockAssumption, TimeAssumption, ProductNat DEF Allowed, Early
<1>3. QED
  BY <1>1, <1>2, TimeAssumption DEF Allowed, Early

\* What is left is a number.
LEMMA LeftType ==
    ASSUME TypeOK
    PROVE  /\ Instant(pEnd) \in Int /\ Instant(canPauseUntil) \in Int
           /\ pausedTime * Sub \in Nat /\ Left \in Int
           /\ Held => Left >= 0
           /\ now \in Nat /\ run \in Nat /\ slack \in Nat
<1>1. Instant(pEnd) \in Int /\ Instant(canPauseUntil) \in Int
  BY LeftIs DEF TypeOK
<1>2. pausedTime * Sub \in Nat
  BY Amounts, ProductNat DEF TypeOK
<1> DEFINE p == pausedTime * Sub
<1>3. p \in Nat /\ Left = IF Held THEN p ELSE Instant(pEnd) - now
  BY <1>2 DEF Left
<1> HIDE DEF p
<1>4. Left \in Int /\ (Held => Left >= 0)
  BY <1>1, <1>3 DEF TypeOK
<1>5. QED
  BY <1>1, <1>2, <1>4 DEF TypeOK

\* Three kinds of answer are the matter of three properties.
LEMMA Silent ==
    ASSUME last' \in [kind : {"none"}, held : BOOLEAN, seconds : Nat]
    PROVE  (LimitEnforced /\ NoEarlyRefusal /\ DisplayTruth)'
BY DEF LimitEnforced, NoEarlyRefusal, DisplayTruth

\* Before its end a level has time left, whichever way its clock is kept.
LEMMA TimeIsLeft ==
    ASSUME TypeOK, Loaded, Sync, ~TimedOut, pEndSet
    PROVE  run <= Allowed + slack /\ run <= Allowed + Early
<1>1. Left >= 0
  <2>1. CASE Held
    BY <2>1, LeftType
  <2>2. CASE ~Held
    <3>1. ~(now > Instant(pEnd))
      BY AfterIs DEF TimedOut, TypeOK
    <3>2. Left = Instant(pEnd) - now
      BY <2>2 DEF Left
    <3>3. QED
      BY <3>1, <3>2, LeftType
  <2>3. QED
    BY <2>1, <2>2
<1>2. Left <= Allowed - run + slack /\ Left <= Allowed - run + Early
  BY DEF Sync
<1>3. QED
  BY <1>1, <1>2, LeftType, Amounts

LEMMA InitIInv == Init => IInv
<1> SUFFICES ASSUME Init PROVE IInv
  OBVIOUS
<1> USE DEF Init
<1>1. TypeOK
  <2>1. NoTime \in Timespec
    BY WholeType DEF NoTime, Timespec
  <2>2. NoAnswer \in [kind : {"none", "served", "refused", "drawn"},
                      held : BOOLEAN, seconds : Nat]
    BY DEF NoAnswer
  <2>3. stage \in [Conn -> {"absent", "level", "cmd"}] /\ closing \subseteq Conn
    OBVIOUS
  <2>4. QED
    BY <2>1, <2>2, <2>3 DEF TypeOK
<1>2. Loaded /\ NoStaleHold /\ Elapsed /\ Sync /\ HoldIsEarly
  BY DEF Loaded, NoStaleHold, Elapsed, Sync, HoldIsEarly, Held
<1>3. LimitEnforced /\ NoEarlyRefusal /\ DisplayTruth
  BY DEF LimitEnforced, NoEarlyRefusal, DisplayTruth, NoAnswer
<1>4. QED
  BY <1>1, <1>2, <1>3 DEF IInv

LEMMA TickStep == IInv /\ Tick => IInv'
<1> SUFFICES ASSUME IInv, Tick PROVE IInv'
  OBVIOUS
<1>1. /\ now' = now + 1
      /\ run' = IF started /\ ~Held THEN run + 1 ELSE run
      /\ UNCHANGED <<stage, closing, started, boundMax, pEndSet, pEnd,
                     canPauseUntil, waiting, pausedTime, quit, slack>>
  BY DEF Tick, clock, hold
<1>2. last' = NoAnswer
  BY DEF Tick, Nothing
<1>3. TypeOK /\ Loaded /\ NoStaleHold /\ Elapsed /\ Sync /\ HoldIsEarly
  BY DEF IInv
<1>4. last' \in [kind : {"none"}, held : BOOLEAN, seconds : Nat]
  BY <1>2 DEF NoAnswer
<1>5. TypeOK'
  <2>1. now' \in Nat /\ run' \in Nat
    BY <1>1, <1>3 DEF TypeOK
  <2>2. QED
    BY <1>1, <1>3, <1>4, <2>1 DEF TypeOK
<1>6. Loaded' /\ NoStaleHold'
  BY <1>1, <1>3 DEF Loaded, NoStaleHold
<1>7. Held' <=> Held
  BY <1>1 DEF Held
<1>8. /\ Left \in Int /\ run \in Nat /\ now \in Nat /\ slack \in Nat
      /\ Instant(pEnd) \in Int /\ Instant(canPauseUntil) \in Int
  BY <1>3, LeftType
<1>9. Elapsed'
  BY <1>1, <1>3, <1>8, Amounts DEF Elapsed, TypeOK
<1>10. HoldIsEarly'
  BY <1>1, <1>3, <1>7 DEF HoldIsEarly
<1>11. Sync'
  <2> SUFFICES ASSUME pEndSet' PROVE Sync'
    BY DEF Sync
  <2>1. pEndSet /\ started
    BY <1>1, <1>3 DEF Loaded
  <2>2. CASE Held
    <3>1. Left' = Left /\ run' = run
      BY <1>1, <1>7, <2>2 DEF Left
    <3>2. QED
      BY <1>1, <1>3, <2>1, <3>1 DEF Sync
  <2>3. CASE ~Held
    <3>1. Left' = Left - 1 /\ run' = run + 1
      BY <1>1, <1>7, <1>8, <2>1, <2>3 DEF Left
    <3>2. QED
      BY <1>1, <1>3, <1>8, <2>1, <3>1, Amounts DEF Sync
  <2>4. QED
    BY <2>2, <2>3
<1>12. QED
  BY <1>4, <1>5, <1>6, <1>9, <1>10, <1>11, Silent DEF IInv

LEMMA ResumeStep == IInv /\ Resume => IInv'
<1> SUFFICES ASSUME IInv, Resume PROVE IInv'
  OBVIOUS
<1>1. /\ waiting /\ waiting' = FALSE
      /\ pEnd' = IF pEndSet /\ pausedTime # 0 THEN TimeFromNow(pausedTime) ELSE pEnd
      /\ UNCHANGED <<now, stage, closing, started, boundMax, pEndSet,
                     canPauseUntil, pausedTime, quit, run, slack>>
  BY DEF Resume
<1>2. last' = NoAnswer
  BY DEF Resume, Nothing
<1>3. TypeOK /\ Loaded /\ NoStaleHold /\ Elapsed /\ Sync /\ HoldIsEarly
  BY DEF IInv
<1>4. last' \in [kind : {"none"}, held : BOOLEAN, seconds : Nat]
  BY <1>2 DEF NoAnswer
<1>5. /\ TimeFromNow(pausedTime) \in Timespec
      /\ Instant(TimeFromNow(pausedTime)) = now + pausedTime * Sub
  BY <1>3, FromNowIs DEF TypeOK
<1>6. TypeOK'
  <2>1. pEnd' \in Timespec
    BY <1>1, <1>3, <1>5 DEF TypeOK
  <2>2. QED
    BY <1>1, <1>3, <1>4, <2>1 DEF TypeOK
<1>7. Loaded' /\ NoStaleHold' /\ Elapsed'
  BY <1>1, <1>3 DEF Loaded, NoStaleHold, Elapsed
<1>8. ~Held'
  BY <1>1 DEF Held
<1>9. HoldIsEarly'
  BY <1>8 DEF HoldIsEarly
<1>10. pEndSet => Left' = Left
  <2> SUFFICES ASSUME pEndSet PROVE Left' = Left
    OBVIOUS
  <2>1. Left' = Instant(pEnd)' - now
    BY <1>1, <1>8 DEF Left
  <2>2. CASE Held
    <3> DEFINE p == pausedTime * Sub
    <3>1. p \in Nat /\ now \in Nat
      BY <1>3, LeftType
    <3>2. Instant(pEnd)' = now + p
      BY <1>1, <1>5, <2>2 DEF Held
    <3>3. Left = p
      BY <2>2 DEF Left
    <3> HIDE DEF p
    <3>4. QED
      BY <2>1, <3>1, <3>2, <3>3
  <2>3. CASE ~Held
    BY <1>1, <2>1, <2>3 DEF Left, Held
  <2>4. QED
    BY <2>2, <2>3
<1>11. Sync'
  BY <1>1, <1>3, <1>10 DEF Sync
<1>12. QED
  BY <1>4, <1>6, <1>7, <1>9, <1>11, Silent DEF IInv

LEMMA DrawStep == IInv /\ Draw => IInv'
<1> SUFFICES ASSUME IInv, Draw PROVE IInv'
  OBVIOUS
<1> DEFINE ms == IF Held THEN pausedTime ELSE TimeLeft(pEnd)
           s == WholeSeconds(ms)
<1>1. /\ UNCHANGED <<now, stage, closing, clock, hold, quit, run, slack>>
      /\ last' = IF pEndSet THEN [kind |-> "drawn", held |-> Held, seconds |-> s]
                 ELSE NoAnswer
  BY DEF Draw, Shows, Nothing
<1>2. TypeOK /\ Loaded /\ NoStaleHold /\ Elapsed /\ Sync /\ HoldIsEarly
  BY DEF IInv
<1>3. ms \in Nat
  BY <1>2, LeftIs DEF TypeOK
<1>4. /\ ms * Sub \in Nat
      /\ Left - Sub < ms * Sub
      /\ ms > 0 => ms * Sub < Left + Sub
  <2>1. CASE Held
    <3>1. ms = pausedTime /\ Left = ms * Sub
      BY <2>1 DEF Left
    <3> HIDE DEF ms
    <3>2. ms * Sub \in Nat
      BY <1>2, <3>1, LeftType
    <3>3. QED
      BY <3>1, <3>2, Amounts
  <2>2. CASE ~Held
    <3>1. ms = TimeLeft(pEnd) /\ Left = Instant(pEnd) - now
      BY <2>2 DEF Left
    <3> HIDE DEF ms
    <3>2. /\ ms * Sub \in Nat
          /\ ms # 0 => ms * Sub < Instant(pEnd) - now + Sub
          /\ Instant(pEnd) - now < ms * Sub + Sub
      BY <1>2, <3>1, LeftIs DEF TypeOK
    <3> DEFINE p == ms * Sub
    <3>3. p \in Nat /\ (ms # 0 => p < Left + Sub) /\ Left < p + Sub
      BY <3>1, <3>2
    <3>4. Left \in Int
      BY <1>2, LeftType
    <3> HIDE DEF p
    <3>5. Left - Sub < p
      BY <3>3, <3>4, Amounts
    <3>6. QED
      BY <1>3, <3>3, <3>5 DEF p
  <2>3. QED
    BY <2>1, <2>2
<1> HIDE DEF ms
<1>5. /\ s \in Nat /\ s * Whole \in Nat
      /\ ms * Sub <= s * Whole
      /\ s > 0 => ms > 0 /\ (s - 1) * Whole <= ms * Sub - Sub
  BY <1>3, WholeSecondsIs
<1> HIDE DEF s
<1>6. DisplayTruth'
  <2> SUFFICES ASSUME pEndSet
               PROVE  LET left == Allowed - run
                          error == slack + (Sub - 1)
                      IN /\ left - error <= s * Whole
                         /\ s > 0 => (s - 1) * Whole < left + error
    <3>1. ~pEndSet => last'.kind # "drawn"
      BY <1>1 DEF NoAnswer
    <3>2. pEndSet => last'.seconds = s
      BY <1>1
    <3>3. run' = run /\ slack' = slack
      BY <1>1
    <3>4. QED
      BY <3>1, <3>2, <3>3 DEF DisplayTruth
  <2> DEFINE p == ms * Sub
             u == s * Whole
             v == (s - 1) * Whole
  <2>1. p \in Nat /\ Left - Sub < p /\ (ms > 0 => p < Left + Sub)
    BY <1>4
  <2>2. u \in Nat /\ v \in Int /\ p <= u /\ (s > 0 => ms > 0 /\ v <= p - Sub)
    BY <1>5, WholeType, ProductInt
  <2> HIDE DEF p, u, v
  <2>3. Left <= Allowed - run + slack /\ Left >= Allowed - run - slack
    BY <1>2 DEF Sync
  <2>4. Left \in Int /\ run \in Nat /\ slack \in Nat
    BY <1>2, LeftType
  <2>5. Allowed - run - (slack + (Sub - 1)) <= u
    BY <2>1, <2>2, <2>3, <2>4, Amounts
  <2>6. s > 0 => v < Allowed - run + (slack + (Sub - 1))
    BY <2>1, <2>2, <2>3, <2>4, Amounts
  <2>7. QED
    BY <2>5, <2>6 DEF u, v
<1>7. last' \in [kind : {"none", "drawn"}, held : BOOLEAN, seconds : Nat]
  BY <1>1, <1>5 DEF Held, NoAnswer
<1>8. TypeOK'
  BY <1>1, <1>2, <1>7 DEF TypeOK, clock, hold
<1>9. (Loaded /\ NoStaleHold /\ Elapsed /\ Sync /\ HoldIsEarly)'
  BY <1>1, <1>2 DEF Loaded, NoStaleHold, Elapsed, Sync, HoldIsEarly, Held, Left,
    clock, hold
<1>10. (LimitEnforced /\ NoEarlyRefusal)'
  BY <1>7 DEF LimitEnforced, NoEarlyRefusal
<1>11. QED
  BY <1>6, <1>8, <1>9, <1>10 DEF IInv

LEMMA LevelStep == ASSUME NEW c \in Conn PROVE IInv /\ Level(c) => IInv'
<1> SUFFICES ASSUME IInv, Level(c) PROVE IInv'
  OBVIOUS
<1>1. /\ StartLevel
      /\ stage' = [stage EXCEPT ![c] = "cmd"]
      /\ UNCHANGED <<now, closing, waiting, pausedTime, quit, run, slack>>
      /\ last' = NoAnswer
  BY DEF Level, hold, Nothing
<1>2. TypeOK /\ Loaded /\ NoStaleHold /\ Elapsed /\ Sync /\ HoldIsEarly
  BY DEF IInv
<1>3. last' \in [kind : {"none"}, held : BOOLEAN, seconds : Nat]
  BY <1>1 DEF NoAnswer
<1>4. stage' \in [Conn -> {"absent", "level", "cmd"}]
  BY <1>1, <1>2 DEF TypeOK
<1>5. CASE started
  <2>1. UNCHANGED <<started, boundMax, pEndSet, pEnd, canPauseUntil>>
    BY <1>1, <1>5 DEF StartLevel, clock
  <2>2. TypeOK'
    BY <1>1, <1>2, <1>3, <1>4, <2>1 DEF TypeOK
  <2>3. Loaded'
    BY <1>2, <1>5, <2>1 DEF Loaded
  <2>4. (NoStaleHold /\ Elapsed /\ Sync /\ HoldIsEarly)'
    BY <1>1, <1>2, <2>1 DEF NoStaleHold, Elapsed, Sync, HoldIsEarly, Held, Left
  <2>5. QED
    BY <1>3, <2>2, <2>3, <2>4, Silent DEF IInv
<1>6. CASE ~started
  <2>1. /\ started' = TRUE /\ boundMax' = MaxConn
        /\ canPauseUntil' = TimeFromNow(CanPause)
        /\ pEndSet' = (MaxTime # 0)
        /\ pEnd' = IF MaxTime # 0 THEN TimeFromNow(Limit) ELSE pEnd
    BY <1>1, <1>6 DEF StartLevel
  <2>2. now \in Nat /\ Limit \in Nat /\ CanPause \in Nat
    BY <1>2, Amounts, ClockAssumption DEF TypeOK
  <2>3. /\ TimeFromNow(CanPause) \in Timespec /\ TimeFromNow(Limit) \in Timespec
        /\ Instant(TimeFromNow(CanPause)) = now + Early
        /\ Instant(TimeFromNow(Limit)) = now + Allowed
    BY <2>2, FromNowIs, Amounts
  <2>4. TypeOK'
    <3>1. pEnd' \in Timespec /\ canPauseUntil' \in Timespec
      BY <1>2, <2>1, <2>3 DEF TypeOK
    <3>2. boundMax' \in Nat /\ pEndSet' \in BOOLEAN /\ started' \in BOOLEAN
      BY <2>1, ClockAssumption
    <3>3. QED
      BY <1>1, <1>2, <1>3, <1>4, <3>1, <3>2 DEF TypeOK
  <2>5. ~pEndSet /\ pausedTime = 0 /\ run = 0
    BY <1>2, <1>6 DEF Loaded, NoStaleHold, Elapsed
  <2>6. ~Held'
    BY <1>1, <2>5 DEF Held
  <2>7. Loaded' /\ NoStaleHold' /\ HoldIsEarly'
    BY <1>1, <2>1, <2>5, <2>6 DEF Loaded, NoStaleHold, HoldIsEarly
  <2>8. Elapsed'
    <3>1. Instant(canPauseUntil)' = now + Early
      BY <2>1, <2>3
    <3>2. QED
      BY <1>1, <2>1, <2>2, <2>5, <3>1, Amounts DEF Elapsed
  <2>9. Sync'
    <3> SUFFICES ASSUME MaxTime # 0 PROVE Sync'
      BY <2>1 DEF Sync
    <3>1. Instant(pEnd)' = now + Allowed
      BY <2>1, <2>3
    <3>2. Left' = Instant(pEnd)' - now
      BY <1>1, <2>6 DEF Left
    <3>3. Left' = Allowed
      BY <2>2, <3>1, <3>2, Amounts
    <3>4. run' = 0 /\ slack' = slack /\ slack \in Nat
      BY <1>1, <1>2, <2>5 DEF TypeOK
    <3>5. QED
      BY <3>3, <3>4, Amounts DEF Sync
  <2>10. QED
    BY <1>3, <2>4, <2>7, <2>8, <2>9, Silent DEF IInv
<1>7. QED
  BY <1>5, <1>6

\* A hold stores what is left to within a millisecond, and never more than
\* the level had at its start.
LEMMA PauseKeeps ==
    ASSUME TypeOK, Loaded, NoStaleHold, Elapsed, Sync, HoldIsEarly, Pause,
           UNCHANGED <<now, started, pEndSet, pEnd, canPauseUntil, run>>
    PROVE  /\ waiting' \in BOOLEAN /\ pausedTime' \in Nat
           /\ slack' \in Nat /\ slack' >= slack
           /\ (NoStaleHold /\ Elapsed /\ Sync /\ HoldIsEarly)'
<1>1. /\ Instant(pEnd) \in Int /\ Instant(canPauseUntil) \in Int
      /\ now \in Nat /\ run \in Nat /\ slack \in Nat /\ Left \in Int
  BY LeftType
<1>2. Elapsed'
  BY DEF Elapsed
<1>3. CASE waiting
  <2>1. UNCHANGED <<waiting, pausedTime, slack>>
    BY <1>3 DEF Pause, hold
  <2>2. (NoStaleHold /\ Sync /\ HoldIsEarly)'
    BY <2>1 DEF NoStaleHold, Sync, HoldIsEarly, Held, Left
  <2>3. QED
    BY <1>1, <1>2, <2>1, <2>2 DEF TypeOK
<1>4. CASE ~waiting
  <2> DEFINE t == TimeLeft(pEnd)
             d == Instant(pEnd) - now
             q == pausedTime' * Sub
  <2>1. /\ waiting' = TRUE
        /\ pausedTime' = IF ~pEndSet THEN pausedTime
                         ELSE IF TimeAfter(canPauseUntil) THEN 0 ELSE t
        /\ slack' = IF pEndSet /\ Rounded(pausedTime') THEN slack + (Sub - 1)
                    ELSE slack
    BY <1>4 DEF Pause
  <2>2. /\ t \in Nat
        /\ t # 0 => t * Sub < d + Sub
        /\ d < t * Sub + Sub
        /\ \A k \in Nat : d <= k * Sub => t <= k
    BY LeftIs DEF TypeOK
  <2> HIDE DEF t
  <2>3. pausedTime' \in Nat
    BY <2>1, <2>2 DEF TypeOK
  <2>4. slack' \in Nat /\ slack' >= slack
    BY <1>1, <2>1, Amounts
  <2>5. q \in Nat
    BY <2>3, Amounts, ProductNat
  <2>6. Left = d
    BY <1>4 DEF Left, Held
  <2>7. CASE pausedTime' = 0
    <3>1. ~Held'
      BY <2>7 DEF Held
    <3>2. Left' = Left
      BY <2>6, <3>1 DEF Left
    <3>3. NoStaleHold' /\ HoldIsEarly'
      BY <2>7, <3>1 DEF NoStaleHold, HoldIsEarly
    <3>4. slack' = slack
      BY <2>1, <2>7 DEF Rounded
    <3>5. Sync'
      BY <3>2, <3>4 DEF Sync
    <3>6. QED
      BY <1>2, <2>1, <2>3, <2>4, <3>3, <3>5
  <2>8. CASE pausedTime' # 0
    <3>1. pEndSet /\ ~TimeAfter(canPauseUntil) /\ pausedTime' = t
      BY <2>1, <2>8 DEF NoStaleHold
    <3>2. started
      BY <3>1 DEF Loaded
    <3>3. run <= Early
      <4>1. ~(now > Instant(canPauseUntil))
        BY <3>1, AfterIs DEF TypeOK
      <4>2. QED
        BY <1>1, <3>2, <4>1, Amounts DEF Elapsed
    <3>4. Held' /\ Left' = q
      BY <2>1, <2>8 DEF Held, Left
    <3>5. NoStaleHold' /\ HoldIsEarly'
      BY <3>1, <3>3 DEF NoStaleHold, HoldIsEarly
    <3>6. q < d + Sub /\ d < q + Sub
      BY <2>2, <2>8, <3>1
    <3>7. Left <= Allowed /\ Left <= Allowed - run + slack /\ Left >= Allowed - run - slack
      BY <3>1 DEF Sync
    <3>8. q <= Allowed
      <4>1. t <= Limit
        BY <2>2, <2>6, <3>7, Amounts
      <4>2. Sub * t <= Sub * Limit
        BY <2>2, <4>1, Amounts, Grows
      <4>3. Sub * t = t * Sub /\ Sub * Limit = Limit * Sub
        BY <2>2, Amounts, Commutes
      <4>4. QED
        BY <3>1, <4>2, <4>3, Amounts
    <3>9. IF q = d THEN slack' = slack ELSE slack' = slack + (Sub - 1)
      BY <2>1, <2>8, <3>1 DEF Rounded
    <3>10. d \in Int
      BY <1>1
    <3> HIDE DEF q, d
    <3>11. /\ q <= Allowed - run + slack' /\ q >= Allowed - run - slack'
           /\ q <= Allowed - run + Early
      BY <1>1, <2>5, <2>6, <3>3, <3>6, <3>7, <3>8, <3>9, <3>10, Amounts
    <3>12. Sync'
      BY <3>4, <3>8, <3>11 DEF Sync
    <3>13. QED
      BY <1>2, <2>1, <2>3, <2>4, <3>5, <3>12
  <2>9. QED
    BY <2>7, <2>8
<1>5. QED
  BY <1>3, <1>4 DEF TypeOK

LEMMA WaitStep == ASSUME NEW c \in Conn PROVE IInv /\ Wait(c) => IInv'
<1> SUFFICES ASSUME IInv, Wait(c) PROVE IInv'
  OBVIOUS
<1>1. /\ stage[c] = "cmd" /\ ~TimedOut /\ Pause
      /\ last' = [kind |-> "served", held |-> Held, seconds |-> 0]
      /\ UNCHANGED <<now, stage, closing, started, boundMax, pEndSet, pEnd,
                     canPauseUntil, quit, run>>
  BY DEF Wait, Answered, clock
<1>2. TypeOK /\ Loaded /\ NoStaleHold /\ Elapsed /\ Sync /\ HoldIsEarly
  BY DEF IInv
<1>3. /\ waiting' \in BOOLEAN /\ pausedTime' \in Nat
      /\ slack' \in Nat /\ slack' >= slack
      /\ (NoStaleHold /\ Elapsed /\ Sync /\ HoldIsEarly)'
  BY <1>1, <1>2, PauseKeeps
<1>4. last' \in [kind : {"served"}, held : BOOLEAN, seconds : Nat]
  BY <1>1 DEF Held
<1>5. TypeOK'
  BY <1>1, <1>2, <1>3, <1>4 DEF TypeOK
<1>6. Loaded'
  BY <1>1, <1>2 DEF Loaded
<1>7. LimitEnforced'
  <2> SUFFICES ASSUME MaxTime # 0
               PROVE  run' <= Allowed + slack' /\ run' <= Allowed + Early
    BY DEF LimitEnforced
  <2>1. pEndSet
    BY <1>1, <1>2 DEF Loaded
  <2>2. run <= Allowed + slack /\ run <= Allowed + Early
    BY <1>1, <1>2, <2>1, TimeIsLeft
  <2>3. run' = run /\ run \in Nat /\ slack \in Nat
    BY <1>1, <1>2 DEF TypeOK
  <2>4. PICK s \in Nat : s = slack' /\ s >= slack
    BY <1>3
  <2>5. s >= slack /\ run \in Nat /\ slack \in Nat
    BY <2>3, <2>4
  <2>6. run <= Allowed + s /\ run <= Allowed + Early
    BY <2>2, <2>5, Amounts
  <2>7. QED
    BY <2>3, <2>4, <2>6
<1>8. NoEarlyRefusal' /\ DisplayTruth'
  BY <1>4 DEF NoEarlyRefusal, DisplayTruth
<1>9. QED
  BY <1>3, <1>5, <1>6, <1>7, <1>8 DEF IInv

LEMMA AnswerStep ==
    ASSUME NEW c \in Conn PROVE IInv /\ (Refuse(c) \/ Serve(c)) => IInv'
<1> SUFFICES ASSUME IInv, Refuse(c) \/ Serve(c) PROVE IInv'
  OBVIOUS
<1>1. /\ stage[c] = "cmd" /\ closing' \subseteq closing \cup {c}
      /\ UNCHANGED <<now, stage, clock, hold, quit, run, slack>>
      /\ \/ TimedOut /\ last' = [kind |-> "refused", held |-> Held, seconds |-> 0]
         \/ ~TimedOut /\ last' = [kind |-> "served", held |-> Held, seconds |-> 0]
  BY DEF Refuse, Serve, Answered
<1>2. TypeOK /\ Loaded /\ NoStaleHold /\ Elapsed /\ Sync /\ HoldIsEarly
  BY DEF IInv
<1>3. last' \in [kind : {"refused", "served"}, held : BOOLEAN, seconds : Nat]
  <2>1. Held \in BOOLEAN
    BY DEF Held
  <2>2. QED
    BY <1>1, <2>1
<1>4. TypeOK'
  <2>1. closing' \subseteq Conn
    BY <1>1, <1>2 DEF TypeOK
  <2>2. QED
    BY <1>1, <1>2, <1>3, <2>1 DEF TypeOK, clock, hold
<1>5. (Loaded /\ NoStaleHold /\ Elapsed /\ Sync /\ HoldIsEarly)'
  BY <1>1, <1>2 DEF Loaded, NoStaleHold, Elapsed, Sync, HoldIsEarly, Held, Left,
    clock, hold
<1>6. run' = run /\ slack' = slack
  BY <1>1
<1>7. LimitEnforced'
  <2> SUFFICES ASSUME last'.kind = "served", MaxTime # 0
               PROVE  run <= Allowed + slack /\ run <= Allowed + Early
    BY <1>6 DEF LimitEnforced
  <2>1. pEndSet
    BY <1>1, <1>2 DEF Loaded
  <2>2. ~TimedOut
    BY <1>1
  <2>3. QED
    BY <1>2, <2>1, <2>2, TimeIsLeft
<1>8. NoEarlyRefusal'
  <2> SUFFICES ASSUME last'.kind = "refused", ~last'.held
               PROVE  run > Allowed - slack
    BY <1>6 DEF NoEarlyRefusal
  <2>1. pEndSet /\ TimeAfter(pEnd) /\ ~Held
    BY <1>1 DEF TimedOut
  <2>2. now > Instant(pEnd) /\ Left = Instant(pEnd) - now
    BY <1>2, <2>1, AfterIs DEF TypeOK, Left
  <2>3. Left >= Allowed - run - slack
    BY <1>2, <2>1 DEF Sync
  <2>4. QED
    BY <1>2, <2>2, <2>3, LeftType, Amounts
<1>9. DisplayTruth'
  BY <1>3 DEF DisplayTruth
<1>10. QED
  BY <1>4, <1>5, <1>7, <1>8, <1>9 DEF IInv

\* A connection that comes, fails or leaves does not touch the clock.
LEMMA OtherStep ==
    ASSUME NEW c \in Conn PROVE IInv /\ (Arrive(c) \/ Over(c) \/ Close(c)) => IInv'
<1> SUFFICES ASSUME IInv, Arrive(c) \/ Over(c) \/ Close(c) PROVE IInv'
  OBVIOUS
<1>1. /\ stage' \in {stage, [stage EXCEPT ![c] = "level"], [stage EXCEPT ![c] = "absent"]}
      /\ closing' \subseteq closing \cup {c}
      /\ quit' \in BOOLEAN
      /\ UNCHANGED <<now, clock, hold, run, slack>>
      /\ last' = NoAnswer
  BY DEF Arrive, Over, Close, Nothing, IInv, TypeOK
<1>2. TypeOK /\ Loaded /\ NoStaleHold /\ Elapsed /\ Sync /\ HoldIsEarly
  BY DEF IInv
<1>3. last' \in [kind : {"none"}, held : BOOLEAN, seconds : Nat]
  BY <1>1 DEF NoAnswer
<1>4. TypeOK'
  <2>1. stage' \in [Conn -> {"absent", "level", "cmd"}] /\ closing' \subseteq Conn
    BY <1>1, <1>2 DEF TypeOK
  <2>2. QED
    BY <1>1, <1>2, <1>3, <2>1 DEF TypeOK, clock, hold
<1>5. Loaded'
  <2>1. \A e \in Conn : stage'[e] = "cmd" => stage[e] = "cmd"
    BY <1>1, <1>2 DEF TypeOK
  <2>2. QED
    BY <1>1, <1>2, <2>1 DEF Loaded, clock
<1>6. (NoStaleHold /\ Elapsed /\ Sync /\ HoldIsEarly)'
  BY <1>1, <1>2 DEF NoStaleHold, Elapsed, Sync, HoldIsEarly, Held, Left, clock, hold
<1>7. QED
  BY <1>3, <1>4, <1>5, <1>6, Silent DEF IInv

\* Every step keeps the inductive invariant.
LEMMA NextIInv == IInv /\ [Next]_vars => IInv'
<1> SUFFICES ASSUME IInv, [Next]_vars PROVE IInv'
  OBVIOUS
<1>1. CASE Tick
  BY <1>1, TickStep
<1>2. CASE Resume
  BY <1>2, ResumeStep
<1>3. CASE Draw
  BY <1>3, DrawStep
<1>4. ASSUME NEW c \in Conn, ConnStep(c) PROVE IInv'
  BY <1>4, LevelStep, WaitStep, AnswerStep, OtherStep DEF ConnStep
<1>5. CASE UNCHANGED vars
  BY <1>5 DEF vars, IInv, TypeOK, Loaded, NoStaleHold, Elapsed, Sync, HoldIsEarly,
    LimitEnforced, NoEarlyRefusal, DisplayTruth, Held, Left, clock, hold
<1> QED
  BY <1>1, <1>2, <1>3, <1>4, <1>5 DEF Next

\* The inductive invariant holds in every reachable state.
THEOREM Invariance == Spec => []IInv
<1> QED
  BY InitIInv, NextIInv, PTL DEF Spec

\* Every variable keeps its kind.
THEOREM TypeCorrect == Spec => []TypeOK
<1>1. IInv => TypeOK
  BY DEF IInv
<1> QED
  BY <1>1, Invariance, PTL

\* No command is carried out after max_time of unheld play (proto.c:303), but
\* for less than a millisecond of each hold that time_diff rounded and never
\* for more than CAN_PAUSE_INTERVAL in all: for every limit, pause interval and
\* number of connections.
THEOREM LimitIsEnforced == Spec => []LimitEnforced
<1>1. IInv => LimitEnforced
  BY DEF IInv
<1> QED
  BY <1>1, Invariance, PTL

\* No command is refused for time while the clock runs and max_time has more
\* left than the rounding of the holds, less than a millisecond each, can take.
THEOREM RefusalIsLate == Spec => []NoEarlyRefusal
<1>1. IInv => NoEarlyRefusal
  BY DEF IInv
<1> QED
  BY <1>1, Invariance, PTL

\* What p_draw shows are the seconds left, rounded up, but for a millisecond
\* of its own and less than one of each hold.
THEOREM DisplayIsTrue == Spec => []DisplayTruth
<1>1. IInv => DisplayTruth
  BY DEF IInv
<1> QED
  BY <1>1, Invariance, PTL

\* The clock is held only in the first CAN_PAUSE_INTERVAL of the level.
THEOREM HoldsAreEarly == Spec => []HoldIsEarly
<1>1. IInv => HoldIsEarly
  BY DEF IInv
<1> QED
  BY <1>1, Invariance, PTL

-----------------------------------------------------------------------------
(* Numbers                                                                 *)

\* There is a lowest of any numbers.
LEMMA LowestNumber ==
    ASSUME NEW S \in SUBSET Nat, S # {}
    PROVE  \E f \in S : \A g \in S : f <= g
<1> DEFINE R == OpToRel(<, Nat)
<1>1. IsWellFoundedOn(R, Nat)
  BY NatLessThanWellFounded
<1>2. \A f, g \in Nat : <<g, f>> \in R <=> g < f
  BY DEF OpToRel
<1> HIDE DEF R
<1>3. PICK f \in S : \A g \in S : <<g, f>> \notin R
  BY <1>1, WFMin
<1>4. ASSUME NEW g \in S
      PROVE  f <= g
  <2>1. f \in Nat /\ g \in Nat /\ ~(g < f)
    BY <1>2, <1>3
  <2>2. QED
    BY <2>1
<1>5. QED
  BY <1>4

-----------------------------------------------------------------------------
(* The generator: places and steps                                         *)

Pairs == Int \X Int

LEMMA Sides ==
    ASSUME size \in Sizes
    PROVE  /\ size.width \in Nat /\ size.width >= 5
           /\ size.height \in Nat /\ size.height >= 5
           /\ size.holes \in Nat
BY GeneratorAssumption, SMTT(30)

LEMMA OddPlace ==
    ASSUME size \in Sizes, NEW p
    PROVE  p \in OddPlaces <=>
              /\ p \in Pairs
              /\ 0 <= p[1] /\ p[1] < size.width /\ p[1] % 2 = 1
              /\ 0 <= p[2] /\ p[2] < size.height /\ p[2] % 2 = 1
BY Sides DEF OddPlaces, Pairs

\* What a step is.
LEMMA Steps ==
    ASSUME NEW p \in Pairs, NEW n \in Int
    PROVE  /\ Step(p, <<-1, 0>>, n) = <<p[1] - n, p[2]>>
           /\ Step(p, <<1, 0>>, n) = <<p[1] + n, p[2]>>
           /\ Step(p, <<0, -1>>, n) = <<p[1], p[2] - n>>
           /\ Step(p, <<0, 1>>, n) = <<p[1], p[2] + n>>
BY DEF Step, Pairs

LEMMA Parity ==
    ASSUME NEW n \in Int
    PROVE  /\ n % 2 \in {0, 1}
           /\ n % 2 = 1 <=> (n + 1) % 2 = 0
           /\ n % 2 = 1 <=> (n - 1) % 2 = 0
           /\ (n + 2) % 2 = n % 2 /\ (n - 2) % 2 = n % 2
OBVIOUS

\* Two steps from an odd place is another one, with a wall in between.
LEMMA Neighbour ==
    ASSUME size \in Sizes, NEW a \in OddPlaces, NEW d \in Directions,
           Inside(Step(a, d, 2))
    PROVE  /\ Step(a, d, 2) \in OddPlaces
           /\ Step(a, d, 1) \notin OddPlaces
           /\ Step(a, d, 1) \in Pairs
<1>1. /\ a \in Pairs
      /\ 0 <= a[1] /\ a[1] < size.width /\ a[1] % 2 = 1
      /\ 0 <= a[2] /\ a[2] < size.height /\ a[2] % 2 = 1
  BY OddPlace
<1> DEFINE x == a[1]
           y == a[2]
<1>2. x \in Int /\ y \in Int /\ x % 2 = 1 /\ y % 2 = 1
  BY <1>1 DEF Pairs
<1>3. /\ (x + 1) % 2 = 0 /\ (x - 1) % 2 = 0 /\ (x + 2) % 2 = 1 /\ (x - 2) % 2 = 1
      /\ (y + 1) % 2 = 0 /\ (y - 1) % 2 = 0 /\ (y + 2) % 2 = 1 /\ (y - 2) % 2 = 1
  BY <1>2, Parity
<1>4. ASSUME NEW b, NEW w, b \in Pairs, w \in Pairs, Inside(b),
             b[1] % 2 = 1, b[2] % 2 = 1, w[1] % 2 = 0 \/ w[2] % 2 = 0
      PROVE  b \in OddPlaces /\ w \notin OddPlaces
  BY <1>4, OddPlace, Sides DEF Inside, Pairs
<1>5. CASE d = <<-1, 0>>
  <2>1. Step(a, d, 2) = <<x - 2, y>> /\ Step(a, d, 1) = <<x - 1, y>>
    BY <1>1, <1>5, Steps
  <2>2. <<x - 2, y>> \in Pairs /\ <<x - 1, y>> \in Pairs
    BY <1>2 DEF Pairs
  <2>3. QED
    BY <1>2, <1>3, <1>4, <2>1, <2>2
<1>6. CASE d = <<1, 0>>
  <2>1. Step(a, d, 2) = <<x + 2, y>> /\ Step(a, d, 1) = <<x + 1, y>>
    BY <1>1, <1>6, Steps
  <2>2. <<x + 2, y>> \in Pairs /\ <<x + 1, y>> \in Pairs
    BY <1>2 DEF Pairs
  <2>3. QED
    BY <1>2, <1>3, <1>4, <2>1, <2>2
<1>7. CASE d = <<0, -1>>
  <2>1. Step(a, d, 2) = <<x, y - 2>> /\ Step(a, d, 1) = <<x, y - 1>>
    BY <1>1, <1>7, Steps
  <2>2. <<x, y - 2>> \in Pairs /\ <<x, y - 1>> \in Pairs
    BY <1>2 DEF Pairs
  <2>3. QED
    BY <1>2, <1>3, <1>4, <2>1, <2>2
<1>8. CASE d = <<0, 1>>
  <2>1. Step(a, d, 2) = <<x, y + 2>> /\ Step(a, d, 1) = <<x, y + 1>>
    BY <1>1, <1>8, Steps
  <2>2. <<x, y + 2>> \in Pairs /\ <<x, y + 1>> \in Pairs
    BY <1>2 DEF Pairs
  <2>3. QED
    BY <1>2, <1>3, <1>4, <2>1, <2>2
<1> QED
  BY <1>5, <1>6, <1>7, <1>8 DEF Directions

\* A step in numbers.
LEMMA StepSum ==
    ASSUME NEW p \in Pairs, NEW d \in Directions
    PROVE  /\ d[1] \in Int /\ d[2] \in Int
           /\ \/ d[1] = -1 /\ d[2] = 0
              \/ d[1] = 1 /\ d[2] = 0
              \/ d[1] = 0 /\ d[2] = -1
              \/ d[1] = 0 /\ d[2] = 1
           /\ Step(p, d, 1) = <<p[1] + d[1], p[2] + d[2]>>
           /\ Step(p, d, 2) = <<p[1] + 2 * d[1], p[2] + 2 * d[2]>>
<1>1. /\ d[1] \in Int /\ d[2] \in Int
      /\ \/ d[1] = -1 /\ d[2] = 0
         \/ d[1] = 1 /\ d[2] = 0
         \/ d[1] = 0 /\ d[2] = -1
         \/ d[1] = 0 /\ d[2] = 1
  BY DEF Directions
<1>2. Step(p, d, 1) = <<p[1] + d[1], p[2] + d[2]>>
  <2>1. 1 * d[1] = d[1] /\ 1 * d[2] = d[2]
    BY <1>1
  <2>2. QED
    BY <2>1 DEF Step
<1>3. Step(p, d, 2) = <<p[1] + 2 * d[1], p[2] + 2 * d[2]>>
  BY DEF Step
<1> QED
  BY <1>1, <1>2, <1>3

\* A wall is between two odd places only.
LEMMA OneWall ==
    ASSUME size \in Sizes, NEW a \in OddPlaces, NEW q \in OddPlaces,
           NEW d \in Directions, NEW e \in Directions,
           Step(a, d, 1) = Step(q, e, 1)
    PROVE  Step(a, d, 2) = q \/ Step(a, d, 2) = Step(q, e, 2)
<1> DEFINE x == a[1]
           y == a[2]
           u == q[1]
           v == q[2]
           d1 == d[1]
           d2 == d[2]
           e1 == e[1]
           e2 == e[2]
<1>1. /\ a \in Pairs /\ q \in Pairs
      /\ x % 2 = 1 /\ y % 2 = 1 /\ u % 2 = 1 /\ v % 2 = 1
  BY OddPlace
<1>2. x \in Int /\ y \in Int /\ u \in Int /\ v \in Int /\ q = <<u, v>>
  BY <1>1 DEF Pairs
<1>3. /\ x # u + 1 /\ x # u - 1 /\ y # v + 1 /\ y # v - 1
  BY <1>1, <1>2, Parity
<1>4. /\ d1 \in Int /\ d2 \in Int
      /\ \/ d1 = -1 /\ d2 = 0
         \/ d1 = 1 /\ d2 = 0
         \/ d1 = 0 /\ d2 = -1
         \/ d1 = 0 /\ d2 = 1
      /\ Step(a, d, 1) = <<x + d1, y + d2>>
      /\ Step(a, d, 2) = <<x + 2 * d1, y + 2 * d2>>
  BY <1>1, StepSum
<1>5. /\ e1 \in Int /\ e2 \in Int
      /\ \/ e1 = -1 /\ e2 = 0
         \/ e1 = 1 /\ e2 = 0
         \/ e1 = 0 /\ e2 = -1
         \/ e1 = 0 /\ e2 = 1
      /\ Step(q, e, 1) = <<u + e1, v + e2>>
      /\ Step(q, e, 2) = <<u + 2 * e1, v + 2 * e2>>
  BY <1>1, StepSum
<1> HIDE DEF x, y, u, v, d1, d2, e1, e2
<1>6. x + d1 = u + e1 /\ y + d2 = v + e2
  BY <1>4, <1>5
<1>7. \/ x + 2 * d1 = u /\ y + 2 * d2 = v
      \/ x + 2 * d1 = u + 2 * e1 /\ y + 2 * d2 = v + 2 * e2
  BY <1>2, <1>3, <1>4, <1>5, <1>6
<1> QED
  BY <1>2, <1>4, <1>5, <1>7

\* Every step can be taken back.
LEMMA Back ==
    ASSUME NEW a \in Pairs, NEW d \in Directions
    PROVE  \E e \in Directions : /\ Step(Step(a, d, 1), e, 1) = a
                                 /\ Step(Step(a, d, 2), e, 1) = Step(a, d, 1)
<1> DEFINE x == a[1]
           y == a[2]
           d1 == d[1]
           d2 == d[2]
           e == <<-d1, -d2>>
           w == <<x + d1, y + d2>>
           b == <<x + 2 * d1, y + 2 * d2>>
<1>1. x \in Int /\ y \in Int /\ a = <<x, y>>
  BY DEF Pairs
<1>2. /\ d1 \in Int /\ d2 \in Int /\ e \in Directions
      /\ Step(a, d, 1) = w /\ Step(a, d, 2) = b
  <2>1. e \in Directions
    BY DEF Directions
  <2>2. QED
    BY <2>1, StepSum
<1>3. w \in Pairs /\ b \in Pairs
  <2> HIDE DEF x, y, d1, d2
  <2>1. x + d1 \in Int /\ y + d2 \in Int /\ x + 2 * d1 \in Int /\ y + 2 * d2 \in Int
    BY <1>1, <1>2
  <2>2. QED
    BY <2>1 DEF Pairs
<1>4. /\ Step(w, e, 1) = <<w[1] + e[1], w[2] + e[2]>>
      /\ Step(b, e, 1) = <<b[1] + e[1], b[2] + e[2]>>
  BY <1>2, <1>3, StepSum
<1>5. Step(w, e, 1) = a /\ Step(b, e, 1) = w
  <2> HIDE DEF x, y, d1, d2
  <2>1. /\ (x + d1) + (-d1) = x /\ (y + d2) + (-d2) = y
        /\ (x + 2 * d1) + (-d1) = x + d1 /\ (y + 2 * d2) + (-d2) = y + d2
    BY <1>1, <1>2
  <2>2. QED
    BY <1>1, <1>4, <2>1
<1> QED
  BY <1>2, <1>5

\* How a value follows from its place and the value before.  A function of
\* numbers may be defined from its value before.
Rules(D) == [Nat \X D -> D]

\* h has the values that F gives after b, up to the n-th.
Unfolds(h, D, b, F, n) ==
    /\ h \in [0..n -> D]
    /\ h[0] = b /\ \A i \in 1..n : h[i] = F[<<i, h[i - 1]>>]

LEMMA Recursion ==
    ASSUME NEW D, NEW b \in D, NEW F \in Rules(D), NEW n \in Nat
    PROVE  \E h : Unfolds(h, D, b, F, n)
<1> DEFINE Q(h, k) == h[0] = b /\ \A i \in 1..k : h[i] = F[<<i, h[i - 1]>>]
           P(k) == \E h \in [0..k -> D] : Q(h, k)
           S == {k \in Nat : ~P(k)}
<1>1. SUFFICES P(n)
  BY <1>1 DEF Unfolds
<1>2. SUFFICES ASSUME S # {} PROVE FALSE
  OBVIOUS
<1>3. PICK k \in S : \A g \in S : k <= g
  <2>1. S \in SUBSET Nat
    OBVIOUS
  <2> HIDE DEF S
  <2>2. QED
    BY <1>2, <2>1, LowestNumber
<1>4. k \in Nat /\ ~P(k)
  BY <1>3
<1>5. k # 0
  <2> DEFINE h0 == [i \in 0..0 |-> b]
  <2>1. h0 \in [0..0 -> D] /\ h0[0] = b /\ 1..0 = {}
    OBVIOUS
  <2> HIDE DEF h0
  <2>2. Q(h0, 0)
    BY <2>1
  <2>3. P(0)
    BY <2>1, <2>2
  <2>4. QED
    BY <1>4, <2>3
<1>6. k - 1 \in Nat /\ ~(k <= k - 1)
  BY <1>4, <1>5
<1>7. P(k - 1)
  <2>1. k - 1 \notin S
    BY <1>3, <1>6
  <2>2. QED
    BY <1>6, <2>1
<1>8. PICK h \in [0..(k - 1) -> D] : Q(h, k - 1)
  BY <1>7
<1> DEFINE g == [i \in 0..k |-> IF i = k THEN F[<<k, h[k - 1]>>] ELSE h[i]]
<1>9. /\ \A i \in 0..k : i = k \/ i \in 0..(k - 1)
      /\ \A i \in 0..(k - 1) : i \in 0..k /\ i # k
      /\ k - 1 \in 0..(k - 1) /\ 0 \in 0..(k - 1) /\ k \in 0..k
  BY <1>4, <1>6
<1>10. /\ g[k] = F[<<k, h[k - 1]>>]
       /\ \A i \in 0..(k - 1) : g[i] = h[i]
  BY <1>9
<1>11. F[<<k, h[k - 1]>>] \in D
  BY <1>4, <1>9 DEF Rules
<1>12. g \in [0..k -> D]
  <2>1. ASSUME NEW i \in 0..k
        PROVE  (IF i = k THEN F[<<k, h[k - 1]>>] ELSE h[i]) \in D
    BY <1>9, <1>11
  <2>2. QED
    BY <2>1
<1> HIDE DEF g
<1>13. ASSUME NEW i \in 1..k
       PROVE  g[i] = F[<<i, g[i - 1]>>]
  <2>1. i - 1 \in 0..(k - 1) /\ (i = k \/ i \in 1..(k - 1))
    BY <1>4
  <2>2. g[i - 1] = h[i - 1]
    BY <1>10, <2>1
  <2>3. CASE i = k
    BY <1>10, <2>2, <2>3
  <2>4. CASE i \in 1..(k - 1)
    <3>1. i \in 0..(k - 1) /\ h[i] = F[<<i, h[i - 1]>>]
      BY <1>8, <2>4
    <3>2. QED
      BY <1>10, <2>2, <3>1
  <2>5. QED
    BY <2>1, <2>3, <2>4
<1>14. g[0] = b
  BY <1>8, <1>9, <1>10
<1>15. P(k)
  BY <1>12, <1>13, <1>14
<1>16. QED
  BY <1>4, <1>15

-----------------------------------------------------------------------------
(* The generator: its invariant                                            *)

\* The places that the walk has been at.
Visited == gen.open \cap OddPlaces

GenKinds ==
    /\ size \in Sizes
    /\ gen \in [open : SUBSET Pairs, stack : Seq(OddPlaces), at : OddPlaces,
                does : {"walk", "holes"}, left : Nat]

\* The stack is a way without a repetition that leads to where the walk is.
Trail ==
    /\ gen.at \in gen.open /\ <<1, 1>> \in gen.open
    /\ \A i \in 1..Len(gen.stack) : gen.stack[i] \in gen.open /\ gen.stack[i] # gen.at
    /\ \A i, j \in 1..Len(gen.stack) : gen.stack[i] = gen.stack[j] => i = j

\* The walk has left nothing behind that is not on the stack.
Seen(p) == \A d \in Directions : Inside(Step(p, d, 2)) => Step(p, d, 2) \in gen.open
Explored ==
    \A p \in Visited :
        p = gen.at \/ (\E i \in 1..Len(gen.stack) : p = gen.stack[i]) \/ Seen(p)

\* A wall is open between two visited places only.
Walls ==
    \A p \in gen.open :
        \/ p \in OddPlaces
        \/ \E q \in Visited, d \in Directions :
               p = Step(q, d, 1) /\ Step(q, d, 2) \in Visited

\* No part of the open places that holds the first one is closed but all of them.
LinkedIn(O) ==
    \A P \in SUBSET O :
        /\ <<1, 1>> \in P
        /\ \A p \in O, d \in Directions : Step(p, d, 1) \in P => p \in P
        => P = O

\* The open places are a tree: one wall less than visited places.
Counted ==
    /\ IsFiniteSet(gen.open)
    /\ gen.does = "walk" \/ size.holes = 0 =>
          Cardinality(gen.open) = 2 * Cardinality(Visited) - 1

WalkDone ==
    gen.does = "holes" =>
        OddPlaces \subseteq gen.open /\ (size.holes = 0 => gen.left = 0)

GenInv ==
    GenKinds /\ Trail /\ Explored /\ Walls /\ LinkedIn(gen.open) /\ Counted /\ WalkDone

LEMMA LinkMore ==
    ASSUME NEW O, LinkedIn(O), <<1, 1>> \in O, NEW a \in O, NEW w, NEW e \in Directions,
           Step(w, e, 1) = a
    PROVE  LinkedIn(O \cup {w})
<1> DEFINE N == O \cup {w}
<1> SUFFICES ASSUME NEW P \in SUBSET N, <<1, 1>> \in P,
                    \A p \in N, d \in Directions : Step(p, d, 1) \in P => p \in P
             PROVE  P = N
  BY DEF LinkedIn
<1> DEFINE Q == P \cap O
<1>1. Q \in SUBSET O /\ <<1, 1>> \in Q
  OBVIOUS
<1>2. \A p \in O, d \in Directions : Step(p, d, 1) \in Q => p \in Q
  OBVIOUS
<1> HIDE DEF Q
<1>3. Q = O
  BY <1>1, <1>2 DEF LinkedIn
<1>4. O \subseteq P
  BY <1>3 DEF Q
<1>5. w \in P
  BY <1>4
<1>6. QED
  BY <1>4, <1>5

LEMMA GenStarts ==
    ASSUME GeneratorInit
    PROVE  GenInv
<1>1. /\ size \in Sizes
      /\ gen = [open |-> {<<1, 1>>}, stack |-> << >>, at |-> <<1, 1>>,
                does |-> "walk", left |-> 0]
  BY DEF GeneratorInit
<1>2. <<1, 1>> \in OddPlaces /\ <<1, 1>> \in Pairs
  <2>1. 1 % 2 = 1 /\ <<1, 1>> \in Pairs
    BY DEF Pairs
  <2>2. QED
    BY <1>1, <2>1, OddPlace, Sides
<1>3. GenKinds
  BY <1>1, <1>2 DEF GenKinds
<1>4. Trail
  BY <1>1 DEF Trail
<1>5. Visited = {<<1, 1>>}
  BY <1>1, <1>2 DEF Visited
<1>6. Explored
  BY <1>1, <1>5 DEF Explored
<1>7. Walls
  BY <1>1, <1>2 DEF Walls
<1>8. LinkedIn(gen.open)
  BY <1>1 DEF LinkedIn
<1>9. Counted
  <2>1. IsFiniteSet({<<1, 1>>}) /\ Cardinality({<<1, 1>>}) = 1
    BY FS_Singleton
  <2>2. gen.open = {<<1, 1>>}
    BY <1>1
  <2>3. QED
    BY <1>5, <2>1, <2>2 DEF Counted
<1>10. WalkDone
  BY <1>1 DEF WalkDone
<1>11. QED
  BY <1>3, <1>4, <1>6, <1>7, <1>8, <1>9, <1>10 DEF GenInv

\* What does not change with the size.
LEMMA SameSize ==
    ASSUME size' = size
    PROVE  OddPlaces' = OddPlaces /\ (\A p : Inside(p)' <=> Inside(p))
BY DEF OddPlaces, Inside

LEMMA WalkStep ==
    ASSUME GenInv, NEW d \in Directions, Walk(d)
    PROVE  GenInv'
<1> DEFINE a == gen.at
           w == Step(a, d, 1)
           b == Step(a, d, 2)
           O == gen.open
           t == gen.stack
           n == Len(t)
<1>1. /\ GenKinds /\ Trail /\ Explored /\ Walls /\ LinkedIn(O) /\ Counted /\ WalkDone
  BY DEF GenInv
<1>2. /\ gen.does = "walk" /\ size' = size
      /\ Inside(b) /\ b \notin O
      /\ gen' = [gen EXCEPT !.stack = Append(@, gen.at), !.at = Step(@, d, 2),
                            !.open = @ \cup {Step(gen.at, d, 1), Step(gen.at, d, 2)}]
  BY DEF Walk, Unvisited
<1>3. /\ size \in Sizes /\ a \in OddPlaces /\ t \in Seq(OddPlaces) /\ n \in Nat
      /\ O \in SUBSET Pairs /\ gen.left \in Nat
  BY <1>1 DEF GenKinds
<1>4. b \in OddPlaces /\ w \notin OddPlaces /\ w \in Pairs /\ a \in Pairs /\ b \in Pairs
  <2>1. b \in OddPlaces /\ w \notin OddPlaces /\ w \in Pairs
    BY <1>2, <1>3, Neighbour
  <2>2. QED
    BY <1>3, <2>1, OddPlace
<1>5. /\ gen'.open = O \cup {w, b} /\ gen'.stack = Append(t, a) /\ gen'.at = b
      /\ gen'.does = "walk" /\ gen'.left = gen.left
  BY <1>1, <1>2 DEF GenKinds
<1>6. OddPlaces' = OddPlaces /\ (\A p : Inside(p)' <=> Inside(p))
  BY <1>2, SameSize
<1>7. GenKinds'
  <2> DEFINE open2 == O \cup {w, b}
             t2 == Append(t, a)
  <2>1. open2 \in SUBSET Pairs
    BY <1>3, <1>4
  <2>2. t2 \in Seq(OddPlaces)
    BY <1>3
  <2>3. gen' = [open |-> open2, stack |-> t2, at |-> b, does |-> "walk", left |-> gen.left]
    BY <1>1, <1>2 DEF GenKinds
  <2> HIDE DEF open2, t2
  <2>4. gen' \in [open : SUBSET Pairs, stack : Seq(OddPlaces), at : OddPlaces,
                  does : {"walk", "holes"}, left : Nat]
    BY <1>3, <1>4, <2>1, <2>2, <2>3
  <2>5. QED
    BY <1>2, <1>3, <1>6, <2>4 DEF GenKinds
<1>8. /\ Len(gen'.stack) = n + 1
      /\ \A i \in 1..n : i \in 1..(n + 1) /\ gen'.stack[i] = t[i]
      /\ gen'.stack[n + 1] = a
  BY <1>3, <1>5
<1>9. \A i \in 1..(n + 1) : i = n + 1 \/ i \in 1..n
  BY <1>3
<1>10. a \in O /\ a # b /\ <<1, 1>> \in O
  BY <1>1, <1>2 DEF Trail
<1>11. Visited' = Visited \cup {b}
  BY <1>4, <1>5, <1>6 DEF Visited
<1>12. w \notin O
  <2> SUFFICES ASSUME w \in O PROVE FALSE
    OBVIOUS
  <2>1. PICK q \in Visited, e \in Directions :
           w = Step(q, e, 1) /\ Step(q, e, 2) \in Visited
    BY <1>1, <1>4 DEF Walls
  <2>2. b = q \/ b = Step(q, e, 2)
    BY <1>3, <2>1, OneWall DEF Visited
  <2>3. QED
    BY <1>2, <2>1, <2>2 DEF Visited
<1> HIDE DEF a, w, b, O, t, n
<1>13. Trail'
  <2>1. \A i \in 1..n : t[i] \in O /\ t[i] # a /\ t[i] # b
    BY <1>1, <1>2 DEF Trail, O, t, n, a
  <2>2. \A i, j \in 1..n : t[i] = t[j] => i = j
    BY <1>1 DEF Trail, t, n
  <2>3. \A i \in 1..(n + 1) : gen'.stack[i] \in gen'.open /\ gen'.stack[i] # gen'.at
    BY <1>5, <1>8, <1>9, <1>10, <2>1
  <2>4. \A i, j \in 1..(n + 1) : gen'.stack[i] = gen'.stack[j] => i = j
    BY <1>8, <1>9, <2>1, <2>2
  <2>5. gen'.at \in gen'.open /\ <<1, 1>> \in gen'.open
    BY <1>5, <1>10
  <2>6. QED
    BY <1>8, <2>3, <2>4, <2>5 DEF Trail
<1>14. Explored'
  <2> SUFFICES ASSUME NEW p \in Visited \cup {b}
               PROVE  \/ p = gen'.at
                      \/ \E i \in 1..(n + 1) : p = gen'.stack[i]
                      \/ Seen(p)'
    BY <1>8, <1>11 DEF Explored
  <2>1. CASE p = b
    BY <1>5, <2>1
  <2>2. CASE p = a
    <3>1. n + 1 \in 1..(n + 1)
      BY <1>3
    <3>2. QED
      BY <1>8, <2>2, <3>1
  <2>3. CASE p \in Visited /\ p # a
    <3>1. (\E i \in 1..n : p = t[i]) \/ Seen(p)
      BY <1>1, <2>3 DEF Explored, a, n, t
    <3>2. Seen(p) => Seen(p)'
      BY <1>5, <1>6 DEF Seen, O
    <3>3. QED
      BY <1>8, <3>1, <3>2
  <2>4. QED
    BY <2>1, <2>2, <2>3
<1>15. Walls'
  <2> SUFFICES ASSUME NEW p \in O \cup {w, b}
               PROVE  \/ p \in OddPlaces
                      \/ \E q \in Visited', e \in Directions :
                             p = Step(q, e, 1) /\ Step(q, e, 2) \in Visited'
    BY <1>5, <1>6 DEF Walls
  <2>1. CASE p = b
    BY <1>4, <2>1
  <2>2. CASE p = w
    <3>1. a \in Visited' /\ b \in Visited'
      BY <1>3, <1>10, <1>11 DEF Visited, O
    <3>2. QED
      BY <2>2, <3>1 DEF w, b
  <2>3. CASE p \in O
    BY <1>1, <1>11, <2>3 DEF Walls, O
  <2>4. QED
    BY <2>1, <2>2, <2>3
<1>16. LinkedIn(gen.open)'
  <2>1. PICK e \in Directions : Step(w, e, 1) = a /\ Step(b, e, 1) = w
    BY <1>4, Back DEF w, b
  <2>2. LinkedIn(O \cup {w})
    BY <1>1, <1>10, <2>1, LinkMore
  <2>3. LinkedIn((O \cup {w}) \cup {b})
    <3> DEFINE N == O \cup {w}
    <3>1. <<1, 1>> \in N /\ w \in N
      BY <1>10
    <3> HIDE DEF N
    <3>2. LinkedIn(N \cup {b})
      BY <2>1, <2>2, <3>1, LinkMore DEF N
    <3>3. QED
      BY <3>2 DEF N
  <2>4. (O \cup {w}) \cup {b} = gen'.open
    BY <1>5
  <2>5. LinkedIn(gen'.open)
    BY <2>3, <2>4
  <2>6. QED
    BY <2>5 DEF LinkedIn
<1>17. Counted'
  <2>1. IsFiniteSet(O) /\ Cardinality(O) = 2 * Cardinality(Visited) - 1
    BY <1>1, <1>2 DEF Counted, O
  <2>2. /\ IsFiniteSet(O \cup {w}) /\ Cardinality(O \cup {w}) = Cardinality(O) + 1
    BY <1>12, <2>1, FS_AddElement
  <2>3. b \notin O \cup {w}
    BY <1>2, <1>4 DEF O
  <2>4. /\ IsFiniteSet((O \cup {w}) \cup {b})
        /\ Cardinality((O \cup {w}) \cup {b}) = Cardinality(O \cup {w}) + 1
    BY <2>2, <2>3, FS_AddElement
  <2>5. (O \cup {w}) \cup {b} = gen'.open
    BY <1>5
  <2>6. IsFiniteSet(Visited) /\ b \notin Visited
    BY <1>2, <2>1, FS_Subset DEF Visited, O
  <2>7. Cardinality(Visited') = Cardinality(Visited) + 1
    BY <1>11, <2>6, FS_AddElement
  <2>8. Cardinality(O) \in Nat /\ Cardinality(Visited) \in Nat
    BY <2>1, <2>6, FS_CardinalityType
  <2>9. IsFiniteSet(gen'.open) /\ Cardinality(gen'.open) = Cardinality(O) + 1 + 1
    BY <2>2, <2>4, <2>5
  <2>10. Cardinality(gen'.open) = 2 * Cardinality(Visited') - 1
    BY <2>1, <2>7, <2>8, <2>9
  <2>11. QED
    BY <2>9, <2>10 DEF Counted
<1>18. WalkDone'
  BY <1>5 DEF WalkDone
<1>19. QED
  BY <1>7, <1>13, <1>14, <1>15, <1>16, <1>17, <1>18 DEF GenInv

LEMMA BacktrackStep ==
    ASSUME GenInv, Backtrack
    PROVE  GenInv'
<1> DEFINE t == gen.stack
           n == Len(t)
           t2 == SubSeq(t, 1, n - 1)
<1>1. /\ GenKinds /\ Trail /\ Explored /\ Walls /\ LinkedIn(gen.open) /\ Counted
      /\ WalkDone
  BY DEF GenInv
<1>2. /\ gen.does = "walk" /\ size' = size /\ Unvisited = {} /\ t # << >>
      /\ gen' = [gen EXCEPT !.at = t[n], !.stack = t2]
  BY DEF Backtrack, Last, Front
<1>3. /\ size \in Sizes /\ t \in Seq(OddPlaces) /\ n \in Nat \ {0}
  BY <1>1, <1>2 DEF GenKinds
<1>4. /\ t2 \in Seq(OddPlaces) /\ Len(t2) = n - 1
      /\ \A i \in 1..(n - 1) : t2[i] = t[i]
  BY <1>3
<1>5. t[n] \in OddPlaces /\ n \in 1..n /\ \A i \in 1..(n - 1) : i \in 1..n /\ i # n
  BY <1>3
<1> HIDE DEF t2
<1>6. /\ gen'.open = gen.open /\ gen'.stack = t2 /\ gen'.at = t[n]
      /\ gen'.does = gen.does /\ gen'.left = gen.left
  BY <1>1, <1>2 DEF GenKinds
<1>7. OddPlaces' = OddPlaces /\ (\A p : Inside(p)' <=> Inside(p))
  BY <1>2, SameSize
<1>8. Visited' = Visited
  BY <1>6, <1>7 DEF Visited
<1>9. GenKinds'
  <2>1. gen' \in [open : SUBSET Pairs, stack : Seq(OddPlaces), at : OddPlaces,
                  does : {"walk", "holes"}, left : Nat]
    BY <1>1, <1>2, <1>4, <1>5 DEF GenKinds
  <2>2. QED
    BY <1>2, <1>3, <1>7, <2>1 DEF GenKinds
<1>10. Trail'
  <2>1. \A i \in 1..(n - 1) : t2[i] \in gen.open /\ t2[i] # t[n]
    BY <1>1, <1>4, <1>5 DEF Trail
  <2>2. \A i, j \in 1..(n - 1) : t2[i] = t2[j] => i = j
    BY <1>1, <1>4, <1>5 DEF Trail
  <2>3. t[n] \in gen.open /\ <<1, 1>> \in gen.open
    BY <1>1, <1>5 DEF Trail
  <2>4. QED
    BY <1>4, <1>6, <2>1, <2>2, <2>3 DEF Trail
<1>11. Explored'
  <2>1. Seen(gen.at)
    BY <1>2 DEF Unvisited, Seen
  <2>2. ASSUME NEW p \in Visited
        PROVE  p = t[n] \/ (\E i \in 1..(n - 1) : p = t2[i]) \/ Seen(p)
    <3>1. (\E i \in 1..n : p = t[i]) \/ Seen(p)
      BY <1>1, <2>1 DEF Explored
    <3>2. \A i \in 1..n : i = n \/ i \in 1..(n - 1)
      BY <1>3
    <3>3. QED
      BY <1>4, <3>1, <3>2
  <2>3. \A p : Seen(p)' <=> Seen(p)
    BY <1>6, <1>7 DEF Seen
  <2>4. QED
    BY <1>4, <1>6, <1>8, <2>2, <2>3 DEF Explored
<1>12. Walls'
  BY <1>1, <1>6, <1>7, <1>8 DEF Walls
<1>13. LinkedIn(gen.open)' /\ Counted' /\ WalkDone'
  BY <1>1, <1>2, <1>6, <1>7, <1>8 DEF LinkedIn, Counted, WalkDone
<1>14. QED
  BY <1>9, <1>10, <1>11, <1>12, <1>13 DEF GenInv

\* When the walk is back at its beginning with nowhere to go it has been
\* everywhere: the first place that it missed would have a neighbour that it
\* saw everything around.
LEMMA WalkedEverywhere ==
    ASSUME GenKinds, Trail, Explored, Unvisited = {}, gen.stack = << >>
    PROVE  OddPlaces \subseteq gen.open
<1> DEFINE Missed == OddPlaces \ gen.open
           Sums == {p[1] + p[2] : p \in Missed}
<1>1. SUFFICES ASSUME Missed # {} PROVE FALSE
  BY <1>1
<1>2. size \in Sizes
  BY DEF GenKinds
<1>3. \A p \in OddPlaces : p \in Pairs /\ p[1] \in Nat /\ p[2] \in Nat /\ p[1] + p[2] \in Nat
  BY <1>2, OddPlace DEF Pairs
<1>4. Sums \in SUBSET Nat /\ Sums # {}
  BY <1>1, <1>3
<1>5. PICK m \in Sums : \A g \in Sums : m <= g
  <2> HIDE DEF Sums
  <2>1. QED
    BY <1>4, LowestNumber
<1>6. PICK p \in Missed : m = p[1] + p[2]
  BY <1>5
<1>7. \A q \in OddPlaces : q[1] + q[2] < p[1] + p[2] => q \in gen.open
  <2> SUFFICES ASSUME NEW q \in OddPlaces, q[1] + q[2] < p[1] + p[2], q \notin gen.open
               PROVE  FALSE
    OBVIOUS
  <2>1. q[1] + q[2] \in Sums
    OBVIOUS
  <2>2. m <= q[1] + q[2]
    BY <1>5, <2>1
  <2>3. q[1] + q[2] \in Nat /\ p[1] + p[2] \in Nat
    BY <1>3
  <2>4. QED
    BY <1>6, <2>2, <2>3
<1>8. \A q \in Visited : Seen(q)
  <2>1. Len(gen.stack) = 0
    OBVIOUS
  <2>2. Seen(gen.at)
    BY DEF Unvisited, Seen
  <2>3. QED
    BY <2>1, <2>2 DEF Explored
<1> DEFINE x == p[1]
           y == p[2]
<1>9. /\ p \in Pairs /\ p = <<x, y>> /\ x \in Nat /\ y \in Nat
      /\ x < size.width /\ x % 2 = 1 /\ y < size.height /\ y % 2 = 1
      /\ p \notin gen.open
  BY <1>2, <1>3, OddPlace DEF Pairs
<1> HIDE DEF x, y, Missed
<1>10. x # 0 /\ y # 0 /\ x # 2 /\ y # 2
  BY <1>9
<1>11. x >= 3 \/ y >= 3
  <2>1. p # <<1, 1>>
    BY <1>9 DEF Trail
  <2>2. x # 1 \/ y # 1
    BY <1>9, <2>1
  <2>3. QED
    BY <1>9, <1>10, <2>2
<1>12. Inside(p)
  BY <1>2, <1>9, Sides DEF Inside
<1>13. CASE x >= 3
  <2> DEFINE q == <<x - 2, y>>
  <2>1. q \in Pairs /\ (x - 2) % 2 = 1 /\ x - 2 \in Nat /\ x - 2 < size.width
    BY <1>2, <1>9, <1>13, Parity, Sides DEF Pairs
  <2>2. q \in OddPlaces
    BY <1>2, <1>9, <2>1, OddPlace
  <2>3. q[1] + q[2] < p[1] + p[2]
    BY <1>9, <2>1
  <2>4. Seen(q)
    BY <1>7, <1>8, <2>2, <2>3 DEF Visited
  <2>5. Step(q, <<1, 0>>, 2) = <<(x - 2) + 2, y>>
    BY <2>1, Steps
  <2>6. Step(q, <<1, 0>>, 2) = p
    BY <1>9, <2>5
  <2>7. <<1, 0>> \in Directions
    BY DEF Directions
  <2>8. QED
    BY <1>9, <1>12, <2>4, <2>6, <2>7 DEF Seen
<1>14. CASE y >= 3
  <2> DEFINE q == <<x, y - 2>>
  <2>1. q \in Pairs /\ (y - 2) % 2 = 1 /\ y - 2 \in Nat /\ y - 2 < size.height
    BY <1>2, <1>9, <1>14, Parity, Sides DEF Pairs
  <2>2. q \in OddPlaces
    BY <1>2, <1>9, <2>1, OddPlace
  <2>3. q[1] + q[2] < p[1] + p[2]
    BY <1>9, <2>1
  <2>4. Seen(q)
    BY <1>7, <1>8, <2>2, <2>3 DEF Visited
  <2>5. Step(q, <<0, 1>>, 2) = <<x, (y - 2) + 2>>
    BY <2>1, Steps
  <2>6. Step(q, <<0, 1>>, 2) = p
    BY <1>9, <2>5
  <2>7. <<0, 1>> \in Directions
    BY DEF Directions
  <2>8. QED
    BY <1>9, <1>12, <2>4, <2>6, <2>7 DEF Seen
<1> QED
  BY <1>11, <1>13, <1>14

LEMMA WalkEndsStep ==
    ASSUME GenInv, WalkEnds
    PROVE  GenInv'
<1> DEFINE area == size.width * size.height
           half == area \div 2
           prod == half * size.holes
           holes == prod \div 1000
<1>1. /\ GenKinds /\ Trail /\ Explored /\ Walls /\ LinkedIn(gen.open) /\ Counted
      /\ WalkDone
  BY DEF GenInv
<1>2. /\ gen.does = "walk" /\ size' = size /\ Unvisited = {} /\ gen.stack = << >>
      /\ gen' = [gen EXCEPT !.does = "holes", !.left = holes]
  BY DEF WalkEnds
<1>3. size \in Sizes
  BY <1>1 DEF GenKinds
<1>4. area \in Nat
  <2>1. \A k, l \in Nat : k * l \in Nat
    OBVIOUS
  <2>2. QED
    BY <1>3, <2>1, Sides
<1> HIDE DEF area
<1>5. half \in Nat
  BY <1>4
<1> HIDE DEF half
<1>6. prod \in Nat /\ (size.holes = 0 => prod = 0)
  <2>1. \A k, l \in Nat : k * l \in Nat /\ (l = 0 => k * l = 0)
    OBVIOUS
  <2>2. QED
    BY <1>3, <1>5, <2>1, Sides
<1> HIDE DEF prod
<1>7. holes \in Nat /\ (size.holes = 0 => holes = 0)
  BY <1>6
<1> HIDE DEF holes
<1>8. /\ gen'.open = gen.open /\ gen'.stack = gen.stack /\ gen'.at = gen.at
      /\ gen'.does = "holes" /\ gen'.left = holes
  BY <1>1, <1>2 DEF GenKinds
<1>9. OddPlaces' = OddPlaces /\ (\A p : Inside(p)' <=> Inside(p))
  BY <1>2, SameSize
<1>10. Visited' = Visited /\ (\A p : Seen(p)' <=> Seen(p))
  BY <1>8, <1>9 DEF Visited, Seen
<1>11. GenKinds'
  <2>1. gen' \in [open : SUBSET Pairs, stack : Seq(OddPlaces), at : OddPlaces,
                  does : {"walk", "holes"}, left : Nat]
    BY <1>1, <1>2, <1>7 DEF GenKinds
  <2>2. QED
    BY <1>2, <1>3, <1>9, <2>1 DEF GenKinds
<1>12. Trail' /\ Explored' /\ Walls'
  BY <1>1, <1>8, <1>9, <1>10 DEF Trail, Explored, Walls
<1>13. LinkedIn(gen.open)' /\ Counted'
  BY <1>1, <1>2, <1>8, <1>10 DEF LinkedIn, Counted
<1>14. WalkDone'
  BY <1>1, <1>2, <1>7, <1>8, <1>9, WalkedEverywhere DEF WalkDone
<1>15. QED
  BY <1>11, <1>12, <1>13, <1>14 DEF GenInv

\* A wall between two places of the grid.
LEMMA BetweenOdd ==
    ASSUME size \in Sizes, NEW p \in Between
    PROVE  /\ p \in Pairs
           /\ \E q \in OddPlaces, d \in Directions :
                  p = Step(q, d, 1) /\ Step(q, d, 2) \in OddPlaces
<1> DEFINE w == size.width \div 2
           h == size.height \div 2
<1>1. /\ w \in Nat /\ 2 * w <= size.width /\ h \in Nat /\ 2 * h <= size.height
      /\ size.width \in Nat /\ size.height \in Nat
  BY Sides
<1>2. /\ <<1, 0>> \in Directions /\ <<0, 1>> \in Directions
  BY DEF Directions
<1>3. \/ \E i \in 0..(w - 2), j \in 0..(h - 1) : p = <<2 * i + 2, 2 * j + 1>>
      \/ \E i \in 0..(w - 1), j \in 0..(h - 2) : p = <<2 * i + 1, 2 * j + 2>>
  BY DEF Between
<1> HIDE DEF w, h
<1>4. ASSUME NEW i \in 0..(w - 2), NEW j \in 0..(h - 1), p = <<2 * i + 2, 2 * j + 1>>
      PROVE  /\ p \in Pairs
             /\ \E q \in OddPlaces, d \in Directions :
                    p = Step(q, d, 1) /\ Step(q, d, 2) \in OddPlaces
  <2> DEFINE x == 2 * i + 1
             y == 2 * j + 1
             q == <<x, y>>
             b == <<x + 2, y>>
  <2>1. /\ x \in Nat /\ y \in Nat /\ x % 2 = 1 /\ y % 2 = 1 /\ (x + 2) % 2 = 1
        /\ x < size.width /\ x + 2 < size.width /\ y < size.height
        /\ 2 * i + 2 = x + 1
    BY <1>1
  <2> HIDE DEF x, y
  <2>2. q \in Pairs /\ b \in Pairs /\ p = <<x + 1, y>> /\ <<x + 1, y>> \in Pairs
    BY <1>4, <2>1 DEF Pairs, y
  <2>3. q \in OddPlaces /\ b \in OddPlaces
    BY <2>1, <2>2, OddPlace
  <2>4. Step(q, <<1, 0>>, 1) = <<x + 1, y>> /\ Step(q, <<1, 0>>, 2) = b
    BY <2>2, Steps
  <2>5. QED
    BY <1>2, <2>2, <2>3, <2>4
<1>5. ASSUME NEW i \in 0..(w - 1), NEW j \in 0..(h - 2), p = <<2 * i + 1, 2 * j + 2>>
      PROVE  /\ p \in Pairs
             /\ \E q \in OddPlaces, d \in Directions :
                    p = Step(q, d, 1) /\ Step(q, d, 2) \in OddPlaces
  <2> DEFINE x == 2 * i + 1
             y == 2 * j + 1
             q == <<x, y>>
             b == <<x, y + 2>>
  <2>1. /\ x \in Nat /\ y \in Nat /\ x % 2 = 1 /\ y % 2 = 1 /\ (y + 2) % 2 = 1
        /\ y < size.height /\ y + 2 < size.height /\ x < size.width
        /\ 2 * j + 2 = y + 1
    BY <1>1
  <2> HIDE DEF x, y
  <2>2. q \in Pairs /\ b \in Pairs /\ p = <<x, y + 1>> /\ <<x, y + 1>> \in Pairs
    BY <1>5, <2>1 DEF Pairs, x
  <2>3. q \in OddPlaces /\ b \in OddPlaces
    BY <2>1, <2>2, OddPlace
  <2>4. Step(q, <<0, 1>>, 1) = <<x, y + 1>> /\ Step(q, <<0, 1>>, 2) = b
    BY <2>2, Steps
  <2>5. QED
    BY <1>2, <2>2, <2>3, <2>4
<1> QED
  BY <1>3, <1>4, <1>5

LEMMA HoleStep ==
    ASSUME GenInv, NEW p \in Between, Hole(p)
    PROVE  GenInv'
<1> DEFINE O == gen.open
           open2 == O \cup {p}
           left2 == gen.left - 1
<1>1. /\ GenKinds /\ Trail /\ Explored /\ Walls /\ LinkedIn(O) /\ Counted /\ WalkDone
  BY DEF GenInv
<1>2. /\ gen.does = "holes" /\ gen.left > 0 /\ size' = size
      /\ gen' = [gen EXCEPT !.open = open2, !.left = left2]
  BY <1>1 DEF Hole, GenKinds
<1>3. size \in Sizes /\ gen.left \in Nat /\ left2 \in Nat /\ O \in SUBSET Pairs
  BY <1>1, <1>2 DEF GenKinds
<1>4. p \in Pairs
  BY <1>3, BetweenOdd
<1>5. PICK q \in OddPlaces, d \in Directions :
         p = Step(q, d, 1) /\ Step(q, d, 2) \in OddPlaces
  BY <1>3, BetweenOdd
<1>6. OddPlaces \subseteq O /\ size.holes # 0
  BY <1>1, <1>2 DEF WalkDone
<1>7. /\ gen'.open = open2 /\ gen'.stack = gen.stack /\ gen'.at = gen.at
      /\ gen'.does = "holes" /\ gen'.left = left2
  BY <1>1, <1>2 DEF GenKinds
<1>8. OddPlaces' = OddPlaces /\ (\A r : Inside(r)' <=> Inside(r))
  BY <1>2, SameSize
<1>9. Visited = OddPlaces /\ Visited' = OddPlaces
  BY <1>6, <1>7, <1>8 DEF Visited
<1>10. open2 \in SUBSET Pairs
  BY <1>3, <1>4
<1>11. GenKinds'
  <2> HIDE DEF open2, left2
  <2>1. gen' \in [open : SUBSET Pairs, stack : Seq(OddPlaces), at : OddPlaces,
                  does : {"walk", "holes"}, left : Nat]
    BY <1>1, <1>2, <1>3, <1>10 DEF GenKinds
  <2>2. QED
    BY <1>2, <1>3, <1>8, <2>1 DEF GenKinds
<1>12. Trail'
  BY <1>1, <1>7 DEF Trail
<1>13. Explored'
  <2>1. \A r : Seen(r) => Seen(r)'
    BY <1>7, <1>8 DEF Seen
  <2>2. QED
    BY <1>1, <1>7, <1>9, <2>1 DEF Explored
<1>14. Walls'
  BY <1>1, <1>5, <1>7, <1>8, <1>9 DEF Walls
<1>15. LinkedIn(gen.open)'
  <2>1. PICK e \in Directions : Step(p, e, 1) = q
    <3>1. q \in Pairs
      BY <1>3, OddPlace
    <3>2. QED
      BY <1>5, <3>1, Back
  <2>2. <<1, 1>> \in O /\ q \in O
    BY <1>1, <1>6 DEF Trail
  <2> HIDE DEF O
  <2>3. LinkedIn(O \cup {p})
    BY <1>1, <2>1, <2>2, LinkMore
  <2>4. LinkedIn(gen'.open)
    BY <1>7, <2>3
  <2>5. QED
    BY <2>4 DEF LinkedIn
<1>16. Counted'
  <2>1. IsFiniteSet(O)
    BY <1>1 DEF Counted
  <2>2. IsFiniteSet(open2)
    BY <2>1, FS_AddElement
  <2>3. QED
    BY <1>2, <1>6, <1>7, <2>2 DEF Counted
<1>17. WalkDone'
  BY <1>2, <1>6, <1>7, <1>8 DEF WalkDone
<1>18. QED
  BY <1>11, <1>12, <1>13, <1>14, <1>15, <1>16, <1>17 DEF GenInv

\* The walk leaves no place without a way to it and no place on the stack twice.
THEOREM GeneratorInvariant == GeneratorSpec => []GenInv
<1>1. GeneratorInit => GenInv
  BY GenStarts
<1>2. GenInv /\ [GeneratorNext]_generator => GenInv'
  <2> SUFFICES ASSUME GenInv, [GeneratorNext]_generator
               PROVE  GenInv'
    OBVIOUS
  <2>1. ASSUME NEW d \in Directions, Walk(d)
        PROVE  GenInv'
    BY <2>1, WalkStep
  <2>2. ASSUME NEW p \in Between, Hole(p)
        PROVE  GenInv'
    BY <2>2, HoleStep
  <2>3. ASSUME UNCHANGED generator
        PROVE  GenInv'
    <3>1. size' = size /\ gen' = gen
      BY <2>3 DEF generator
    <3>2. OddPlaces' = OddPlaces /\ (\A p : Inside(p)' <=> Inside(p)) /\ Visited' = Visited
      BY <3>1, SameSize DEF Visited
    <3>3. \A p : Seen(p)' <=> Seen(p)
      BY <3>1, <3>2 DEF Seen
    <3>4. GenKinds' /\ Trail' /\ Explored' /\ Walls'
      BY <3>1, <3>2, <3>3 DEF GenInv, GenKinds, Trail, Explored, Walls
    <3>5. LinkedIn(gen.open)' /\ Counted' /\ WalkDone'
      BY <3>1, <3>2 DEF GenInv, LinkedIn, Counted, WalkDone
    <3>6. QED
      BY <3>4, <3>5 DEF GenInv
  <2>4. QED
    BY <2>1, <2>2, <2>3, BacktrackStep, WalkEndsStep DEF GeneratorNext
<1>3. QED
  BY <1>1, <1>2, PTL DEF GeneratorSpec

-----------------------------------------------------------------------------
(* The generator: its stack                                                *)

LEMMA Spread ==
    /\ \A k, l, m \in Nat : k * (l + m) = k * l + k * m
    /\ \A k \in Nat, l \in Nat \ {0} : k * l >= k
    /\ \A k, l \in Nat : k * l \in Nat
OBVIOUS

LEMMA Halves ==
    ASSUME NEW n \in Nat, NEW k \in Nat, k < n, k % 2 = 1
    PROVE  k \div 2 \in 0..((n \div 2) - 1) /\ k = 2 * (k \div 2) + 1
OBVIOUS

\* Rows of w places: no two places have the same number.
LEMMA RowsApart ==
    \A w \in Nat : \A i, k \in 0..(w - 1) : \A j, l \in Nat :
        i + w * j = k + w * l => i = k /\ j = l
<1> SUFFICES ASSUME NEW w \in Nat, NEW i \in 0..(w - 1), NEW k \in 0..(w - 1),
                    NEW j \in Nat, NEW l \in Nat, i + w * j = k + w * l
             PROVE  i = k /\ j = l
  OBVIOUS
<1>1. ASSUME NEW i1 \in 0..(w - 1), NEW k1 \in 0..(w - 1),
             NEW j1 \in Nat, NEW l1 \in Nat, j1 < l1
      PROVE  i1 + w * j1 < k1 + w * l1
  <2> DEFINE m == l1 - j1
             p == w * j1
             q == w * m
             r == w * l1
  <2>1. m \in Nat \ {0} /\ l1 = j1 + m
    BY <1>1
  <2>2. r = p + q /\ q >= w /\ p \in Nat /\ q \in Nat
    BY <2>1, Spread
  <2> HIDE DEF p, q, r
  <2>3. i1 + p < k1 + r
    BY <2>2
  <2>4. QED
    BY <2>3 DEF p, r
<1> DEFINE p == w * j
           q == w * l
<1>2. p \in Nat /\ q \in Nat /\ i + p = k + q
  BY Spread
<1>3. ~(i + p < k + q) /\ ~(k + q < i + p)
  <2> HIDE DEF p, q
  <2>1. QED
    BY <1>2
<1>4. ~(j < l) /\ ~(l < j)
  BY <1>1, <1>3
<1>5. j = l
  BY <1>4
<1> HIDE DEF p, q
<1>6. p = q
  BY <1>5 DEF p, q
<1>7. i = k
  BY <1>2, <1>6
<1> QED
  BY <1>5, <1>7

LEMMA RowsEnd ==
    ASSUME NEW w \in Nat, NEW h \in Nat, NEW i \in 0..(w - 1), NEW j \in 0..(h - 1)
    PROVE  i + w * j \in 0..(w * h - 1)
<1> DEFINE m == h - j
           p == w * j
           q == w * m
           r == w * h
<1>1. m \in Nat \ {0} /\ h = j + m /\ j \in Nat
  OBVIOUS
<1>2. r = p + q /\ q >= w /\ p \in Nat /\ q \in Nat
  BY <1>1, Spread
<1> HIDE DEF p, q, r
<1>3. i + p \in 0..(r - 1)
  BY <1>2
<1> QED
  BY <1>3 DEF p, r

\* The stack of generator.c has room for a quarter of the places, and there are
\* no more than that with odd coordinates: it never overflows, whatever the
\* size of the level and the way of the walk (generator.c:31, 49).
THEOREM StackSuffices == GeneratorSpec => []StackFits
<1>1. GenInv => StackFits
  <2> SUFFICES ASSUME GenInv PROVE StackFits
    OBVIOUS
  <2> DEFINE t == gen.stack
             n == Len(t)
             w == size.width \div 2
             h == size.height \div 2
             f == [i \in 1..n |-> (t[i][1] \div 2) + w * (t[i][2] \div 2)]
             K == w * h
             area == size.width * size.height
  <2>1. size \in Sizes /\ t \in Seq(OddPlaces) /\ n \in Nat
    BY DEF GenInv, GenKinds
  <2>2. /\ size.width \in Nat /\ size.height \in Nat
        /\ w \in Nat /\ h \in Nat /\ 2 * w <= size.width /\ 2 * h <= size.height
    BY <2>1, Sides
  <2>3. ASSUME NEW i \in 1..n
        PROVE  /\ t[i] \in Pairs /\ t[i] = <<t[i][1], t[i][2]>>
               /\ t[i][1] \div 2 \in 0..(w - 1) /\ t[i][2] \div 2 \in 0..(h - 1)
               /\ t[i][1] = 2 * (t[i][1] \div 2) + 1
               /\ t[i][2] = 2 * (t[i][2] \div 2) + 1
    <3> DEFINE x == t[i][1]
               y == t[i][2]
    <3>1. t[i] \in OddPlaces
      BY <2>1
    <3>2. /\ t[i] \in Pairs /\ 0 <= x /\ x < size.width /\ x % 2 = 1
          /\ 0 <= y /\ y < size.height /\ y % 2 = 1
      BY <2>1, <3>1, OddPlace
    <3>3. x \in Nat /\ y \in Nat /\ t[i] = <<x, y>>
      BY <3>2 DEF Pairs
    <3> HIDE DEF x, y
    <3>4. /\ x \div 2 \in 0..(w - 1) /\ x = 2 * (x \div 2) + 1
      BY <2>2, <3>2, <3>3, Halves
    <3>5. /\ y \div 2 \in 0..(h - 1) /\ y = 2 * (y \div 2) + 1
      BY <2>2, <3>2, <3>3, Halves
    <3>6. QED
      BY <3>2, <3>3, <3>4, <3>5 DEF x, y
  <2>4. f \in [1..n -> 0..(K - 1)]
    <3>1. ASSUME NEW i \in 1..n
          PROVE  (t[i][1] \div 2) + w * (t[i][2] \div 2) \in 0..(K - 1)
      BY <2>2, <2>3, RowsEnd
    <3> HIDE DEF K, t, n, w
    <3>2. QED
      BY <3>1
  <2>5. ASSUME NEW i \in 1..n, NEW j \in 1..n, f[i] = f[j]
        PROVE  i = j
    <3>1. t[i][1] \div 2 = t[j][1] \div 2 /\ t[i][2] \div 2 = t[j][2] \div 2
      <4> DEFINE a == t[i][1] \div 2
                 b == t[i][2] \div 2
                 c == t[j][1] \div 2
                 d == t[j][2] \div 2
      <4>1. a + w * b = c + w * d
        BY <2>5
      <4>2. a \in 0..(w - 1) /\ c \in 0..(w - 1) /\ b \in Nat /\ d \in Nat
        BY <2>2, <2>3
      <4> HIDE DEF a, b, c, d, w
      <4>3. w \in Nat
        BY <2>2
      <4>4. \A l, m \in 0..(w - 1) : \A u, v \in Nat :
               l + w * u = m + w * v => l = m /\ u = v
        BY <4>3, RowsApart
      <4>5. a = c /\ b = d
        BY <4>1, <4>2, <4>4
      <4>6. QED
        BY <4>5 DEF a, b, c, d
    <3>2. t[i][1] = t[j][1] /\ t[i][2] = t[j][2]
      <4>1. /\ t[i][1] = 2 * (t[i][1] \div 2) + 1 /\ t[i][2] = 2 * (t[i][2] \div 2) + 1
            /\ t[j][1] = 2 * (t[j][1] \div 2) + 1 /\ t[j][2] = 2 * (t[j][2] \div 2) + 1
        BY <2>3
      <4> HIDE DEF t
      <4>2. QED
        BY <3>1, <4>1, Zenon
    <3>3. t[i] = t[j]
      BY <2>3, <3>2
    <3>4. QED
      BY <3>3 DEF GenInv, Trail
  <2> HIDE DEF f
  <2>6. f \in Injection(1..n, 0..(K - 1))
    BY <2>4, <2>5 DEF Injection, IsInjective
  <2>7. K \in Nat
    BY <2>2, Spread
  <2> HIDE DEF K, n
  <2>8. IsFiniteSet(0..(K - 1)) /\ Cardinality(0..(K - 1)) = K
    <3>1. /\ IsFiniteSet(0..(K - 1))
          /\ Cardinality(0..(K - 1)) = IF 0 > K - 1 THEN 0 ELSE (K - 1) - 0 + 1
      BY <2>7, FS_Interval
    <3>2. (IF 0 > K - 1 THEN 0 ELSE (K - 1) - 0 + 1) = K
      BY <2>7
    <3>3. QED
      BY <3>1, <3>2
  <2>9. Cardinality(1..n) = n
    <3>1. Cardinality(1..n) = IF 1 > n THEN 0 ELSE n - 1 + 1
      BY <2>1, FS_Interval
    <3>2. (IF 1 > n THEN 0 ELSE n - 1 + 1) = n
      BY <2>1
    <3>3. QED
      BY <3>1, <3>2
  <2>10. n <= K
    BY <2>6, <2>8, <2>9, FS_Injection
  <2>11. 4 * K <= area
    <3> HIDE DEF w, h
    <3> DEFINE e == size.width - 2 * w
               g == size.height - 2 * h
    <3>1. e \in Nat /\ size.width = 2 * w + e
      BY <2>2
    <3>2. g \in Nat /\ size.height = 2 * h + g
      BY <2>2
    <3> HIDE DEF e, g
    <3>3. \A a, b, c, d \in Nat : 4 * (a * b) <= (2 * a + c) * (2 * b + d)
      <4>1. \A a, b, c, d \in Nat :
               (2 * a + c) * (2 * b + d) = 4 * (a * b) + 2 * (a * d) + 2 * (c * b) + c * d
        OBVIOUS
      <4>2. QED
        BY <4>1, Spread
    <3>4. QED
      BY <2>2, <3>1, <3>2, <3>3 DEF K
  <2>12. area \in Nat
    BY <2>2, Spread
  <2> HIDE DEF area
  <2>13. n <= area \div 4
    BY <2>1, <2>7, <2>10, <2>11, <2>12
  <2>14. QED
    BY <2>13 DEF StackFits, area, n, t
<1>2. QED
  BY <1>1, GeneratorInvariant, PTL

-----------------------------------------------------------------------------
(* The generator: the finished maze                                        *)

\* What Reached does in one round.
Near(P) == P \cup {p \in gen.open : \E d \in Directions : Step(p, d, 1) \in P}

LEMMA Rounds ==
    ASSUME NEW N \in Nat, <<1, 1>> \in gen.open,
           N = Cardinality(gen.open)
    PROVE  \E h \in [0..N -> SUBSET gen.open] :
               /\ Reached = h[N] /\ h[0] = {<<1, 1>>}
               /\ \A i \in 1..N : h[i] = Near(h[i - 1])
<1> DEFINE O == gen.open
           D == SUBSET O
           F == [x \in Nat \X D |-> Near(x[2])]
           Round(f, i) == IF i = 0 THEN {<<1, 1>>} ELSE Near(f[i - 1])
           g == CHOOSE f : f = [i \in 0..N |-> Round(f, i)]
<1>1. \A P \in D : Near(P) \in D
  BY DEF Near
<1>2. F \in Rules(D)
  BY <1>1 DEF Rules
<1>3. {<<1, 1>>} \in D
  OBVIOUS
<1>4. Reached = g[N]
  BY DEF Reached, Near
<1> HIDE DEF D, F
<1>5. PICK h \in [0..N -> D] : h[0] = {<<1, 1>>} /\ \A i \in 1..N : h[i] = F[<<i, h[i - 1]>>]
  <2> DEFINE b == {<<1, 1>>}
  <2>1. b \in D
    BY <1>3
  <2> HIDE DEF b
  <2>2. \E h : Unfolds(h, D, b, F, N)
    BY <1>2, <2>1, Recursion
  <2>3. PICK h : Unfolds(h, D, b, F, N)
    BY <2>2
  <2>4. h \in [0..N -> D] /\ h[0] = b /\ \A i \in 1..N : h[i] = F[<<i, h[i - 1]>>]
    BY <2>3 DEF Unfolds
  <2>5. QED
    BY <2>4 DEF b
<1>6. \A i \in 0..N : i # 0 => i \in 1..N /\ i - 1 \in 0..N /\ i \in Nat
  OBVIOUS
<1>7. \A i \in 0..N : h[i] = Round(h, i)
  <2>1. \A i \in Nat, P \in D : F[<<i, P>>] = Near(P)
    BY DEF F
  <2>2. ASSUME NEW i \in 0..N, i # 0
        PROVE  h[i] = Near(h[i - 1])
    <3>1. i \in 1..N /\ i \in Nat /\ h[i - 1] \in D
      BY <1>5, <1>6, <2>2
    <3>2. h[i] = F[<<i, h[i - 1]>>]
      BY <1>5, <3>1
    <3>3. QED
      BY <2>1, <3>1, <3>2
  <2>3. QED
    BY <1>5, <2>2
<1> HIDE DEF Round
<1>8. h = [i \in 0..N |-> h[i]]
  BY <1>5
<1>9. h = [i \in 0..N |-> Round(h, i)]
  BY <1>7, <1>8
<1>10. g = [i \in 0..N |-> Round(g, i)]
  BY <1>9
<1> HIDE DEF g
<1>11. \A i \in 0..N : g[i] = Round(g, i)
  BY <1>10
<1>12. g[0] = {<<1, 1>>} /\ \A i \in 1..N : g[i] = Near(g[i - 1])
  <2>1. 0 \in 0..N /\ \A i \in 1..N : i \in 0..N /\ i # 0
    OBVIOUS
  <2>2. QED
    BY <1>11, <2>1 DEF Round
<1>13. g \in [0..N -> D]
  <2> DEFINE S == {i \in 0..N : g[i] \notin D}
  <2>1. ASSUME S # {}
        PROVE  FALSE
    <3>1. PICK k \in S : \A i \in S : k <= i
      <4>1. S \in SUBSET Nat
        OBVIOUS
      <4> HIDE DEF S
      <4>2. QED
        BY <2>1, <4>1, LowestNumber
    <3>2. k \in 0..N /\ k # 0
      BY <1>3, <1>12
    <3>3. k \in 1..N /\ k - 1 \in 0..N /\ ~(k <= k - 1)
      BY <3>2
    <3>4. g[k - 1] \in D
      BY <3>1, <3>3
    <3>5. g[k] \in D
      BY <1>1, <1>12, <3>3, <3>4
    <3>6. QED
      BY <3>5
  <2>2. \A i \in 0..N : g[i] \in D
    BY <2>1
  <2>3. QED
    BY <1>10, <2>2
<1>14. QED
  BY <1>4, <1>12, <1>13 DEF D

\* As many rounds as there are open places reach all of them: each round that
\* reaches no more has reached everything.
LEMMA AllReached ==
    ASSUME LinkedIn(gen.open), <<1, 1>> \in gen.open, IsFiniteSet(gen.open)
    PROVE  Reached = gen.open
<1> DEFINE O == gen.open
           N == Cardinality(O)
<1>1. N \in Nat
  BY FS_CardinalityType
<1>2. PICK h \in [0..N -> SUBSET O] :
               /\ Reached = h[N] /\ h[0] = {<<1, 1>>}
               /\ \A i \in 1..N : h[i] = Near(h[i - 1])
  BY <1>1, Rounds
<1> DEFINE Full(i) == /\ <<1, 1>> \in h[i]
                      /\ h[i] = O \/ Cardinality(h[i]) >= i + 1
           S == {i \in 0..N : ~Full(i)}
<1> HIDE DEF N
<1>3. ASSUME S # {}
      PROVE  FALSE
  <2>1. PICK k \in S : \A i \in S : k <= i
    <3>1. S \in SUBSET Nat
      BY <1>1
    <3> HIDE DEF S
    <3>2. QED
      BY <1>3, <3>1, LowestNumber
  <2>2. k \in 0..N /\ ~Full(k)
    BY <2>1
  <2>3. k # 0
    <3>1. Cardinality({<<1, 1>>}) = 1
      BY FS_Singleton
    <3>2. Full(0)
      BY <1>2, <3>1
    <3>3. QED
      BY <2>2, <3>2
  <2>4. k \in 1..N /\ k - 1 \in 0..N /\ ~(k <= k - 1) /\ (k - 1) + 1 = k
    BY <1>1, <2>2, <2>3
  <2>5. Full(k - 1)
    <3>1. k - 1 \notin S
      BY <2>1, <2>4
    <3>2. QED
      BY <2>4, <3>1
  <2> DEFINE P == h[k - 1]
  <2>6. P \in SUBSET O /\ h[k] \in SUBSET O /\ h[k] = Near(P)
    BY <1>2, <2>2, <2>4
  <2>7. <<1, 1>> \in P /\ (P = O \/ Cardinality(P) >= k)
    BY <2>4, <2>5
  <2> HIDE DEF P, O
  <2>8. CASE P = O
    <3>1. h[k] = O
      BY <2>6, <2>8 DEF Near, O
    <3>2. QED
      BY <2>2, <2>7, <2>8, <3>1
  <2>9. CASE P # O
    <3>1. PICK p \in O, d \in Directions : Step(p, d, 1) \in P /\ p \notin P
      BY <2>6, <2>7, <2>9 DEF LinkedIn, O
    <3>2. P \cup {p} \subseteq h[k]
      BY <2>6, <3>1 DEF Near, O
    <3>3. IsFiniteSet(P) /\ IsFiniteSet(h[k])
      BY <2>6, FS_Subset DEF O
    <3>4. Cardinality(P \cup {p}) = Cardinality(P) + 1
      BY <3>1, <3>3, FS_AddElement
    <3>5. Cardinality(P \cup {p}) <= Cardinality(h[k])
      BY <3>2, <3>3, FS_Subset
    <3>6. Cardinality(P) \in Nat /\ Cardinality(h[k]) \in Nat /\ Cardinality(P) >= k
      BY <2>7, <2>9, <3>3, FS_CardinalityType
    <3>7. Cardinality(h[k]) >= k + 1
      BY <2>2, <3>4, <3>5, <3>6
    <3>8. <<1, 1>> \in h[k]
      BY <2>7, <3>2
    <3>9. QED
      BY <2>2, <3>7, <3>8
  <2>10. QED
    BY <2>8, <2>9
<1>4. N \in 0..N /\ Full(N)
  <2>1. N \in 0..N
    BY <1>1
  <2>2. QED
    BY <1>3, <2>1
<1>5. h[N] \in SUBSET O /\ Cardinality(h[N]) <= N /\ Cardinality(h[N]) \in Nat
  <2>1. h[N] \in SUBSET O
    BY <1>2, <1>4
  <2>2. IsFiniteSet(h[N]) /\ Cardinality(h[N]) <= Cardinality(O)
    BY <2>1, FS_Subset
  <2>3. Cardinality(h[N]) \in Nat
    BY <2>2, FS_CardinalityType
  <2>4. QED
    BY <2>1, <2>2, <2>3 DEF N
<1>6. ~(Cardinality(h[N]) >= N + 1)
  BY <1>1, <1>5
<1>7. QED
  BY <1>2, <1>4, <1>6

\* Odd sizes leave the border closed.
LEMMA BorderClosed ==
    ASSUME size \in Sizes, Walls, size.width % 2 = 1, size.height % 2 = 1,
           NEW p \in gen.open
    PROVE  p[1] \in 1..(size.width - 2) /\ p[2] \in 1..(size.height - 2)
<1>1. /\ size.width \in Nat /\ size.height \in Nat
      /\ size.width % 2 = 1 /\ size.height % 2 = 1
  BY Sides
<1>2. ASSUME NEW q \in OddPlaces
      PROVE  q[1] \in 1..(size.width - 2) /\ q[2] \in 1..(size.height - 2) /\ q \in Pairs
  <2>1. /\ q \in Pairs
        /\ 0 <= q[1] /\ q[1] < size.width /\ q[1] % 2 = 1
        /\ 0 <= q[2] /\ q[2] < size.height /\ q[2] % 2 = 1
    BY OddPlace
  <2>2. q[1] \in Int /\ q[2] \in Int
    BY <2>1 DEF Pairs
  <2>3. ASSUME NEW x \in Int, NEW n \in Nat, 0 <= x, x < n, x % 2 = 1, n % 2 = 1
        PROVE  x \in 1..(n - 2)
    BY <2>3
  <2>4. QED
    BY <1>1, <2>1, <2>2, <2>3
<1>3. CASE p \in OddPlaces
  BY <1>2, <1>3
<1>4. CASE \E q \in Visited, d \in Directions :
               p = Step(q, d, 1) /\ Step(q, d, 2) \in Visited
  <2>1. PICK q \in Visited, d \in Directions :
               p = Step(q, d, 1) /\ Step(q, d, 2) \in Visited
    BY <1>4
  <2> DEFINE b == Step(q, d, 2)
  <2>2. q \in OddPlaces /\ b \in OddPlaces
    BY <2>1 DEF Visited
  <2>3. /\ q[1] \in 1..(size.width - 2) /\ q[2] \in 1..(size.height - 2) /\ q \in Pairs
        /\ b[1] \in 1..(size.width - 2) /\ b[2] \in 1..(size.height - 2)
    BY <1>2, <2>2
  <2>4. /\ d[1] \in Int /\ d[2] \in Int
        /\ p[1] = q[1] + d[1] /\ p[2] = q[2] + d[2]
        /\ b[1] = q[1] + 2 * d[1] /\ b[2] = q[2] + 2 * d[2]
    BY <2>1, <2>3, StepSum
  <2> HIDE DEF b
  <2>5. QED
    BY <1>1, <2>3, <2>4
<1> QED
  BY <1>3, <1>4 DEF Walls

\* Whatever the walk chooses, a maze of any size is finished with all of its odd
\* places open and connected, by one way only if there are no holes, and inside
\* a closed border if its width and height are odd (generator.c:19-84).
THEOREM Connected == GeneratorSpec => []EverythingConnected
<1>1. GenInv => EverythingConnected
  <2> SUFFICES ASSUME GenInv, gen.does = "holes"
               PROVE  /\ OddPlaces \subseteq gen.open /\ Reached = gen.open
                      /\ gen.left = 0 /\ size.holes = 0 =>
                            Cardinality(gen.open) = 2 * Cardinality(OddPlaces) - 1
                      /\ size.width % 2 = 1 /\ size.height % 2 = 1 =>
                            \A p \in gen.open : /\ p[1] \in 1..size.width - 2
                                                /\ p[2] \in 1..size.height - 2
    BY DEF EverythingConnected
  <2>1. OddPlaces \subseteq gen.open
    BY DEF GenInv, WalkDone
  <2>2. Reached = gen.open
    BY AllReached DEF GenInv, Trail, Counted
  <2>3. size.holes = 0 => Cardinality(gen.open) = 2 * Cardinality(OddPlaces) - 1
    <3>1. Visited = OddPlaces
      BY <2>1 DEF Visited
    <3>2. QED
      BY <3>1 DEF GenInv, Counted
  <2>4. size.width % 2 = 1 /\ size.height % 2 = 1 =>
            \A p \in gen.open : p[1] \in 1..size.width - 2 /\ p[2] \in 1..size.height - 2
    BY BorderClosed DEF GenInv, GenKinds
  <2>5. QED
    BY <2>1, <2>2, <2>3, <2>4
<1>2. QED
  BY <1>1, GeneratorInvariant, PTL

-----------------------------------------------------------------------------
(* A level on a grid: places and their numbers                             *)

Grounds == {"none", "wall", "treasure", "key"}
Standing == [at : Places, angle : {0, 90, 180, 270}]

LEMMA GridSides ==
    /\ GridWidth \in Nat \ {0} /\ GridHeight \in Nat \ {0}
    /\ ScreenWidth \in Nat /\ ScreenWidth >= 3
    /\ ScreenHeight \in Nat /\ ScreenHeight >= 3
BY SimpleLevelAssumption

LEMMA PlaceOf ==
    ASSUME NEW p
    PROVE  p \in Places <=> /\ p \in Pairs
                            /\ p[1] \in 0..(GridWidth - 1) /\ p[2] \in 0..(GridHeight - 1)
BY GridSides DEF Places, Pairs

\* The number of a place in the ground.
Index(p) == p[2] * GridWidth + p[1] + 1

LEMMA IndexInside ==
    ASSUME NEW p \in Places
    PROVE  /\ Index(p) \in DOMAIN Ground
           /\ GroundAt(p) = Ground[Index(p)]
           /\ GroundAt(p) \in Grounds
<1> DEFINE x == p[1]
           y == p[2]
           m == GridWidth * y
<1>1. /\ GridWidth \in Nat /\ GridHeight \in Nat
      /\ x \in 0..(GridWidth - 1) /\ y \in 0..(GridHeight - 1) /\ y \in Nat
  BY GridSides, PlaceOf
<1>2. x + m \in 0..(GridWidth * GridHeight - 1)
  BY <1>1, RowsEnd
<1>3. m \in Nat /\ m = y * GridWidth
  BY <1>1, Spread
<1>4. Ground \in Seq(Grounds) /\ Len(Ground) = GridWidth * GridHeight
  BY SimpleLevelAssumption DEF Grounds
<1> DEFINE L == GridWidth * GridHeight
<1>5. L \in Nat
  BY <1>1, Spread
<1> HIDE DEF m, L
<1>6. m + x + 1 \in 1..L
  BY <1>1, <1>2, <1>3, <1>5 DEF L
<1>7. DOMAIN Ground = 1..L
  BY <1>4 DEF L
<1>8. Index(p) = m + x + 1
  BY <1>3 DEF Index
<1>9. Index(p) \in DOMAIN Ground
  BY <1>6, <1>7, <1>8
<1>10. GroundAt(p) = Ground[Index(p)]
  BY <1>9 DEF GroundAt, Index
<1> QED
  BY <1>4, <1>9, <1>10

\* Different places have different numbers.
LEMMA IndexApart ==
    ASSUME NEW p \in Places, NEW r \in Places, Index(p) = Index(r)
    PROVE  p = r
<1> DEFINE x == p[1]
           y == p[2]
           u == r[1]
           v == r[2]
           m == GridWidth * y
           n == GridWidth * v
<1>1. /\ GridWidth \in Nat
      /\ x \in 0..(GridWidth - 1) /\ y \in 0..(GridHeight - 1) /\ y \in Nat /\ p = <<x, y>>
      /\ u \in 0..(GridWidth - 1) /\ v \in 0..(GridHeight - 1) /\ v \in Nat /\ r = <<u, v>>
  <2>1. p \in Pairs /\ r \in Pairs
    BY PlaceOf
  <2>2. p = <<x, y>> /\ r = <<u, v>>
    BY <2>1 DEF Pairs
  <2>3. QED
    BY <2>2, GridSides, PlaceOf
<1>2. m \in Nat /\ m = y * GridWidth /\ n \in Nat /\ n = v * GridWidth
  BY <1>1, Spread
<1>3. Index(p) = m + x + 1 /\ Index(r) = n + u + 1
  BY <1>2 DEF Index
<1> HIDE DEF x, y, u, v
<1>4. x + m = u + n
  <2>1. x \in Nat /\ u \in Nat /\ m \in Nat /\ n \in Nat
    BY <1>1, <1>2
  <2>2. m + x + 1 = n + u + 1
    BY <1>3
  <2> HIDE DEF m, n
  <2>3. QED
    BY <2>1, <2>2
<1>5. \A i, k \in 0..(GridWidth - 1) : \A j, l \in Nat :
         i + GridWidth * j = k + GridWidth * l => i = k /\ j = l
  BY <1>1, RowsApart
<1>6. x = u /\ y = v
  BY <1>1, <1>4, <1>5
<1> QED
  BY <1>1, <1>6

\* The players stand on empty places.
PlayersOK == players \in Seq({s \in Standing : GroundAt(s.at) = "none"})

LEMMA Stands ==
    ASSUME PlayersOK, NEW k \in DOMAIN players
    PROVE  /\ players[k] \in Standing /\ players[k].at \in Places
           /\ players[k].angle \in {0, 90, 180, 270}
           /\ GroundAt(players[k].at) = "none"
<1>1. players[k] \in {s \in Standing : GroundAt(s.at) = "none"}
  BY DEF PlayersOK
<1>2. players[k] \in Standing /\ GroundAt(players[k].at) = "none"
  BY <1>1
<1> QED
  BY <1>2 DEF Standing

\* WHAT and MAZE agree about every place.
LEMMA WhatIsShown ==
    ASSUME PlayersOK, NEW p
    PROVE  InMaze(p) = SimpleWhat(p)
<1>1. CASE p \notin Places
  BY <1>1 DEF InMaze, SimpleWhat
<1>2. CASE p \in Places
  <2> DEFINE i == Index(p)
             There(q) == \E k \in DOMAIN players : players[k].at = q
             Drawn(n) == \E k \in DOMAIN players : Index(players[k].at) = n
  <2>1. i \in DOMAIN Ground /\ GroundAt(p) = Ground[i]
    BY <1>2, IndexInside
  <2>2. i = GridWidth * p[2] + p[1] + 1
    <3>1. p[1] \in Nat /\ p[2] \in Nat /\ GridWidth \in Nat
      BY <1>2, GridSides, PlaceOf
    <3>2. GridWidth * p[2] = p[2] * GridWidth
      BY <3>1
    <3>3. QED
      BY <3>2 DEF Index
  <2>3. SimpleMaze = [n \in DOMAIN Ground |-> IF Drawn(n) THEN "player" ELSE Ground[n]]
    BY DEF SimpleMaze, Index
  <2>4. There(p) <=> Drawn(i)
    <3>1. \A k \in DOMAIN players : players[k].at \in Places
      BY Stands
    <3>2. QED
      BY <1>2, <3>1, IndexApart
  <2>5. InMaze(p) = SimpleMaze[i]
    BY <1>2, <2>2 DEF InMaze
  <2>6. SimpleWhat(p) = IF There(p) THEN "player" ELSE GroundAt(p)
    BY <1>2 DEF SimpleWhat
  <2> HIDE DEF There, Drawn, i
  <2>7. SimpleMaze[i] = IF Drawn(i) THEN "player" ELSE Ground[i]
    BY <2>1, <2>3
  <2>8. QED
    BY <2>1, <2>4, <2>5, <2>6, <2>7
<1> QED
  BY <1>1, <1>2

\* The three answers about a place next to a player are what is there.
LEMMA WindowShows ==
    ASSUME NEW from \in Places, NEW p \in Pairs, p # from,
           p[1] - from[1] \in -1..1, p[2] - from[2] \in -1..1
    PROVE  InWindow(from, p) = {IF p \in Places THEN GroundAt(p) ELSE "none"}
<1> DEFINE c1 == ScreenWidth \div 2
           c2 == ScreenHeight \div 2
           w1 == c1 + p[1] - from[1]
           w2 == c2 + p[2] - from[2]
           w == <<w1, w2>>
           what == IF p \in Places THEN GroundAt(p) ELSE "none"
           n == ScreenWidth * w2
           i == n + w1 + 1
<1>1. /\ from \in Pairs /\ from = <<from[1], from[2]>> /\ p = <<p[1], p[2]>>
      /\ from[1] \in Int /\ from[2] \in Int /\ p[1] \in Int /\ p[2] \in Int
  BY PlaceOf DEF Pairs
<1>2. /\ c1 \in 1..(ScreenWidth - 2) /\ c2 \in 1..(ScreenHeight - 2)
      /\ ScreenWidth \in Nat /\ ScreenHeight \in Nat /\ Centre = <<c1, c2>>
  BY GridSides DEF Centre
<1> HIDE DEF c1, c2
<1>3. /\ w1 \in 0..(ScreenWidth - 1) /\ w2 \in 0..(ScreenHeight - 1) /\ w2 \in Nat
      /\ from[1] - c1 + w1 = p[1] /\ from[2] - c2 + w2 = p[2]
      /\ (w1 = c1 => p[1] = from[1]) /\ (w2 = c2 => p[2] = from[2])
  BY <1>1, <1>2
<1>4. w = <<Centre[1] + p[1] - from[1], Centre[2] + p[2] - from[2]>>
  BY <1>2
<1> HIDE DEF w1, w2
<1>5. w \in Window /\ w # Centre
  BY <1>1, <1>2, <1>3 DEF Window
<1>6. \A b \in BOOLEAN : GetColor(from, w, b) = what
  BY <1>1, <1>2, <1>3, <1>5 DEF GetColor
<1>7. n \in Nat /\ w1 + n \in 0..(ScreenWidth * ScreenHeight - 1)
  BY <1>2, <1>3, Spread, RowsEnd
<1> DEFINE S == ScreenWidth * ScreenHeight
<1>8. S \in Nat
  BY <1>2, Spread
<1> HIDE DEF n, S
<1>9. i \in 1..S /\ i - 1 = n + w1
  BY <1>3, <1>7, <1>8 DEF S
<1>10. (i - 1) % ScreenWidth = w1 /\ (i - 1) \div ScreenWidth = w2
  <2> DEFINE a == (i - 1) % ScreenWidth
             b == (i - 1) \div ScreenWidth
             m == ScreenWidth * b
  <2>1. i - 1 \in Nat
    BY <1>9
  <2>2. \A k \in Int, l \in Int : l > 0 => k = l * (k \div l) + (k % l)
    OBVIOUS
  <2>2a. \A k \in Int, l \in Int : l > 0 => k % l \in 0..(l - 1)
    OBVIOUS
  <2>2b. \A k \in Nat, l \in Int : l > 0 => k \div l \in Nat
    OBVIOUS
  <2>3. ScreenWidth \in Nat \ {0}
    BY GridSides
  <2>4. a \in 0..(ScreenWidth - 1) /\ b \in Nat /\ i - 1 = m + a
    <3>1. i - 1 \in Int /\ ScreenWidth \in Int /\ ScreenWidth > 0
      BY <2>1, <2>3
    <3>2. i - 1 = ScreenWidth * ((i - 1) \div ScreenWidth) + ((i - 1) % ScreenWidth)
      BY <2>2, <3>1
    <3>3. (i - 1) % ScreenWidth \in 0..(ScreenWidth - 1)
      BY <2>2a, <3>1
    <3>4. (i - 1) \div ScreenWidth \in Nat
      BY <2>1, <2>2b, <3>1
    <3>5. QED
      BY <3>2, <3>3, <3>4
  <2>5. m \in Nat
    BY <1>2, <2>4, Spread
  <2> HIDE DEF a, b, m
  <2>6. a + m = w1 + n
    BY <1>3, <1>7, <1>9, <2>4, <2>5
  <2>7. \A j, k \in 0..(ScreenWidth - 1) : \A l, o \in Nat :
           j + ScreenWidth * l = k + ScreenWidth * o => j = k /\ l = o
    BY <1>2, RowsApart
  <2>8. a = w1 /\ b = w2
    BY <1>3, <2>4, <2>6, <2>7 DEF m, n
  <2>9. QED
    BY <2>8 DEF a, b
<1>11. CenteredMaze(from)[i] = what
  <2>1. CenteredMaze(from)[i]
          = GetColor(from, <<(i - 1) % ScreenWidth, (i - 1) \div ScreenWidth>>, TRUE)
    BY <1>9 DEF CenteredMaze, S
  <2>2. QED
    BY <1>6, <1>10, <2>1
<1>12. CenteredWhat(from, w) = what
  BY <1>5, <1>6 DEF CenteredWhat
<1>13. CenteredRedraw(from)[w] = what
  BY <1>5, <1>6 DEF CenteredRedraw
<1>14. InWindow(from, p) = {CenteredWhat(from, w), CenteredMaze(from)[i], CenteredRedraw(from)[w]}
  <2>1. w[1] = w1 /\ w[2] = w2
    OBVIOUS
  <2>2. QED
    BY <1>4, <2>1 DEF InWindow, n
<1> QED
  BY <1>11, <1>12, <1>13, <1>14

-----------------------------------------------------------------------------
(* A level on a grid: what players are told                                *)

\* The last answer was what could be known before.
ToldTrue ==
    /\ moved.shown = moved.what
    /\ moved.told # "nothing" =>
           /\ moved.told = Outcome(moved.what)
           /\ \A ground \in moved.window :
                  \/ moved.told = Outcome(ground)
                  \/ moved.told = "out_of_maze" /\ ground = "none"

LevelInv == PlayersOK /\ ToldTrue

LEMMA AheadIsNear ==
    ASSUME NEW from \in Places, NEW angle \in {0, 90, 180, 270}
    PROVE  LET p == Ahead(from, angle)
           IN /\ p \in Pairs /\ p # from
              /\ p[1] - from[1] \in -1..1 /\ p[2] - from[2] \in -1..1
<1> DEFINE x == from[1]
           y == from[2]
<1>1. x \in Int /\ y \in Int /\ from = <<x, y>>
  BY PlaceOf DEF Pairs
<1>2. \/ Ahead(from, angle) = <<x, y - 1>>
      \/ Ahead(from, angle) = <<x - 1, y>>
      \/ Ahead(from, angle) = <<x, y + 1>>
      \/ Ahead(from, angle) = <<x + 1, y>>
  BY DEF Ahead
<1> HIDE DEF x, y
<1>3. /\ x - 1 \in Int /\ y - 1 \in Int /\ x + 1 \in Int /\ y + 1 \in Int
      /\ x - 1 # x /\ y - 1 # y /\ x + 1 # x /\ y + 1 # y
      /\ x - x = 0 /\ y - y = 0 /\ (x - 1) - x = -1 /\ (x + 1) - x = 1
      /\ (y - 1) - y = -1 /\ (y + 1) - y = 1
      /\ {-1, 0, 1} = -1..1
  BY <1>1
<1>4. \A q : q \in {<<x, y - 1>>, <<x - 1, y>>, <<x, y + 1>>, <<x + 1, y>>} =>
         /\ q \in Pairs /\ q # from
         /\ q[1] - from[1] \in {-1, 0, 1} /\ q[2] - from[2] \in {-1, 0, 1}
  BY <1>1, <1>3 DEF Pairs
<1> QED
  BY <1>2, <1>3, <1>4

\* One player at another empty place.
LEMMA GoesTo ==
    ASSUME PlayersOK, NEW k \in DOMAIN players, NEW p \in Places, GroundAt(p) = "none"
    PROVE  [players EXCEPT ![k].at = p] \in Seq({s \in Standing : GroundAt(s.at) = "none"})
<1> DEFINE r == [players[k] EXCEPT !.at = p]
           D == {s \in Standing : GroundAt(s.at) = "none"}
<1>1. r \in Standing /\ r.at = p
  BY Stands DEF Standing
<1>2. r \in D
  BY <1>1
<1>3. players \in Seq(D)
  BY DEF PlayersOK
<1>4. [players EXCEPT ![k].at = p] = [players EXCEPT ![k] = r]
  OBVIOUS
<1> HIDE DEF r, D
<1>5. [players EXCEPT ![k] = r] \in Seq(D)
  BY <1>2, <1>3
<1> QED
  BY <1>4, <1>5 DEF D

\* A move is answered with what could be known of the place.
LEMMA TriedStep ==
    ASSUME PlayersOK, NEW k \in DOMAIN players, NEW p \in Pairs, p # players[k].at,
           p[1] - players[k].at[1] \in -1..1, p[2] - players[k].at[2] \in -1..1,
           Tried(k, p)
    PROVE  LevelInv'
<1> DEFINE from == players[k].at
           ground == GroundAt(p)
           told == IF Out(p) THEN "out_of_maze"
                   ELSE CASE ground = "none" -> "okay"
                          [] ground = "treasure" -> "win"
                          [] OTHER -> "wall_hit"
           what == SimpleWhat(p)
           shown == InMaze(p)
           window == InWindow(from, p)
<1>1. /\ players' = IF told = "okay" THEN [players EXCEPT ![k].at = p] ELSE players
      /\ moved' = [what |-> what, shown |-> shown, window |-> window, told |-> told]
  BY DEF Tried
<1>2. /\ moved'.what = what /\ moved'.shown = shown
      /\ moved'.window = window /\ moved'.told = told
  BY <1>1
<1>3. from \in Places
  BY Stands
<1>4. Out(p) <=> p \notin Places
  BY GridSides, PlaceOf DEF Out
<1>5. shown = what
  BY WhatIsShown
<1>6. window = {IF p \in Places THEN ground ELSE "none"}
  BY <1>3, WindowShows
<1>7. CASE p \notin Places
  <2>1. told = "out_of_maze" /\ what = "out"
    BY <1>4, <1>7 DEF SimpleWhat
  <2>2. Outcome("out") = "out_of_maze"
    BY DEF Outcome
  <2>3. window = {"none"}
    BY <1>6, <1>7
  <2> HIDE DEF told, what, shown, window
  <2>4. ToldTrue'
    BY <1>2, <1>5, <2>1, <2>2, <2>3 DEF ToldTrue, Outcome
  <2>5. PlayersOK'
    BY <1>1, <2>1 DEF PlayersOK
  <2>6. QED
    BY <2>4, <2>5 DEF LevelInv
<1>8. CASE p \in Places
  <2>1. ground \in Grounds
    BY <1>8, IndexInside
  <2>2. told = Outcome(ground)
    BY <1>4, <1>8, <2>1 DEF Outcome, Grounds
  <2>3. window = {ground}
    BY <1>6, <1>8
  <2>4. what = ground \/ (what = "player" /\ ground = "none")
    BY <1>8, Stands DEF SimpleWhat
  <2>5. told = "okay" => ground = "none"
    BY <1>4, <1>8, <2>1 DEF Grounds
  <2>6. Outcome("player") = Outcome("none")
    BY DEF Outcome
  <2> HIDE DEF told, what, shown, window
  <2>7. told = Outcome(what)
    BY <2>2, <2>4, <2>6
  <2>8. ToldTrue'
    BY <1>2, <1>5, <2>2, <2>3, <2>7 DEF ToldTrue, Outcome
  <2>9. PlayersOK'
    BY <1>1, <1>8, <2>5, GoesTo DEF PlayersOK
  <2>10. QED
    BY <2>8, <2>9 DEF LevelInv
<1> QED
  BY <1>7, <1>8

LEMMA SameTold ==
    ASSUME LevelInv, UNCHANGED moved
    PROVE  ToldTrue'
BY DEF LevelInv, ToldTrue, Outcome

LEMMA ComesStep ==
    ASSUME LevelInv, SimpleGetData
    PROVE  LevelInv'
<1> DEFINE r == [at |-> Start, angle |-> 0]
           D == {s \in Standing : GroundAt(s.at) = "none"}
<1>1. r \in D
  BY SimpleLevelAssumption DEF Standing
<1>2. players \in Seq(D) /\ players' = Append(players, r)
  BY DEF LevelInv, PlayersOK, SimpleGetData
<1> HIDE DEF r, D
<1>3. players' \in Seq(D)
  BY <1>1, <1>2
<1>4. PlayersOK'
  BY <1>3 DEF D, PlayersOK
<1>5. ToldTrue'
  BY SameTold DEF SimpleGetData
<1> QED
  BY <1>4, <1>5 DEF LevelInv

LEMMA LeavesStep ==
    ASSUME LevelInv, NEW k \in DOMAIN players, SimpleFreeData(k)
    PROVE  LevelInv'
<1> DEFINE D == {s \in Standing : GroundAt(s.at) = "none"}
           a == SubSeq(players, 1, k - 1)
           b == SubSeq(players, k + 1, Len(players))
<1>1. players \in Seq(D) /\ players' = a \o b
  BY DEF LevelInv, PlayersOK, SimpleFreeData, RemoveAt
<1> HIDE DEF D
<1>2. k \in 1..Len(players) /\ Len(players) \in Nat /\ \A i \in 1..Len(players) : players[i] \in D
  BY <1>1
<1>3. a \in Seq(D)
  <2>1. \A i \in 1..(k - 1) : players[i] \in D
    BY <1>2
  <2>2. 1 \in Int /\ k - 1 \in Int
    BY <1>2
  <2>3. QED
    BY <2>1, <2>2, SubSeqProperties
<1>4. b \in Seq(D)
  <2>1. \A i \in (k + 1)..Len(players) : players[i] \in D
    BY <1>2
  <2>2. k + 1 \in Int /\ Len(players) \in Int
    BY <1>2
  <2>3. QED
    BY <2>1, <2>2, SubSeqProperties
<1> HIDE DEF a, b
<1>5. players' \in Seq(D)
  BY <1>1, <1>3, <1>4
<1>6. PlayersOK'
  BY <1>5 DEF D, PlayersOK
<1>7. ToldTrue'
  BY SameTold DEF SimpleFreeData
<1> QED
  BY <1>6, <1>7 DEF LevelInv

LEMMA TurnsStep ==
    ASSUME LevelInv, NEW k \in DOMAIN players, NEW by \in {90, 270}, Turn(k, by)
    PROVE  LevelInv'
<1> DEFINE D == {s \in Standing : GroundAt(s.at) = "none"}
           angle == (players[k].angle + by) % 360
           r == [players[k] EXCEPT !.angle = angle]
<1>1. PlayersOK /\ players \in Seq(D)
  BY DEF LevelInv, PlayersOK
<1>2. players[k] \in Standing /\ players[k].angle \in {0, 90, 180, 270}
      /\ GroundAt(players[k].at) = "none"
  BY <1>1, Stands
<1>3. angle \in {0, 90, 180, 270}
  BY <1>2
<1>4. players' = [players EXCEPT ![k] = r]
  BY DEF Turn
<1> HIDE DEF angle
<1>5. r \in Standing /\ r.at = players[k].at
  BY <1>2, <1>3 DEF Standing
<1>6. r \in D
  BY <1>2, <1>5
<1> HIDE DEF r, D
<1>7. players' \in Seq(D)
  BY <1>1, <1>4, <1>6
<1>8. PlayersOK'
  BY <1>7 DEF D, PlayersOK
<1>9. ToldTrue'
  BY SameTold DEF Turn
<1> QED
  BY <1>8, <1>9 DEF LevelInv

LEMMA LevelStarts == LevelInit => LevelInv
<1> SUFFICES ASSUME LevelInit PROVE LevelInv
  OBVIOUS
<1>1. PlayersOK
  BY DEF LevelInit, PlayersOK
<1>2. moved.what = "none" /\ moved.shown = "none" /\ moved.told = "nothing"
  BY DEF LevelInit
<1>3. QED
  BY <1>1, <1>2 DEF LevelInv, ToldTrue

LEMMA LevelSteps == LevelInv /\ [LevelNext]_level => LevelInv'
<1> SUFFICES ASSUME LevelInv, [LevelNext]_level
             PROVE  LevelInv'
  OBVIOUS
<1>1. ASSUME NEW k \in DOMAIN players, NEW angle \in {0, 90, 180, 270},
             Tried(k, Ahead(players[k].at, angle))
      PROVE  LevelInv'
  <2>1. PlayersOK /\ players[k].at \in Places
    BY Stands DEF LevelInv
  <2>2. QED
    BY <1>1, <2>1, AheadIsNear, TriedStep
<1>2. ASSUME NEW k \in DOMAIN players, NEW angle \in {0, 90, 180, 270}, GridMove(k, angle)
      PROVE  LevelInv'
  BY <1>1, <1>2 DEF GridMove
<1>3. ASSUME NEW k \in DOMAIN players, GridOMove(k)
      PROVE  LevelInv'
  <2>1. players[k].angle \in {0, 90, 180, 270}
    BY Stands DEF LevelInv
  <2>2. QED
    BY <1>1, <1>3, <2>1 DEF GridOMove
<1>4. ASSUME UNCHANGED level
      PROVE  LevelInv'
  <2>1. players' = players /\ moved' = moved
    BY <1>4 DEF level
  <2>2. QED
    BY <2>1, SameTold DEF LevelInv, PlayersOK
<1>5. QED
  BY <1>2, <1>3, <1>4, ComesStep, LeavesStep, TurnsStep DEF LevelNext, Play

\* Every MOVE is answered as WHAT, the whole MAZE and the window of a centered
\* level said before, in levels of any size with any ground and any number of
\* players, who all stand on empty places (grid.c:61-110, simple.c:49-79,
\* centered.c:22-56).
THEOREM Told == LevelSpec => []MovesAsTold
<1>1. LevelInit => LevelInv
  BY LevelStarts
<1>2. LevelInv /\ [LevelNext]_level => LevelInv'
  BY LevelSteps
<1>3. LevelInv => MovesAsTold
  BY Stands DEF LevelInv, ToldTrue, MovesAsTold
<1>4. QED
  BY <1>1, <1>2, <1>3, PTL DEF LevelSpec

-----------------------------------------------------------------------------
(* The screen                                                              *)

One(b) == IF b THEN 1 ELSE 0

\* The members of a list of one with a property are it or nobody.
LEMMA CountsOne ==
    ASSUME NEW S \in SUBSET {1}
    PROVE  Cardinality(S) = One(1 \in S)
<1>1. S = {} \/ S = {1}
  OBVIOUS
<1>2. Cardinality({}) = 0 /\ Cardinality({1}) = 1
  BY FS_EmptySet, FS_Singleton
<1> QED
  BY <1>1, <1>2 DEF One

\* What the two rounds of update_viewport count of a player who is alone.
LEMMA GainsOfOne ==
    ASSUME NEW P \in Seq(Standing), Len(P) = 1, NEW o \in Pairs
    PROVE  LET x == P[1].at[1]
               y == P[1].at[2]
           IN Gains(P, o) = <<One(y = o[2] - 1) - One(y = o[2] + ScreenHeight - 1),
                              One(y = o[2] + ScreenHeight) - One(y = o[2]),
                              One(x = o[1] - 1) - One(x = o[1] + ScreenWidth - 1),
                              One(x = o[1] + ScreenWidth) - One(x = o[1])>>
<1>1. DOMAIN P = {1}
  OBVIOUS
<1>2. ASSUME NEW a, NEW c
      PROVE  Cardinality({k \in DOMAIN P : P[k].at[a] = c}) = One(P[1].at[a] = c)
  <2> DEFINE S == {k \in DOMAIN P : P[k].at[a] = c}
  <2>1. S \in SUBSET {1} /\ (1 \in S <=> P[1].at[a] = c)
    BY <1>1
  <2> HIDE DEF S
  <2>2. Cardinality(S) = One(P[1].at[a] = c)
    BY <2>1, CountsOne DEF One
  <2>3. QED
    BY <2>2 DEF S
<1> DEFINE x == P[1].at[1]
           y == P[1].at[2]
           Where(a, c) == Cardinality({k \in DOMAIN P : P[k].at[a] = c})
<1>3. Gains(P, o) = <<Where(2, o[2] - 1) - Where(2, o[2] + ScreenHeight - 1),
                      Where(2, o[2] + ScreenHeight) - Where(2, o[2]),
                      Where(1, o[1] - 1) - Where(1, o[1] + ScreenWidth - 1),
                      Where(1, o[1] + ScreenWidth) - Where(1, o[1])>>
  BY DEF Gains, Count
<1>4. \A a, c : Where(a, c) = One(P[1].at[a] = c)
  BY <1>2
<1> HIDE DEF Where
<1> QED
  BY <1>3, <1>4

LEMMA ComfortsOfOne ==
    ASSUME NEW P \in Seq(Standing), Len(P) = 1, NEW o \in Pairs, OnScreen(P[1], o)
    PROVE  LET x == P[1].at[1]
               y == P[1].at[2]
           IN Comforts(P, o)
                = <<One(y < o[2] + Border) - One(y >= o[2] + ScreenHeight - 1 - Border),
                    One(y > o[2] + ScreenHeight - 1 - Border) - One(y <= o[2] + Border),
                    One(x < o[1] + Border) - One(x >= o[1] + ScreenWidth - 1 - Border),
                    One(x > o[1] + ScreenWidth - 1 - Border) - One(x <= o[1] + Border)>>
<1>1. DOMAIN P = {1}
  OBVIOUS
<1>2. ASSUME NEW a, NEW c
      PROVE  Cardinality({k \in DOMAIN P : OnScreen(P[k], o) /\ P[k].at[a] < c})
                 = One(P[1].at[a] < c)
  <2> DEFINE S == {k \in DOMAIN P : OnScreen(P[k], o) /\ P[k].at[a] < c}
  <2>1. S \in SUBSET {1} /\ (1 \in S <=> P[1].at[a] < c)
    BY <1>1
  <2> HIDE DEF S
  <2>2. Cardinality(S) = One(P[1].at[a] < c)
    BY <2>1, CountsOne DEF One
  <2>3. QED
    BY <2>2 DEF S
<1>3. ASSUME NEW a, NEW c
      PROVE  Cardinality({k \in DOMAIN P : OnScreen(P[k], o) /\ P[k].at[a] >= c})
                 = One(P[1].at[a] >= c)
  <2> DEFINE S == {k \in DOMAIN P : OnScreen(P[k], o) /\ P[k].at[a] >= c}
  <2>1. S \in SUBSET {1} /\ (1 \in S <=> P[1].at[a] >= c)
    BY <1>1
  <2> HIDE DEF S
  <2>2. Cardinality(S) = One(P[1].at[a] >= c)
    BY <2>1, CountsOne DEF One
  <2>3. QED
    BY <2>2 DEF S
<1>4. ASSUME NEW a, NEW c
      PROVE  Cardinality({k \in DOMAIN P : OnScreen(P[k], o) /\ P[k].at[a] > c})
                 = One(P[1].at[a] > c)
  <2> DEFINE S == {k \in DOMAIN P : OnScreen(P[k], o) /\ P[k].at[a] > c}
  <2>1. S \in SUBSET {1} /\ (1 \in S <=> P[1].at[a] > c)
    BY <1>1
  <2> HIDE DEF S
  <2>2. Cardinality(S) = One(P[1].at[a] > c)
    BY <2>1, CountsOne DEF One
  <2>3. QED
    BY <2>2 DEF S
<1>5. ASSUME NEW a, NEW c
      PROVE  Cardinality({k \in DOMAIN P : OnScreen(P[k], o) /\ P[k].at[a] <= c})
                 = One(P[1].at[a] <= c)
  <2> DEFINE S == {k \in DOMAIN P : OnScreen(P[k], o) /\ P[k].at[a] <= c}
  <2>1. S \in SUBSET {1} /\ (1 \in S <=> P[1].at[a] <= c)
    BY <1>1
  <2> HIDE DEF S
  <2>2. Cardinality(S) = One(P[1].at[a] <= c)
    BY <2>1, CountsOne DEF One
  <2>3. QED
    BY <2>2 DEF S
<1> HIDE DEF OnScreen
<1> QED
  BY <1>2, <1>3, <1>4, <1>5 DEF Comforts, Count

\* The direction that find_max returns is one of the best.
LEMMA FindsMax ==
    ASSUME NEW g, DOMAIN g = 1..4, \A i \in 1..4 : g[i] \in Int
    PROVE  FindMax(g) \in 1..4 /\ \A j \in 1..4 : g[j] <= g[FindMax(g)]
<1> DEFINE S == {i \in DOMAIN g : \A j \in DOMAIN g : g[j] <= g[i]}
<1>1. 1..4 = {1, 2, 3, 4}
  OBVIOUS
<1>2. \E i \in {1, 2, 3, 4} : \A j \in {1, 2, 3, 4} : g[j] <= g[i]
  BY <1>1
<1>3. S \in SUBSET Nat /\ S # {}
  BY <1>1, <1>2
<1>4. Min(S) \in S
  <2> HIDE DEF S
  <2>1. QED
    BY <1>3, LowestNumber DEF Min
<1>5. FindMax(g) = Min(S)
  BY DEF FindMax
<1> QED
  BY <1>4, <1>5

\* The screen moves by one place, or not at all where the level ends.
LEMMA Shifts ==
    ASSUME NEW u \in Int, NEW v \in Int
    PROVE  LET o == <<u, v>>
           IN /\ Shifted(o, 1) = IF v > 0 THEN <<u, v - 1>> ELSE o
              /\ Shifted(o, 2) = IF v < GridHeight - ScreenHeight THEN <<u, v + 1>> ELSE o
              /\ Shifted(o, 3) = IF u > 0 THEN <<u - 1, v>> ELSE o
              /\ Shifted(o, 4) = IF u < GridWidth - ScreenWidth THEN <<u + 1, v>> ELSE o
              /\ \A d \in 1..4 : Shifted(o, d) \in Pairs
<1> DEFINE o == <<u, v>>
<1>1. o[1] = u /\ o[2] = v
  OBVIOUS
<1>2. Shifted(o, 1) = IF v > 0 THEN <<u, v - 1>> ELSE o
  BY <1>1 DEF Shifted
<1>3. Shifted(o, 2) = IF v < GridHeight - ScreenHeight THEN <<u, v + 1>> ELSE o
  BY <1>1 DEF Shifted
<1>4. Shifted(o, 3) = IF u > 0 THEN <<u - 1, v>> ELSE o
  BY <1>1 DEF Shifted
<1>5. Shifted(o, 4) = IF u < GridWidth - ScreenWidth THEN <<u + 1, v>> ELSE o
  BY <1>1 DEF Shifted
<1>6. 1..4 = {1, 2, 3, 4}
  OBVIOUS
<1>7. /\ o \in Pairs /\ <<u, v - 1>> \in Pairs /\ <<u, v + 1>> \in Pairs
      /\ <<u - 1, v>> \in Pairs /\ <<u + 1, v>> \in Pairs
  BY DEF Pairs
<1>8. \A d \in 1..4 : Shifted(o, d) \in Pairs
  <2> HIDE DEF o
  <2>1. QED
    BY <1>2, <1>3, <1>4, <1>5, <1>6, <1>7
<1> QED
  BY <1>2, <1>3, <1>4, <1>5, <1>8

\* On the screen from <<u, v>>, and one place outside of one of its sides.
Within(x, y, u, v) == x \in u..(u + ScreenWidth - 1) /\ y \in v..(v + ScreenHeight - 1)
Beside(x, y, u, v) ==
    \/ x \in u..(u + ScreenWidth - 1) /\ (y = v - 1 \/ y = v + ScreenHeight)
    \/ y \in v..(v + ScreenHeight - 1) /\ (x = u - 1 \/ x = u + ScreenWidth)

\* A player who stepped off the screen gets it behind him.
LEMMA GainFollows ==
    ASSUME NEW x \in 0..(GridWidth - 1), NEW y \in 0..(GridHeight - 1),
           NEW u \in Int, NEW v \in Int, Beside(x, y, u, v),
           NEW g, DOMAIN g = 1..4,
           g[1] = One(y = v - 1) - One(y = v + ScreenHeight - 1),
           g[2] = One(y = v + ScreenHeight) - One(y = v),
           g[3] = One(x = u - 1) - One(x = u + ScreenWidth - 1),
           g[4] = One(x = u + ScreenWidth) - One(x = u)
    PROVE  LET o == Shifted(<<u, v>>, FindMax(g))
           IN g[FindMax(g)] > 0 /\ Within(x, y, o[1], o[2])
<1> DEFINE f == FindMax(g)
           w == ScreenWidth
           h == ScreenHeight
<1>1. /\ w \in Nat /\ w >= 3 /\ h \in Nat /\ h >= 3 /\ GridWidth \in Nat /\ GridHeight \in Nat
      /\ x \in Int /\ y \in Int
  BY GridSides
<1>2. 1..4 = {1, 2, 3, 4}
  OBVIOUS
<1>3. \A i \in 1..4 : g[i] \in Int
  BY <1>2 DEF One
<1>4. f \in {1, 2, 3, 4} /\ g[1] <= g[f] /\ g[2] <= g[f] /\ g[3] <= g[f] /\ g[4] <= g[f]
  BY <1>2, <1>3, FindsMax
<1> HIDE DEF f, w, h
<1>5. \/ x \in u..(u + w - 1) /\ (y = v - 1 \/ y = v + h)
      \/ y \in v..(v + h - 1) /\ (x = u - 1 \/ x = u + w)
  BY DEF Beside, w, h
<1>6. /\ g[1] = IF y = v - 1 THEN 1 ELSE IF y = v + h - 1 THEN -1 ELSE 0
      /\ g[2] = IF y = v + h THEN 1 ELSE IF y = v THEN -1 ELSE 0
      /\ g[3] = IF x = u - 1 THEN 1 ELSE IF x = u + w - 1 THEN -1 ELSE 0
      /\ g[4] = IF x = u + w THEN 1 ELSE IF x = u THEN -1 ELSE 0
  BY <1>1 DEF One, w, h
<1>7. /\ Shifted(<<u, v>>, 1) = IF v > 0 THEN <<u, v - 1>> ELSE <<u, v>>
      /\ Shifted(<<u, v>>, 2) = IF v < GridHeight - h THEN <<u, v + 1>> ELSE <<u, v>>
      /\ Shifted(<<u, v>>, 3) = IF u > 0 THEN <<u - 1, v>> ELSE <<u, v>>
      /\ Shifted(<<u, v>>, 4) = IF u < GridWidth - w THEN <<u + 1, v>> ELSE <<u, v>>
  BY Shifts DEF w, h
<1> DEFINE o == Shifted(<<u, v>>, f)
           Kept == /\ g[f] > 0
                   /\ o[1] <= x /\ x <= o[1] + w - 1 /\ o[2] <= y /\ y <= o[2] + h - 1
                   /\ o[1] \in Int /\ o[2] \in Int
<1>8. CASE x \in u..(u + w - 1) /\ y = v - 1
  <2>1. g[1] = 1 /\ g[2] <= 0 /\ g[3] <= 0 /\ g[4] <= 0
    BY <1>1, <1>6, <1>8
  <2>2. f = 1 /\ g[f] > 0
    BY <1>2, <1>3, <1>4, <2>1
  <2>3. o = <<u, v - 1>>
    BY <1>1, <1>7, <1>8, <2>2
  <2> HIDE DEF o
  <2>4. Kept
    BY <1>1, <1>8, <2>2, <2>3
  <2>5. QED
    BY <1>1, <2>4 DEF Within, o, f, w, h
<1>9. CASE x \in u..(u + w - 1) /\ y = v + h
  <2>1. g[1] <= 0 /\ g[2] = 1 /\ g[3] <= 0 /\ g[4] <= 0
    BY <1>1, <1>6, <1>9
  <2>2. f = 2 /\ g[f] > 0
    BY <1>2, <1>3, <1>4, <2>1
  <2>3. o = <<u, v + 1>>
    BY <1>1, <1>7, <1>9, <2>2
  <2> HIDE DEF o
  <2>4. Kept
    BY <1>1, <1>9, <2>2, <2>3
  <2>5. QED
    BY <1>1, <2>4 DEF Within, o, f, w, h
<1>10. CASE y \in v..(v + h - 1) /\ x = u - 1
  <2>1. g[1] <= 0 /\ g[2] <= 0 /\ g[3] = 1 /\ g[4] <= 0
    BY <1>1, <1>6, <1>10
  <2>2. f = 3 /\ g[f] > 0
    BY <1>2, <1>3, <1>4, <2>1
  <2>3. o = <<u - 1, v>>
    BY <1>1, <1>7, <1>10, <2>2
  <2> HIDE DEF o
  <2>4. Kept
    BY <1>1, <1>10, <2>2, <2>3
  <2>5. QED
    BY <1>1, <2>4 DEF Within, o, f, w, h
<1>11. CASE y \in v..(v + h - 1) /\ x = u + w
  <2>1. g[1] <= 0 /\ g[2] <= 0 /\ g[3] <= 0 /\ g[4] = 1
    BY <1>1, <1>6, <1>11
  <2>2. f = 4 /\ g[f] > 0
    BY <1>2, <1>3, <1>4, <2>1
  <2>3. o = <<u + 1, v>>
    BY <1>1, <1>7, <1>11, <2>2
  <2> HIDE DEF o
  <2>4. Kept
    BY <1>1, <1>11, <2>2, <2>3
  <2>5. QED
    BY <1>1, <2>4 DEF Within, o, f, w, h
<1> QED
  BY <1>5, <1>8, <1>9, <1>10, <1>11

\* What makes room at the border keeps a player on the screen.
LEMMA ComfortKeeps ==
    ASSUME NEW x \in Int, NEW y \in Int, NEW u \in Int, NEW v \in Int, Within(x, y, u, v),
           NEW g, DOMAIN g = 1..4,
           g[1] = One(y < v + Border) - One(y >= v + ScreenHeight - 1 - Border),
           g[2] = One(y > v + ScreenHeight - 1 - Border) - One(y <= v + Border),
           g[3] = One(x < u + Border) - One(x >= u + ScreenWidth - 1 - Border),
           g[4] = One(x > u + ScreenWidth - 1 - Border) - One(x <= u + Border),
           g[FindMax(g)] > 0
    PROVE  LET o == Shifted(<<u, v>>, FindMax(g))
           IN Within(x, y, o[1], o[2])
<1> DEFINE f == FindMax(g)
           w == ScreenWidth
           h == ScreenHeight
           b == Border
<1>1. /\ w \in Nat /\ h \in Nat /\ b \in Nat /\ 2 * b < w /\ 2 * b < h
      /\ GridWidth \in Nat /\ GridHeight \in Nat
  BY GridSides, SimpleLevelAssumption
<1>2. 1..4 = {1, 2, 3, 4}
  OBVIOUS
<1>3. \A i \in 1..4 : g[i] \in Int
  BY <1>2 DEF One
<1>4. f \in {1, 2, 3, 4} /\ g[f] > 0
  BY <1>2, <1>3, FindsMax
<1> HIDE DEF f, w, h, b
<1>5. x \in u..(u + w - 1) /\ y \in v..(v + h - 1)
  BY DEF Within, w, h
<1>6. /\ g[1] > 0 => y < v + b
      /\ g[2] > 0 => y > v + h - 1 - b
      /\ g[3] > 0 => x < u + b
      /\ g[4] > 0 => x > u + w - 1 - b
  BY <1>1 DEF One, w, h, b
<1>7. /\ Shifted(<<u, v>>, 1) \in {<<u, v - 1>>, <<u, v>>}
      /\ Shifted(<<u, v>>, 2) \in {<<u, v + 1>>, <<u, v>>}
      /\ Shifted(<<u, v>>, 3) \in {<<u - 1, v>>, <<u, v>>}
      /\ Shifted(<<u, v>>, 4) \in {<<u + 1, v>>, <<u, v>>}
  BY Shifts
<1>8. /\ g[1] > 0 => y \in (v - 1)..(v - 1 + h - 1)
      /\ g[2] > 0 => y \in (v + 1)..(v + 1 + h - 1)
      /\ g[3] > 0 => x \in (u - 1)..(u - 1 + w - 1)
      /\ g[4] > 0 => x \in (u + 1)..(u + 1 + w - 1)
  BY <1>1, <1>5, <1>6
<1> DEFINE o == Shifted(<<u, v>>, f)
<1>9. x \in o[1]..(o[1] + w - 1) /\ y \in o[2]..(o[2] + h - 1)
  <2>1. CASE f = 1
    <3>1. o = <<u, v - 1>> \/ o = <<u, v>>
      BY <1>7, <2>1
    <3> HIDE DEF o
    <3>2. QED
      BY <1>4, <1>5, <1>8, <2>1, <3>1
  <2>2. CASE f = 2
    <3>1. o = <<u, v + 1>> \/ o = <<u, v>>
      BY <1>7, <2>2
    <3> HIDE DEF o
    <3>2. QED
      BY <1>4, <1>5, <1>8, <2>2, <3>1
  <2>3. CASE f = 3
    <3>1. o = <<u - 1, v>> \/ o = <<u, v>>
      BY <1>7, <2>3
    <3> HIDE DEF o
    <3>2. QED
      BY <1>4, <1>5, <1>8, <2>3, <3>1
  <2>4. CASE f = 4
    <3>1. o = <<u + 1, v>> \/ o = <<u, v>>
      BY <1>7, <2>4
    <3> HIDE DEF o
    <3>2. QED
      BY <1>4, <1>5, <1>8, <2>4, <3>1
  <2>5. QED
    BY <1>4, <2>1, <2>2, <2>3, <2>4
<1> QED
  BY <1>9 DEF Within, f, w, h

\* Where the screen may be before it follows a player who is alone.
NearBy(p, o) == OnScreen(p, o) \/ Beside(p.at[1], p.at[2], o[1], o[2])

LEMMA ViewportFollows ==
    ASSUME NEW P \in Seq(Standing), Len(P) = 1, NEW o \in Pairs, NearBy(P[1], o)
    PROVE  OnScreen(P[1], UpdateViewport(P, o))
<1> DEFINE x == P[1].at[1]
           y == P[1].at[2]
           u == o[1]
           v == o[2]
           g == Gains(P, o)
           c == Comforts(P, o)
           r == UpdateViewport(P, o)
<1>1. /\ x \in 0..(GridWidth - 1) /\ y \in 0..(GridHeight - 1) /\ x \in Int /\ y \in Int
      /\ u \in Int /\ v \in Int /\ o = <<u, v>>
  <2>1. P[1] \in Standing
    OBVIOUS
  <2>2. P[1].at \in Places
    BY <2>1 DEF Standing
  <2>3. x \in 0..(GridWidth - 1) /\ y \in 0..(GridHeight - 1)
    BY <2>2 DEF Places
  <2>4. x \in Int /\ y \in Int
    BY <2>3, GridSides
  <2>5. u \in Int /\ v \in Int /\ o = <<u, v>>
    BY DEF Pairs
  <2>6. QED
    BY <2>3, <2>4, <2>5
<1>2. g = <<One(y = v - 1) - One(y = v + ScreenHeight - 1),
            One(y = v + ScreenHeight) - One(y = v),
            One(x = u - 1) - One(x = u + ScreenWidth - 1),
            One(x = u + ScreenWidth) - One(x = u)>>
  BY GainsOfOne
<1>3. \A q : OnScreen(P[1], q) <=> Within(x, y, q[1], q[2])
  BY DEF OnScreen, Within
<1>4. r = IF g[FindMax(g)] > 0 THEN Shifted(o, FindMax(g))
          ELSE IF c[FindMax(c)] > 0 THEN Shifted(o, FindMax(c)) ELSE o
  BY DEF UpdateViewport
<1>5. CASE OnScreen(P[1], o)
  <2>1. c = <<One(y < v + Border) - One(y >= v + ScreenHeight - 1 - Border),
              One(y > v + ScreenHeight - 1 - Border) - One(y <= v + Border),
              One(x < u + Border) - One(x >= u + ScreenWidth - 1 - Border),
              One(x > u + ScreenWidth - 1 - Border) - One(x <= u + Border)>>
    BY <1>5, ComfortsOfOne
  <2>2. Within(x, y, u, v)
    BY <1>3, <1>5
  <2> HIDE DEF x, y, u, v, g, c, r
  <2>3. /\ DOMAIN g = 1..4
        /\ g[1] = One(y = v - 1) - One(y = v + ScreenHeight - 1)
        /\ g[2] = One(y = v + ScreenHeight) - One(y = v)
        /\ g[3] = One(x = u - 1) - One(x = u + ScreenWidth - 1)
        /\ g[4] = One(x = u + ScreenWidth) - One(x = u)
    BY <1>2
  <2>4. /\ DOMAIN c = 1..4
        /\ c[1] = One(y < v + Border) - One(y >= v + ScreenHeight - 1 - Border)
        /\ c[2] = One(y > v + ScreenHeight - 1 - Border) - One(y <= v + Border)
        /\ c[3] = One(x < u + Border) - One(x >= u + ScreenWidth - 1 - Border)
        /\ c[4] = One(x > u + ScreenWidth - 1 - Border) - One(x <= u + Border)
    BY <2>1
  <2>5. 1..4 = {1, 2, 3, 4}
    OBVIOUS
  <2>6. y # v - 1 /\ y # v + ScreenHeight /\ x # u - 1 /\ x # u + ScreenWidth
    BY <1>1, <2>2, GridSides DEF Within
  <2>7. \A i \in 1..4 : g[i] \in Int /\ g[i] <= 0
    BY <2>3, <2>5, <2>6 DEF One
  <2>8. ~(g[FindMax(g)] > 0)
    <3>1. FindMax(g) \in 1..4
      BY <2>3, <2>7, FindsMax
    <3>2. QED
      BY <2>7, <3>1
  <2>9. CASE c[FindMax(c)] > 0
    <3> DEFINE s == Shifted(<<u, v>>, FindMax(c))
    <3>1. Within(x, y, s[1], s[2])
      BY <1>1, <2>2, <2>4, <2>9, ComfortKeeps
    <3>2. r = s
      BY <1>1, <1>4, <2>8, <2>9
    <3> HIDE DEF s
    <3>3. OnScreen(P[1], r)
      BY <1>3, <3>1, <3>2
    <3>4. QED
      BY <3>3 DEF r
  <2>10. CASE ~(c[FindMax(c)] > 0)
    BY <1>4, <1>5, <2>8, <2>10 DEF r
  <2>11. QED
    BY <2>9, <2>10
<1>6. CASE Beside(x, y, u, v)
  <2> HIDE DEF x, y, u, v, g, c, r
  <2>1. /\ DOMAIN g = 1..4
        /\ g[1] = One(y = v - 1) - One(y = v + ScreenHeight - 1)
        /\ g[2] = One(y = v + ScreenHeight) - One(y = v)
        /\ g[3] = One(x = u - 1) - One(x = u + ScreenWidth - 1)
        /\ g[4] = One(x = u + ScreenWidth) - One(x = u)
    BY <1>2
  <2> DEFINE s == Shifted(<<u, v>>, FindMax(g))
  <2>2. g[FindMax(g)] > 0 /\ Within(x, y, s[1], s[2])
    BY <1>1, <1>6, <2>1, GainFollows
  <2>3. r = s
    BY <1>1, <1>4, <2>2
  <2> HIDE DEF s
  <2>4. OnScreen(P[1], r)
    BY <1>3, <2>2, <2>3
  <2>5. QED
    BY <2>4 DEF r
<1> QED
  BY <1>5, <1>6 DEF NearBy

\* Wherever it is moved to, the screen begins at a place.
LEMMA ViewportIsPlace ==
    ASSUME NEW P, NEW o \in Pairs
    PROVE  UpdateViewport(P, o) \in Pairs
<1>1. PICK u \in Int, v \in Int : o = <<u, v>>
  BY DEF Pairs
<1>2. \A d : Shifted(o, d) \in Pairs
  <2> SUFFICES ASSUME NEW d PROVE Shifted(o, d) \in Pairs
    OBVIOUS
  <2>1. /\ <<o[1], o[2] - 1>> \in Pairs /\ <<o[1], o[2] + 1>> \in Pairs
        /\ <<o[1] - 1, o[2]>> \in Pairs /\ <<o[1] + 1, o[2]>> \in Pairs
    BY <1>1 DEF Pairs
  <2>2. QED
    BY <2>1 DEF Shifted
<1>3. QED
  BY <1>2 DEF UpdateViewport

\* Nobody has left: before the first player comes the screen is where he begins,
\* and it is where he is as long as he is alone.
Followed ==
    /\ origin \in Pairs
    /\ ~ended /\ Len(players) = 0 => Within(Start[1], Start[2], origin[1], origin[2])
    /\ LonePlayerSeen

LEMMA FirstScreen == LevelInit => Followed
<1> SUFFICES ASSUME LevelInit PROVE Followed
  OBVIOUS
<1> DEFINE x == Start[1]
           y == Start[2]
           u == x - (ScreenWidth + 1) \div 2
           v == y - (ScreenHeight + 1) \div 2
<1>1. origin = <<u, v>> /\ players = << >>
  BY DEF LevelInit
<1>2. x \in Int /\ y \in Int
  BY GridSides, SimpleLevelAssumption, PlaceOf
<1>3. /\ \A n \in Nat : n >= 3 => (n + 1) \div 2 \in 1..(n - 1)
  OBVIOUS
<1>4. (ScreenWidth + 1) \div 2 \in 1..(ScreenWidth - 1)
      /\ (ScreenHeight + 1) \div 2 \in 1..(ScreenHeight - 1)
  BY <1>3, GridSides
<1>5. u \in Int /\ v \in Int /\ x \in u..(u + ScreenWidth - 1) /\ y \in v..(v + ScreenHeight - 1)
  BY <1>2, <1>4, GridSides
<1> HIDE DEF u, v
<1>6. origin \in Pairs /\ Within(x, y, origin[1], origin[2])
  BY <1>1, <1>5 DEF Within, Pairs
<1>7. LonePlayerSeen
  BY <1>1 DEF LonePlayerSeen
<1> QED
  BY <1>6, <1>7 DEF Followed

\* A step leads to the screen or right beside it.
LEMMA AheadIsClose ==
    ASSUME NEW from \in Places, NEW angle \in {0, 90, 180, 270},
           NEW u \in Int, NEW v \in Int, Within(from[1], from[2], u, v)
    PROVE  LET p == Ahead(from, angle)
           IN Within(p[1], p[2], u, v) \/ Beside(p[1], p[2], u, v)
<1> DEFINE x == from[1]
           y == from[2]
<1>1. x \in Int /\ y \in Int
  BY PlaceOf DEF Pairs
<1>2. \/ Ahead(from, angle) = <<x, y - 1>>
      \/ Ahead(from, angle) = <<x - 1, y>>
      \/ Ahead(from, angle) = <<x, y + 1>>
      \/ Ahead(from, angle) = <<x + 1, y>>
  BY DEF Ahead
<1> HIDE DEF x, y
<1>3. x \in u..(u + ScreenWidth - 1) /\ y \in v..(v + ScreenHeight - 1)
  BY DEF Within, x, y
<1>4. \A q : q \in {<<x, y - 1>>, <<x - 1, y>>, <<x, y + 1>>, <<x + 1, y>>} =>
         Within(q[1], q[2], u, v) \/ Beside(q[1], q[2], u, v)
  <2>1. /\ y - 1 \in v..(v + ScreenHeight - 1) \/ y - 1 = v - 1
        /\ y + 1 \in v..(v + ScreenHeight - 1) \/ y + 1 = v + ScreenHeight
        /\ x - 1 \in u..(u + ScreenWidth - 1) \/ x - 1 = u - 1
        /\ x + 1 \in u..(u + ScreenWidth - 1) \/ x + 1 = u + ScreenWidth
    BY <1>1, <1>3, GridSides
  <2> DEFINE y1 == y - 1
             y2 == y + 1
             x1 == x - 1
             x2 == x + 1
  <2> HIDE DEF x1, x2, y1, y2
  <2>2. /\ Within(x, y1, u, v) \/ Beside(x, y1, u, v)
        /\ Within(x, y2, u, v) \/ Beside(x, y2, u, v)
        /\ Within(x1, y, u, v) \/ Beside(x1, y, u, v)
        /\ Within(x2, y, u, v) \/ Beside(x2, y, u, v)
    BY <1>3, <2>1 DEF Within, Beside, x1, x2, y1, y2
  <2>3. QED
    BY <2>2 DEF x1, x2, y1, y2
<1> QED
  BY <1>2, <1>4

LEMMA TriedFollows ==
    ASSUME LevelInv, LevelInv', Followed, NEW k \in DOMAIN players,
           NEW angle \in {0, 90, 180, 270}, Tried(k, Ahead(players[k].at, angle))
    PROVE  Followed'
<1> DEFINE p == Ahead(players[k].at, angle)
           okay == players' = [players EXCEPT ![k].at = p]
                   /\ origin' = UpdateViewport(players', origin)
<1>1. /\ okay \/ (players' = players /\ origin' = origin)
      /\ ended' = ended
  BY DEF Tried
<1>2. players \in Seq(Standing) /\ players' \in Seq(Standing)
  BY DEF LevelInv, PlayersOK
<1> HIDE DEF p
<1>3. CASE players' = players /\ origin' = origin
  BY <1>1, <1>3 DEF Followed, LonePlayerSeen, OnScreen
<1>4. CASE okay
  <2>1. origin' \in Pairs
    BY <1>4, ViewportIsPlace DEF Followed
  <2>2. Len(players') = Len(players) /\ Len(players) # 0
    BY <1>2, <1>4
  <2>3. ASSUME ~ended', Len(players') = 1
        PROVE  OnScreen(players'[1], origin')
    <3>0. DOMAIN players = 1..Len(players)
      BY <1>2
    <3>1. k = 1 /\ ~ended /\ Len(players) = 1
      <4>1. ~ended
        BY <1>1, <2>3
      <4>2. Len(players) = 1
        BY <2>2, <2>3
      <4>3. k = 1
        BY <3>0, <4>2
      <4>4. QED
        BY <4>1, <4>2, <4>3
    <3>2. players[1] \in Standing /\ players[1].at \in Places
      <4>1. players[k] \in Standing
        BY <1>2
      <4>2. QED
        BY <3>1, <4>1 DEF Standing
    <3>3. origin \in Pairs /\ origin[1] \in Int /\ origin[2] \in Int
      BY DEF Followed, Pairs
    <3>4. Within(players[1].at[1], players[1].at[2], origin[1], origin[2])
      BY <3>1 DEF Followed, LonePlayerSeen, OnScreen, Within
    <3>5. Within(p[1], p[2], origin[1], origin[2]) \/ Beside(p[1], p[2], origin[1], origin[2])
      BY <3>1, <3>2, <3>3, <3>4, AheadIsClose DEF p
    <3>6. players'[1].at = p
      BY <1>2, <1>4, <3>1, <3>2 DEF Standing
    <3>7. NearBy(players'[1], origin)
      BY <3>5, <3>6 DEF NearBy, OnScreen, Within
    <3>8. origin' = UpdateViewport(players', origin)
      BY <1>4
    <3>9. QED
      BY <1>2, <2>3, <3>3, <3>7, <3>8, ViewportFollows
  <2>4. LonePlayerSeen'
    BY <2>3 DEF LonePlayerSeen, OnScreen
  <2>5. QED
    BY <2>1, <2>2, <2>4 DEF Followed
<1> QED
  BY <1>1, <1>3, <1>4

LEMMA ComesFollows ==
    ASSUME LevelInv, LevelInv', Followed, SimpleGetData
    PROVE  Followed'
<1> DEFINE r == [at |-> Start, angle |-> 0]
<1>1. /\ players' = Append(players, r) /\ origin' = UpdateViewport(players', origin)
      /\ ended' = ended
  BY DEF SimpleGetData
<1>2. players \in Seq(Standing) /\ players' \in Seq(Standing) /\ Len(players) \in Nat
  BY DEF LevelInv, PlayersOK
<1>3. origin' \in Pairs /\ origin \in Pairs
  BY <1>1, ViewportIsPlace DEF Followed
<1>4. Len(players') = Len(players) + 1
  BY <1>1, <1>2
<1>5. ASSUME ~ended', Len(players') = 1
      PROVE  OnScreen(players'[1], origin')
  <2>1. Len(players) = 0 /\ ~ended
    BY <1>1, <1>2, <1>4, <1>5
  <2>2. Within(Start[1], Start[2], origin[1], origin[2])
    BY <2>1 DEF Followed
  <2>3. players'[1] = r /\ r.at = Start
    BY <1>1, <1>2, <2>1
  <2>4. NearBy(players'[1], origin)
    BY <2>2, <2>3 DEF NearBy, OnScreen, Within
  <2>5. QED
    BY <1>1, <1>2, <1>3, <1>5, <2>4, ViewportFollows
<1>6. LonePlayerSeen'
  BY <1>5 DEF LonePlayerSeen, OnScreen
<1>7. Len(players') # 0
  BY <1>2, <1>4
<1> QED
  BY <1>3, <1>6, <1>7 DEF Followed

LEMMA TurnsFollows ==
    ASSUME LevelInv, LevelInv', Followed, NEW k \in DOMAIN players, NEW by \in {90, 270},
           Turn(k, by)
    PROVE  Followed'
<1> DEFINE r == [players[k] EXCEPT !.angle = (players[k].angle + by) % 360]
<1>1. /\ players' = [players EXCEPT ![k] = r] /\ origin' = UpdateViewport(players', origin)
      /\ ended' = ended
  BY DEF Turn
<1>2. players \in Seq(Standing) /\ players' \in Seq(Standing) /\ Len(players) \in Nat
  BY DEF LevelInv, PlayersOK
<1>3. origin' \in Pairs /\ origin \in Pairs
  BY <1>1, ViewportIsPlace DEF Followed
<1>4. Len(players') = Len(players) /\ Len(players) # 0
  BY <1>1, <1>2
<1>5. r.at = players[k].at
  BY <1>2 DEF Standing
<1> HIDE DEF r
<1>6. ASSUME ~ended', Len(players') = 1
      PROVE  OnScreen(players'[1], origin')
  <2>1. k = 1 /\ ~ended /\ Len(players) = 1
    BY <1>1, <1>2, <1>4, <1>6
  <2>2. players'[1].at = players[1].at
    BY <1>1, <1>2, <1>5, <2>1
  <2>3. NearBy(players'[1], origin)
    BY <2>1, <2>2 DEF Followed, LonePlayerSeen, NearBy, OnScreen
  <2>4. origin' = UpdateViewport(players', origin)
    BY <1>1
  <2>5. QED
    BY <1>2, <1>3, <1>6, <2>3, <2>4, ViewportFollows
<1>7. LonePlayerSeen'
  BY <1>6 DEF LonePlayerSeen, OnScreen
<1> QED
  BY <1>3, <1>4, <1>7 DEF Followed

\* Wherever a player goes who is alone, the screen that follows him one place at
\* a time, and stops where the level ends, has him on it, for any level, any
\* screen of three places or more and any border that leaves room between its
\* sides (simple.c:128-207).
THEOREM KeepsUp == LevelSpec => []LonePlayerSeen
<1> DEFINE I == LevelInv /\ Followed
<1>1. LevelInit => I
  BY LevelStarts, FirstScreen
<1>2. I /\ [LevelNext]_level => I'
  <2> SUFFICES ASSUME LevelInv, Followed, [LevelNext]_level
               PROVE  LevelInv' /\ Followed'
    OBVIOUS
  <2>1. LevelInv'
    BY LevelSteps
  <2>2. ASSUME NEW k \in DOMAIN players, NEW angle \in {0, 90, 180, 270}, GridMove(k, angle)
        PROVE  Followed'
    BY <2>1, <2>2, TriedFollows DEF GridMove
  <2>3. ASSUME NEW k \in DOMAIN players, GridOMove(k)
        PROVE  Followed'
    <3>1. players[k].angle \in {0, 90, 180, 270}
      BY Stands DEF LevelInv
    <3>2. QED
      BY <2>1, <2>3, <3>1, TriedFollows DEF GridOMove
  <2>4. ASSUME NEW k \in DOMAIN players, NEW by \in {90, 270}, Turn(k, by)
        PROVE  Followed'
    BY <2>1, <2>4, TurnsFollows
  <2>5. CASE SimpleGetData
    BY <2>1, <2>5, ComesFollows
  <2>6. ASSUME NEW k \in DOMAIN players, SimpleFreeData(k)
        PROVE  Followed'
    <3>1. ended' = TRUE /\ origin' = origin
      BY <2>6 DEF SimpleFreeData
    <3>2. QED
      BY <3>1 DEF Followed, LonePlayerSeen
  <2>7. CASE UNCHANGED level
    <3>1. players' = players /\ origin' = origin /\ ended' = ended
      BY <2>7 DEF level
    <3>2. LonePlayerSeen'
      BY <3>1 DEF Followed, LonePlayerSeen, OnScreen
    <3>3. QED
      BY <2>1, <3>1, <3>2 DEF Followed
  <2>8. QED
    BY <2>1, <2>2, <2>3, <2>4, <2>5, <2>6, <2>7 DEF LevelNext, Play
<1>3. I => LonePlayerSeen
  BY DEF Followed
<1>4. QED
  BY <1>1, <1>2, <1>3, PTL DEF LevelSpec
-----------------------------------------------------------------------------
(* A program that plays.  The bytes its library has still to read are      *)
(* those of the answer to its last call, from the number on that is due.   *)

\* Mazes and lines have at least one number, and every number a digit.
Mazes == {w \in Seq(Nat \ {0}) : w # << >>}

\* Where the numbers of an answer end, the places of their delimiters.
EndsAt(e, w) ==
    /\ e \in [0..Len(w) -> Nat]
    /\ e[0] = 0 /\ \A k \in 1..Len(w) : e[k] = e[k - 1] + w[k] + 1
Ends(w) == CHOOSE e : EndsAt(e, w)

\* t has the first k numbers of w and what is behind them, in their places.
Holds(t, w, e, k) ==
    /\ t \in Seq(Int) /\ Len(t) = e[k]
    /\ \A i \in 0..k : e[i] <= e[k]
    /\ \A i \in 1..k : /\ \A q \in e[i - 1] + 1..e[i] - 1 : t[q] = i
                       /\ t[e[i]] = Delimiter(w, i)

\* Every answer has such places.
LEMMA EndsExist ==
    ASSUME NEW w \in Mazes
    PROVE  EndsAt(Ends(w), w)
<1> DEFINE n == Len(w)
           F == [p \in Nat \X Nat |-> IF p[1] \in 1..n THEN p[2] + w[p[1]] + 1 ELSE 0]
<1>1. n \in Nat /\ \A k \in 1..n : w[k] \in Nat
  BY DEF Mazes
<1>2. F \in Rules(Nat)
  <2>1. ASSUME NEW p \in Nat \X Nat
        PROVE  (IF p[1] \in 1..n THEN p[2] + w[p[1]] + 1 ELSE 0) \in Nat
    BY <1>1
  <2>2. QED
    BY <2>1 DEF Rules
<1>3. \A k \in 1..n, v \in Nat : F[<<k, v>>] = v + w[k] + 1
  <2> SUFFICES ASSUME NEW k \in 1..n, NEW v \in Nat
               PROVE  F[<<k, v>>] = v + w[k] + 1
    OBVIOUS
  <2>1. <<k, v>> \in Nat \X Nat /\ <<k, v>>[1] = k /\ <<k, v>>[2] = v
    BY <1>1
  <2>2. QED
    BY <2>1
<1> HIDE DEF F
<1>4. PICK h : Unfolds(h, Nat, 0, F, n)
  BY <1>1, <1>2, Recursion
<1>5. EndsAt(h, w)
  <2>1. \A k \in 1..n : k - 1 \in 0..n
    BY <1>1
  <2>2. h \in [0..n -> Nat] /\ h[0] = 0 /\ \A k \in 1..n : h[k] = F[<<k, h[k - 1]>>]
    BY <1>4 DEF Unfolds
  <2>3. \A k \in 1..n : h[k] = h[k - 1] + w[k] + 1
    BY <1>3, <2>1, <2>2
  <2>4. QED
    BY <2>2, <2>3 DEF EndsAt
<1> QED
  BY <1>5 DEF Ends

\* A sequence behind another one.
LEMMA Glued ==
    ASSUME NEW S, NEW s \in Seq(S), NEW t \in Seq(S)
    PROVE  /\ s \o t \in Seq(S) /\ Len(s \o t) = Len(s) + Len(t)
           /\ \A i \in 1..Len(s) : (s \o t)[i] = s[i]
           /\ \A i \in 1..Len(t) : (s \o t)[Len(s) + i] = t[i]
<1> DEFINE m == Len(s)
           n == Len(t)
           u == s \o t
<1>1. m \in Nat /\ n \in Nat
  OBVIOUS
<1>2. u \in Seq(S) /\ Len(u) = m + n /\ \A i \in 1..m + n : u[i] = IF i <= m THEN s[i] ELSE t[i - m]
  BY ConcatProperties
<1> HIDE DEF m, n, u
<1>3. \A i \in 1..m : i \in 1..m + n /\ i <= m
  BY <1>1
<1>4. \A i \in 1..n : m + i \in 1..m + n /\ ~(m + i <= m) /\ m + i - m = i
  BY <1>1
<1>5. QED
  BY <1>2, <1>3, <1>4 DEF m, n, u

\* What is added for one number.
LEMMA NumberAdded ==
    ASSUME NEW w \in Mazes, NEW k \in 1..Len(w)
    PROVE  LET a == Append(Number(w, k), Delimiter(w, k))
           IN /\ a \in Seq(Int) /\ Len(a) = w[k] + 1
              /\ \A i \in 1..w[k] : a[i] = k
              /\ a[w[k] + 1] = Delimiter(w, k)
<1> DEFINE s == Number(w, k)
<1>1. w[k] \in Nat /\ k \in Int /\ Delimiter(w, k) \in Int
  BY DEF Mazes, Delimiter, Gap, Newline
<1>2. s \in Seq(Int) /\ Len(s) = w[k] /\ \A i \in 1..w[k] : s[i] = k
  BY <1>1 DEF Number
<1> HIDE DEF s
<1>3. QED
  BY <1>1, <1>2, AppendProperties DEF s

\* One more number takes the next place.
LEMMA HoldsMore ==
    ASSUME NEW w \in Mazes, NEW e, EndsAt(e, w), NEW k \in 1..Len(w),
           NEW t, Holds(t, w, e, k - 1)
    PROVE  Holds(t \o Append(Number(w, k), Delimiter(w, k)), w, e, k)
<1> DEFINE a == Append(Number(w, k), Delimiter(w, k))
           n == Len(w)
           m == e[k - 1]
<1>1. n \in Nat /\ k \in 1..n /\ k - 1 \in 0..n /\ w[k] \in Nat
  BY DEF Mazes
<1>2. /\ a \in Seq(Int) /\ Len(a) = w[k] + 1
      /\ \A i \in 1..w[k] : a[i] = k
      /\ a[w[k] + 1] = Delimiter(w, k)
  BY NumberAdded
<1> HIDE DEF a
<1>3. e[k] = m + w[k] + 1 /\ m \in Nat /\ \A i \in 0..n : e[i] \in Nat
  BY <1>1 DEF EndsAt
<1>4. t \in Seq(Int) /\ Len(t) = m
  BY DEF Holds
<1>5. /\ t \o a \in Seq(Int) /\ Len(t \o a) = e[k]
      /\ \A i \in 1..m : (t \o a)[i] = t[i]
      /\ \A i \in 1..(w[k] + 1) : (t \o a)[m + i] = a[i]
  <2> HIDE DEF m
  <2>1. m + (w[k] + 1) = e[k]
    BY <1>1, <1>3
  <2>2. /\ t \o a \in Seq(Int) /\ Len(t \o a) = Len(t) + Len(a)
        /\ \A i \in 1..Len(t) : (t \o a)[i] = t[i]
        /\ \A i \in 1..Len(a) : (t \o a)[Len(t) + i] = a[i]
    <3>1. t \in Seq(Int) /\ a \in Seq(Int)
      BY <1>2, <1>4
    <3>2. QED
      BY <3>1, Glued
  <2> DEFINE b == t \o a
  <2> HIDE DEF b
  <2>3. Len(b) = m + (w[k] + 1) /\ \A i \in 1..m : b[i] = t[i]
    BY <1>2, <1>4, <2>2 DEF b
  <2>4. \A i \in 1..(w[k] + 1) : b[m + i] = a[i]
    BY <1>2, <1>4, <2>2 DEF b
  <2>5. QED
    BY <2>1, <2>2, <2>3, <2>4 DEF b
<1> DEFINE u == t \o a
<1> HIDE DEF u
<1>6. \A i \in 0..k : e[i] <= e[k]
  <2>1. \A i \in 0..k : i = k \/ i \in 0..(k - 1)
    BY <1>1
  <2>2. m <= e[k]
    BY <1>1, <1>3
  <2>3. \A i \in 0..(k - 1) : e[i] <= m /\ i \in 0..n
    BY <1>1 DEF Holds
  <2>4. QED
    BY <1>1, <1>3, <2>1, <2>2, <2>3
<1>7. ASSUME NEW i \in 1..k
      PROVE  /\ \A q \in e[i - 1] + 1..e[i] - 1 : u[q] = i
             /\ u[e[i]] = Delimiter(w, i)
  <2>1. CASE i = k
    <3>1. \A q \in m + 1..e[k] - 1 : q - m \in 1..w[k] /\ m + (q - m) = q
      BY <1>1, <1>3
    <3>2. \A q \in m + 1..e[k] - 1 : u[q] = k
      <4>1. \A j \in 1..w[k] : j \in 1..(w[k] + 1)
        BY <1>1
      <4> HIDE DEF m
      <4>2. QED
        BY <1>2, <1>5, <3>1, <4>1 DEF u
    <3>3. w[k] + 1 \in 1..(w[k] + 1) /\ m + (w[k] + 1) = e[k]
      BY <1>1, <1>3
    <3>4. u[e[k]] = Delimiter(w, k)
      BY <1>2, <1>5, <3>3 DEF u
    <3>5. QED
      BY <2>1, <3>2, <3>4
  <2>2. CASE i # k
    <3>1. i \in 1..(k - 1) /\ i - 1 \in 0..n /\ i \in 0..(k - 1) /\ i \in 1..n
      BY <1>1, <2>2
    <3>2. /\ \A q \in e[i - 1] + 1..e[i] - 1 : t[q] = i
          /\ t[e[i]] = Delimiter(w, i) /\ e[i] <= m
      BY <3>1 DEF Holds
    <3>3. e[i] \in Nat /\ e[i - 1] \in Nat /\ e[i] > 0
      <4>1. w[i] \in Nat /\ e[i] = e[i - 1] + w[i] + 1
        BY <3>1 DEF Mazes, EndsAt
      <4>2. e[i] \in Nat /\ e[i - 1] \in Nat
        BY <1>3, <3>1
      <4>3. QED
        BY <4>1, <4>2
    <3>4. e[i] \in 1..m /\ \A q \in e[i - 1] + 1..e[i] - 1 : q \in 1..m
      BY <1>3, <3>2, <3>3
    <3>5. QED
      BY <1>5, <3>2, <3>4 DEF u
  <2>3. QED
    BY <2>1, <2>2
<1> QED
  BY <1>5, <1>6, <1>7 DEF Holds, u, a

\* The text of some numbers: each has its place and what belongs behind it.
LEMMA NumbersAre ==
    ASSUME NEW w \in Mazes
    PROVE  Holds(Numbers(w), w, Ends(w), Len(w))
<1> DEFINE n == Len(w)
           e == Ends(w)
           a(k) == Append(Number(w, k), Delimiter(w, k))
           F == [p \in Nat \X Seq(Int) |-> IF p[1] \in 1..n THEN p[2] \o a(p[1]) ELSE p[2]]
           h == CHOOSE f : f = [k \in 0..n |-> IF k = 0 THEN << >> ELSE f[k - 1] \o a(k)]
<1>1. n \in Nat
  BY DEF Mazes
<1>2. \A k \in 1..n : a(k) \in Seq(Int)
  BY NumberAdded
<1> HIDE DEF a
<1>3. F \in Rules(Seq(Int))
  <2>1. ASSUME NEW p \in Nat \X Seq(Int)
        PROVE  (IF p[1] \in 1..n THEN p[2] \o a(p[1]) ELSE p[2]) \in Seq(Int)
    BY <1>2, ConcatProperties
  <2>2. QED
    BY <2>1 DEF Rules
<1>4. \A k \in 1..n, v \in Seq(Int) : F[<<k, v>>] = v \o a(k)
  <2> SUFFICES ASSUME NEW k \in 1..n, NEW v \in Seq(Int)
               PROVE  F[<<k, v>>] = v \o a(k)
    OBVIOUS
  <2>1. <<k, v>> \in Nat \X Seq(Int) /\ <<k, v>>[1] = k /\ <<k, v>>[2] = v
    BY <1>1
  <2>2. QED
    BY <2>1
<1> HIDE DEF F
<1>5. PICK f : Unfolds(f, Seq(Int), << >>, F, n)
  <2>1. << >> \in Seq(Int)
    OBVIOUS
  <2> HIDE DEF n
  <2>2. QED
    BY <1>1, <1>3, <2>1, Recursion
<1>6. f \in [0..n -> Seq(Int)] /\ f[0] = << >> /\ \A k \in 1..n : f[k] = f[k - 1] \o a(k)
  <2>1. \A k \in 1..n : k - 1 \in 0..n
    BY <1>1
  <2>2. f \in [0..n -> Seq(Int)] /\ f[0] = << >> /\ \A k \in 1..n : f[k] = F[<<k, f[k - 1]>>]
    BY <1>5 DEF Unfolds
  <2>3. ASSUME NEW k \in 1..n
        PROVE  f[k] = f[k - 1] \o a(k)
    <3>1. f[k - 1] \in Seq(Int) /\ f[k] = F[<<k, f[k - 1]>>]
      BY <2>1, <2>2
    <3>2. QED
      BY <1>4, <3>1
  <2>4. QED
    BY <2>2, <2>3
<1>7. f = [k \in 0..n |-> IF k = 0 THEN << >> ELSE f[k - 1] \o a(k)]
  <2>1. ASSUME NEW k \in 0..n
        PROVE  f[k] = IF k = 0 THEN << >> ELSE f[k - 1] \o a(k)
    <3>1. k = 0 \/ (k # 0 /\ k \in 1..n)
      BY <1>1
    <3>2. QED
      BY <1>6, <3>1
  <2>2. f = [k \in 0..n |-> f[k]]
    <3>1. f \in [0..n -> Seq(Int)]
      BY <1>6, Zenon
    <3> HIDE DEF n
    <3>2. QED
      BY <3>1, Zenon
  <2>3. QED
    BY <2>1, <2>2
<1>8. h = [k \in 0..n |-> IF k = 0 THEN << >> ELSE h[k - 1] \o a(k)]
  BY <1>7, Zenon
<1>9. Numbers(w) = h[n]
  BY DEF Numbers, a
<1> HIDE DEF h
<1>10. 0 \in 0..n /\ n \in 0..n /\ \A k \in 1..n : k \in 0..n /\ k # 0
  BY <1>1
<1>11. h[0] = << >> /\ \A k \in 1..n : h[k] = h[k - 1] \o a(k)
  BY <1>8, <1>10
<1>12. EndsAt(e, w)
  BY EndsExist
<1> HIDE DEF e
<1> DEFINE S == {k \in 0..n : ~Holds(h[k], w, e, k)}
<1>13. S = {}
  <2> SUFFICES ASSUME S # {} PROVE FALSE
    OBVIOUS
  <2>1. S \in SUBSET Nat
    BY <1>1
  <2>2. PICK k \in S : \A g \in S : k <= g
    <3> HIDE DEF S
    <3>1. QED
      BY <2>1, LowestNumber
  <2>3. k \in 0..n /\ ~Holds(h[k], w, e, k)
    BY <2>2
  <2>4. k # 0
    <3>1. << >> \in Seq(Int) /\ Len(<< >>) = 0 /\ e[0] = 0 /\ 1..0 = {} /\ 0..0 = {0}
      BY <1>12 DEF EndsAt
    <3>2. Holds(h[0], w, e, 0)
      BY <1>11, <3>1 DEF Holds
    <3>3. QED
      BY <2>3, <3>2
  <2>5. k \in 1..n /\ k - 1 \in 0..n /\ ~(k <= k - 1)
    BY <1>1, <2>3, <2>4
  <2>6. Holds(h[k - 1], w, e, k - 1)
    BY <2>2, <2>5
  <2>7. h[k] = h[k - 1] \o Append(Number(w, k), Delimiter(w, k))
    BY <1>11, <2>5 DEF a
  <2>8. Holds(h[k], w, e, k)
    BY <1>12, <2>5, <2>6, <2>7, HoldsMore
  <2>9. QED
    BY <2>3, <2>8
<1> QED
  BY <1>9, <1>10, <1>13 DEF e
-----------------------------------------------------------------------------
(* The buffer                                                              *)

\* t, from behind its first n, is what can still be read: what the buffer has
\* behind p and the stream.
Coming(buf, p, s, t, n) ==
    /\ Len(buf \o s) - p = Len(t) - n
    /\ \A i \in 1..Len(t) - n : (buf \o s)[p + i] = t[n + i]

Doings == {"nothing", "line", "start", "numbers", "thrown", "error"}
Calls == {"number", "done", "move", "maze"}

BufferOK ==
    /\ lib \in [buf : Seq(Int), ptr : Nat, doing : Doings, call : Calls, tries : Nat,
                asked : Nat]
    /\ lib.ptr <= Len(lib.buf) /\ Len(lib.buf) < LibBuf
    /\ stream \in Seq(Int)

\* What the program waits for is what the server answered and was not read.
Awaited ==
    LET w == answer.widths
    IN /\ lib.doing = "nothing" => lib.ptr = Len(lib.buf) /\ stream = << >>
       /\ lib.doing = "line" =>
              /\ lib.call # "maze" /\ answer.kind \in Answers(lib.call)
              /\ w \in Mazes /\ Len(w) = 1
              /\ lib.ptr = Len(lib.buf) /\ lib.buf \o stream = Text(answer.kind, w)
              /\ \A i \in 1..Len(lib.buf) : lib.buf[i] # Newline
       /\ lib.doing = "start" =>
              /\ answer.kind = "DATA" /\ w \in Mazes /\ got = << >>
              /\ lib.ptr = Len(lib.buf) /\ stream = Text("DATA", w)
       /\ lib.doing = "numbers" =>
              /\ answer.kind = "DATA" /\ w \in Mazes
              /\ got \in Seq(Seq(Int)) /\ Len(got) < Len(w)
              /\ \A k \in 1..Len(got) : got[k] = Number(w, k)
              /\ Coming(lib.buf, lib.ptr, stream, Numbers(w), Ends(w)[Len(got)])

ClientInv == BufferOK /\ Awaited /\ AnswersArrive

\* The lower one of two numbers.
LEMMA MinOfTwo ==
    ASSUME NEW a \in Nat, NEW b \in Nat
    PROVE  Min({a, b}) \in Nat /\ Min({a, b}) <= a /\ Min({a, b}) <= b
<1>1. \E f \in {a, b} : \A g \in {a, b} : f <= g
  OBVIOUS
<1>2. Min({a, b}) \in {a, b} /\ \A g \in {a, b} : Min({a, b}) <= g
  BY <1>1 DEF Min
<1>3. QED
  BY <1>2

\* read() gives no more than fits and no more than there is.
LEMMA PiecesFit ==
    ASSUME stream \in Seq(Int), NEW room \in Nat, NEW n \in Pieces(room)
    PROVE  n \in 0..Len(stream) /\ n <= room
<1> DEFINE most == Min({room, Len(stream)})
<1>1. Len(stream) \in Nat
  OBVIOUS
<1>2. most \in Nat /\ most <= room /\ most <= Len(stream)
  BY <1>1, MinOfTwo
<1>3. n \in IF room = 0 THEN {0} ELSE IF AllArrived THEN {most} \ {0} ELSE 1..most
  BY DEF Pieces
<1> HIDE DEF most
<1>4. QED
  BY <1>1, <1>2, <1>3

\* Three pieces make one text.
LEMMA Regrouped ==
    ASSUME NEW b \in Seq(Int), NEW p \in Seq(Int), NEW q \in Seq(Int)
    PROVE  (b \o p) \o q = b \o (p \o q)
BY ConcatAssociative

\* What was read is behind what was there, and in front of the rest.
LEMMA ReadKeeps ==
    ASSUME NEW b \in Seq(Int), NEW s \in Seq(Int), NEW n \in 0..Len(s)
    PROVE  LET p == SubSeq(s, 1, n)
               q == SubSeq(s, n + 1, Len(s))
           IN /\ b \o p \in Seq(Int) /\ q \in Seq(Int)
              /\ Len(b \o p) = Len(b) + n /\ Len(q) = Len(s) - n
              /\ (b \o p) \o q = b \o s
              /\ \A i \in 1..Len(b) : (b \o p)[i] = b[i]
<1> DEFINE p == SubSeq(s, 1, n)
           q == SubSeq(s, n + 1, Len(s))
           l == Len(s)
<1>1. l \in Nat /\ n \in Nat /\ n <= l
  OBVIOUS
<1>2. p \in Seq(Int) /\ Len(p) = n
  <2>1. \A i \in 1..n : s[i] \in Int
    BY <1>1
  <2>2. QED
    BY <1>1, <2>1, SubSeqProperties
<1>3. q \in Seq(Int) /\ Len(q) = l - n
  <2>1. \A i \in (n + 1)..l : s[i] \in Int
    BY <1>1
  <2>2. QED
    BY <1>1, <2>1, SubSeqProperties
<1>4. p \o q = s
  <2>1. 1 \in 1..l + 1 /\ n \in 1 - 1..l /\ l \in n..l
    BY <1>1
  <2>2. p \o q = SubSeq(s, 1, l)
    BY <2>1, ConcatAdjacentSubSeq
  <2>3. QED
    BY <2>2, SubSeqFull
<1> HIDE DEF p, q
<1>5. (b \o p) \o q = b \o s
  <2>1. p \in Seq(Int) /\ q \in Seq(Int)
    BY <1>2, <1>3
  <2>2. (b \o p) \o q = b \o (p \o q)
    BY <2>1, Regrouped
  <2> DEFINE c == p \o q
  <2>3. c = s
    BY <1>4
  <2>4. (b \o p) \o q = b \o c
    BY <2>2
  <2> HIDE DEF c
  <2>5. QED
    BY <2>3, <2>4
<1>6. /\ b \o p \in Seq(Int) /\ Len(b \o p) = Len(b) + Len(p)
      /\ \A i \in 1..Len(b) : (b \o p)[i] = b[i]
  BY <1>2, Glued
<1>7. QED
  BY <1>2, <1>3, <1>5, <1>6 DEF p, q

\* Moving what is left changes nothing of what is to be read.
LEMMA MovedKeeps ==
    ASSUME BufferOK
    PROVE  /\ Moved \in [buf : Seq(Int), ptr : Nat, doing : Doings, call : Calls,
                         tries : Nat, asked : Nat]
           /\ Moved.ptr <= Len(Moved.buf) /\ Len(Moved.buf) <= Len(lib.buf)
           /\ Moved.doing = lib.doing
           /\ \A t \in Seq(Int), n \in Nat :
                  Coming(lib.buf, lib.ptr, stream, t, n) =>
                      Coming(Moved.buf, Moved.ptr, stream, t, n)
<1> DEFINE b == lib.buf
           p == lib.ptr
           l == Len(b)
           u == Unscanned
<1>1. b \in Seq(Int) /\ p \in Nat /\ l \in Nat /\ p <= l /\ stream \in Seq(Int)
  BY DEF BufferOK
<1>2. CASE u = << >>
  BY <1>1, <1>2 DEF Moved, BufferOK
<1>3. CASE u # << >>
  <2>1. u \in Seq(Int) /\ Len(u) = l - p /\ \A i \in 1..l - p : u[i] = b[p + i]
    <3>1. \A i \in (p + 1)..l : b[i] \in Int
      BY <1>1
    <3>2. /\ u \in Seq(Int) /\ Len(u) = IF p + 1 <= l THEN l - (p + 1) + 1 ELSE 0
          /\ \A i \in 1..l - (p + 1) + 1 : u[i] = b[p + 1 + i - 1]
      <4>1. p + 1 \in Int /\ l \in Int
        BY <1>1
      <4>2. u = SubSeq(b, p + 1, l)
        BY DEF Unscanned
      <4> HIDE DEF u, l
      <4>3. QED
        BY <3>1, <4>1, <4>2, SubSeqProperties
    <3>3. \A i \in 1..l - p : i \in 1..l - (p + 1) + 1 /\ p + 1 + i - 1 = p + i
      BY <1>1
    <3> HIDE DEF u, l, p
    <3>4. (IF p + 1 <= l THEN l - (p + 1) + 1 ELSE 0) = l - p
      BY <1>1
    <3>5. QED
      BY <3>2, <3>3, <3>4
  <2>2. Moved = [lib EXCEPT !.buf = u, !.ptr = 0]
    BY <1>3 DEF Moved
  <2> HIDE DEF u
  <2>3. /\ Moved.buf = u /\ Moved.ptr = 0 /\ Moved.doing = lib.doing
        /\ Moved \in [buf : Seq(Int), ptr : Nat, doing : Doings, call : Calls,
                      tries : Nat, asked : Nat]
    BY <2>1, <2>2 DEF BufferOK
  <2>4. ASSUME NEW t \in Seq(Int), NEW n \in Nat, Coming(b, p, stream, t, n)
        PROVE  Coming(u, 0, stream, t, n)
    <3> DEFINE m == Len(stream)
               k == Len(t) - n
    <3>1. /\ Len(b \o stream) = l + m
          /\ \A i \in 1..l : (b \o stream)[i] = b[i]
          /\ \A i \in 1..m : (b \o stream)[l + i] = stream[i]
      BY <1>1, Glued
    <3>2. /\ Len(u \o stream) = Len(u) + m
          /\ \A i \in 1..Len(u) : (u \o stream)[i] = u[i]
          /\ \A i \in 1..m : (u \o stream)[Len(u) + i] = stream[i]
      <4>1. u \in Seq(Int) /\ stream \in Seq(Int)
        BY <1>1, <2>1
      <4>2. QED
        BY <4>1, Glued
    <3>3. m \in Nat /\ k \in Int
      BY <1>1
    <3>4. l + m - p = k /\ \A i \in 1..k : (b \o stream)[p + i] = t[n + i]
      <4>1. /\ Len(b \o stream) - p = k
            /\ \A i \in 1..k : (b \o stream)[p + i] = t[n + i]
        BY <2>4 DEF Coming
      <4> DEFINE c == b \o stream
      <4>2. Len(c) - p = k /\ Len(c) = l + m
        BY <3>1, <4>1
      <4> HIDE DEF c, k, l, m
      <4>3. l + m - p = k
        BY <1>1, <3>3, <4>2
      <4>4. QED
        BY <4>1, <4>3
    <3> HIDE DEF m, k, l
    <3>5. Len(u \o stream) - 0 = k
      BY <1>1, <2>1, <3>2, <3>3, <3>4
    <3>6. ASSUME NEW i \in 1..k
          PROVE  (u \o stream)[0 + i] = t[n + i]
      <4>1. CASE i <= l - p
        <5>1. i \in 1..l - p /\ p + i \in 1..l /\ 0 + i = i
          BY <1>1, <3>3, <4>1
        <5>2. QED
          BY <2>1, <3>1, <3>2, <3>4, <5>1
      <4>2. CASE ~(i <= l - p)
        <5> DEFINE j == i - (l - p)
        <5>1. j \in 1..m /\ l + j = p + i /\ (l - p) + j = 0 + i
          <6>1. l + m - p = k /\ l \in Nat /\ p \in Nat /\ m \in Nat /\ k \in Int
            BY <1>1, <3>3, <3>4
          <6>2. QED
            BY <4>2, <6>1
        <5> HIDE DEF j
        <5>2. (u \o stream)[0 + i] = stream[j] /\ (b \o stream)[p + i] = stream[j]
          BY <2>1, <3>1, <3>2, <5>1
        <5>3. QED
          BY <3>4, <5>2
      <4>3. QED
        BY <4>1, <4>2
    <3>7. QED
      BY <3>5, <3>6 DEF Coming, k
  <2>5. l - p <= l
    BY <1>1
  <2>6. 0 <= Len(u)
    BY <2>1
  <2>7. QED
    BY <2>1, <2>3, <2>4, <2>5, <2>6
<1> QED
  BY <1>2, <1>3

-----------------------------------------------------------------------------
(* Answers of one line                                                     *)

\* The line of an answer, without its end.
LineOf(kind, w) ==
    CASE kind = "DATA" -> DataWord \o Number(w, 1)
      [] kind = "NOPE" -> NopeWord \o Number(w, 1)
      [] kind = "OVER" -> OverWord \o Number(w, 1)
      [] kind = "DONE" -> DoneWord

Kinds == {"DATA", "NOPE", "OVER", "DONE"}

\* t is this line and its end.
Ended(t, line) ==
    /\ t \in Seq(Int) /\ Len(t) = Len(line) + 1
    /\ \A i \in 1..Len(line) : t[i] = line[i]
    /\ t[Len(line) + 1] = Newline

Words == {s \in Seq(Int) : \A i \in 1..Len(s) : s[i] # Newline}

\* The words of the answers, and where they differ.
LEMMA WordsAre ==
    /\ DataWord \in Words /\ Len(DataWord) = 5 /\ DataWord[1] = -2 /\ DataWord[2] = -3
    /\ NopeWord \in Words /\ Len(NopeWord) = 5 /\ NopeWord[1] = -4
    /\ OverWord \in Words /\ Len(OverWord) = 5 /\ OverWord[1] = -5
    /\ DoneWord \in Words /\ Len(DoneWord) = 4 /\ DoneWord[1] = -2 /\ DoneWord[2] = -5
BY DEF DataWord, NopeWord, OverWord, DoneWord, Words, Gap, Newline

\* A word, one number and the end of the line.
LEMMA OneNumber ==
    ASSUME NEW w \in Mazes, Len(w) = 1, NEW word \in Words
    PROVE  /\ Number(w, 1) \in Words /\ Len(Number(w, 1)) = w[1]
           /\ word \o Number(w, 1) \in Words
           /\ Ended(word \o Numbers(w), word \o Number(w, 1))
<1> DEFINE s == Number(w, 1)
           r == Numbers(w)
           m == Len(word)
           l == w[1]
<1>1. 1 \in 1..Len(w) /\ 0 = 1 - 1 /\ l \in Nat
  BY DEF Mazes
<1>2. s \in Seq(Int) /\ Len(s) = l /\ \A i \in 1..l : s[i] = 1
  BY <1>1 DEF Number
<1>3. r \in Seq(Int) /\ Len(r) = l + 1 /\ (\A i \in 1..l : r[i] = 1) /\ r[l + 1] = Newline
  <2> DEFINE e == Ends(w)
  <2>1. EndsAt(e, w) /\ Holds(r, w, e, 1)
    BY EndsExist, NumbersAre
  <2>2. e[0] = 0 /\ e[1] = e[0] + w[1] + 1
    BY <1>1, <2>1 DEF EndsAt
  <2> HIDE DEF e, r
  <2>3. e[1] = l + 1 /\ e[1 - 1] = 0
    BY <1>1, <2>2
  <2>4. /\ r \in Seq(Int) /\ Len(r) = e[1]
        /\ \A q \in e[1 - 1] + 1..e[1] - 1 : r[q] = 1
        /\ r[e[1]] = Delimiter(w, 1)
    <3>1. 1 \in 1..1
      OBVIOUS
    <3>2. QED
      BY <2>1, <3>1 DEF Holds
  <2>5. \A i \in 1..l : i \in 0 + 1..(l + 1) - 1
    BY <1>1
  <2>6. Delimiter(w, 1) = Newline
    BY DEF Delimiter
  <2> HIDE DEF l
  <2>7. QED
    BY <2>3, <2>4, <2>5, <2>6
<1> HIDE DEF s, r, l
<1>4. Newline # 1
  BY DEF Newline
<1>5. s \in Words
  BY <1>2, <1>4 DEF Words
<1>6. word \in Seq(Int) /\ m \in Nat /\ \A i \in 1..m : word[i] # Newline
  BY DEF Words
<1> HIDE DEF m
<1>7. /\ word \o s \in Seq(Int) /\ Len(word \o s) = m + l
      /\ \A i \in 1..m : (word \o s)[i] = word[i]
      /\ \A i \in 1..l : (word \o s)[m + i] = s[i]
  <2>1. s \in Seq(Int) /\ word \in Seq(Int)
    BY <1>2, <1>6
  <2>2. /\ word \o s \in Seq(Int) /\ Len(word \o s) = Len(word) + Len(s)
        /\ \A i \in 1..Len(word) : (word \o s)[i] = word[i]
        /\ \A i \in 1..Len(s) : (word \o s)[Len(word) + i] = s[i]
    BY <2>1, Glued
  <2>3. QED
    BY <1>2, <2>2 DEF m
<1>8. /\ word \o r \in Seq(Int) /\ Len(word \o r) = m + (l + 1)
      /\ \A i \in 1..m : (word \o r)[i] = word[i]
      /\ \A i \in 1..(l + 1) : (word \o r)[m + i] = r[i]
  <2>1. r \in Seq(Int) /\ word \in Seq(Int)
    BY <1>3, <1>6
  <2>2. /\ word \o r \in Seq(Int) /\ Len(word \o r) = Len(word) + Len(r)
        /\ \A i \in 1..Len(word) : (word \o r)[i] = word[i]
        /\ \A i \in 1..Len(r) : (word \o r)[Len(word) + i] = r[i]
    BY <2>1, Glued
  <2>3. QED
    BY <1>3, <2>2 DEF m
<1> DEFINE a == word \o s
           b == word \o r
<1> HIDE DEF a, b
<1>9. ASSUME NEW i \in 1..(m + l)
      PROVE  a[i] # Newline /\ b[i] = a[i]
  <2>1. CASE i <= m
    <3>1. i \in 1..m
      BY <1>1, <1>6, <2>1
    <3>2. QED
      BY <1>6, <1>7, <1>8, <3>1 DEF a, b
  <2>2. CASE ~(i <= m)
    <3> DEFINE j == i - m
    <3>1. j \in 1..l /\ j \in 1..(l + 1) /\ m + j = i
      BY <1>1, <1>6, <2>2
    <3> HIDE DEF j
    <3>2. a[i] = s[j] /\ b[i] = r[j] /\ s[j] = 1 /\ r[j] = 1
      BY <1>2, <1>3, <1>7, <1>8, <3>1 DEF a, b
    <3>3. QED
      BY <1>4, <3>2
  <2>3. QED
    BY <2>1, <2>2
<1>10. m + (l + 1) = (m + l) + 1 /\ l + 1 \in 1..(l + 1)
  BY <1>1, <1>6
<1>11. b[(m + l) + 1] = Newline
  BY <1>3, <1>8, <1>10 DEF b
<1>12. a \in Words
  BY <1>7, <1>9 DEF Words, a
<1>13. Ended(b, a)
  <2>1. b \in Seq(Int) /\ Len(b) = Len(a) + 1 /\ Len(a) = m + l
    BY <1>7, <1>8, <1>10 DEF a, b
  <2>2. QED
    BY <1>9, <1>11, <2>1 DEF Ended
<1> QED
  BY <1>2, <1>5, <1>12, <1>13 DEF a, b, s, r, l

\* The text of an answer of one line is that line and its end.
LEMMA LineText ==
    ASSUME NEW w \in Mazes, Len(w) = 1, NEW kind \in Kinds
    PROVE  LineOf(kind, w) \in Words /\ Ended(Text(kind, w), LineOf(kind, w))
<1>1. CASE kind = "DATA"
  BY <1>1, WordsAre, OneNumber DEF Text, LineOf
<1>2. CASE kind = "NOPE"
  BY <1>2, WordsAre, OneNumber DEF Text, LineOf
<1>3. CASE kind = "OVER"
  BY <1>3, WordsAre, OneNumber DEF Text, LineOf
<1>4. CASE kind = "DONE"
  <2> DEFINE t == Append(DoneWord, Newline)
  <2>1. Text(kind, w) = t /\ LineOf(kind, w) = DoneWord
    BY <1>4 DEF Text, LineOf
  <2>2. Newline \in Int /\ DoneWord \in Seq(Int)
    BY WordsAre DEF Newline, Words
  <2>3. /\ t \in Seq(Int) /\ Len(t) = Len(DoneWord) + 1
        /\ \A i \in 1..Len(DoneWord) : t[i] = DoneWord[i]
        /\ t[Len(DoneWord) + 1] = Newline
    BY <2>2, AppendProperties
  <2>4. QED
    BY <2>1, <2>3, WordsAre DEF Ended
<1> QED
  BY <1>1, <1>2, <1>3, <1>4 DEF Kinds

\* A piece of a text.
LEMMA Cut ==
    ASSUME NEW u \in Seq(Int), NEW a \in Nat, NEW n \in Nat, a + n <= Len(u)
    PROVE  LET p == SubSeq(u, a + 1, a + n)
           IN p \in Seq(Int) /\ Len(p) = n /\ \A i \in 1..n : p[i] = u[a + i]
<1> DEFINE f == a + 1
           g == a + n
           p == SubSeq(u, f, g)
<1>1. f \in Int /\ g \in Int
  OBVIOUS
<1>2. \A i \in f..g : u[i] \in Int
  OBVIOUS
<1> HIDE DEF f, g
<1>3. /\ p \in Seq(Int) /\ Len(p) = IF f <= g THEN g - f + 1 ELSE 0
      /\ \A i \in 1..g - f + 1 : p[i] = u[f + i - 1]
  BY <1>1, <1>2, SubSeqProperties
<1> HIDE DEF p
<1>4. (IF f <= g THEN g - f + 1 ELSE 0) = n
  BY DEF f, g
<1>5. \A i \in 1..n : i \in 1..g - f + 1 /\ f + i - 1 = a + i
  BY DEF f, g
<1>6. p \in Seq(Int) /\ Len(p) = n /\ \A i \in 1..n : p[i] = u[a + i]
  BY <1>3, <1>4, <1>5
<1>7. QED
  BY <1>6 DEF p, f, g

\* A text begins with its first part, and then comes the other one.
LEMMA BeginsOwn ==
    ASSUME NEW s \in Seq(Int), NEW t \in Seq(Int)
    PROVE  Begins(s, s \o t) /\ After(s, s \o t) = t
<1> DEFINE m == Len(s)
           n == Len(t)
           u == s \o t
           p == SubSeq(u, 0 + 1, 0 + m)
           q == SubSeq(u, m + 1, m + n)
<1>1. m \in Nat /\ n \in Nat /\ 0 \in Nat
  OBVIOUS
<1>2. /\ u \in Seq(Int) /\ Len(u) = m + n
      /\ \A i \in 1..m : u[i] = s[i]
      /\ \A i \in 1..n : u[m + i] = t[i]
  BY Glued
<1> HIDE DEF u
<1>3. p = s
  <2>1. /\ p \in Seq(Int) /\ Len(p) = m
        /\ \A i \in 1..m : p[i] = u[0 + i]
    <3> HIDE DEF m, n
    <3>1. 0 + m <= Len(u)
      BY <1>1, <1>2
    <3>2. QED
      BY <1>1, <1>2, <3>1, Cut
  <2> HIDE DEF p
  <2>2. \A i \in 1..Len(p) : p[i] = s[i]
    BY <1>2, <2>1
  <2>3. QED
    BY <2>1, <2>2, SeqEqual
<1>4. q = t
  <2>1. /\ q \in Seq(Int) /\ Len(q) = n
        /\ \A i \in 1..n : q[i] = u[m + i]
    <3> HIDE DEF m, n
    <3>1. m + n <= Len(u)
      BY <1>1, <1>2
    <3>2. QED
      BY <1>1, <1>2, <3>1, Cut
  <2> HIDE DEF q
  <2>2. \A i \in 1..Len(q) : q[i] = t[i]
    BY <1>2, <2>1
  <2>3. QED
    BY <2>1, <2>2, SeqEqual
<1>5. SubSeq(s, 1, m) = s
  BY SubSeqFull
<1>6. Begins(s, u)
  <2>1. m <= Len(u)
    BY <1>1, <1>2
  <2>2. 0 + 1 = 1 /\ 0 + m = m
    BY <1>1
  <2>3. QED
    BY <1>3, <1>5, <2>1, <2>2 DEF Begins, IsPrefix
<1>7. After(s, u) = t
  BY <1>2, <1>4 DEF After
<1>8. QED
  BY <1>6, <1>7 DEF u

\* A text that differs, or is shorter, does not begin with a word.
LEMMA BeginsNot ==
    ASSUME NEW s \in Seq(Int), NEW t \in Seq(Int),
           Len(s) > Len(t) \/ \E i \in 1..Len(s) : s[i] # t[i]
    PROVE  ~Begins(s, t)
<1> SUFFICES ASSUME Begins(s, t) PROVE FALSE
  OBVIOUS
<1> DEFINE m == Len(s)
<1>1. m <= Len(t) /\ SubSeq(s, 1, m) = SubSeq(t, 1, m)
  BY DEF Begins, IsPrefix
<1>2. m \in Nat /\ Len(t) \in Nat
  OBVIOUS
<1>3. PICK i \in 1..m : s[i] # t[i]
  BY <1>1, <1>2
<1>4. \A j \in 1..m : s[j] \in Int /\ t[j] \in Int
  BY <1>1, <1>2
<1> HIDE DEF m
<1>5. \A j \in 1..m : 1 + j - 1 = j /\ j \in 1..m - 1 + 1
  BY <1>2
<1>6. SubSeq(s, 1, m)[i] = s[i] /\ SubSeq(t, 1, m)[i] = t[i]
  BY <1>2, <1>4, <1>5, SubSeqProperties
<1>7. QED
  BY <1>1, <1>3, <1>6

\* The words of the answers are told apart.
LEMMA BeginsOther ==
    ASSUME NEW t \in Seq(Int)
    PROVE  /\ t[1] # -5 => ~Begins(OverWord, t)
           /\ t[1] # -2 => ~Begins(DataWord, t) /\ t # DoneWord
           /\ t[1] # -4 => ~Begins(NopeWord, t)
<1>1. /\ OverWord \in Seq(Int) /\ 1 \in 1..Len(OverWord) /\ OverWord[1] = -5
      /\ DataWord \in Seq(Int) /\ 1 \in 1..Len(DataWord) /\ DataWord[1] = -2
      /\ NopeWord \in Seq(Int) /\ 1 \in 1..Len(NopeWord) /\ NopeWord[1] = -4
      /\ DoneWord[1] = -2
  BY WordsAre DEF Words
<1>2. ASSUME t[1] # -5 PROVE ~Begins(OverWord, t)
  BY <1>1, <1>2, BeginsNot
<1>3. ASSUME t[1] # -2 PROVE ~Begins(DataWord, t)
  BY <1>1, <1>3, BeginsNot
<1>4. ASSUME t[1] # -4 PROVE ~Begins(NopeWord, t)
  BY <1>1, <1>4, BeginsNot
<1>5. QED
  BY <1>1, <1>2, <1>3, <1>4

\* A text that begins with a word begins with its first letter.
LEMMA FirstLetter ==
    ASSUME NEW word \in Seq(Int), Len(word) = 5, NEW s \in Seq(Int)
    PROVE  word \o s \in Seq(Int) /\ (word \o s)[1] = word[1]
<1>1. 1 \in 1..Len(word)
  OBVIOUS
<1>2. QED
  BY <1>1, Glued

\* A call returns or throws what the answer says.
Right(r, call, kind, w) ==
    /\ r.doing \in {"nothing", "thrown"}
    /\ r.doing = "nothing" =>
           /\ kind # "OVER"
           /\ r.value = [k \in {j \in DOMAIN w : kind # "DONE"} |-> Number(w, k)]
    /\ r.doing = "thrown" =>
           \/ kind = "OVER" /\ r.value = <<Number(w, 1)>>
           \/ kind = "NOPE" /\ call = "number"

\* What a call makes of the line of one of its answers.
LEMMA ReturnsRight ==
    ASSUME NEW w \in Mazes, Len(w) = 1, NEW call \in Calls \ {"maze"},
           NEW kind \in Answers(call)
    PROVE  kind \in Kinds /\ Right(Returned(call, LineOf(kind, w)), call, kind, w)
<1> DEFINE s == Number(w, 1)
           line == LineOf(kind, w)
           r == Returned(call, line)
           values == [k \in {j \in DOMAIN w : kind # "DONE"} |-> Number(w, k)]
<1>1. kind \in Kinds
  BY DEF Answers, Calls, Kinds
<1>2. s \in Words /\ s \in Seq(Int)
  BY OneNumber, WordsAre DEF Words
<1>3. DOMAIN w = 1..1
  BY DEF Mazes
<1>4. /\ DataWord \in Seq(Int) /\ Len(DataWord) = 5 /\ DataWord[1] = -2
      /\ NopeWord \in Seq(Int) /\ Len(NopeWord) = 5 /\ NopeWord[1] = -4
      /\ OverWord \in Seq(Int) /\ Len(OverWord) = 5 /\ OverWord[1] = -5
      /\ DoneWord \in Seq(Int) /\ DoneWord[1] = -2
  BY WordsAre DEF Words
<1>5. kind # "DONE" => values = <<s>>
  <2> SUFFICES ASSUME kind # "DONE" PROVE values = <<s>>
    OBVIOUS
  <2>1. {j \in DOMAIN w : kind # "DONE"} = 1..1
    BY <1>3
  <2>2. values = [k \in 1..1 |-> Number(w, k)]
    BY <2>1
  <2>3. <<s>> = [k \in 1..1 |-> s]
    OBVIOUS
  <2>4. \A k \in 1..1 : k = 1
    OBVIOUS
  <2> HIDE DEF values, s
  <2>5. QED
    BY <2>2, <2>3, <2>4 DEF s
<1>6. SUFFICES /\ r.doing \in {"nothing", "thrown"}
               /\ r.doing = "nothing" => kind # "OVER" /\ r.value = values
               /\ r.doing = "thrown" =>
                      \/ kind = "OVER" /\ r.value = <<s>>
                      \/ kind = "NOPE" /\ call = "number"
  BY <1>1, <1>6 DEF Right
<1> HIDE DEF s, values, r, line
<1>7. CASE kind = "OVER"
  <2>1. line = OverWord \o s
    BY <1>7 DEF LineOf, s, line
  <2>2. Begins(OverWord, line) /\ After(OverWord, line) = s
    BY <1>2, <1>4, <2>1, BeginsOwn
  <2>3. line \in Seq(Int) /\ line[1] = -5
    BY <1>2, <1>4, <2>1, FirstLetter
  <2>4. ~Begins(DataWord, line) /\ ~Begins(NopeWord, line) /\ line # DoneWord
    BY <2>3, BeginsOther
  <2>5. r = [doing |-> "thrown", value |-> <<s>>]
    BY <2>2, <2>4 DEF Returned, r
  <2>6. QED
    BY <1>7, <2>5
<1>8. CASE kind = "DATA"
  <2>1. line = DataWord \o s /\ call = "number"
    BY <1>8 DEF LineOf, s, Answers, Calls, line
  <2>2. Begins(DataWord, line) /\ After(DataWord, line) = s
    BY <1>2, <1>4, <2>1, BeginsOwn
  <2>3. line \in Seq(Int) /\ line[1] = -2
    BY <1>2, <1>4, <2>1, FirstLetter
  <2>4. ~Begins(OverWord, line)
    BY <2>3, BeginsOther
  <2>5. r = [doing |-> "nothing", value |-> <<s>>]
    BY <2>1, <2>2, <2>4 DEF Returned, r
  <2>6. QED
    BY <1>5, <1>8, <2>5
<1>9. CASE kind = "NOPE"
  <2>1. line = NopeWord \o s /\ call \in {"number", "move"}
    BY <1>9 DEF LineOf, s, Answers, Calls, line
  <2>2. Begins(NopeWord, line) /\ After(NopeWord, line) = s
    BY <1>2, <1>4, <2>1, BeginsOwn
  <2>3. line \in Seq(Int) /\ line[1] = -4
    BY <1>2, <1>4, <2>1, FirstLetter
  <2>4. ~Begins(OverWord, line) /\ ~Begins(DataWord, line) /\ line # DoneWord
    BY <2>3, BeginsOther
  <2>5. CASE call = "move"
    <3>1. r = [doing |-> "nothing", value |-> <<s>>]
      BY <2>2, <2>4, <2>5 DEF Returned, r
    <3>2. QED
      BY <1>5, <1>9, <3>1
  <2>6. CASE call = "number"
    <3>1. r = [doing |-> "thrown", value |-> << >>]
      BY <2>4, <2>6 DEF Returned, r
    <3>2. QED
      BY <1>9, <2>6, <3>1
  <2>7. QED
    BY <2>1, <2>5, <2>6
<1>10. CASE kind = "DONE"
  <2>1. line = DoneWord /\ call \in {"done", "move"}
    BY <1>10 DEF LineOf, Answers, Calls, line
  <2>2. ~Begins(OverWord, line) /\ ~Begins(NopeWord, line)
    BY <1>4, <2>1, BeginsOther
  <2>3. values = << >>
    <3>1. {j \in DOMAIN w : kind # "DONE"} = {}
      BY <1>10
    <3>2. values = [k \in {} |-> Number(w, k)]
      BY <3>1 DEF values
    <3>3. QED
      BY <3>2
  <2>4. r = [doing |-> "nothing", value |-> << >>]
    BY <2>1, <2>2 DEF Returned, r
  <2>5. QED
    BY <1>10, <2>3, <2>4
<1> QED
  BY <1>1, <1>7, <1>8, <1>9, <1>10 DEF Kinds

-----------------------------------------------------------------------------
(* The steps of a program                                                  *)

LibType == [buf : Seq(Int), ptr : Nat, doing : Doings, call : Calls, tries : Nat,
            asked : Nat]

\* A program that has not asked yet waits for nothing.
LEMMA ClientStarts == ClientInit => ClientInv
<1> SUFFICES ASSUME ClientInit PROVE ClientInv
  OBVIOUS
<1>1. << >> \in Seq(Int) /\ Len(<< >>) = 0 /\ 0 < LibBuf
  BY MazeLibAssumption
<1>2. /\ lib.buf = << >> /\ lib.ptr = 0 /\ lib.doing = "nothing" /\ stream = << >>
      /\ answer.kind = "none"
  BY DEF ClientInit
<1>3. BufferOK
  BY <1>1, <1>2 DEF ClientInit, BufferOK, Doings, Calls
<1>4. Awaited /\ AnswersArrive
  BY <1>1, <1>2 DEF Awaited, AnswersArrive
<1>5. QED
  BY <1>3, <1>4 DEF ClientInv

\* Texts are numbers.
LEMMA TextIs ==
    ASSUME NEW w \in Mazes, NEW kind \in Kinds
    PROVE  Text(kind, w) \in Seq(Int)
<1>1. Numbers(w) \in Seq(Int)
  BY NumbersAre DEF Holds
<1>2. /\ DataWord \in Seq(Int) /\ NopeWord \in Seq(Int)
      /\ OverWord \in Seq(Int) /\ DoneWord \in Seq(Int)
  BY WordsAre DEF Words
<1>3. Newline \in Int
  BY DEF Newline
<1>4. CASE kind = "DONE"
  BY <1>2, <1>3, <1>4, AppendProperties DEF Text
<1>5. CASE kind # "DONE"
  <2>1. \E word \in Seq(Int) : Text(kind, w) = word \o Numbers(w)
    BY <1>2, <1>5 DEF Text, Kinds
  <2>2. QED
    BY <1>1, <2>1
<1> QED
  BY <1>4, <1>5

\* A command that is answered with one line.
LEMMA MazeCmdStep ==
    ASSUME ClientInv, NEW call \in {"number", "done", "move"}, NEW d \in LineWidths,
           NEW kind \in Answers(call), MazeCmd(call, kind, <<d>>)
    PROVE  ClientInv'
<1> DEFINE w == <<d>>
<1>1. w \in Mazes /\ Len(w) = 1
  BY MazeLibAssumption DEF Mazes
<1> HIDE DEF w
<1>2. /\ lib.doing = "nothing" /\ stream' = Text(kind, w)
      /\ answer' = [kind |-> kind, widths |-> w]
      /\ lib' = [[Moved EXCEPT !.buf = IF Unscanned = << >> THEN << >> ELSE @, !.ptr = 0]
                    EXCEPT !.doing = "line", !.call = call, !.asked = @ + 1]
  BY DEF MazeCmd, Ask, w
<1>3. lib \in LibType /\ lib.ptr = Len(lib.buf)
  BY <1>2 DEF ClientInv, BufferOK, LibType, Awaited
<1>4. Unscanned = << >>
  <2>1. Len(lib.buf) \in Nat
    BY <1>3 DEF LibType
  <2>2. QED
    BY <1>3, <2>1, SubSeqEmpty DEF Unscanned
<1>5. lib' \in LibType
  <2>1. /\ lib.tries \in Nat /\ lib.asked \in Nat /\ << >> \in Seq(Int) /\ 0 \in Nat
        /\ call \in Calls /\ "line" \in Doings
    BY <1>3 DEF LibType, Calls, Doings
  <2>2. lib' = [buf |-> << >>, ptr |-> 0, doing |-> "line", call |-> call,
                tries |-> lib.tries, asked |-> lib.asked + 1]
    BY <1>2, <1>3, <1>4 DEF Moved, LibType
  <2>3. QED
    BY <2>1, <2>2 DEF LibType
<1>6. lib'.buf = << >> /\ lib'.ptr = 0 /\ lib'.doing = "line" /\ lib'.call = call
  BY <1>2, <1>3, <1>4 DEF Moved, LibType
<1>7. kind \in Kinds
  BY DEF Answers, Kinds
<1>8. stream' \in Seq(Int)
  BY <1>1, <1>2, <1>7, TextIs
<1>9. << >> \in Seq(Int) /\ Len(<< >>) = 0 /\ 0 < LibBuf
  BY MazeLibAssumption
<1>10. BufferOK'
  BY <1>5, <1>6, <1>8, <1>9 DEF BufferOK, LibType
<1>11. Awaited'
  <2>1. lib'.buf \o stream' = Text(kind, w)
    BY <1>2, <1>6, <1>8, ConcatEmptySeq
  <2>2. answer'.kind = kind /\ answer'.widths = w
    BY <1>2
  <2>3. \A i \in 1..Len(lib'.buf) : lib'.buf[i] # Newline
    BY <1>6, <1>9
  <2>4. QED
    BY <1>1, <1>6, <1>9, <2>1, <2>2, <2>3 DEF Awaited
<1>12. AnswersArrive'
  BY <1>6 DEF AnswersArrive
<1> QED
  BY <1>10, <1>11, <1>12 DEF ClientInv

\* A maze is asked for.
LEMMA MazeMazeStep ==
    ASSUME ClientInv, NEW w \in Widths, MazeMaze(w)
    PROVE  ClientInv'
<1>1. w \in Mazes
  BY MazeLibAssumption DEF Mazes
<1>2. /\ lib.doing = "nothing" /\ stream' = Text("DATA", w)
      /\ answer' = [kind |-> "DATA", widths |-> w] /\ got' = << >>
      /\ lib' = [lib EXCEPT !.doing = "start", !.call = "maze", !.asked = @ + 1]
  BY DEF MazeMaze, Ask
<1>3. lib \in LibType /\ lib.ptr = Len(lib.buf) /\ Len(lib.buf) < LibBuf
  BY <1>2 DEF ClientInv, BufferOK, LibType, Awaited
<1>4. lib' \in LibType /\ lib'.buf = lib.buf /\ lib'.ptr = lib.ptr /\ lib'.doing = "start"
  <2>1. /\ lib.buf \in Seq(Int) /\ lib.ptr \in Nat /\ lib.tries \in Nat /\ lib.asked \in Nat
        /\ "maze" \in Calls /\ "start" \in Doings
    BY <1>3 DEF LibType, Calls, Doings
  <2>2. lib' = [buf |-> lib.buf, ptr |-> lib.ptr, doing |-> "start", call |-> "maze",
                tries |-> lib.tries, asked |-> lib.asked + 1]
    BY <1>2, <1>3 DEF LibType
  <2>3. QED
    BY <2>1, <2>2 DEF LibType
<1>5. stream' \in Seq(Int)
  BY <1>1, <1>2, TextIs DEF Kinds
<1>6. BufferOK'
  <2>1. Len(lib.buf) <= Len(lib.buf)
    BY <1>3 DEF LibType
  <2>2. QED
    BY <1>3, <1>4, <1>5, <2>1 DEF BufferOK, LibType
<1>7. Awaited'
  BY <1>1, <1>2, <1>3, <1>4 DEF Awaited
<1>8. AnswersArrive'
  BY <1>4 DEF AnswersArrive
<1> QED
  BY <1>6, <1>7, <1>8 DEF ClientInv

\* A read into the buffer.
LEMMA ReadStep ==
    ASSUME BufferOK, NEW n \in Pieces(Room)
    PROVE  LET b == lib.buf \o SubSeq(stream, 1, n)
               s == SubSeq(stream, n + 1, Len(stream))
           IN /\ b \in Seq(Int) /\ s \in Seq(Int)
              /\ b \o s = lib.buf \o stream
              /\ Len(lib.buf) <= Len(b) /\ Len(b) < LibBuf
              /\ \A i \in 1..Len(lib.buf) : b[i] = lib.buf[i]
<1> DEFINE l == Len(lib.buf)
           b == lib.buf \o SubSeq(stream, 1, n)
           s == SubSeq(stream, n + 1, Len(stream))
<1>1. lib.buf \in Seq(Int) /\ l \in Nat /\ l < LibBuf /\ stream \in Seq(Int)
  BY DEF BufferOK
<1>2. Room \in Nat /\ Room = LibBuf - 1 - l
  BY <1>1, MazeLibAssumption DEF Room
<1>3. n \in 0..Len(stream) /\ n <= Room
  BY <1>1, <1>2, PiecesFit
<1>4. /\ b \in Seq(Int) /\ s \in Seq(Int) /\ Len(b) = l + n
      /\ b \o s = lib.buf \o stream
      /\ \A i \in 1..l : b[i] = lib.buf[i]
  BY <1>1, <1>3, ReadKeeps
<1>5. n \in Nat
  BY <1>1, <1>3
<1>6. l <= l + n /\ l + n < LibBuf
  <2> HIDE DEF l
  <2>1. QED
    BY <1>1, <1>2, <1>3, <1>5, MazeLibAssumption
<1> HIDE DEF b, s
<1>7. QED
  BY <1>4, <1>6 DEF b, s

\* The word before the numbers of a maze.
LEMMA RecvStartStep ==
    ASSUME ClientInv, NEW n \in Pieces(Room), RecvStart(n)
    PROVE  ClientInv'
<1> DEFINE b == lib.buf \o SubSeq(stream, 1, n)
           p == lib.ptr
           w == answer.widths
           t == Numbers(w)
<1>1. /\ lib.doing = "start" /\ got' = got /\ answer' = answer
      /\ stream' = SubSeq(stream, n + 1, Len(stream))
      /\ \/ /\ IsPrefix(DataWord, SubSeq(b, p + 1, Len(b)))
            /\ lib' = [lib EXCEPT !.buf = b, !.ptr = @ + 5, !.doing = "numbers", !.tries = 0]
         \/ lib' = [lib EXCEPT !.buf = b, !.doing = "error"]
  BY DEF RecvStart
<1>2. /\ lib \in LibType /\ p \in Nat /\ p = Len(lib.buf) /\ lib.buf \in Seq(Int)
      /\ answer.kind = "DATA" /\ w \in Mazes /\ got = << >>
      /\ stream = Text("DATA", w) /\ stream \in Seq(Int)
  BY <1>1 DEF ClientInv, BufferOK, LibType, Awaited
<1>3. /\ b \in Seq(Int) /\ stream' \in Seq(Int)
      /\ b \o stream' = lib.buf \o stream
      /\ p <= Len(b) /\ Len(b) < LibBuf /\ Len(b) \in Nat
  <2>1. BufferOK
    BY DEF ClientInv
  <2>2. /\ b \in Seq(Int) /\ SubSeq(stream, n + 1, Len(stream)) \in Seq(Int)
        /\ b \o SubSeq(stream, n + 1, Len(stream)) = lib.buf \o stream
        /\ Len(lib.buf) <= Len(b) /\ Len(b) < LibBuf
    BY <2>1, ReadStep
  <2> HIDE DEF b
  <2>3. Len(b) \in Nat
    BY <2>2
  <2>4. QED
    BY <1>1, <1>2, <2>2, <2>3
<1> HIDE DEF b
<1>4. CASE lib' = [lib EXCEPT !.buf = b, !.doing = "error"]
  <2>1. lib' \in LibType /\ lib'.buf = b /\ lib'.ptr = p /\ lib'.doing = "error"
    BY <1>2, <1>3, <1>4 DEF LibType, Doings
  <2>2. QED
    BY <1>3, <2>1 DEF ClientInv, BufferOK, Awaited, AnswersArrive, LibType
<1>5. CASE /\ IsPrefix(DataWord, SubSeq(b, p + 1, Len(b)))
           /\ lib' = [lib EXCEPT !.buf = b, !.ptr = @ + 5, !.doing = "numbers", !.tries = 0]
  <2>1. lib' \in LibType /\ lib'.buf = b /\ lib'.ptr = p + 5 /\ lib'.doing = "numbers"
    <3>1. /\ p + 5 \in Nat /\ lib.tries \in Nat /\ lib.asked \in Nat /\ lib.call \in Calls
          /\ "numbers" \in Doings /\ 0 \in Nat
      BY <1>2 DEF LibType, Doings
    <3>2. lib' = [buf |-> b, ptr |-> p + 5, doing |-> "numbers", call |-> lib.call,
                  tries |-> 0, asked |-> lib.asked]
      BY <1>2, <1>5 DEF LibType
    <3>3. QED
      BY <1>3, <3>1, <3>2 DEF LibType
  <2>2. p + 5 <= Len(b)
    <3> DEFINE u == SubSeq(b, p + 1, Len(b))
    <3>1. 5 <= Len(u)
      BY <1>5, WordsAre DEF IsPrefix
    <3>2. Len(u) = IF p + 1 <= Len(b) THEN Len(b) - (p + 1) + 1 ELSE 0
      <4>1. \A i \in (p + 1)..Len(b) : b[i] \in Int
        BY <1>2, <1>3
      <4>2. p + 1 \in Int /\ Len(b) \in Int
        BY <1>2, <1>3
      <4> HIDE DEF p
      <4>3. QED
        BY <4>1, <4>2, SubSeqProperties
    <3> HIDE DEF u, p
    <3>3. QED
      BY <1>2, <1>3, <3>1, <3>2
  <2>3. BufferOK'
    BY <1>3, <2>1, <2>2 DEF BufferOK, LibType
  <2>4. t \in Seq(Int) /\ stream = DataWord \o t /\ Len(w) \in Nat /\ Len(w) > 0
    BY <1>2, NumbersAre DEF Holds, Text, Mazes
  <2>5. Ends(w)[0] = 0
    BY <1>2, EndsExist DEF EndsAt
  <2> HIDE DEF t
  <2>6. /\ Len(stream) = 5 + Len(t) /\ Len(t) \in Nat
        /\ \A i \in 1..Len(t) : stream[5 + i] = t[i]
    <3>1. DataWord \in Seq(Int) /\ Len(DataWord) = 5
      BY WordsAre DEF Words
    <3>2. /\ Len(DataWord \o t) = Len(DataWord) + Len(t)
          /\ \A i \in 1..Len(t) : (DataWord \o t)[Len(DataWord) + i] = t[i]
      <4>1. t \in Seq(Int) /\ DataWord \in Seq(Int)
        BY <2>4, <3>1
      <4>2. QED
        BY <4>1, Glued
    <3>3. QED
      BY <2>4, <3>1, <3>2
  <2>7. /\ Len(lib.buf \o stream) = p + Len(stream)
        /\ \A i \in 1..Len(stream) : (lib.buf \o stream)[p + i] = stream[i]
    <3>1. /\ Len(lib.buf \o stream) = Len(lib.buf) + Len(stream)
          /\ \A i \in 1..Len(stream) : (lib.buf \o stream)[Len(lib.buf) + i] = stream[i]
      <4>1. lib.buf \in Seq(Int) /\ stream \in Seq(Int)
        BY <1>2
      <4>2. QED
        BY <4>1, Glued
    <3>2. QED
      BY <1>2, <3>1
  <2> DEFINE all == b \o stream'
             m == Len(t)
  <2>8. /\ Len(all) = p + (5 + m)
        /\ \A i \in 1..5 + m : all[p + i] = stream[i]
    BY <1>3, <2>6, <2>7
  <2>9. m \in Nat
    BY <2>6
  <2>10. Coming(b, p + 5, stream', t, 0)
    <3> HIDE DEF all, m, p
    <3>1. Len(all) - (p + 5) = m - 0
      BY <1>2, <2>8, <2>9
    <3>2. ASSUME NEW i \in 1..m - 0
          PROVE  all[p + 5 + i] = t[0 + i]
      <4>1. 5 + i \in 1..5 + m /\ i \in 1..m /\ p + 5 + i = p + (5 + i) /\ 0 + i = i
        <5>1. p \in Nat
          BY <1>2
        <5>2. QED
          BY <2>9, <5>1
      <4>2. all[p + (5 + i)] = t[i]
        BY <2>6, <2>8, <4>1 DEF m
      <4>3. QED
        BY <4>1, <4>2
    <3>3. QED
      BY <3>1, <3>2 DEF Coming, all, m
  <2>11. << >> \in Seq(Seq(Int)) /\ Len(<< >>) = 0 /\ 1..0 = {}
    OBVIOUS
  <2>12. Awaited'
    BY <1>1, <1>2, <2>1, <2>4, <2>5, <2>10, <2>11 DEF Awaited, t
  <2>13. AnswersArrive'
    <3>1. DOMAIN got' = {}
      BY <1>1, <1>2
    <3>2. QED
      BY <2>1, <3>1 DEF AnswersArrive
  <2>14. QED
    BY <2>3, <2>12, <2>13 DEF ClientInv
<1> QED
  BY <1>1, <1>4, <1>5

\* There is a lowest of any places.
LEMMA LowestPlace ==
    ASSUME NEW S \in SUBSET Nat, S # {}
    PROVE  Min(S) \in S /\ \A g \in S : Min(S) <= g
<1>1. \E f \in S : \A g \in S : f <= g
  BY LowestNumber
<1>2. QED
  BY <1>1 DEF Min

\* A piece of a line, or the end of it.
LEMMA RecvLineStep ==
    ASSUME ClientInv, NEW n \in Pieces(Room), RecvLine(n)
    PROVE  ClientInv'
<1> DEFINE b == lib.buf \o SubSeq(stream, 1, n)
           p == lib.ptr
           w == answer.widths
           kind == answer.kind
           text == Text(kind, w)
           line == LineOf(kind, w)
           ends == {i \in p + 1..Len(b) : b[i] = Newline}
           result == Returned(lib.call, SubSeq(b, 1, Min(ends) - 1))
<1>1. /\ lib.doing = "line" /\ answer' = answer
      /\ stream' = SubSeq(stream, n + 1, Len(stream))
      /\ lib' = [lib EXCEPT !.buf = b,
                     !.ptr = IF ends = {} THEN Len(b) ELSE Min(ends),
                     !.doing = IF ends = {} THEN @ ELSE result.doing]
      /\ got' = IF ends = {} THEN got ELSE result.value
  BY DEF RecvLine
<1>2. /\ lib \in LibType /\ p \in Nat /\ p = Len(lib.buf) /\ lib.buf \in Seq(Int)
      /\ lib.call \in Calls \ {"maze"} /\ kind \in Answers(lib.call)
      /\ w \in Mazes /\ Len(w) = 1
      /\ lib.buf \o stream = text
      /\ \A i \in 1..p : lib.buf[i] # Newline
  BY <1>1 DEF ClientInv, BufferOK, LibType, Awaited
<1>3. /\ b \in Seq(Int) /\ stream' \in Seq(Int) /\ b \o stream' = text
      /\ p <= Len(b) /\ Len(b) < LibBuf /\ Len(b) \in Nat
      /\ \A i \in 1..p : b[i] = lib.buf[i]
  <2>1. BufferOK
    BY DEF ClientInv
  <2>2. /\ b \in Seq(Int) /\ SubSeq(stream, n + 1, Len(stream)) \in Seq(Int)
        /\ b \o SubSeq(stream, n + 1, Len(stream)) = lib.buf \o stream
        /\ Len(lib.buf) <= Len(b) /\ Len(b) < LibBuf
        /\ \A i \in 1..Len(lib.buf) : b[i] = lib.buf[i]
    BY <2>1, ReadStep
  <2> HIDE DEF b, text
  <2>3. Len(b) \in Nat
    BY <2>2
  <2>4. QED
    BY <1>1, <1>2, <2>2, <2>3
<1>4. kind \in Kinds
  BY <1>2, ReturnsRight
<1> HIDE DEF b, result
<1>5. CASE ends = {}
  <2>1. /\ lib' \in LibType /\ lib'.buf = b /\ lib'.ptr = Len(b) /\ lib'.doing = "line"
        /\ lib'.call = lib.call
    BY <1>1, <1>2, <1>3, <1>5 DEF LibType
  <2>2. \A i \in 1..Len(b) : i \in 1..p \/ i \in p + 1..Len(b)
    BY <1>2, <1>3
  <2>3. \A i \in 1..Len(b) : b[i] # Newline
    BY <1>2, <1>3, <1>5, <2>2
  <2>4. BufferOK'
    <3>1. Len(b) <= Len(b)
      BY <1>3
    <3>2. QED
      BY <1>3, <2>1, <3>1 DEF BufferOK, LibType
  <2>5. Awaited'
    BY <1>1, <1>2, <1>3, <2>1, <2>3 DEF Awaited
  <2>6. AnswersArrive'
    BY <2>1 DEF AnswersArrive
  <2>7. QED
    BY <2>4, <2>5, <2>6 DEF ClientInv
<1>6. CASE ends # {}
  <2> DEFINE at == Min(ends)
             l == Len(line)
             s == stream'
  <2>1. at \in p + 1..Len(b) /\ b[at] = Newline
    <3>1. ends \in SUBSET Nat
      BY <1>2, <1>3
    <3>2. Min(ends) \in ends
      <4> HIDE DEF ends
      <4>1. QED
        BY <1>6, <3>1, LowestPlace
    <3>3. QED
      BY <3>2
  <2> HIDE DEF ends
  <2>2. /\ line \in Seq(Int) /\ \A i \in 1..l : line[i] # Newline
        /\ text \in Seq(Int) /\ Len(text) = l + 1
        /\ \A i \in 1..l : text[i] = line[i]
        /\ text[l + 1] = Newline
    BY <1>2, <1>4, LineText DEF Words, Ended
  <2>3. l \in Nat
    BY <2>2
  <2> HIDE DEF text, line
  <2>4. Len(text) = Len(b) + Len(s) /\ \A i \in 1..Len(b) : text[i] = b[i]
    <3>1. b \in Seq(Int) /\ s \in Seq(Int)
      BY <1>3
    <3>2. Len(b \o s) = Len(b) + Len(s) /\ \A i \in 1..Len(b) : (b \o s)[i] = b[i]
      BY <3>1, Glued
    <3>3. QED
      BY <1>3, <3>2
  <2> DEFINE m == Len(b)
             rest == Len(s)
  <2>5. m \in Nat /\ rest \in Nat
    BY <1>3
  <2>6. m + rest = l + 1
    BY <2>2, <2>4
  <2>7. at \in 1..m
    BY <1>2, <2>1, <2>5
  <2> HIDE DEF l, m, rest, at
  <2>8. at = l + 1
    <3>1. at \notin 1..l
      <4>1. text[at] = Newline
        BY <2>1, <2>4, <2>7 DEF at, m
      <4>2. QED
        BY <2>2, <4>1
    <3>2. QED
      BY <2>3, <2>5, <2>6, <2>7, <3>1
  <2>9. m = at /\ rest = 0
    BY <2>3, <2>5, <2>6, <2>7, <2>8
  <2>10. s = << >>
    BY <1>3, <2>9 DEF rest
  <2>11. SubSeq(b, 1, at - 1) = line
    <3> DEFINE q == SubSeq(b, 1, l)
    <3>1. \A i \in 1..l : i \in 1..m
      BY <2>3, <2>5, <2>8, <2>9
    <3>2. \A i \in 1..l : b[i] \in Int /\ b[i] = line[i]
      BY <1>3, <2>2, <2>4, <3>1 DEF m
    <3>3. q \in Seq(Int) /\ Len(q) = l /\ \A i \in 1..l : q[i] = b[i]
      BY <2>3, <3>2, SubSeqProperties
    <3> HIDE DEF q
    <3>4. q = line
      <4>1. Len(q) = Len(line) /\ \A i \in 1..Len(q) : q[i] = line[i]
        BY <3>2, <3>3 DEF l
      <4>2. QED
        BY <2>2, <3>3, <4>1, SeqEqual
    <3>5. at - 1 = l
      BY <2>3, <2>8
    <3>6. QED
      BY <3>4, <3>5 DEF q
  <2>12. result = Returned(lib.call, line)
    BY <2>11 DEF result, at
  <2>13. /\ result.doing \in {"nothing", "thrown"}
         /\ result.doing = "nothing" =>
                /\ kind # "OVER"
                /\ result.value = [k \in {j \in DOMAIN w : kind # "DONE"} |-> Number(w, k)]
         /\ result.doing = "thrown" =>
                \/ kind = "OVER" /\ result.value = <<Number(w, 1)>>
                \/ kind = "NOPE" /\ lib.call = "number"
    <3>1. Right(Returned(lib.call, LineOf(kind, w)), lib.call, kind, w)
      BY <1>2, ReturnsRight
    <3>2. Right(result, lib.call, kind, w)
      BY <2>12, <3>1 DEF line
    <3>3. QED
      BY <3>2 DEF Right
  <2>14. /\ lib' = [lib EXCEPT !.buf = b, !.ptr = at, !.doing = result.doing]
         /\ got' = result.value
    BY <1>1, <1>6 DEF at
  <2>15. at \in Nat
    BY <2>5, <2>7
  <2>16. /\ lib' \in LibType /\ lib'.buf = b /\ lib'.ptr = at /\ lib'.doing = result.doing
         /\ lib'.call = lib.call
    BY <1>2, <1>3, <2>13, <2>14, <2>15 DEF LibType, Doings
  <2>17. lib'.ptr = Len(lib'.buf) /\ lib'.ptr <= Len(lib'.buf)
    BY <2>9, <2>15, <2>16 DEF m
  <2>18. BufferOK'
    BY <1>3, <2>16, <2>17 DEF BufferOK, LibType
  <2>19. Awaited'
    BY <2>10, <2>13, <2>16, <2>17 DEF Awaited
  <2>20. Unscanned' = << >>
    <3>1. Len(lib'.buf) \in Int /\ Len(lib'.buf) < lib'.ptr + 1
      BY <2>15, <2>16, <2>17
    <3>2. lib'.ptr + 1 \in Int
      BY <2>15, <2>16
    <3>3. QED
      BY <3>1, <3>2, SubSeqEmpty DEF Unscanned
  <2>21. AnswersArrive'
    <3>1. CASE result.doing = "nothing"
      BY <1>1, <2>10, <2>13, <2>14, <2>16, <2>20, <3>1 DEF AnswersArrive
    <3>2. CASE result.doing = "thrown"
      BY <1>1, <2>13, <2>14, <2>16, <3>2 DEF AnswersArrive
    <3>3. QED
      BY <2>13, <3>1, <3>2
  <2>22. QED
    BY <2>18, <2>19, <2>21 DEF ClientInv
<1> QED
  BY <1>5, <1>6

\* A piece of a maze, when the buffer has no whole number.
LEMMA RefillStep ==
    ASSUME ClientInv, NEW n \in Pieces(LibBuf - 1 - Len(Moved.buf)), Refill(n)
    PROVE  ClientInv'
<1> DEFINE c == Moved.buf
           b == c \o SubSeq(stream, 1, n)
           w == answer.widths
           t == Numbers(w)
           j == Ends(w)[Len(got)]
<1>1. /\ lib.doing = "numbers" /\ got' = got /\ answer' = answer
      /\ stream' = SubSeq(stream, n + 1, Len(stream))
      /\ lib' = [Moved EXCEPT !.buf = b, !.tries = @ + 1]
  BY DEF Refill
<1>2. /\ answer.kind = "DATA" /\ w \in Mazes
      /\ got \in Seq(Seq(Int)) /\ Len(got) < Len(w)
      /\ \A k \in 1..Len(got) : got[k] = Number(w, k)
      /\ Coming(lib.buf, lib.ptr, stream, t, j)
  BY <1>1 DEF ClientInv, Awaited
<1>3. t \in Seq(Int) /\ j \in Nat
  <2>1. Len(got) \in 0..Len(w)
    BY <1>2 DEF Mazes
  <2>2. Ends(w) \in [0..Len(w) -> Nat]
    BY <1>2, EndsExist DEF EndsAt
  <2>3. QED
    BY <1>2, <2>1, <2>2, NumbersAre DEF Holds
<1>4. stream \in Seq(Int) /\ Len(lib.buf) \in Nat /\ Len(lib.buf) < LibBuf
  BY DEF ClientInv, BufferOK
<1> HIDE DEF t, j
<1>5. /\ Moved \in LibType /\ Moved.ptr <= Len(c) /\ Len(c) <= Len(lib.buf)
      /\ Moved.doing = "numbers"
      /\ Coming(c, Moved.ptr, stream, t, j)
  BY <1>1, <1>2, <1>3, MovedKeeps DEF ClientInv, LibType
<1>6. c \in Seq(Int) /\ Len(c) \in Nat
  BY <1>5 DEF LibType
<1>7. n \in 0..Len(stream) /\ n <= LibBuf - 1 - Len(c)
  <2>1. LibBuf - 1 - Len(c) \in Nat
    <3> DEFINE l == Len(lib.buf)
               m == Len(c)
    <3>1. l \in Nat /\ m \in Nat /\ l < LibBuf /\ m <= l
      BY <1>4, <1>5, <1>6
    <3> HIDE DEF l, m
    <3>2. LibBuf - 1 - m \in Nat
      BY <3>1, MazeLibAssumption
    <3>3. QED
      BY <3>2 DEF m
  <2>2. QED
    BY <1>4, <2>1, PiecesFit
<1>8. /\ b \in Seq(Int) /\ stream' \in Seq(Int) /\ Len(b) = Len(c) + n
      /\ b \o stream' = c \o stream
  BY <1>1, <1>4, <1>6, <1>7, ReadKeeps
<1> HIDE DEF b
<1>9. n \in Nat /\ Len(b) < LibBuf /\ Len(c) <= Len(b)
  <2>1. n \in Nat
    BY <1>4, <1>7
  <2> DEFINE m == Len(c)
  <2>2. m \in Nat
    BY <1>6
  <2> HIDE DEF m
  <2>3. m + n < LibBuf /\ m <= m + n
    BY <1>7, <2>1, <2>2, MazeLibAssumption DEF m
  <2>4. QED
    BY <1>8, <2>1, <2>3 DEF m
<1>10. /\ lib' \in LibType /\ lib'.buf = b /\ lib'.ptr = Moved.ptr /\ lib'.doing = "numbers"
  <2>1. /\ Moved.ptr \in Nat /\ Moved.call \in Calls /\ Moved.tries + 1 \in Nat
        /\ Moved.asked \in Nat /\ "numbers" \in Doings
    BY <1>5 DEF LibType, Doings
  <2>2. lib' = [buf |-> b, ptr |-> Moved.ptr, doing |-> "numbers", call |-> Moved.call,
                tries |-> Moved.tries + 1, asked |-> Moved.asked]
    BY <1>1, <1>5 DEF LibType
  <2>3. QED
    BY <1>8, <2>1, <2>2 DEF LibType
<1>11. Coming(b, Moved.ptr, stream', t, j)
  BY <1>5, <1>8 DEF Coming
<1>12. Moved.ptr <= Len(b)
  <2>1. Moved.ptr \in Nat /\ Len(b) \in Nat
    BY <1>5, <1>8 DEF LibType
  <2>2. QED
    BY <1>5, <1>6, <1>9, <2>1
<1>13. BufferOK'
  BY <1>8, <1>9, <1>10, <1>12 DEF BufferOK, LibType
<1>14. Awaited'
  BY <1>1, <1>2, <1>10, <1>11 DEF Awaited, t, j
<1>15. AnswersArrive'
  <2>1. DOMAIN got = 1..Len(got)
    BY <1>2
  <2>2. \A k \in DOMAIN got : k <= Len(w) /\ got[k] = Number(w, k)
    BY <1>2, <2>1 DEF Mazes
  <2>3. QED
    BY <1>1, <1>10, <2>2 DEF AnswersArrive
<1> QED
  BY <1>13, <1>14, <1>15 DEF ClientInv

\* The library loses its patience.
LEMMA GiveUpStep == ASSUME ClientInv, GiveUp PROVE ClientInv'
<1>1. lib' = [lib EXCEPT !.doing = "error"] /\ UNCHANGED <<stream, answer, got>>
  BY DEF GiveUp
<1>2. lib \in LibType
  BY DEF ClientInv, BufferOK, LibType
<1>3. lib' \in LibType /\ lib'.buf = lib.buf /\ lib'.ptr = lib.ptr /\ lib'.doing = "error"
  BY <1>1, <1>2 DEF LibType, Doings
<1>4. QED
  BY <1>1, <1>3 DEF ClientInv, BufferOK, Awaited, AnswersArrive, LibType

\* A number is taken out of the buffer: it is the next one, and whole.
LEMMA RecvIntStep ==
    ASSUME ClientInv, RecvInt
    PROVE  ClientInv'
<1> DEFINE b == lib.buf
           p == lib.ptr
           w == answer.widths
           t == Numbers(w)
           e == Ends(w)
           g == Len(got)
           j == e[g]
           at == Min(Delimiters)
           x == SubSeq(b, p + 1, at - 1)
           all == b \o stream
           l == Len(b)
           m == Len(stream)
           n == Len(w)
<1>1. /\ lib.doing = "numbers" /\ Delimiters # {}
      /\ got' = Append(got, x) /\ stream' = stream /\ answer' = answer
      /\ lib' = [lib EXCEPT !.ptr = at, !.tries = 0,
                             !.doing = IF b[at] = Newline THEN "nothing" ELSE @]
  BY DEF RecvInt
<1>2. /\ lib \in LibType /\ p \in Nat /\ b \in Seq(Int) /\ l \in Nat /\ p <= l /\ l < LibBuf
      /\ stream \in Seq(Int) /\ m \in Nat
  BY DEF ClientInv, BufferOK, LibType
<1>3. /\ answer.kind = "DATA" /\ w \in Mazes
      /\ got \in Seq(Seq(Int)) /\ g \in Nat /\ n \in Nat /\ g < n
      /\ \A k \in 1..g : got[k] = Number(w, k)
      /\ Coming(b, p, stream, t, j)
  BY <1>1 DEF ClientInv, Awaited, Mazes
<1>4. EndsAt(e, w) /\ Holds(t, w, e, n)
  BY <1>3, EndsExist, NumbersAre
<1> HIDE DEF e, t
<1>5. /\ g + 1 \in 1..n /\ (g + 1) - 1 = g /\ g \in 0..n /\ g + 1 \in 0..n
      /\ w[g + 1] \in Nat \ {0}
  <2>1. g + 1 \in 1..n /\ (g + 1) - 1 = g /\ g \in 0..n /\ g + 1 \in 0..n
    BY <1>3
  <2>2. QED
    BY <1>3, <2>1 DEF Mazes
<1> DEFINE d == w[g + 1]
           next == e[g + 1]
<1>6. j \in Nat /\ next \in Nat /\ next = j + d + 1
  BY <1>4, <1>5 DEF EndsAt
<1>7. /\ t \in Seq(Int) /\ Len(t) = e[n] /\ next <= e[n] /\ e[n] \in Nat
      /\ \A q \in j + 1..next - 1 : t[q] = g + 1
      /\ t[next] = Delimiter(w, g + 1)
  <2>1. /\ t \in Seq(Int) /\ Len(t) = e[n] /\ next <= e[n]
        /\ \A q \in e[(g + 1) - 1] + 1..next - 1 : t[q] = g + 1
        /\ t[next] = Delimiter(w, g + 1)
    BY <1>4, <1>5 DEF Holds
  <2>2. n \in 0..n
    BY <1>3
  <2>3. QED
    BY <1>4, <1>5, <2>1, <2>2 DEF EndsAt
<1>8. /\ Len(all) = l + m /\ \A i \in 1..l : all[i] = b[i]
  BY <1>2, Glued
<1> DEFINE r == e[n]
<1>9. l + m - p = r - j /\ \A i \in 1..r - j : all[p + i] = t[j + i]
  <2>1. Len(all) - p = Len(t) - j /\ \A i \in 1..Len(t) - j : all[p + i] = t[j + i]
    BY <1>3 DEF Coming
  <2>2. Len(t) = r
    BY <1>7
  <2>3. p \in Nat /\ j \in Nat /\ r \in Nat /\ l \in Nat /\ m \in Nat
    BY <1>2, <1>6, <1>7
  <2>4. Len(all) = l + m
    BY <1>8
  <2> HIDE DEF all, l, m, p, j, r
  <2>5. QED
    BY <2>1, <2>2, <2>3, <2>4
<1>10. /\ at \in p + 1..l /\ b[at] \in {Gap, Newline}
       /\ \A i \in p + 1..l : b[i] \in {Gap, Newline} => at <= i
  <2> DEFINE S == Delimiters
  <2>1. S \in SUBSET Nat
    BY <1>2 DEF Delimiters
  <2>2. at \in S /\ \A i \in S : at <= i
    <3> HIDE DEF S
    <3>1. QED
      BY <1>1, <2>1, LowestPlace DEF S
  <2> HIDE DEF at
  <2>3. QED
    BY <2>2 DEF Delimiters
<1> HIDE DEF at, all, l, m, r, next, d, n, p, b
\* The bytes of this number and what is behind it, as far as they arrived.
<1>11. \A i \in 1..r - j : p + i <= l => b[p + i] = t[j + i]
  <2> SUFFICES ASSUME NEW i \in 1..r - j, p + i <= l
               PROVE  b[p + i] = t[j + i]
    OBVIOUS
  <2>1. p + i \in 1..l
    BY <1>2
  <2>2. QED
    BY <1>8, <1>9, <2>1
<1>12. g + 1 \notin {Gap, Newline} /\ Delimiter(w, g + 1) \in {Gap, Newline}
  BY <1>3 DEF Gap, Newline, Delimiter
<1> HIDE DEF g, j
<1>13. at = p + (d + 1)
  <2> DEFINE i == at - p
  <2>1. i \in 1..r - j /\ p + i = at /\ p + i <= l
    BY <1>2, <1>6, <1>7, <1>9, <1>10 DEF r, next
  <2> HIDE DEF i
  <2>2. t[j + i] \in {Gap, Newline}
    BY <1>10, <1>11, <2>1
  <2>3. ~(i <= d)
    <3> SUFFICES ASSUME i <= d PROVE FALSE
      OBVIOUS
    <3>1. j + i \in j + 1..next - 1
      BY <1>5, <1>6, <2>1 DEF d, next
    <3>2. t[j + i] = g + 1
      BY <1>7, <3>1 DEF next, j
    <3>3. QED
      BY <1>12, <2>2, <3>2
  <2>4. d \in Nat /\ i \in Nat
    BY <1>5, <1>6, <1>7, <2>1 DEF d, r
  <2>5. d + 1 \in 1..r - j /\ p + (d + 1) <= l /\ p + (d + 1) \in p + 1..l
    BY <1>2, <1>6, <1>7, <2>1, <2>3, <2>4 DEF r
  <2>6. j + (d + 1) = next
    BY <1>6, <2>4 DEF d, next
  <2>7. b[p + (d + 1)] \in {Gap, Newline}
    BY <1>7, <1>11, <1>12, <2>5, <2>6 DEF next
  <2>8. at <= p + (d + 1)
    BY <1>10, <2>5, <2>7
  <2>9. QED
    BY <1>2, <2>1, <2>3, <2>4, <2>8
<1>14. d \in Nat /\ at \in Nat /\ at <= l /\ d + 1 \in 1..r - j /\ j + (d + 1) = next
  <2>1. d \in Nat /\ next = j + d + 1 /\ j \in Nat /\ next <= r /\ r \in Nat
    BY <1>5, <1>6, <1>7 DEF d, next, r
  <2>2. QED
    BY <1>2, <1>10, <2>1
<1>15. b[at] = Delimiter(w, g + 1)
  BY <1>7, <1>11, <1>13, <1>14 DEF next
<1>16. x = Number(w, g + 1)
  <2>1. \A i \in 1..d : /\ i \in 1..r - j /\ p + i <= l /\ j + i \in j + 1..next - 1
    <3>1. j \in Nat /\ next = j + (d + 1) /\ r \in Nat
      BY <1>6, <1>7, <1>14 DEF r
    <3>2. QED
      BY <1>2, <1>13, <1>14, <3>1
  <2>2. \A i \in 1..d : b[p + i] = g + 1
    <3>1. \A i \in 1..d : t[j + i] = g + 1
      BY <1>7, <2>1 DEF next, j
    <3>2. QED
      BY <1>11, <2>1, <3>1
  <2>3. g + 1 \in Int
    BY <1>3 DEF g
  <2>4. \A i \in (p + 1)..(at - 1) : b[i] \in Int
    <3> SUFFICES ASSUME NEW i \in (p + 1)..(at - 1)
                 PROVE  b[i] \in Int
      OBVIOUS
    <3>1. i - p \in 1..d /\ p + (i - p) = i
      BY <1>2, <1>13, <1>14
    <3>2. QED
      BY <2>2, <2>3, <3>1
  <2>5. /\ x \in Seq(Int) /\ Len(x) = IF p + 1 <= at - 1 THEN at - 1 - (p + 1) + 1 ELSE 0
        /\ \A i \in 1..at - 1 - (p + 1) + 1 : x[i] = b[p + 1 + i - 1]
    <3>1. p + 1 \in Int /\ at - 1 \in Int
      BY <1>2, <1>14
    <3>2. QED
      BY <2>4, <3>1, SubSeqProperties
  <2> HIDE DEF x
  <2>6. /\ (IF p + 1 <= at - 1 THEN at - 1 - (p + 1) + 1 ELSE 0) = d
        /\ \A i \in 1..d : i \in 1..at - 1 - (p + 1) + 1 /\ p + 1 + i - 1 = p + i
    BY <1>2, <1>13, <1>14
  <2>7. x \in Seq(Int) /\ Len(x) = d /\ \A i \in 1..d : x[i] = g + 1
    BY <2>2, <2>5, <2>6
  <2>8. Number(w, g + 1) = [i \in 1..d |-> g + 1]
    BY DEF Number, d
  <2>9. x = [i \in 1..d |-> g + 1]
    BY <1>14, <2>7
  <2>10. QED
    BY <2>8, <2>9
<1>17. Number(w, g + 1) \in Seq(Int)
  <2>1. Append(Number(w, g + 1), Delimiter(w, g + 1)) \in Seq(Int)
    BY <1>3, <1>5, NumberAdded DEF n, g
  <2>2. d \in Nat /\ g + 1 \in Int
    BY <1>3, <1>14 DEF g
  <2>3. QED
    BY <2>2 DEF Number, d
<1> HIDE DEF x
<1>18. /\ got' \in Seq(Seq(Int)) /\ Len(got') = g + 1
       /\ \A k \in 1..(g + 1) : got'[k] = Number(w, k)
  <2>1. /\ got' \in Seq(Seq(Int)) /\ Len(got') = g + 1
        /\ \A k \in 1..g : got'[k] = got[k]
        /\ got'[g + 1] = x
    BY <1>1, <1>3, <1>16, <1>17, AppendProperties DEF g
  <2>2. \A k \in 1..(g + 1) : k \in 1..g \/ k = g + 1
    BY <1>3 DEF g
  <2>3. QED
    BY <1>3, <1>16, <2>1, <2>2 DEF g
<1>19. Coming(b, at, stream, t, next)
  <2>1. p \in Nat /\ d \in Nat /\ j \in Nat /\ r \in Nat /\ l \in Nat /\ m \in Nat
    BY <1>2, <1>6, <1>7, <1>14 DEF r
  <2>2. Len(all) - at = Len(t) - next
    <3>1. l + m - p = r - j /\ at = p + (d + 1) /\ next = j + (d + 1)
      BY <1>9, <1>13, <1>14
    <3>2. l + m - at = r - next
      BY <2>1, <3>1
    <3>3. Len(t) = r
      BY <1>7 DEF r
    <3>4. Len(all) = l + m
      BY <1>8
    <3>5. next \in Nat /\ at \in Nat
      BY <1>6, <1>14 DEF next
    <3>6. QED
      BY <2>1, <3>2, <3>3, <3>4, <3>5
  <2>3. ASSUME NEW i \in 1..Len(t) - next
        PROVE  all[at + i] = t[next + i]
    <3>1. Len(t) = r
      BY <1>7 DEF r
    <3>2. i \in 1..r - next
      BY <3>1
    <3>3. /\ (d + 1) + i \in 1..r - j /\ p + ((d + 1) + i) = at + i
          /\ j + ((d + 1) + i) = next + i
      BY <1>13, <1>14, <2>1, <3>2
    <3>4. QED
      BY <1>9, <3>3
  <2>4. QED
    BY <2>2, <2>3 DEF Coming, all
<1>20. /\ lib' \in LibType /\ lib'.buf = b /\ lib'.ptr = at
       /\ lib'.doing = IF b[at] = Newline THEN "nothing" ELSE "numbers"
  BY <1>1, <1>2, <1>14 DEF LibType, Doings, b
<1>21. BufferOK'
  BY <1>1, <1>2, <1>14, <1>20 DEF BufferOK, LibType, l
<1>22. DOMAIN got' = 1..(g + 1) /\ DOMAIN w = 1..n
  BY <1>3, <1>18 DEF Mazes, n
<1>23. CASE g + 1 = n
  <2>1. b[at] = Newline
    BY <1>15, <1>23 DEF Delimiter, n
  <2>2. at = l /\ m = 0
    <3>1. next = r
      BY <1>23 DEF next, r
    <3>2. l + m - p = r - j /\ at = p + (d + 1) /\ r = j + (d + 1)
      BY <1>9, <1>13, <1>14, <3>1
    <3>3. p \in Nat /\ d \in Nat /\ j \in Nat /\ r \in Nat /\ l \in Nat /\ m \in Nat
      BY <1>2, <1>6, <1>7, <1>14 DEF r
    <3>4. QED
      BY <1>14, <3>2, <3>3
  <2>3. stream' = << >>
    BY <1>1, <1>2, <2>2 DEF m
  <2>4. Awaited'
    BY <1>20, <2>1, <2>2, <2>3 DEF Awaited, l
  <2>5. Unscanned' = << >>
    <3>1. Len(lib'.buf) \in Int /\ lib'.ptr + 1 \in Int /\ Len(lib'.buf) < lib'.ptr + 1
      <4>1. Len(lib'.buf) = l /\ lib'.ptr = l
        BY <1>20, <2>2 DEF l
      <4>2. QED
        BY <1>2, <4>1
    <3>2. QED
      BY <3>1, SubSeqEmpty DEF Unscanned
  <2>6. got' = [k \in {i \in DOMAIN w : TRUE} |-> Number(w, k)]
    <3>1. {i \in DOMAIN w : TRUE} = 1..(g + 1)
      BY <1>22, <1>23
    <3>2. got' = [k \in 1..(g + 1) |-> got'[k]]
      BY <1>18, <1>22
    <3>3. [k \in 1..(g + 1) |-> got'[k]] = [k \in 1..(g + 1) |-> Number(w, k)]
      BY <1>18
    <3>4. QED
      BY <3>1, <3>2, <3>3
  <2>7. AnswersArrive'
    BY <1>1, <1>3, <1>20, <2>1, <2>3, <2>5, <2>6 DEF AnswersArrive
  <2>8. QED
    BY <1>21, <2>4, <2>7 DEF ClientInv
<1>24. CASE g + 1 # n
  <2>1. b[at] # Newline
    BY <1>15, <1>24 DEF Delimiter, n, Gap, Newline
  <2>2. g + 1 < n /\ \A k \in 1..(g + 1) : k <= n
    BY <1>3, <1>24 DEF g, n
  <2>3. Awaited'
    BY <1>1, <1>3, <1>18, <1>19, <1>20, <2>1, <2>2 DEF Awaited, t, next, e, n
  <2>4. AnswersArrive'
    BY <1>1, <1>18, <1>20, <1>22, <2>1, <2>2 DEF AnswersArrive, n
  <2>5. QED
    BY <1>21, <2>3, <2>4 DEF ClientInv
<1> QED
  BY <1>23, <1>24

\* Every step keeps the invariant.
LEMMA ClientSteps == ClientInv /\ [ClientNext]_client => ClientInv'
<1> SUFFICES ASSUME ClientInv, [ClientNext]_client PROVE ClientInv'
  OBVIOUS
<1>1. ASSUME NEW w \in LineWidths, NEW call \in {"number", "done", "move"},
             NEW kind \in Answers(call), MazeCmd(call, kind, <<w>>)
      PROVE  ClientInv'
  BY <1>1, MazeCmdStep
<1>2. ASSUME NEW widths \in Widths, MazeMaze(widths)
      PROVE  ClientInv'
  BY <1>2, MazeMazeStep
<1>3. ASSUME NEW n \in Pieces(Room), RecvLine(n)
      PROVE  ClientInv'
  BY <1>3, RecvLineStep
<1>4. ASSUME NEW n \in Pieces(Room), RecvStart(n)
      PROVE  ClientInv'
  BY <1>4, RecvStartStep
<1>5. ASSUME NEW n \in Pieces(LibBuf - 1 - Len(Moved.buf)), Refill(n)
      PROVE  ClientInv'
  BY <1>5, RefillStep
<1>6. CASE RecvInt
  BY <1>6, RecvIntStep
<1>7. CASE GiveUp
  BY <1>7, GiveUpStep
<1>8. CASE UNCHANGED client
  BY <1>8 DEF client, ClientInv, BufferOK, Awaited, AnswersArrive, Unscanned
<1>9. QED
  BY <1>1, <1>2, <1>3, <1>4, <1>5, <1>6, <1>7, <1>8 DEF ClientNext

\* However the answers of a server are cut, a call of the C library returns or
\* throws what its own answer says, numbers whole and in their order, and
\* leaves nothing behind that the next call could take for its answer, whatever
\* the size of the buffer, the numbers of a maze and the digits of each
\* (libmaze.c:60-181, 191-311).
THEOREM AnswersRead == ClientSpec => []AnswersArrive
<1>1. ClientInit => ClientInv
  BY ClientStarts
<1>2. ClientInv /\ [ClientNext]_client => ClientInv'
  BY ClientSteps
<1>3. ClientInv => AnswersArrive
  BY DEF ClientInv
<1>4. QED
  BY <1>1, <1>2, <1>3, PTL DEF ClientSpec
=============================================================================
