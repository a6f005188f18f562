----------------------------- MODULE EventProofs -----------------------------
(***************************************************************************)
(* Proofs about what the event loop keeps.  Module Timers: for any timers, *)
(* delays and pauses, however late events are dispatched, no freed timer   *)
(* is dispatched, no callback comes too early, and one that is awaited     *)
(* comes unless its expiration was discarded.  Module FdTable: for any     *)
(* number of descriptors and of fd_data, and a hash of any size, a number  *)
(* finds the fd_data that epoll reports for it, and nothing but what the   *)
(* rate limits leave is lost.                                              *)
(***************************************************************************)
EXTENDS Timers, FdTable, SequenceTheorems, FiniteSetTheorems, WellFoundedInduction, TLAPS

-----------------------------------------------------------------------------
(* Timers                                                                  *)

ClockType == [open : BOOLEAN, due : Nat, period : Nat, fired : Nat]

TimerType ==
    [state : {"free", "live", "deleted"}, fd : Nat, armed : BOOLEAN, paused : BOOLEAN,
     backlog : Nat, resumeDue : Nat, resumePeriod : Nat]

WishType == [delay : Nat, repeat : BOOLEAN, ran : Nat, done : BOOLEAN, inHold : BOOLEAN]

TimersTypeOK ==
    /\ td \in [Timer -> TimerType] /\ kernel \in [Fd -> ClockType]
    /\ batch \subseteq Timer /\ running \in BOOLEAN /\ held \in BOOLEAN
    /\ wish \in [Timer -> WishType]
    /\ early \subseteq Timer /\ lost \subseteq Timer /\ reset \subseteq Timer

Clock(x) == kernel[td[x].fd]

\* A descriptor belongs to one timer; the timers of a batch were live together.
OneTimerPerFd ==
    /\ \A x, y \in Live : td[x].fd = td[y].fd => x = y
    /\ \A x, y \in batch : td[x].fd = td[y].fd => x = y

NotLate == \A f \in Fd : kernel[f].fired <= LateMax

\* The timer ran long enough for the expirations that are to be read and for the
\* part of the next one that has passed.
OnTime(w, due, period, fired) ==
    /\ w.delay > 0 /\ due <= w.delay
    /\ period = IF w.repeat THEN w.delay ELSE 0
    /\ due = 0 => ~w.repeat /\ w.ran >= fired * w.delay
    /\ due > 0 => w.ran + due >= fired * w.delay + w.delay

\* An armed timer will come in time: w is its wish, c its clock.
InTime(r, c, w, gone) ==
    IF r.paused
    THEN OnTime(w, r.resumeDue, r.resumePeriod, 0) /\ (w.done \/ gone \/ r.resumeDue > 0)
    ELSE OnTime(w, c.due, c.period, c.fired) /\ (w.done \/ gone \/ c.due > 0 \/ c.fired > 0)

Armed(x) == td[x].armed => x \in Live /\ InTime(td[x], Clock(x), wish[x], x \in lost)

\* Only a hold pauses level timers, and it pauses all but those armed in it.
Held(x) ==
    /\ td[x].paused => x \in LevelTimers /\ held /\ Clock(x).due = 0 /\ Clock(x).fired = 0
    /\ x \in LevelTimers /\ held /\ td[x].armed /\ ~td[x].paused => wish[x].inHold
    /\ td[x].backlog = 0

HasFd(x) ==
    /\ td[x].state # "free" => td[x].fd \in Fd
    /\ x \in Live => Clock(x).open

\* An event that is yet to be dispatched still has its expirations, unless the
\* timer was set since it was collected.
Batched(x) ==
    x \in batch =>
        /\ td[x].state # "free"
        /\ x \in Live /\ ~td[x].paused /\ x \notin reset => Clock(x).fired > 0

Sound(x) == Armed(x) /\ Held(x) /\ HasFd(x) /\ Batched(x)

TimersInv == /\ TimersTypeOK /\ OneTimerPerFd /\ NotLate /\ early = {}
       /\ \A x \in Timer : Sound(x)
-----------------------------------------------------------------------------
(* Numbers                                                                 *)

LEMMA Times ==
    /\ \A a, d \in Nat : a * d \in Nat /\ 0 * d = 0 /\ (a + 1) * d = a * d + d
    /\ \A a, b, d \in Nat : a <= b => a * d <= b * d
<1>1. \A a, d \in Nat : a * d \in Nat /\ 0 * d = 0 /\ (a + 1) * d = a * d + d
  OBVIOUS
<1>2. ASSUME NEW a \in Nat, NEW b \in Nat, NEW d \in Nat, a <= b
      PROVE  a * d <= b * d
  <2>1. b = a + (b - a) /\ b - a \in Nat
    BY <1>2
  <2>2. \A e \in Nat : (a + e) * d = a * d + e * d /\ e * d >= 0 /\ a * d \in Nat
    OBVIOUS
  <2>3. QED
    BY <2>1, <2>2
<1>3. QED
  BY <1>1, <1>2

\* There is a lowest of any descriptors.
LEMMA LowestExists ==
    ASSUME NEW S \in SUBSET Nat, S # {}
    PROVE  (CHOOSE f \in S : \A g \in S : f <= g) \in S
<1> DEFINE R == OpToRel(<, Nat)
<1>1. IsWellFoundedOn(R, Nat)
  BY NatLessThanWellFounded
<1>2. \A f, g \in Nat : <<g, f>> \in R <=> g < f
  BY DEF OpToRel
<1> HIDE DEF R
<1>3. PICK f \in S : \A g \in S : <<g, f>> \notin R
  BY <1>1, WFMin
<1>4. ASSUME NEW g \in S
      PROVE  f <= g
  <2>1. f \in Nat /\ g \in Nat /\ ~(g < f)
    BY <1>2, <1>3
  <2>2. QED
    BY <2>1
<1>5. QED
  BY <1>4

LEMMA FdType == Fd \subseteq Nat
BY FS_CardinalityType, TimersAssumption DEF Fd
-----------------------------------------------------------------------------
(* One timer                                                               *)

\* What a step does not touch stays sound; the descriptor of a timer that is not
\* live does not matter.
LEMMA Untouched ==
    ASSUME NEW x \in Timer, Sound(x), td'[x] = td[x], wish'[x] = wish[x],
           x \in lost' <=> x \in lost, held' = held,
           x \in batch' => x \in batch, x \in reset => x \in reset',
           x \in Live => Clock(x)' = Clock(x)
    PROVE  Sound(x)'
<1>1. Armed(x)'
  BY DEF Sound, Armed, Live, Clock
<1>2. Held(x)' /\ HasFd(x)' /\ Batched(x)'
  BY DEF Sound, Held, HasFd, Batched, Live, LevelTimers, Clock
<1> QED
  BY <1>1, <1>2 DEF Sound

\* A timer that is not armed and not paused.
LEMMA IdleSound ==
    ASSUME NEW x \in Timer, ~td'[x].armed, ~td'[x].paused, td'[x].backlog = 0, HasFd(x)',
           x \notin batch' \/ td'[x].state = "deleted"
    PROVE  Sound(x)'
BY DEF Sound, Armed, Held, Batched, Live

LEMMA TypesOf ==
    ASSUME TimersInv, NEW x \in Timer
    PROVE  /\ td[x] \in TimerType /\ wish[x] \in WishType
           /\ Sound(x)
           /\ td[x].state # "free" => td[x].fd \in Fd /\ Clock(x) \in ClockType
                                      /\ Clock(x).fired <= LateMax
BY DEF TimersInv, TimersTypeOK, Sound, HasFd, Clock, NotLate

\* Time goes on for a timer that runs.
LEMMA TickInTime ==
    ASSUME NEW w \in WishType, NEW c \in ClockType, OnTime(w, c.due, c.period, c.fired),
           c.fired < LateMax \/ c.due = 0, c.fired <= LateMax,
           NEW v, v = IF w.ran < LateMax * w.delay THEN [w EXCEPT !.ran = @ + 1] ELSE w
    PROVE  /\ OnTime(v, Expired(c).due, Expired(c).period, Expired(c).fired)
           /\ v \in WishType /\ v.done = w.done /\ v.inHold = w.inHold
           /\ c.due > 0 \/ c.fired > 0 => Expired(c).due > 0 \/ Expired(c).fired > 0
<1> DEFINE d == w.delay
           f == c.fired
<1>1. /\ d \in Nat /\ w.ran \in Nat /\ w.repeat \in BOOLEAN /\ f \in Nat /\ c.due \in Nat
      /\ c.period \in Nat /\ LateMax \in Nat
  BY TimersAssumption DEF WishType, ClockType
<1>2. /\ v \in WishType /\ v.delay = d /\ v.repeat = w.repeat /\ v.done = w.done
      /\ v.inHold = w.inHold
      /\ v.ran = IF w.ran < LateMax * d THEN w.ran + 1 ELSE w.ran
  BY DEF WishType
<1>3. CASE c.due = 0
  <2>1. Expired(c) = c
    BY <1>3 DEF Expired
  <2>2. v.ran >= w.ran
    BY <1>1, <1>2
  <2>3. /\ f * d \in Nat /\ w.ran >= f * d /\ d > 0 /\ ~w.repeat
        /\ c.period = IF w.repeat THEN d ELSE 0
    BY <1>1, <1>3, Times DEF OnTime
  <2> HIDE DEF d, f
  <2>4. v.ran >= f * d
    BY <1>1, <1>2, <2>2, <2>3
  <2>5. OnTime(v, c.due, c.period, f)
    BY <1>1, <1>2, <1>3, <2>3, <2>4 DEF OnTime
  <2>6. QED
    BY <1>2, <2>1, <2>5 DEF f
<1>4. CASE c.due > 0
  <2>1. /\ f + 1 \in Nat /\ f + 1 <= LateMax
        /\ f * d \in Nat /\ (f + 1) * d = f * d + d /\ LateMax * d \in Nat
        /\ (f + 1) * d <= LateMax * d
    <3>1. f < LateMax
      BY <1>1, <1>4
    <3> HIDE DEF d, f
    <3>2. f + 1 \in Nat /\ f + 1 <= LateMax
      BY <1>1, <3>1
    <3>3. /\ f * d \in Nat /\ (f + 1) * d = f * d + d /\ LateMax * d \in Nat
      BY <1>1, Times
    <3>4. (f + 1) * d <= LateMax * d
      BY <1>1, <3>2, Times
    <3>5. QED
      BY <3>2, <3>3, <3>4
  <2>2. w.ran + c.due >= f * d + d /\ c.due <= d /\ d > 0
    BY <1>4 DEF OnTime
  <2>3. c.period = IF w.repeat THEN d ELSE 0
    BY DEF OnTime
  <2> DEFINE p == f * d
             q == LateMax * d
  <2>4. p \in Nat /\ q \in Nat /\ p + d <= q
    BY <2>1
  <2>5. v.ran = IF w.ran < q THEN w.ran + 1 ELSE w.ran
    BY <1>2
  <2>6. w.ran + c.due >= p + d
    BY <2>2
  <2>7. (f + 1) * d = p + d
    BY <2>1
  <2>8. CASE c.due > 1
    <3>1. Expired(c).due = c.due - 1 /\ Expired(c).period = c.period /\ Expired(c).fired = f
      BY <1>1, <2>8 DEF Expired, ClockType
    <3> HIDE DEF d, f, p, q
    <3>2. v.ran + (c.due - 1) >= p + d
      BY <1>1, <2>4, <2>5, <2>6, <2>8
    <3>3. c.due - 1 > 0 /\ c.due - 1 <= d
      BY <1>1, <2>2, <2>8
    <3>4. QED
      BY <1>1, <1>2, <2>2, <2>3, <3>1, <3>2, <3>3 DEF OnTime, p
  <2>9. CASE c.due = 1
    <3>1. /\ Expired(c).due = c.period /\ Expired(c).period = c.period
          /\ Expired(c).fired = f + 1
      BY <1>1, <2>9 DEF Expired, ClockType
    <3> HIDE DEF d, f, p, q
    <3>2. v.ran >= p + d
      BY <1>1, <2>4, <2>5, <2>6, <2>9
    <3>3. f + 1 > 0
      BY <1>1
    <3>4. v.ran >= (f + 1) * d
      BY <2>7, <3>2
    <3>5. CASE w.repeat
      <4>1. c.period = d /\ d > 0 /\ d # 0 /\ v.ran + d >= (f + 1) * d + d
        BY <1>1, <1>2, <2>2, <2>3, <2>4, <2>7, <3>4, <3>5
      <4>2. QED
        BY <1>1, <1>2, <3>1, <3>3, <3>5, <4>1 DEF OnTime
    <3>6. CASE ~w.repeat
      <4>1. c.period = 0
        BY <2>3, <3>6
      <4>2. QED
        BY <1>1, <1>2, <2>2, <3>1, <3>3, <3>4, <3>6, <4>1 DEF OnTime
    <3>7. QED
      BY <3>5, <3>6
  <2>10. QED
    BY <1>1, <1>4, <2>8, <2>9
<1> QED
  BY <1>1, <1>3, <1>4
-----------------------------------------------------------------------------
(* The steps of the loop                                                   *)

LEMMA TickStep ==
    ASSUME TimersInv, TimersTick
    PROVE  TimersInv'
<1>1. /\ \A f \in Fd : kernel[f].fired < LateMax \/ kernel[f].due = 0
      /\ kernel' = [f \in Fd |-> Expired(kernel[f])]
      /\ wish' = [x \in Timer |-> Ran(x)]
      /\ UNCHANGED <<td, batch, running, held, early, lost, reset>>
  BY DEF TimersTick
<1>2. \A f \in Fd : /\ kernel'[f] = Expired(kernel[f]) /\ Expired(kernel[f]) \in ClockType
                    /\ Expired(kernel[f]).open = kernel[f].open
                    /\ Expired(kernel[f]).fired <= LateMax
                    /\ Expired(kernel[f]).fired >= kernel[f].fired
                    /\ kernel[f].due = 0 => Expired(kernel[f]) = kernel[f]
  <2> SUFFICES ASSUME NEW f \in Fd
               PROVE  /\ Expired(kernel[f]) \in ClockType
                      /\ Expired(kernel[f]).open = kernel[f].open
                      /\ Expired(kernel[f]).fired <= LateMax
                      /\ Expired(kernel[f]).fired >= kernel[f].fired
                      /\ kernel[f].due = 0 => Expired(kernel[f]) = kernel[f]
    BY <1>1
  <2> DEFINE c == kernel[f]
  <2>1. /\ c \in ClockType
        /\ c.fired < LateMax \/ c.due = 0
        /\ c.fired <= LateMax /\ LateMax \in Nat
    BY <1>1, TimersAssumption DEF TimersInv, TimersTypeOK, NotLate
  <2> HIDE DEF c
  <2>2. /\ Expired(c) \in ClockType /\ Expired(c).open = c.open
        /\ Expired(c).fired <= LateMax /\ Expired(c).fired >= c.fired
        /\ c.due = 0 => Expired(c) = c
    <3>1. CASE c.due = 0
      BY <2>1, <3>1 DEF Expired, ClockType
    <3>2. CASE c.due > 1
      BY <2>1, <3>2 DEF Expired, ClockType
    <3>3. CASE c.due = 1
      <4> DEFINE e == [c EXCEPT !.due = c.period, !.fired = @ + 1]
      <4>1. /\ e \in ClockType /\ e.open = c.open /\ e.fired = c.fired + 1
        <5> DEFINE n == c.fired + 1
        <5>1. n \in Nat /\ c.period \in Nat
          BY <2>1 DEF ClockType
        <5> HIDE DEF n
        <5>2. LET g == [c EXCEPT !.due = c.period, !.fired = n]
              IN g \in ClockType /\ g.open = c.open /\ g.fired = n
          BY <2>1, <5>1 DEF ClockType
        <5>3. QED
          BY <5>2 DEF n
      <4>2. Expired(c) = e
        BY <3>3 DEF Expired
      <4>3. c.fired \in Nat /\ c.fired < LateMax
        BY <2>1, <3>3 DEF ClockType
      <4> HIDE DEF e
      <4>4. QED
        BY <2>1, <3>3, <4>1, <4>2, <4>3
    <3>4. c.due \in Nat
      BY <2>1 DEF ClockType
    <3>5. QED
      BY <3>1, <3>2, <3>3, <3>4
  <2>3. QED
    BY <2>2 DEF c
<1>3. \A x \in Timer : /\ Ran(x) \in WishType /\ Ran(x).inHold = wish[x].inHold
                       /\ Ran(x).done = wish[x].done
                       /\ ~td[x].armed \/ td[x].paused => Ran(x) = wish[x]
  <2> SUFFICES ASSUME NEW x \in Timer
               PROVE  /\ Ran(x) \in WishType /\ Ran(x).inHold = wish[x].inHold
                      /\ Ran(x).done = wish[x].done
                      /\ ~td[x].armed \/ td[x].paused => Ran(x) = wish[x]
    OBVIOUS
  <2> DEFINE w == wish[x]
  <2>1. w \in WishType
    BY TypesOf
  <2>2. Ran(x) \in {w, [w EXCEPT !.ran = @ + 1]} /\ (~td[x].armed \/ td[x].paused => Ran(x) = w)
    BY DEF Ran
  <2> HIDE DEF w
  <2>3. /\ [w EXCEPT !.ran = @ + 1] \in WishType
        /\ [w EXCEPT !.ran = @ + 1].done = w.done /\ [w EXCEPT !.ran = @ + 1].inHold = w.inHold
    BY <2>1 DEF WishType
  <2>4. QED
    BY <2>1, <2>2, <2>3 DEF w
<1>4. TimersTypeOK' /\ NotLate' /\ OneTimerPerFd' /\ early' = {}
  BY <1>1, <1>2, <1>3 DEF TimersInv, TimersTypeOK, NotLate, OneTimerPerFd, Live
<1>5. ASSUME NEW x \in Timer
      PROVE  Sound(x)'
  <2>1. /\ td'[x] = td[x] /\ wish'[x] = Ran(x) /\ x \in Live' <=> x \in Live
        /\ x \in LevelTimers' <=> x \in LevelTimers
    BY <1>1 DEF Live, LevelTimers
  <2>2. /\ td[x] \in TimerType /\ wish[x] \in WishType /\ Sound(x)
        /\ td[x].state # "free" => td[x].fd \in Fd /\ Clock(x) \in ClockType
                                   /\ Clock(x).fired <= LateMax
                                   /\ Clock(x)' = Expired(Clock(x))
    BY <1>1, <1>2, TypesOf DEF Clock
  <2>3. Armed(x)'
    <3> SUFFICES ASSUME td[x].armed
                 PROVE  InTime(td[x], Clock(x)', Ran(x), x \in lost)
      BY <1>1, <2>1, <2>2 DEF Armed, Sound
    <3>1. x \in Live /\ td[x].state # "free" /\ InTime(td[x], Clock(x), wish[x], x \in lost)
      BY <2>2 DEF Sound, Armed, Live
    <3>2. CASE td[x].paused
      BY <1>3, <3>1, <3>2 DEF InTime
    <3>3. CASE ~td[x].paused
      <4> DEFINE w == wish[x]
                 c == Clock(x)
                 v == Ran(x)
      <4>1. /\ w \in WishType /\ c \in ClockType /\ c.fired <= LateMax
            /\ OnTime(w, c.due, c.period, c.fired)
            /\ w.done \/ x \in lost \/ c.due > 0 \/ c.fired > 0
        BY <2>2, <3>1, <3>3 DEF InTime
      <4>2. c.fired < LateMax \/ c.due = 0
        BY <1>1, <2>2, <3>1 DEF Clock
      <4>3. v = IF w.ran < LateMax * w.delay THEN [w EXCEPT !.ran = @ + 1] ELSE w
        BY <3>1, <3>3 DEF Ran
      <4>4. Clock(x)' = Expired(c)
        BY <2>2, <3>1
      <4> HIDE DEF w, c, v
      <4>5. /\ OnTime(v, Expired(c).due, Expired(c).period, Expired(c).fired)
            /\ v.done = w.done
            /\ c.due > 0 \/ c.fired > 0 => Expired(c).due > 0 \/ Expired(c).fired > 0
        BY <4>1, <4>2, <4>3, TickInTime
      <4>6. InTime(td[x], Expired(c), v, x \in lost)
        BY <3>3, <4>1, <4>5 DEF InTime
      <4>7. QED
        BY <4>4, <4>6 DEF v
    <3>4. QED
      BY <3>2, <3>3
  <2>4. Held(x)'
    <3>1. td[x].paused => Clock(x)' = Clock(x)
      <4> SUFFICES ASSUME td[x].paused
                   PROVE  Clock(x)' = Clock(x)
        OBVIOUS
      <4>1. x \in Live /\ Clock(x).due = 0
        BY <2>2 DEF Sound, Held, LevelTimers
      <4>2. td[x].fd \in Fd /\ Clock(x)' = Expired(Clock(x))
        BY <2>2, <4>1 DEF Live
      <4>3. QED
        BY <1>2, <4>1, <4>2 DEF Clock
    <3>2. QED
      BY <1>1, <1>3, <2>1, <2>2, <3>1 DEF Sound, Held
  <2>5. HasFd(x)' /\ Batched(x)'
    <3>1. td[x].state # "free" => /\ Clock(x)'.open = Clock(x).open
                                  /\ Clock(x)'.fired >= Clock(x).fired
      BY <1>2, <2>2 DEF Clock
    <3>2. x \in Live => Clock(x).fired \in Nat /\ Clock(x)'.fired \in Nat
      BY <1>2, <2>2 DEF Live, Clock, ClockType
    <3>3. HasFd(x)'
      BY <1>1, <2>1, <2>2, <3>1 DEF Sound, HasFd, Live
    <3>4. Batched(x)'
      BY <1>1, <2>1, <2>2, <3>1, <3>2 DEF Sound, Batched, Live
    <3>5. QED
      BY <3>3, <3>4
  <2>6. QED
    BY <2>3, <2>4, <2>5 DEF Sound
<1> QED
  BY <1>4, <1>5 DEF TimersInv

LEMMA EpollWaitStep ==
    ASSUME TimersInv, EpollWait
    PROVE  TimersInv'
<1>1. /\ batch' = {x \in Live : kernel[td[x].fd].fired > 0} /\ running' = TRUE
      /\ reset' = {} /\ UNCHANGED <<td, kernel, held, wish, early, lost>>
  BY DEF EpollWait
<1>2. TimersTypeOK' /\ NotLate' /\ early' = {}
  BY <1>1 DEF TimersInv, TimersTypeOK, NotLate, Live
<1>3. OneTimerPerFd'
  BY <1>1 DEF TimersInv, OneTimerPerFd, Live
<1>4. ASSUME NEW x \in Timer
      PROVE  Sound(x)'
  <2>1. Armed(x)' /\ Held(x)' /\ HasFd(x)'
    BY <1>1 DEF TimersInv, Sound, Armed, Held, HasFd, Live, LevelTimers, Clock
  <2>2. Batched(x)'
    BY <1>1 DEF Batched, Live, Clock
  <2>3. QED
    BY <2>1, <2>2 DEF Sound
<1> QED
  BY <1>2, <1>3, <1>4 DEF TimersInv

LEMMA EndBatchStep ==
    ASSUME TimersInv, EndBatch
    PROVE  TimersInv'
<1>1. /\ batch = {} /\ running' = FALSE /\ reset' = {}
      /\ td' = [x \in Timer |-> IF td[x].state = "deleted" THEN NoTimer ELSE td[x]]
      /\ UNCHANGED <<kernel, batch, held, wish, early, lost>>
  BY DEF EndBatch
<1>2. /\ NoTimer \in TimerType /\ NoTimer.state = "free" /\ ~NoTimer.armed
      /\ ~NoTimer.paused /\ NoTimer.backlog = 0
  BY DEF NoTimer, TimerType
<1>3. \A x \in Timer : x \in Live' <=> x \in Live
  BY <1>1, <1>2 DEF Live
<1>4. \A x \in Live : td'[x] = td[x]
  BY <1>1 DEF Live
<1>5. Live' = Live
  BY <1>3 DEF Live
<1>6. TimersTypeOK'
  <2>1. \A x \in Timer : td'[x] \in TimerType
    BY <1>1, <1>2 DEF TimersInv, TimersTypeOK
  <2>2. td' \in [Timer -> TimerType]
    BY <1>1, <2>1
  <2>3. QED
    BY <1>1, <2>2 DEF TimersInv, TimersTypeOK
<1>7. NotLate' /\ early' = {} /\ OneTimerPerFd'
  BY <1>1, <1>4, <1>5 DEF TimersInv, NotLate, OneTimerPerFd
<1>8. ASSUME NEW x \in Timer
      PROVE  Sound(x)'
  <2>1. CASE td[x].state = "deleted"
    <3>1. td'[x] = NoTimer
      BY <1>1, <2>1
    <3>2. HasFd(x)'
      BY <1>2, <3>1 DEF HasFd, Live
    <3>3. QED
      BY <1>1, <1>2, <3>1, <3>2, IdleSound
  <2>2. CASE td[x].state # "deleted"
    <3>1. td'[x] = td[x]
      BY <1>1, <2>2
    <3>2. Clock(x)' = Clock(x)
      BY <1>1, <3>1 DEF Clock
    <3>3. Armed(x) /\ Held(x) /\ HasFd(x)
      BY DEF TimersInv, Sound
    <3>4. Armed(x)' /\ Held(x)' /\ HasFd(x)'
      BY <1>1, <1>5, <3>1, <3>2, <3>3 DEF Armed, Held, HasFd, LevelTimers
    <3>5. Batched(x)'
      BY <1>1 DEF Batched
    <3>6. QED
      BY <3>4, <3>5 DEF Sound
  <2>3. QED
    BY <2>1, <2>2
<1> QED
  BY <1>6, <1>7, <1>8 DEF TimersInv
-----------------------------------------------------------------------------
(* timer_cb                                                                *)

\* The time of the expirations that are read has passed, and what is left is
\* enough for the next one.
LEMMA CallInTime ==
    ASSUME NEW w \in WishType, NEW c \in ClockType, OnTime(w, c.due, c.period, c.fired)
    PROVE  /\ w.ran >= c.fired * w.delay
           /\ OnTime(w, c.due, c.period, 0)
           /\ \A v : /\ v.delay = w.delay /\ v.repeat = w.repeat
                     /\ v.ran = w.ran - c.fired * w.delay
                     => OnTime(v, c.due, c.period, 0)
<1> DEFINE d == w.delay
           p == c.fired * w.delay
<1>1. /\ d \in Nat /\ p \in Nat /\ w.ran \in Nat /\ c.due \in Nat /\ 0 * d = 0
  BY Times DEF WishType, ClockType
<1>2. /\ d > 0 /\ c.due <= d /\ c.period = IF w.repeat THEN d ELSE 0
      /\ c.due = 0 => ~w.repeat /\ w.ran >= p
      /\ c.due > 0 => w.ran + c.due >= p + d
  BY DEF OnTime
<1> HIDE DEF d, p
<1>3. w.ran >= p
  BY <1>1, <1>2
<1>4. c.due > 0 => w.ran + c.due >= 0 + d
  BY <1>1, <1>2
<1>5. c.due > 0 => (w.ran - p) + c.due >= 0 + d
  BY <1>1, <1>2
<1>6. OnTime(w, c.due, c.period, 0)
  BY <1>1, <1>2, <1>4 DEF OnTime, d
<1>7. ASSUME NEW v, v.delay = w.delay, v.repeat = w.repeat, v.ran = w.ran - p
      PROVE  OnTime(v, c.due, c.period, 0)
  <2>1. c.due = 0 => v.ran >= 0
    BY <1>1, <1>3, <1>7
  <2>2. v.delay = d /\ v.ran = w.ran - p
    BY <1>7 DEF d
  <2>3. QED
    BY <1>1, <1>2, <1>5, <1>7, <2>1, <2>2 DEF OnTime
<1>8. QED
  BY <1>3, <1>6, <1>7 DEF p

\* The program is called: it is time, and the timer stays in time.
LEMMA CalledLemma ==
    ASSUME TimersInv, NEW x \in batch, CallsBack(x), Called(x, Count(x)),
           reset' = reset, held' = held
    PROVE  /\ early' = {} /\ wish' \in [Timer -> WishType]
           /\ wish'[x].inHold = wish[x].inHold
           /\ OnTime(wish'[x], Clock(x).due, Clock(x).period, 0)
           /\ wish'[x].done \/ x \in lost \/ Clock(x).due > 0
           /\ \A y \in Timer \ {x} : wish'[y] = wish[y]
<1> DEFINE w == wish[x]
           c == Clock(x)
           n == Count(x)
           p == n * w.delay
           v == [w EXCEPT !.ran = IF @ >= p THEN @ - p ELSE 0,
                          !.done = @ \/ (n > 0 /\ ~w.repeat)]
<1>1. x \in Timer /\ td[x].armed /\ ~td[x].paused
  BY DEF TimersInv, TimersTypeOK, CallsBack
<1>2. /\ x \in Live /\ w \in WishType /\ c \in ClockType /\ n = c.fired
      /\ OnTime(w, c.due, c.period, c.fired)
      /\ w.done \/ x \in lost \/ c.due > 0 \/ c.fired > 0
      /\ x \in LevelTimers /\ held => w.inHold
      /\ x \in reset \/ c.fired > 0
  BY <1>1, TypesOf DEF Sound, Armed, InTime, Held, Batched, Live, Count, Clock
<1>3. /\ early' = IF TooSoon(x, n) THEN early \cup {x} ELSE early
      /\ wish' = [wish EXCEPT ![x] = v]
  BY DEF Called
<1>4. /\ w.ran \in Nat /\ w.delay \in Nat /\ n \in Nat /\ p \in Nat /\ w.done \in BOOLEAN
      /\ w.repeat \in BOOLEAN
  BY <1>2, Times DEF WishType, ClockType
<1>5. w.ran >= p
  BY <1>2, CallInTime
<1>6. ~TooSoon(x, n)
  <2>1. ~(w.ran < p)
    BY <1>4, <1>5
  <2>2. n = 0 => x \in reset
    BY <1>2, <1>4
  <2>3. QED
    BY <1>2, <2>1, <2>2 DEF TooSoon
<1>7. /\ v \in WishType /\ v.ran = w.ran - p /\ v.delay = w.delay /\ v.repeat = w.repeat
      /\ v.inHold = w.inHold /\ v.done = (w.done \/ (n > 0 /\ ~w.repeat))
  <2> DEFINE a == IF w.ran >= p THEN w.ran - p ELSE 0
             b == w.done \/ (n > 0 /\ ~w.repeat)
  <2>1. a \in Nat /\ a = w.ran - p
    BY <1>4, <1>5
  <2>2. b \in BOOLEAN
    BY Zenon
  <2>3. v = [w EXCEPT !.ran = a, !.done = b]
    OBVIOUS
  <2> HIDE DEF a, b, v, w
  <2>4. /\ v \in WishType /\ v.ran = a /\ v.delay = w.delay /\ v.repeat = w.repeat
        /\ v.inHold = w.inHold /\ v.done = b
    BY <1>2, <2>1, <2>2, <2>3 DEF WishType
  <2>5. QED
    BY <2>1, <2>4 DEF b
<1>8. p = c.fired * w.delay
  BY <1>2
<1> HIDE DEF v, p, c, n
<1>9. OnTime(v, c.due, c.period, 0)
  BY <1>2, <1>7, <1>8, CallInTime
<1>10. v.done \/ x \in lost \/ c.due > 0
  <2>1. c.due = 0 \/ c.due > 0
    BY <1>2 DEF ClockType
  <2>2. c.due = 0 => ~w.repeat
    BY <1>2 DEF OnTime
  <2>3. QED
    BY <1>2, <1>7, <2>1, <2>2
<1>11. wish'[x] = v /\ \A y \in Timer \ {x} : wish'[y] = wish[y]
  BY <1>1, <1>3 DEF TimersInv, TimersTypeOK
<1>12. wish' \in [Timer -> WishType]
  BY <1>1, <1>3, <1>7 DEF TimersInv, TimersTypeOK
<1>13. early' = {}
  BY <1>3, <1>6 DEF TimersInv
<1> QED
  BY <1>7, <1>9, <1>10, <1>11, <1>12, <1>13 DEF c

LEMMA TimerCbStep ==
    ASSUME TimersInv, NEW x \in Timer, TimerCb(x)
    PROVE  TimersInv'
<1> DEFINE f == td[x].fd
<1>1. /\ x \in batch /\ batch' = batch \ {x}
      /\ kernel' = [kernel EXCEPT ![f].fired = 0]
      /\ lost' = lost \cup Victims(x)
      /\ UNCHANGED <<running, held, reset>>
  BY DEF TimerCb
<1>2. /\ f \in Fd /\ Clock(x) \in ClockType /\ td[x] \in TimerType /\ wish[x] \in WishType
      /\ Sound(x)
  BY <1>1, TypesOf DEF Sound, Batched
<1>3. /\ kernel' \in [Fd -> ClockType]
      /\ kernel'[f].fired = 0 /\ kernel'[f].due = kernel[f].due
      /\ kernel'[f].period = kernel[f].period /\ kernel'[f].open = kernel[f].open
      /\ \A g \in Fd \ {f} : kernel'[g] = kernel[g]
  <2> DEFINE c == kernel[f]
             e == [c EXCEPT !.fired = 0]
  <2>1. kernel' = [kernel EXCEPT ![f] = e]
    BY <1>1
  <2>2. /\ e \in ClockType /\ e.fired = 0 /\ e.due = c.due /\ e.period = c.period
        /\ e.open = c.open
    <3>1. c \in ClockType
      BY <1>2 DEF Clock
    <3> HIDE DEF c
    <3>2. QED
      BY <3>1 DEF ClockType
  <2> HIDE DEF e
  <2>3. kernel \in [Fd -> ClockType]
    BY DEF TimersInv, TimersTypeOK
  <2>4. QED
    BY <1>2, <2>1, <2>2, <2>3
<1>4. /\ Victims(x) \subseteq Live \ {x}
      /\ \A y \in Timer \ {x} : y \in Live /\ td[y].fd = f /\ kernel[f].fired > 0 => y \in lost'
      /\ \A y \in Timer : y \in lost' => y \in lost \/ (y \in Live /\ y # x /\ td[y].fd = f)
  BY <1>1 DEF Victims, Count
<1>5. /\ td'[x].state = td[x].state /\ td'[x].fd = f /\ td'[x].armed = td[x].armed
      /\ td'[x].paused = td[x].paused /\ td'[x].backlog = 0
      /\ td' \in [Timer -> TimerType] /\ \A y \in Timer \ {x} : td'[y] = td[y]
      /\ td'[x].resumeDue = td[x].resumeDue /\ td'[x].resumePeriod = td[x].resumePeriod
  <2>1. CASE CallsBack(x) \/ ~td[x].paused
    <3>1. td' = td
      BY <2>1 DEF TimerCb, CallsBack
    <3>2. QED
      BY <1>2, <3>1 DEF TimersInv, TimersTypeOK, Sound, Held
  <2>2. CASE ~CallsBack(x) /\ td[x].paused
    <3> DEFINE r == td[x]
               b == r.backlog + Count(x)
               q == [r EXCEPT !.backlog = b]
    <3>1. td' = [td EXCEPT ![x] = q]
      BY <2>2 DEF TimerCb
    <3>2. b = 0 /\ r \in TimerType
      BY <1>2, <2>2 DEF Sound, Held, Count, Clock
    <3> HIDE DEF r, b
    <3>3. /\ q.state = r.state /\ q.fd = r.fd /\ q.armed = r.armed
          /\ q.paused = r.paused /\ q.backlog = 0 /\ q \in TimerType
          /\ q.resumeDue = r.resumeDue /\ q.resumePeriod = r.resumePeriod
      BY <3>2 DEF TimerType
    <3> HIDE DEF q
    <3>4. td'[x] = q /\ td' \in [Timer -> TimerType] /\ \A y \in Timer \ {x} : td'[y] = td[y]
      BY <3>1, <3>3 DEF TimersInv, TimersTypeOK
    <3>5. QED
      BY <3>3, <3>4 DEF r
  <2>3. QED
    BY <2>1, <2>2
<1>6. /\ early' = {} /\ wish' \in [Timer -> WishType]
      /\ wish'[x].inHold = wish[x].inHold
      /\ \A y \in Timer \ {x} : wish'[y] = wish[y]
      /\ CallsBack(x) \/ wish' = wish
      /\ CallsBack(x) => /\ OnTime(wish'[x], Clock(x).due, Clock(x).period, 0)
                         /\ wish'[x].done \/ x \in lost \/ Clock(x).due > 0
  <2>1. CASE CallsBack(x)
    <3>1. Called(x, Count(x))
      BY <2>1 DEF TimerCb
    <3>2. QED
      BY <1>1, <2>1, <3>1, CalledLemma
  <2>2. CASE ~CallsBack(x)
    BY <2>2 DEF TimerCb, TimersInv, TimersTypeOK
  <2>3. QED
    BY <2>1, <2>2
<1>7. \A y \in Timer : /\ y \in Live' <=> y \in Live
                       /\ y \in LevelTimers' <=> y \in LevelTimers
                       /\ td'[y].fd = td[y].fd /\ td'[y].state = td[y].state
  BY <1>5 DEF Live, LevelTimers
<1>8. TimersTypeOK'
  <2>1. lost' \subseteq Timer
    BY <1>1, <1>4 DEF TimersInv, TimersTypeOK, Live
  <2>2. QED
    BY <1>1, <1>3, <1>5, <1>6, <2>1 DEF TimersInv, TimersTypeOK
<1>9. OneTimerPerFd'
  <2>1. \A y \in Live' : y \in Live /\ y \in Timer
    BY <1>7 DEF Live
  <2>2. \A y \in batch' : y \in batch /\ y \in Timer
    BY <1>1 DEF TimersInv, TimersTypeOK
  <2>3. QED
    BY <1>7, <2>1, <2>2 DEF TimersInv, OneTimerPerFd
<1>10. NotLate'
  BY <1>3, TimersAssumption DEF TimersInv, NotLate
<1>11. Sound(x)'
  <2>1. Clock(x)' = kernel'[f] /\ Clock(x) = kernel[f]
    BY <1>5 DEF Clock
  <2>2. HasFd(x)' /\ Batched(x)'
    BY <1>1, <1>2, <1>3, <1>5, <1>7, <2>1 DEF HasFd, Batched, Sound
  <2>3. Held(x)'
    BY <1>1, <1>2, <1>3, <1>5, <1>6, <1>7, <2>1 DEF Sound, Held
  <2>4. Armed(x)'
    <3> SUFFICES ASSUME td[x].armed
                 PROVE  InTime(td'[x], Clock(x)', wish'[x], x \in lost')
      BY <1>2, <1>5, <1>7 DEF Armed, Sound
    <3>1. CASE td[x].paused
      BY <1>1, <1>2, <1>5, <1>6, <3>1 DEF Sound, Armed, InTime, CallsBack
    <3>2. CASE ~td[x].paused
      BY <1>1, <1>3, <1>5, <1>6, <2>1, <3>2 DEF InTime, CallsBack
    <3>3. QED
      BY <3>1, <3>2
  <2>5. QED
    BY <2>2, <2>3, <2>4 DEF Sound
<1>12. ASSUME NEW y \in Timer \ {x}
       PROVE  Sound(y)'
  <2>1. td'[y] = td[y] /\ wish'[y] = wish[y] /\ Sound(y)
    BY <1>5, <1>6 DEF TimersInv
  <2>2. y \in batch' => y \in batch
    BY <1>1
  <2>3. CASE y \in Live => td[y].fd # f
    <3>1. y \in Live => Clock(y)' = Clock(y)
      BY <1>3, <2>1, <2>3 DEF Clock, Sound, HasFd, Live
    <3>2. y \in lost' <=> y \in lost
      BY <1>1, <1>4, <2>3
    <3>3. QED
      BY <1>1, <2>1, <2>2, <3>1, <3>2, Untouched
  <2>4. CASE y \in Live /\ td[y].fd = f
    <3>1. y \notin batch /\ y \in Live'
      BY <1>1, <1>7, <2>4 DEF TimersInv, OneTimerPerFd
    <3>2. /\ Clock(y)' = kernel'[f] /\ Clock(y) = kernel[f] /\ wish[y] \in WishType
          /\ Clock(y) \in ClockType
      BY <2>1, <2>4, TypesOf DEF Clock, Live
    <3>3. Held(y)' /\ HasFd(y)' /\ Batched(y)'
      BY <1>1, <1>3, <1>7, <2>1, <3>1, <3>2 DEF Held, HasFd, Batched, Sound
    <3>4. Armed(y)'
      <4> SUFFICES ASSUME td[y].armed
                   PROVE  InTime(td[y], Clock(y)', wish[y], y \in lost')
        BY <2>1, <3>1 DEF Armed
      <4>1. InTime(td[y], Clock(y), wish[y], y \in lost) /\ (y \in lost => y \in lost')
        BY <1>1, <2>1 DEF Sound, Armed
      <4>2. CASE td[y].paused
        BY <4>1, <4>2 DEF InTime
      <4>3. CASE ~td[y].paused
        <5>1. OnTime(wish[y], Clock(y).due, Clock(y).period, Clock(y).fired)
          BY <4>1, <4>3 DEF InTime
        <5>2. OnTime(wish[y], Clock(y).due, Clock(y).period, 0)
          BY <3>2, <5>1, CallInTime
        <5>3. Clock(y).fired > 0 => y \in lost'
          BY <1>4, <2>4, <3>2
        <5>4. QED
          BY <1>3, <3>2, <4>1, <4>3, <5>2, <5>3 DEF InTime
      <4>4. QED
        BY <4>2, <4>3
    <3>5. QED
      BY <3>3, <3>4 DEF Sound
  <2>5. QED
    BY <2>3, <2>4
<1> QED
  BY <1>6, <1>8, <1>9, <1>10, <1>11, <1>12 DEF TimersInv
-----------------------------------------------------------------------------
(* What callbacks do with timers                                           *)

\* A step that changes one timer and its descriptor leaves the others sound.
LEMMA OneChanges ==
    ASSUME TimersInv, NEW x \in Timer, NEW f \in Fd,
           \A y \in Live \ {x} : td[y].fd # f,
           \A y \in Timer \ {x} : td'[y] = td[y] /\ wish'[y] = wish[y] /\ (y \in lost' <=> y \in lost),
           \A g \in Fd \ {f} : kernel'[g] = kernel[g],
           held' = held, batch' = batch, reset \subseteq reset'
    PROVE  \A y \in Timer \ {x} : Sound(y)'
<1> SUFFICES ASSUME NEW y \in Timer \ {x}
             PROVE  Sound(y)'
  OBVIOUS
<1>1. Sound(y)
  BY DEF TimersInv
<1>2. y \in Live => Clock(y)' = Clock(y)
  BY <1>1 DEF Sound, HasFd, Clock, Live
<1>3. td'[y] = td[y] /\ wish'[y] = wish[y] /\ (y \in lost' <=> y \in lost)
  OBVIOUS
<1> QED
  BY <1>1, <1>2, <1>3, Untouched

LEMMA SetTimeType ==
    ASSUME NEW due \in Nat, NEW period \in Nat
    PROVE  /\ SetTime(due, period) \in ClockType /\ SetTime(due, period).open
           /\ SetTime(due, period).due = due /\ SetTime(due, period).period = period
           /\ SetTime(due, period).fired = 0
BY DEF SetTime, ClockType

LEMMA NewStep ==
    ASSUME TimersInv, NEW x \in Timer, New(x)
    PROVE  TimersInv'
<1> DEFINE free == {f \in Fd : ~kernel[f].open}
           low == CHOOSE f \in free : \A g \in free : f <= g
           r == [NoTimer EXCEPT !.state = "live", !.fd = low]
<1>1. /\ td[x].state = "free" /\ free # {}
      /\ td' = [td EXCEPT ![x] = r]
      /\ kernel' = [kernel EXCEPT ![low] = SetTime(0, 0)]
      /\ wish' = [wish EXCEPT ![x] = NoWish]
      /\ lost' = lost \ {x}
      /\ UNCHANGED <<batch, running, held, early, reset>>
  BY DEF New
<1>2. low \in Fd /\ ~kernel[low].open
  <2>1. free \in SUBSET Nat
    BY FdType
  <2> HIDE DEF free
  <2>2. low \in free
    BY <1>1, <2>1, LowestExists
  <2>3. QED
    BY <2>2 DEF free
<1> HIDE DEF low, free
<1>3. low \in Nat
  BY <1>2, FdType
<1>4. /\ r \in TimerType /\ r.state = "live" /\ r.fd = low /\ ~r.armed /\ ~r.paused
      /\ r.backlog = 0
  BY <1>3 DEF NoTimer, TimerType
<1> HIDE DEF r
<1>5. NoWish \in WishType
  BY DEF NoWish, WishType
<1>6. SetTime(0, 0) \in ClockType /\ SetTime(0, 0).open /\ SetTime(0, 0).fired = 0
  BY SetTimeType
<1>7. x \notin batch /\ x \notin Live
  BY <1>1, TypesOf DEF Sound, Batched, Live
<1>8. \A y \in Live : td[y].fd # low
  BY <1>2, TypesOf DEF Sound, HasFd, Clock, Live
<1>9. TimersTypeOK'
  BY <1>1, <1>2, <1>4, <1>5, <1>6 DEF TimersInv, TimersTypeOK
<1>10. NotLate'
  BY <1>1, <1>2, <1>6, TimersAssumption DEF TimersInv, NotLate, TimersTypeOK
<1>11. /\ td'[x] = r /\ \A y \in Timer \ {x} : td'[y] = td[y] /\ wish'[y] = wish[y]
       /\ kernel'[low] = SetTime(0, 0) /\ \A g \in Fd \ {low} : kernel'[g] = kernel[g]
  BY <1>1, <1>2 DEF TimersInv, TimersTypeOK
<1>12. Live' = Live \cup {x}
  BY <1>4, <1>11 DEF Live
<1>13. OneTimerPerFd'
  <2>1. \A y, z \in Live' : td'[y].fd = td'[z].fd => y = z
    BY <1>4, <1>7, <1>8, <1>11, <1>12 DEF TimersInv, OneTimerPerFd, Live
  <2>2. \A y, z \in batch' : td'[y].fd = td'[z].fd => y = z
    BY <1>1, <1>7, <1>11 DEF TimersInv, OneTimerPerFd, TimersTypeOK
  <2>3. QED
    BY <2>1, <2>2 DEF OneTimerPerFd
<1>14. Sound(x)'
  <2>1. HasFd(x)'
    BY <1>2, <1>4, <1>6, <1>11 DEF HasFd, Clock
  <2>2. QED
    BY <1>1, <1>4, <1>7, <1>11, <2>1, IdleSound
<1>15. \A y \in Timer \ {x} : Sound(y)'
  BY <1>1, <1>2, <1>8, <1>11, OneChanges
<1> QED
  BY <1>1, <1>9, <1>10, <1>13, <1>14, <1>15 DEF TimersInv

LEMMA DelStep ==
    ASSUME TimersInv, NEW x \in Timer, Del(x)
    PROVE  TimersInv'
<1> DEFINE f == td[x].fd
           r == Unregister(td[x])
<1>1. /\ x \in Live
      /\ td' = [td EXCEPT ![x] = r]
      /\ kernel' = [kernel EXCEPT ![f] = NoClock]
      /\ wish' = [wish EXCEPT ![x] = NoWish]
      /\ lost' = lost \ {x}
      /\ UNCHANGED <<batch, running, held, early, reset>>
  BY DEF Del
<1>2. f \in Fd /\ td[x] \in TimerType /\ Sound(x)
  BY <1>1, TypesOf DEF Live
<1>3. /\ r \in TimerType /\ r.state = "deleted" /\ r.fd = f /\ ~r.armed /\ ~r.paused
      /\ r.backlog = 0
  BY <1>2 DEF Unregister, TimerType, Sound, Held
<1> HIDE DEF r
<1>4. NoWish \in WishType
  BY DEF NoWish, WishType
<1>5. NoClock \in ClockType /\ NoClock.fired = 0
  BY DEF NoClock, ClockType
<1>6. TimersTypeOK'
  BY <1>1, <1>2, <1>3, <1>4, <1>5 DEF TimersInv, TimersTypeOK
<1>7. NotLate'
  BY <1>1, <1>2, <1>5, TimersAssumption DEF TimersInv, NotLate, TimersTypeOK
<1>8. /\ td'[x] = r /\ \A y \in Timer \ {x} : td'[y] = td[y] /\ wish'[y] = wish[y]
      /\ \A g \in Fd \ {f} : kernel'[g] = kernel[g]
  BY <1>1, <1>2 DEF TimersInv, TimersTypeOK
<1>9. Live' = Live \ {x}
  BY <1>3, <1>8 DEF Live
<1>10. OneTimerPerFd'
  <2>1. \A y \in Timer : td'[y].fd = td[y].fd
    BY <1>3, <1>8
  <2>2. QED
    BY <1>1, <1>9, <2>1 DEF TimersInv, OneTimerPerFd, TimersTypeOK, Live
<1>11. Sound(x)'
  <2>1. HasFd(x)'
    BY <1>2, <1>3, <1>8, <1>9 DEF HasFd
  <2>2. QED
    BY <1>3, <1>8, <2>1, IdleSound
<1>12. \A y \in Live \ {x} : td[y].fd # f
  BY <1>1 DEF TimersInv, OneTimerPerFd
<1>13. \A y \in Timer \ {x} : Sound(y)'
  BY <1>1, <1>2, <1>8, <1>12, OneChanges
<1> QED
  BY <1>1, <1>6, <1>7, <1>10, <1>11, <1>13 DEF TimersInv

LEMMA ArmStep ==
    ASSUME TimersInv, NEW x \in Timer, NEW ms \in Nat, NEW repeat \in BOOLEAN,
           ms > 0 \/ ~repeat, Arm(x, ms, repeat)
    PROVE  TimersInv'
<1> DEFINE f == td[x].fd
           a == ms > 0
           p == IF repeat THEN ms ELSE 0
           r == [td[x] EXCEPT !.armed = a, !.paused = FALSE]
           w == [NoWish EXCEPT !.delay = ms, !.repeat = repeat, !.inHold = held]
           c == SetTime(ms, p)
<1>1. /\ x \in Live
      /\ td' = [td EXCEPT ![x] = r]
      /\ kernel' = [kernel EXCEPT ![f] = c]
      /\ wish' = [wish EXCEPT ![x] = w]
      /\ lost' = lost \ {x}
      /\ reset' = reset \cup {x}
      /\ UNCHANGED <<batch, running, held, early>>
  BY DEF Arm
<1>2. f \in Fd /\ td[x] \in TimerType /\ Sound(x) /\ held \in BOOLEAN
  BY <1>1, TypesOf DEF Live, TimersInv, TimersTypeOK
<1>3. /\ r \in TimerType /\ r.state = td[x].state /\ r.fd = f /\ r.armed = a /\ ~r.paused
      /\ r.backlog = 0
  <2>1. a \in BOOLEAN
    OBVIOUS
  <2> HIDE DEF a
  <2>2. QED
    BY <1>2, <2>1 DEF TimerType, Sound, Held
<1>4. p \in Nat
  OBVIOUS
<1>5. /\ w \in WishType /\ w.delay = ms /\ w.repeat = repeat /\ w.ran = 0 /\ ~w.done
      /\ w.inHold = held
  BY <1>2 DEF NoWish, WishType
<1>6. c \in ClockType /\ c.open /\ c.due = ms /\ c.period = p /\ c.fired = 0
  BY <1>4, SetTimeType
<1> HIDE DEF r, w, c
<1>7. TimersTypeOK'
  BY <1>1, <1>2, <1>3, <1>5, <1>6 DEF TimersInv, TimersTypeOK
<1>8. NotLate'
  BY <1>1, <1>2, <1>6, TimersAssumption DEF TimersInv, NotLate, TimersTypeOK
<1>9. /\ td'[x] = r /\ wish'[x] = w /\ kernel'[f] = c
      /\ \A y \in Timer \ {x} : td'[y] = td[y] /\ wish'[y] = wish[y]
      /\ \A g \in Fd \ {f} : kernel'[g] = kernel[g]
  BY <1>1, <1>2 DEF TimersInv, TimersTypeOK
<1>10. Live' = Live
  BY <1>3, <1>9 DEF Live
<1>11. OneTimerPerFd'
  <2>1. \A y \in Timer : td'[y].fd = td[y].fd
    BY <1>3, <1>9
  <2>2. QED
    BY <1>1, <1>10, <2>1 DEF TimersInv, OneTimerPerFd, TimersTypeOK, Live
<1>12. Sound(x)'
  <2>1. Clock(x)' = c
    BY <1>3, <1>9 DEF Clock
  <2>2. HasFd(x)'
    BY <1>2, <1>3, <1>6, <1>9, <2>1 DEF HasFd
  <2>3. Held(x)'
    BY <1>1, <1>3, <1>5, <1>9 DEF Held
  <2>4. Batched(x)'
    BY <1>1, <1>2, <1>3, <1>9 DEF Batched, Sound
  <2>5. Armed(x)'
    <3> SUFFICES ASSUME a
                 PROVE  InTime(r, c, w, x \in lost')
      BY <1>1, <1>3, <1>9, <1>10, <2>1 DEF Armed
    <3>1. 0 * ms = 0
      BY Times
    <3>2. OnTime(w, c.due, c.period, c.fired)
      <4>1. w.ran + ms >= 0 * ms + ms
        BY <1>5, <3>1
      <4>2. p = IF w.repeat THEN w.delay ELSE 0
        BY <1>5
      <4>3. ms > 0 /\ ms <= ms /\ ~(ms = 0)
        OBVIOUS
      <4> HIDE DEF p, a
      <4>4. OnTime(w, ms, p, 0)
        BY <1>5, <4>1, <4>2, <4>3 DEF OnTime
      <4>5. QED
        BY <1>6, <4>4
    <3>3. c.due > 0
      BY <1>6
    <3>4. QED
      BY <1>3, <3>2, <3>3 DEF InTime
  <2>6. QED
    BY <2>2, <2>3, <2>4, <2>5 DEF Sound
<1>13. \A y \in Live \ {x} : td[y].fd # f
  BY <1>1 DEF TimersInv, OneTimerPerFd
<1>14. \A y \in Timer \ {x} : Sound(y)'
  BY <1>1, <1>2, <1>9, <1>13, OneChanges
<1> QED
  BY <1>1, <1>7, <1>8, <1>11, <1>12, <1>14 DEF TimersInv

\* Only the delay, the repetition and the time that was run matter.
LEMMA SameWish ==
    ASSUME NEW w, NEW v, v.delay = w.delay, v.repeat = w.repeat, v.ran = w.ran,
           NEW due, NEW period, NEW fired, OnTime(w, due, period, fired)
    PROVE  OnTime(v, due, period, fired)
BY DEF OnTime

LEMMA PauseStep ==
    ASSUME TimersInv, PauseTimers
    PROVE  TimersInv'
<1> DEFINE paused == {x \in LevelTimers : ~td[x].paused}
           P(x) == [td[x] EXCEPT !.paused = TRUE, !.backlog = 0,
                                 !.resumeDue = kernel[td[x].fd].due,
                                 !.resumePeriod = kernel[td[x].fd].period]
           v(x) == [wish[x] EXCEPT !.inHold = FALSE]
<1>1. /\ ~held /\ held' = TRUE
      /\ td' = [x \in Timer |-> IF x \notin paused THEN td[x] ELSE P(x)]
      /\ kernel' = [f \in Fd |-> IF \E x \in paused : td[x].fd = f
                                 THEN PausedClock(kernel[f]) ELSE kernel[f]]
      /\ lost' = lost \cup {x \in paused : td[x].armed /\ Count(x) > 0}
      /\ wish' = [x \in Timer |-> v(x)]
      /\ UNCHANGED <<batch, running, early, reset>>
  BY DEF PauseTimers
<1>2. paused = LevelTimers
  <2>1. \A x \in LevelTimers : ~td[x].paused
    BY <1>1, TypesOf DEF Sound, Held, LevelTimers, Live
  <2>2. QED
    BY <2>1
<1>3. LevelTimers \subseteq Live /\ Live \subseteq Timer
  BY DEF LevelTimers, Live
<1>4. ASSUME NEW x \in LevelTimers
      PROVE  /\ P(x) \in TimerType /\ P(x).state = "live" /\ P(x).fd = td[x].fd
             /\ P(x).armed = td[x].armed /\ P(x).paused /\ P(x).backlog = 0
             /\ P(x).resumeDue = Clock(x).due /\ P(x).resumePeriod = Clock(x).period
  <2> DEFINE due == kernel[td[x].fd].due
             period == kernel[td[x].fd].period
             r == td[x]
  <2>1. r \in TimerType /\ r.state = "live" /\ due \in Nat /\ period \in Nat
    BY <1>3, TypesOf DEF Live, Clock, ClockType
  <2>2. due = Clock(x).due /\ period = Clock(x).period
    BY DEF Clock
  <2> DEFINE q == [r EXCEPT !.paused = TRUE, !.backlog = 0, !.resumeDue = due,
                            !.resumePeriod = period]
  <2>3. P(x) = q
    OBVIOUS
  <2> HIDE DEF due, period, r
  <2>4. /\ q \in TimerType /\ q.state = r.state /\ q.fd = r.fd /\ q.armed = r.armed
        /\ q.paused /\ q.backlog = 0 /\ q.resumeDue = due /\ q.resumePeriod = period
    BY <2>1 DEF TimerType
  <2> HIDE DEF q, P
  <2>5. QED
    BY <2>1, <2>2, <2>3, <2>4 DEF r
<1>5. \A x \in Timer : /\ v(x) \in WishType /\ v(x).delay = wish[x].delay
                       /\ v(x).repeat = wish[x].repeat /\ v(x).ran = wish[x].ran
                       /\ v(x).done = wish[x].done
  <2> SUFFICES ASSUME NEW x \in Timer
               PROVE  /\ v(x) \in WishType /\ v(x).delay = wish[x].delay
                      /\ v(x).repeat = wish[x].repeat /\ v(x).ran = wish[x].ran
                      /\ v(x).done = wish[x].done
    OBVIOUS
  <2>1. wish[x] \in WishType
    BY TypesOf
  <2>2. QED
    BY <2>1 DEF WishType
<1> HIDE DEF P, v, paused
<1>6. /\ \A x \in LevelTimers : td'[x] = P(x)
      /\ \A x \in Timer \ LevelTimers : td'[x] = td[x]
      /\ \A x \in Timer : wish'[x] = v(x)
  BY <1>1, <1>2, <1>3
<1>7. \A c : PausedClock(c) \in ClockType /\ PausedClock(c).due = 0 /\ PausedClock(c).fired = 0
             /\ PausedClock(c).open
  BY SetTimeType DEF PausedClock
<1>8. TimersTypeOK'
  <2>1. \A x \in Timer : td'[x] \in TimerType /\ wish'[x] \in WishType
    BY <1>4, <1>5, <1>6, TypesOf
  <2>2. td' \in [Timer -> TimerType] /\ wish' \in [Timer -> WishType]
    BY <1>1, <2>1
  <2>3. kernel' \in [Fd -> ClockType]
    BY <1>1, <1>7 DEF TimersInv, TimersTypeOK
  <2>4. lost' \subseteq Timer
    BY <1>1, <1>2, <1>3 DEF TimersInv, TimersTypeOK
  <2>5. QED
    BY <1>1, <2>2, <2>3, <2>4 DEF TimersInv, TimersTypeOK
<1>9. NotLate'
  BY <1>1, <1>7, TimersAssumption DEF TimersInv, NotLate
<1>10. \A x \in Timer : td'[x].state = td[x].state /\ td'[x].fd = td[x].fd
  BY <1>4, <1>6 DEF LevelTimers, Live
<1>11. Live' = Live /\ LevelTimers' = LevelTimers
  BY <1>10 DEF Live, LevelTimers
<1>12. OneTimerPerFd'
  BY <1>1, <1>3, <1>10, <1>11 DEF TimersInv, OneTimerPerFd, TimersTypeOK
<1>13. ASSUME NEW x \in LevelTimers
       PROVE  Sound(x)'
  <2>1. /\ x \in Live /\ x \in Timer /\ td[x].fd \in Fd /\ Clock(x) \in ClockType
        /\ Sound(x) /\ wish[x] \in WishType /\ ~td[x].paused
    BY <1>1, <1>3, TypesOf DEF Live, Sound, Held
  <2>2. Clock(x)' = PausedClock(Clock(x))
    BY <1>1, <1>2, <1>10, <2>1 DEF Clock
  <2>3. /\ td'[x].paused /\ td'[x].backlog = 0 /\ td'[x].state = "live"
        /\ td'[x].fd = td[x].fd
    BY <1>4, <1>6
  <2>4. Clock(x)'.open /\ Clock(x)'.due = 0 /\ Clock(x)'.fired = 0
    BY <1>7, <2>2
  <2>5. HasFd(x)'
    BY <2>1, <2>3, <2>4 DEF HasFd
  <2>6. Held(x)'
    BY <1>1, <1>11, <2>3, <2>4 DEF Held
  <2>7. Batched(x)'
    BY <2>3 DEF Batched
  <2>8. Armed(x)'
    <3> SUFFICES ASSUME td[x].armed
                 PROVE  InTime(P(x), Clock(x)', wish'[x], x \in lost')
      BY <1>4, <1>6, <1>11, <2>1 DEF Armed
    <3>1. /\ OnTime(wish[x], Clock(x).due, Clock(x).period, Clock(x).fired)
          /\ wish[x].done \/ x \in lost \/ Clock(x).due > 0 \/ Clock(x).fired > 0
      BY <2>1 DEF Sound, Armed, InTime
    <3>2. OnTime(wish[x], Clock(x).due, Clock(x).period, 0)
      BY <2>1, <3>1, CallInTime
    <3>3. OnTime(wish'[x], Clock(x).due, Clock(x).period, 0)
      BY <1>5, <1>6, <2>1, <3>2, SameWish
    <3>4. wish'[x].done \/ x \in lost' \/ Clock(x).due > 0
      BY <1>1, <1>2, <1>5, <1>6, <2>1, <3>1 DEF Count, Clock
    <3>5. QED
      BY <1>4, <3>3, <3>4 DEF InTime
  <2>9. QED
    BY <2>5, <2>6, <2>7, <2>8 DEF Sound
<1>14. ASSUME NEW x \in Timer, x \notin LevelTimers
       PROVE  Sound(x)'
  <2>1. Sound(x) /\ td'[x] = td[x] /\ x \notin LevelTimers' /\ ~td[x].paused
    BY <1>6, <1>11, <1>14 DEF TimersInv, Sound, Held
  <2>2. x \in Live => Clock(x)' = Clock(x)
    <3> SUFFICES ASSUME x \in Live
                 PROVE  Clock(x)' = Clock(x)
      OBVIOUS
    <3>1. \A y \in LevelTimers : td[y].fd # td[x].fd
      BY <1>3, <1>14 DEF TimersInv, OneTimerPerFd
    <3>2. td[x].fd \in Fd
      BY <2>1 DEF Sound, HasFd, Live
    <3>3. QED
      BY <1>1, <1>2, <2>1, <3>1, <3>2 DEF Clock
  <2>3. HasFd(x)' /\ Held(x)' /\ Batched(x)'
    BY <1>1, <1>11, <2>1, <2>2 DEF Sound, HasFd, Held, Batched
  <2>4. Armed(x)'
    <3> SUFFICES ASSUME td[x].armed
                 PROVE  InTime(td[x], Clock(x)', wish'[x], x \in lost')
      BY <1>11, <2>1 DEF Armed, Sound
    <3>1. /\ OnTime(wish[x], Clock(x).due, Clock(x).period, Clock(x).fired)
          /\ wish[x].done \/ x \in lost \/ Clock(x).due > 0 \/ Clock(x).fired > 0
          /\ x \in Live
      BY <2>1 DEF Sound, Armed, InTime
    <3>2. OnTime(wish'[x], Clock(x).due, Clock(x).period, Clock(x).fired)
      BY <1>5, <1>6, <3>1, SameWish
    <3>3. QED
      BY <1>1, <1>5, <1>6, <2>1, <2>2, <3>1, <3>2 DEF InTime
  <2>5. QED
    BY <2>3, <2>4 DEF Sound
<1> QED
  BY <1>1, <1>8, <1>9, <1>12, <1>13, <1>14 DEF TimersInv

LEMMA ResumeStep ==
    ASSUME TimersInv, ResumeTimers
    PROVE  TimersInv'
<1> DEFINE paused == {x \in LevelTimers : td[x].paused}
           told == {x \in paused : td[x].backlog > 0}
           R(x) == [td[x] EXCEPT !.paused = FALSE]
<1>1. /\ held' = FALSE
      /\ td' = [x \in Timer |-> IF x \in paused THEN R(x) ELSE td[x]]
      /\ kernel' = [f \in Fd |->
                      IF \E x \in paused : td[x].fd = f
                      THEN ResumedClock(td[CHOOSE x \in paused : td[x].fd = f])
                      ELSE kernel[f]]
      /\ early' = early \cup {x \in told : wish[x].ran < td[x].backlog * wish[x].delay}
      /\ reset' = reset \cup paused
      /\ UNCHANGED <<batch, running, wish, lost>>
  BY DEF ResumeTimers
<1>2. told = {} /\ early' = {}
  <2>1. \A x \in paused : td[x].backlog = 0
    BY TypesOf DEF Sound, Held, LevelTimers, Live
  <2>2. told = {}
    BY <2>1
  <2>3. QED
    BY <1>1, <2>2 DEF TimersInv
<1>3. /\ paused \subseteq Live /\ Live \subseteq Timer
      /\ \A x \in Timer \ paused : ~td[x].paused
  BY TypesOf DEF LevelTimers, Live, Sound, Held
<1>4. ASSUME NEW x \in paused
      PROVE  /\ R(x) \in TimerType /\ R(x).state = td[x].state /\ R(x).fd = td[x].fd
             /\ R(x).armed = td[x].armed /\ ~R(x).paused /\ R(x).backlog = 0
  <2> DEFINE r == td[x]
  <2>1. r \in TimerType /\ r.backlog = 0
    BY <1>3, TypesOf DEF Sound, Held
  <2> HIDE DEF r
  <2>2. LET q == [r EXCEPT !.paused = FALSE]
        IN /\ q \in TimerType /\ q.state = r.state /\ q.fd = r.fd
           /\ q.armed = r.armed /\ ~q.paused /\ q.backlog = 0
    BY <2>1 DEF TimerType
  <2>3. QED
    BY <2>2 DEF r
<1> HIDE DEF paused, told, R
<1>5. ASSUME NEW x \in paused
      PROVE  (CHOOSE y \in paused : td[y].fd = td[x].fd) = x
  BY <1>3 DEF TimersInv, OneTimerPerFd
<1>6. ASSUME NEW x \in paused
      PROVE  /\ kernel'[td[x].fd] = SetTime(td[x].resumeDue, td[x].resumePeriod)
             /\ td[x].resumeDue \in Nat /\ td[x].resumePeriod \in Nat /\ td[x].fd \in Fd
  <2>1. td[x] \in TimerType /\ td[x].fd \in Fd
    BY <1>3, TypesOf DEF Live
  <2>2. kernel'[td[x].fd] = ResumedClock(td[CHOOSE y \in paused : td[y].fd = td[x].fd])
    BY <1>1, <2>1
  <2>3. kernel'[td[x].fd] = ResumedClock(td[x])
    BY <1>5, <2>2
  <2>4. QED
    BY <2>1, <2>3 DEF ResumedClock, TimerType
<1>7. \A f \in Fd : \/ kernel'[f] = kernel[f] /\ \A x \in paused : td[x].fd # f
                    \/ \E x \in paused : td[x].fd = f
  BY <1>1
<1>8. /\ \A x \in paused : td'[x] = R(x)
      /\ \A x \in Timer \ paused : td'[x] = td[x]
  BY <1>1, <1>3
<1>9. \A f \in Fd : kernel'[f] \in ClockType /\ kernel'[f].fired <= LateMax
  <2> SUFFICES ASSUME NEW f \in Fd
               PROVE  kernel'[f] \in ClockType /\ kernel'[f].fired <= LateMax
    OBVIOUS
  <2>1. CASE \E x \in paused : td[x].fd = f
    <3>1. PICK x \in paused : td[x].fd = f
      BY <2>1
    <3>2. QED
      BY <1>6, <3>1, SetTimeType, TimersAssumption
  <2>2. CASE kernel'[f] = kernel[f]
    BY <2>2 DEF TimersInv, TimersTypeOK, NotLate
  <2>3. QED
    BY <1>7, <2>1, <2>2
<1>10. TimersTypeOK'
  <2>1. \A x \in Timer : td'[x] \in TimerType
    BY <1>4, <1>8, TypesOf
  <2>2. td' \in [Timer -> TimerType]
    BY <1>1, <2>1
  <2>3. kernel' \in [Fd -> ClockType]
    <3> DEFINE k(f) == IF \E x \in paused : td[x].fd = f
                       THEN ResumedClock(td[CHOOSE x \in paused : td[x].fd = f])
                       ELSE kernel[f]
    <3>1. kernel' = [f \in Fd |-> k(f)]
      BY <1>1
    <3> HIDE DEF k
    <3>2. QED
      BY <1>9, <3>1
  <2>4. reset' \subseteq Timer
    BY <1>1, <1>3 DEF TimersInv, TimersTypeOK
  <2>5. QED
    BY <1>1, <1>2, <2>2, <2>3, <2>4 DEF TimersInv, TimersTypeOK
<1>11. NotLate'
  BY <1>9 DEF NotLate
<1>12. \A x \in Timer : td'[x].state = td[x].state /\ td'[x].fd = td[x].fd
  BY <1>4, <1>8
<1>13. Live' = Live /\ LevelTimers' = LevelTimers
  BY <1>12 DEF Live, LevelTimers
<1>14. OneTimerPerFd'
  BY <1>1, <1>3, <1>12, <1>13 DEF TimersInv, OneTimerPerFd, TimersTypeOK
<1>15. ASSUME NEW x \in paused
       PROVE  Sound(x)'
  <2>1. /\ x \in Live /\ x \in Timer /\ Sound(x) /\ td[x].paused
    BY <1>3, TypesOf DEF paused
  <2>2. Clock(x)' = SetTime(td[x].resumeDue, td[x].resumePeriod)
    BY <1>6, <1>12, <2>1 DEF Clock
  <2>3. /\ Clock(x)'.open /\ Clock(x)'.due = td[x].resumeDue
        /\ Clock(x)'.period = td[x].resumePeriod /\ Clock(x)'.fired = 0
    BY <1>6, <2>2, SetTimeType
  <2>4. HasFd(x)' /\ Held(x)' /\ Batched(x)'
    BY <1>1, <1>4, <1>6, <1>8, <1>12, <1>13, <2>1, <2>3 DEF HasFd, Held, Batched, Sound
  <2>5. Armed(x)'
    BY <1>1, <1>4, <1>8, <1>13, <2>1, <2>3 DEF Sound, Armed, InTime
  <2>6. QED
    BY <2>4, <2>5 DEF Sound
<1>16. ASSUME NEW x \in Timer, x \notin paused
       PROVE  Sound(x)'
  <2>1. Sound(x) /\ td'[x] = td[x] /\ ~td[x].paused
    BY <1>3, <1>8, <1>16 DEF TimersInv
  <2>2. x \in Live => Clock(x)' = Clock(x)
    <3> SUFFICES ASSUME x \in Live
                 PROVE  Clock(x)' = Clock(x)
      OBVIOUS
    <3>1. \A y \in paused : td[y].fd # td[x].fd
      BY <1>3, <1>16 DEF TimersInv, OneTimerPerFd
    <3>2. td[x].fd \in Fd
      BY <2>1 DEF Sound, HasFd, Live
    <3>3. QED
      BY <1>7, <2>1, <3>1, <3>2 DEF Clock
  <2>3. HasFd(x)' /\ Held(x)' /\ Batched(x)'
    BY <1>1, <1>13, <2>1, <2>2 DEF Sound, HasFd, Held, Batched
  <2>4. Armed(x)'
    BY <1>1, <1>13, <2>1, <2>2 DEF Sound, Armed
  <2>5. QED
    BY <2>3, <2>4 DEF Sound
<1> QED
  BY <1>2, <1>10, <1>11, <1>14, <1>15, <1>16 DEF TimersInv
-----------------------------------------------------------------------------
(* The theorems                                                            *)

LEMMA TimersInitInv == TimersInit => TimersInv
<1> SUFFICES ASSUME TimersInit
             PROVE  TimersInv
  OBVIOUS
<1>1. /\ td = [x \in Timer |-> NoTimer] /\ kernel = [f \in Fd |-> NoClock]
      /\ batch = {} /\ running = FALSE /\ held = FALSE
      /\ wish = [x \in Timer |-> NoWish] /\ early = {} /\ lost = {} /\ reset = {}
  BY DEF TimersInit
<1>2. /\ NoTimer \in TimerType /\ NoClock \in ClockType /\ NoWish \in WishType
      /\ NoTimer.state = "free" /\ ~NoTimer.armed /\ ~NoTimer.paused
      /\ NoTimer.backlog = 0 /\ NoClock.fired = 0
  BY DEF NoTimer, NoClock, NoWish, TimerType, ClockType, WishType
<1>3. TimersTypeOK
  BY <1>1, <1>2 DEF TimersTypeOK
<1>4. NotLate
  BY <1>1, <1>2, TimersAssumption DEF NotLate
<1>5. Live = {}
  BY <1>1, <1>2 DEF Live
<1>6. OneTimerPerFd
  BY <1>1, <1>5 DEF OneTimerPerFd
<1>7. \A x \in Timer : Sound(x)
  BY <1>1, <1>2, <1>5 DEF Sound, Armed, Held, HasFd, Batched
<1> QED
  BY <1>1, <1>3, <1>4, <1>6, <1>7 DEF TimersInv

LEMMA TimersNextInv == TimersInv /\ [TimersNext]_timers => TimersInv'
<1> SUFFICES ASSUME TimersInv, [TimersNext]_timers
             PROVE  TimersInv'
  OBVIOUS
<1>1. CASE TimersTick
  BY <1>1, TickStep
<1>2. CASE EpollWait
  BY <1>2, EpollWaitStep
<1>3. CASE EndBatch
  BY <1>3, EndBatchStep
<1>4. ASSUME NEW x \in Timer, TimerCb(x)
      PROVE  TimersInv'
  BY <1>4, TimerCbStep
<1>5. CASE PauseTimers
  BY <1>5, PauseStep
<1>6. CASE ResumeTimers
  BY <1>6, ResumeStep
<1>7. ASSUME NEW x \in Timer, New(x)
      PROVE  TimersInv'
  BY <1>7, NewStep
<1>8. ASSUME NEW x \in Timer, Del(x)
      PROVE  TimersInv'
  BY <1>8, DelStep
<1>9. ASSUME NEW x \in Timer, Arm(x, 0, FALSE)
      PROVE  TimersInv'
  BY <1>9, ArmStep
<1>10. ASSUME NEW x \in Timer, NEW ms \in Delays, NEW repeat \in BOOLEAN, Arm(x, ms, repeat)
       PROVE  TimersInv'
  <2>1. ms \in Nat /\ ms > 0
    BY TimersAssumption
  <2>2. QED
    BY <1>10, <2>1, ArmStep
<1>11. CASE UNCHANGED timers
  BY <1>11 DEF timers, TimersInv, TimersTypeOK, OneTimerPerFd, NotLate, Sound, Armed, Held, HasFd,
               Batched, Live, LevelTimers, Clock, InTime, OnTime
<1> QED
  BY <1>1, <1>2, <1>3, <1>4, <1>5, <1>6, <1>7, <1>8, <1>9, <1>10, <1>11
     DEF TimersNext, Loop, Program

\* The kernel's clock and what the program asked for never come apart.
THEOREM TimersInvariant == TimersSpec => []TimersInv
<1>1. QED
  BY TimersInitInv, TimersNextInv, PTL DEF TimersSpec

\* No event of epoll_wait is dispatched to a timer that release_deleted freed,
\* whatever the callbacks before it delete (event.c:299-302, 265).
THEOREM NoneFreed == TimersSpec => []NoFreedTimer
<1>1. TimersInv => NoFreedTimer
  BY DEF TimersInv, TimersTypeOK, Sound, Batched, NoFreedTimer
<1>2. QED
  BY <1>1, TimersInvariant, PTL

\* timer_cb never reports more expirations than there was time for, nor any in a
\* hold to a timer that was not armed in it; it calls back with a count of 0, and so
\* too early, only for a stale event of a timer that was armed or resumed since the
\* event was collected (event.c:333-340).
THEOREM NoneEarly == TimersSpec => []NeverEarly
<1>1. TimersInv => NeverEarly
  BY DEF TimersInv, NeverEarly
<1>2. QED
  BY <1>1, TimersInvariant, PTL

\* A timer that is armed and not paused will be called, unless an expiration was
\* discarded.
THEOREM Promised == TimersSpec => []FiresUnlessLost
<1>1. TimersInv => FiresUnlessLost
  <2> SUFFICES ASSUME TimersInv, NEW x \in Timer, Awaited(x), x \notin lost
               PROVE  Coming(x)
    BY DEF FiresUnlessLost
  <2>1. QED
    BY TypesOf DEF Awaited, Coming, Sound, Armed, InTime, Clock
<1>2. QED
  BY <1>1, TimersInvariant, PTL

-----------------------------------------------------------------------------
(* The table of descriptors: entries, chains and what is deleted             *)

Hashes == 0..(HashSize - 1)

EntryType ==
    [state : {"unused", "hashed", "deleted"},
     kind : {"none", "timer", "socket", "limit"}, fd : FdNumbers,
     limit : Entry \cup {None}, shut : BOOLEAN]

Table == [Entry -> EntryType]
ChainType == [Hashes -> Seq(Entry)]

FdTableTypeOK ==
    /\ fdd \in Table /\ chain \in ChainType /\ doomed \in Seq(Entry)
    /\ opened \subseteq FdNumbers /\ polled \in [FdNumbers -> Entry \cup {None}]
    /\ phase \in {"callbacks", "release", "wait"}

\* What is hashed is in the chain of its number, once, and nothing else is.
Chained(t, c) ==
    /\ \A h \in Hashes : \A i \in 1..Len(c[h]) :
           t[c[h][i]].state = "hashed" /\ Hash(t[c[h][i]].fd) = h
    /\ \A h \in Hashes : \A i, j \in 1..Len(c[h]) : c[h][i] = c[h][j] => i = j
    /\ \A x \in Entry : t[x].state = "hashed" =>
           \E i \in 1..Len(c[Hash(t[x].fd)]) : c[Hash(t[x].fd)][i] = x

Doomed ==
    /\ \A i, j \in 1..Len(doomed) : doomed[i] = doomed[j] => i = j
    /\ \A i \in 1..Len(doomed) : fdd[doomed[i]].state = "deleted"
    /\ \A x \in Entry : fdd[x].state = "deleted" => \E i \in 1..Len(doomed) : doomed[i] = x

\* Epoll watches what is hashed; what is deleted keeps a descriptor it will close.
Numbers ==
    /\ \A x \in Entry : fdd[x].state = "hashed" => fdd[x].fd \in opened /\ polled[fdd[x].fd] = x
    /\ \A f \in FdNumbers : polled[f] # None =>
           polled[f] \in Entry /\ fdd[polled[f]].state = "hashed" /\ fdd[polled[f]].fd = f
    /\ \A x \in Entry : fdd[x].state = "deleted" /\ fdd[x].shut =>
           fdd[x].fd \in opened /\ polled[fdd[x].fd] = None
    /\ \A x, y \in Entry :
           /\ fdd[x].state = "deleted" /\ fdd[x].shut
           /\ fdd[y].state = "deleted" /\ fdd[y].shut
           /\ fdd[x].fd = fdd[y].fd
           => x = y

\* The timer of a rate limit is hashed as long as its socket is not released.
Limits ==
    \A x \in Entry : fdd[x].limit # None =>
        /\ fdd[x].kind = "socket" /\ fdd[x].shut /\ fdd[x].state # "unused"
        /\ fdd[fdd[x].limit].state = "hashed" /\ fdd[fdd[x].limit].kind = "limit"
        /\ \A y \in Entry : fdd[y].limit = fdd[x].limit => y = x

Kinds ==
    \A x \in Entry : /\ fdd[x].kind # "socket" => fdd[x].limit = None /\ ~fdd[x].shut
                     /\ fdd[x].state = "unused" => fdd[x] = Unused

FdTableInv == /\ FdTableTypeOK /\ Chained(fdd, chain) /\ Doomed /\ Numbers /\ Limits /\ Kinds
       /\ OnlyLimitsLeak
-----------------------------------------------------------------------------
(* Numbers and sequences                                                   *)

LEMMA LowestIs ==
    ASSUME NEW S \in SUBSET Nat, S # {}
    PROVE  Lowest(S) \in S
BY LowestExists DEF Lowest

LEMMA HashType ==
    ASSUME NEW fd \in FdNumbers
    PROVE  Hash(fd) \in Hashes /\ fd \in Nat
BY FdTableAssumption DEF Hash, Hashes, FdNumbers

\* A link is taken out of a chain.
LEMMA RemovedAt ==
    ASSUME NEW S, NEW s \in Seq(S), NEW k \in 1..Len(s)
    PROVE  /\ RemoveAt(s, k) \in Seq(S) /\ Len(RemoveAt(s, k)) = Len(s) - 1
           /\ \A i \in 1..(k - 1) : RemoveAt(s, k)[i] = s[i]
           /\ \A i \in k..(Len(s) - 1) : RemoveAt(s, k)[i] = s[i + 1]
<1> DEFINE a == SubSeq(s, 1, k - 1)
           b == SubSeq(s, k + 1, Len(s))
<1>1. Len(s) \in Nat /\ k \in Nat /\ 1 <= k /\ k <= Len(s)
  OBVIOUS
<1>2. /\ a \in Seq(S) /\ Len(a) = k - 1 /\ \A i \in 1..(k - 1) : a[i] = s[i]
  <2>1. \A i \in 1..(k - 1) : s[i] \in S
    BY <1>1
  <2>2. QED
    BY <1>1, <2>1, SubSeqProperties
<1>3. /\ b \in Seq(S) /\ Len(b) = Len(s) - k /\ \A i \in 1..(Len(s) - k) : b[i] = s[k + i]
  BY <1>1, SubSeqProperties
<1>4. RemoveAt(s, k) = a \o b
  BY DEF RemoveAt
<1> HIDE DEF a, b
<1>5. RemoveAt(s, k) \in Seq(S) /\ Len(RemoveAt(s, k)) = Len(s) - 1
  <2>1. a \o b \in Seq(S) /\ Len(a \o b) = Len(a) + Len(b)
    BY <1>2, <1>3, ConcatProperties
  <2>2. (k - 1) + (Len(s) - k) = Len(s) - 1
    BY <1>1
  <2>3. QED
    BY <1>2, <1>3, <1>4, <2>1, <2>2
<1>6. \A i \in 1..(k - 1) : RemoveAt(s, k)[i] = s[i]
  BY <1>1, <1>2, <1>3, <1>4, ConcatProperties
<1>7. ASSUME NEW i \in k..(Len(s) - 1)
      PROVE  RemoveAt(s, k)[i] = s[i + 1]
  <2>1. i \in 1..(Len(a) + Len(b)) /\ i > Len(a)
    BY <1>1, <1>2, <1>3
  <2>2. (a \o b)[i] = b[i - Len(a)]
    BY <1>2, <1>3, <2>1, ConcatProperties
  <2>3. i - (k - 1) \in 1..(Len(s) - k) /\ k + (i - (k - 1)) = i + 1
    BY <1>1
  <2>4. QED
    BY <1>2, <1>3, <1>4, <2>2, <2>3
<1>8. QED
  BY <1>5, <1>6, <1>7
-----------------------------------------------------------------------------
(* Chains                                                                  *)

\* event_add_fd
LEMMA LinkedChain ==
    ASSUME NEW t \in Table, NEW c \in ChainType, Chained(t, c),
           NEW x \in Entry, t[x].state # "hashed",
           NEW fd \in FdNumbers,
           NEW u \in Table, u[x].state = "hashed", u[x].fd = fd,
           \A y \in Entry \ {x} : u[y].state = t[y].state /\ u[y].fd = t[y].fd
    PROVE  Linked(c, x, fd) \in ChainType /\ Chained(u, Linked(c, x, fd))
<1> DEFINE h == Hash(fd)
           s == c[h]
           d == Linked(c, x, fd)
<1>1. h \in Hashes /\ s \in Seq(Entry) /\ Len(s) \in Nat
  BY HashType DEF ChainType
<1>2. d = [c EXCEPT ![h] = Append(s, x)]
  BY DEF Linked
<1>3. /\ Append(s, x) \in Seq(Entry) /\ Len(Append(s, x)) = Len(s) + 1
      /\ \A i \in 1..Len(s) : Append(s, x)[i] = s[i]
      /\ Append(s, x)[Len(s) + 1] = x
  BY <1>1, AppendProperties
<1>4. d \in ChainType /\ d[h] = Append(s, x) /\ \A g \in Hashes \ {h} : d[g] = c[g]
  BY <1>1, <1>2, <1>3 DEF ChainType
<1>5. \A i \in 1..Len(s) : s[i] # x /\ s[i] \in Entry
  BY <1>1 DEF Chained
<1>6. \A g \in Hashes \ {h} : \A i \in 1..Len(c[g]) : c[g][i] # x /\ c[g][i] \in Entry
  BY DEF Chained, ChainType
<1> HIDE DEF s, d
<1>7. \A g \in Hashes : \A i \in 1..Len(d[g]) : u[d[g][i]].state = "hashed" /\ Hash(u[d[g][i]].fd) = g
  <2> SUFFICES ASSUME NEW g \in Hashes, NEW i \in 1..Len(d[g])
               PROVE  u[d[g][i]].state = "hashed" /\ Hash(u[d[g][i]].fd) = g
    OBVIOUS
  <2>1. CASE g # h
    <3>1. d[g][i] = c[g][i] /\ i \in 1..Len(c[g])
      BY <1>4, <2>1
    <3>2. c[g][i] \in Entry \ {x} /\ t[c[g][i]].state = "hashed" /\ Hash(t[c[g][i]].fd) = g
      BY <1>6, <2>1, <3>1 DEF Chained
    <3>3. QED
      BY <3>1, <3>2
  <2>2. CASE g = h /\ i = Len(s) + 1
    <3>1. d[g][i] = x
      BY <1>3, <1>4, <2>2
    <3>2. QED
      BY <2>2, <3>1
  <2>3. CASE g = h /\ i \in 1..Len(s)
    <3>1. d[g][i] = s[i] /\ s[i] \in Entry \ {x}
      BY <1>3, <1>4, <1>5, <2>3
    <3>2. t[s[i]].state = "hashed" /\ Hash(t[s[i]].fd) = h
      BY <1>1, <2>3 DEF Chained, s
    <3>3. QED
      BY <2>3, <3>1, <3>2
  <2>4. QED
    BY <1>1, <1>3, <1>4, <2>1, <2>2, <2>3
<1>8. \A g \in Hashes : \A i, j \in 1..Len(d[g]) : d[g][i] = d[g][j] => i = j
  <2> SUFFICES ASSUME NEW g \in Hashes, NEW i \in 1..Len(d[g]), NEW j \in 1..Len(d[g]),
                      d[g][i] = d[g][j]
               PROVE  i = j
    OBVIOUS
  <2>1. CASE g # h
    BY <1>4, <2>1 DEF Chained
  <2>2. CASE g = h
    <3>1. /\ i \in 1..Len(s) \/ i = Len(s) + 1
          /\ j \in 1..Len(s) \/ j = Len(s) + 1
      BY <1>1, <1>3, <1>4, <2>2
    <3>2. \A k, l \in 1..Len(s) : s[k] = s[l] => k = l
      BY <1>1 DEF Chained, s
    <3>3. QED
      BY <1>3, <1>4, <1>5, <2>2, <3>1, <3>2, SMTT(30)
  <2>3. QED
    BY <2>1, <2>2
<1>9. ASSUME NEW y \in Entry, u[y].state = "hashed"
      PROVE  \E i \in 1..Len(d[Hash(u[y].fd)]) : d[Hash(u[y].fd)][i] = y
  <2>1. CASE y = x
    <3>1. Len(s) + 1 \in 1..Len(d[h]) /\ d[h][Len(s) + 1] = x
      BY <1>1, <1>3, <1>4
    <3>2. QED
      BY <2>1, <3>1
  <2>2. CASE y # x
    <3> DEFINE g == Hash(u[y].fd)
    <3>1. g = Hash(t[y].fd) /\ t[y].state = "hashed" /\ t[y].fd \in FdNumbers
      BY <1>9, <2>2 DEF Table, EntryType
    <3>2. PICK i \in 1..Len(c[g]) : c[g][i] = y
      BY <3>1 DEF Chained
    <3>3. g \in Hashes
      BY <3>1, HashType
    <3> HIDE DEF g
    <3>4. i \in 1..Len(d[g]) /\ d[g][i] = y
      <4>1. CASE g = h
        BY <1>1, <1>3, <1>4, <3>2, <4>1 DEF s
      <4>2. CASE g # h
        BY <1>4, <3>2, <3>3, <4>2
      <4>3. QED
        BY <4>1, <4>2
    <3>5. QED
      BY <3>4 DEF g
  <2>3. QED
    BY <2>1, <2>2
<1> QED
  BY <1>4, <1>7, <1>8, <1>9 DEF Chained, d

\* find_event: what is hashed is found, and no other number is.
LEMMA FoundEntry ==
    ASSUME FdTableInv, NEW x \in Entry, fdd[x].state = "hashed"
    PROVE  LET fd == fdd[x].fd
           IN /\ fd \in FdNumbers /\ Hash(fd) \in Hashes /\ chain[Hash(fd)] \in Seq(Entry)
              /\ Found(fd) # {} /\ Unhash(fd) \in 1..Len(chain[Hash(fd)])
              /\ chain[Hash(fd)][Unhash(fd)] = x
<1> DEFINE fd == fdd[x].fd
           h == Hash(fd)
<1>1. fd \in FdNumbers /\ h \in Hashes /\ chain[h] \in Seq(Entry)
  BY HashType DEF FdTableInv, FdTableTypeOK, Table, EntryType, ChainType
<1>2. PICK i \in 1..Len(chain[h]) : chain[h][i] = x
  BY DEF FdTableInv, Chained
<1>3. i \in Found(fd)
  BY <1>1, <1>2 DEF Found
<1>4. \A j \in Found(fd) : chain[h][j] = x /\ j \in 1..Len(chain[h])
  <2> SUFFICES ASSUME NEW j \in Found(fd)
               PROVE  chain[h][j] = x /\ j \in 1..Len(chain[h])
    OBVIOUS
  <2>1. j \in 1..Len(chain[h]) /\ fdd[chain[h][j]].fd = fd
    BY <1>1 DEF Found
  <2>2. chain[h][j] \in Entry /\ fdd[chain[h][j]].state = "hashed"
    BY <1>1, <2>1 DEF FdTableInv, Chained
  <2>3. QED
    BY <2>1, <2>2 DEF FdTableInv, Numbers
<1>5. Unhash(fd) \in Found(fd)
  <2>1. Found(fd) \in SUBSET Nat
    BY <1>4
  <2>2. QED
    BY <1>3, <2>1, LowestIs DEF Unhash
<1> QED
  BY <1>1, <1>3, <1>4, <1>5

LEMMA NotFound ==
    ASSUME FdTableInv, NEW f \in FdNumbers, \A x \in Entry : fdd[x].state = "hashed" => fdd[x].fd # f
    PROVE  Found(f) = {}
<1>1. Hash(f) \in Hashes /\ chain[Hash(f)] \in Seq(Entry)
  BY HashType DEF FdTableInv, FdTableTypeOK, ChainType
<1>2. ASSUME NEW i \in 1..Len(chain[Hash(f)])
      PROVE  fdd[chain[Hash(f)][i]].fd # f
  <2>1. chain[Hash(f)][i] \in Entry /\ fdd[chain[Hash(f)][i]].state = "hashed"
    BY <1>1 DEF FdTableInv, Chained
  <2>2. QED
    BY <2>1
<1> QED
  BY <1>1, <1>2 DEF Found

\* event_del_fd
LEMMA UnlinkedChain ==
    ASSUME FdTableInv, NEW x \in Entry, fdd[x].state = "hashed",
           NEW u \in Table, u[x].state # "hashed",
           \A y \in Entry \ {x} : u[y].state = "hashed" <=> fdd[y].state = "hashed",
           \A y \in Entry : u[y].state = "hashed" => u[y].fd = fdd[y].fd
    PROVE  Unlinked(fdd[x].fd) \in ChainType /\ Chained(u, Unlinked(fdd[x].fd))
<1> DEFINE fd == fdd[x].fd
           h == Hash(fd)
           s == chain[h]
           k == Unhash(fd)
           r == RemoveAt(s, k)
           d == Unlinked(fd)
<1>1. /\ fd \in FdNumbers /\ h \in Hashes /\ s \in Seq(Entry) /\ Len(s) \in Nat
      /\ Found(fd) # {} /\ k \in 1..Len(s) /\ s[k] = x
  BY FoundEntry
<1>2. d = [chain EXCEPT ![h] = r]
  BY <1>1 DEF Unlinked
<1>3. /\ r \in Seq(Entry) /\ Len(r) = Len(s) - 1
      /\ \A i \in 1..(k - 1) : r[i] = s[i]
      /\ \A i \in k..(Len(s) - 1) : r[i] = s[i + 1]
  BY <1>1, RemovedAt
<1>4. d \in ChainType /\ d[h] = r /\ \A g \in Hashes \ {h} : d[g] = chain[g]
  BY <1>1, <1>2, <1>3 DEF FdTableInv, FdTableTypeOK, ChainType
<1>5. Chained(fdd, chain) /\ chain \in ChainType
  BY DEF FdTableInv, FdTableTypeOK
<1>6. \A i, j \in 1..Len(s) : s[i] = s[j] => i = j
  BY <1>1, <1>5 DEF Chained
<1> DEFINE old(i) == IF i < k THEN i ELSE i + 1
<1>7. \A i \in 1..Len(r) : /\ old(i) \in 1..Len(s) /\ old(i) # k /\ r[i] = s[old(i)]
                           /\ r[i] \in Entry /\ r[i] # x
  <2> SUFFICES ASSUME NEW i \in 1..Len(r)
               PROVE  /\ old(i) \in 1..Len(s) /\ old(i) # k /\ r[i] = s[old(i)]
                      /\ r[i] \in Entry /\ r[i] # x
    OBVIOUS
  <2> HIDE DEF r, s, k
  <2>1. old(i) \in 1..Len(s) /\ old(i) # k
    BY <1>1, <1>3
  <2>2. r[i] = s[old(i)]
    <3>1. CASE i < k
      BY <1>1, <1>3, <3>1
    <3>2. CASE ~(i < k)
      <4>1. i \in k..(Len(s) - 1)
        BY <1>1, <1>3, <3>2
      <4>2. QED
        BY <1>3, <3>2, <4>1
    <3>3. QED
      BY <3>1, <3>2
  <2>3. r[i] \in Entry
    BY <1>3, ElementOfSeq
  <2>4. r[i] # x
    BY <1>1, <1>6, <2>1, <2>2
  <2>5. QED
    BY <2>1, <2>2, <2>3, <2>4
<1> HIDE DEF d, r, k
<1>8. \A g \in Hashes : \A i \in 1..Len(d[g]) : u[d[g][i]].state = "hashed" /\ Hash(u[d[g][i]].fd) = g
  <2> SUFFICES ASSUME NEW g \in Hashes, NEW i \in 1..Len(d[g])
               PROVE  u[d[g][i]].state = "hashed" /\ Hash(u[d[g][i]].fd) = g
    OBVIOUS
  <2>1. CASE g # h
    <3>1. d[g][i] = chain[g][i] /\ i \in 1..Len(chain[g])
      BY <1>4, <2>1
    <3>2. /\ chain[g][i] \in Entry /\ fdd[chain[g][i]].state = "hashed"
          /\ Hash(fdd[chain[g][i]].fd) = g
      BY <1>5, <3>1 DEF Chained, ChainType
    <3>3. chain[g][i] # x
      BY <2>1, <3>2
    <3>4. QED
      BY <3>1, <3>2, <3>3
  <2>2. CASE g = h
    <3>1. r[i] = s[old(i)] /\ r[i] \in Entry /\ r[i] # x /\ old(i) \in 1..Len(s)
      BY <1>4, <1>7, <2>2
    <3>2. fdd[s[old(i)]].state = "hashed" /\ Hash(fdd[s[old(i)]].fd) = h
      <4> HIDE DEF old
      <4>1. QED
        BY <1>1, <1>5, <3>1 DEF Chained
    <3>3. QED
      BY <1>4, <2>2, <3>1, <3>2
  <2>3. QED
    BY <2>1, <2>2
<1>9. \A g \in Hashes : \A i, j \in 1..Len(d[g]) : d[g][i] = d[g][j] => i = j
  <2> SUFFICES ASSUME NEW g \in Hashes, NEW i \in 1..Len(d[g]), NEW j \in 1..Len(d[g]),
                      d[g][i] = d[g][j]
               PROVE  i = j
    OBVIOUS
  <2>1. CASE g # h
    BY <1>4, <1>5, <2>1 DEF Chained
  <2>2. CASE g = h
    <3>1. i \in 1..Len(r) /\ j \in 1..Len(r) /\ r[i] = r[j]
      BY <1>4, <2>2
    <3>2. old(i) = old(j)
      <4>1. s[old(i)] = s[old(j)] /\ old(i) \in 1..Len(s) /\ old(j) \in 1..Len(s)
        BY <1>7, <3>1
      <4> HIDE DEF old
      <4>2. QED
        BY <1>6, <4>1
    <3>3. QED
      BY <1>1, <3>1, <3>2
  <2>3. QED
    BY <2>1, <2>2
<1>10. ASSUME NEW y \in Entry, u[y].state = "hashed"
       PROVE  \E i \in 1..Len(d[Hash(u[y].fd)]) : d[Hash(u[y].fd)][i] = y
  <2> DEFINE g == Hash(u[y].fd)
  <2>1. y # x /\ g = Hash(fdd[y].fd) /\ fdd[y].state = "hashed" /\ fdd[y].fd \in FdNumbers
    BY <1>10 DEF FdTableInv, FdTableTypeOK, Table, EntryType
  <2>2. PICK i \in 1..Len(chain[g]) : chain[g][i] = y
    BY <1>5, <2>1 DEF Chained
  <2>3. g \in Hashes
    BY <2>1, HashType
  <2> HIDE DEF g
  <2>4. CASE g # h
    <3>1. i \in 1..Len(d[g]) /\ d[g][i] = y
      BY <1>4, <2>2, <2>3, <2>4
    <3>2. QED
      BY <3>1 DEF g
  <2>5. CASE g = h
    <3>1. i \in 1..Len(s) /\ s[i] = y /\ i # k
      BY <1>1, <2>1, <2>2, <2>5 DEF k
    <3> DEFINE j == IF i < k THEN i ELSE i - 1
    <3>2. j \in 1..Len(r) /\ old(j) = i
      BY <1>1, <1>3, <3>1
    <3>3. r[j] = s[old(j)]
      BY <1>7, <3>2
    <3> HIDE DEF j, old
    <3>4. d[g][j] = y /\ j \in 1..Len(d[g])
      BY <1>4, <2>5, <3>1, <3>2, <3>3
    <3>5. QED
      BY <3>4 DEF g
  <2>6. QED
    BY <2>4, <2>5
<1> QED
  BY <1>4, <1>8, <1>9, <1>10 DEF Chained, d
-----------------------------------------------------------------------------
(* What callbacks do                                                       *)

LEMMA FreshType ==
    ASSUME In("unused") # {}
    PROVE  Fresh \in Entry /\ fdd[Fresh].state = "unused"
<1>1. Fresh \in In("unused")
  BY DEF Fresh
<1>2. QED
  BY <1>1 DEF In

LEMMA LowestFree ==
    ASSUME NEW S \in SUBSET FreeFds, S # {}
    PROVE  Lowest(S) \in S /\ Lowest(S) \in FdNumbers /\ Lowest(S) \notin opened
<1>1. S \in SUBSET Nat
  BY FdTableAssumption DEF FreeFds, FdNumbers
<1>2. Lowest(S) \in S
  BY <1>1, LowestIs
<1>3. QED
  BY <1>2 DEF FreeFds

\* One more entry, that has no rate limit.
LEMMA AddedInv ==
    ASSUME FdTableInv, phase = "callbacks",
           NEW x \in Entry, fdd[x].state = "unused",
           NEW fd \in FdNumbers, fd \notin opened,
           NEW r \in EntryType, r.state = "hashed", r.fd = fd, r.limit = None,
           r.kind = "socket" \/ (r.kind = "timer" /\ ~r.shut),
           fdd' = [fdd EXCEPT ![x] = r], Adding(x, fd),
           UNCHANGED <<doomed, phase, leaks>>
    PROVE  FdTableInv'
<1>1. /\ fdd \in Table /\ chain \in ChainType /\ doomed \in Seq(Entry) /\ Chained(fdd, chain)
      /\ Doomed /\ Numbers /\ Limits /\ Kinds /\ OnlyLimitsLeak
      /\ opened \subseteq FdNumbers /\ polled \in [FdNumbers -> Entry \cup {None}]
  BY DEF FdTableInv, FdTableTypeOK
<1>2. /\ fdd' \in Table /\ fdd'[x] = r /\ \A y \in Entry \ {x} : fdd'[y] = fdd[y]
  BY <1>1 DEF Table
<1>3. /\ opened' = opened \cup {fd} /\ polled' = [polled EXCEPT ![fd] = x]
      /\ chain' = Linked(chain, x, fd)
  BY DEF Adding
<1>4. chain' \in ChainType /\ Chained(fdd', chain')
  BY <1>1, <1>2, <1>3, LinkedChain
<1>5. /\ polled' \in [FdNumbers -> Entry \cup {None}] /\ polled'[fd] = x
      /\ \A f \in FdNumbers \ {fd} : polled'[f] = polled[f]
  BY <1>1, <1>3
<1>6. FdTableTypeOK'
  BY <1>1, <1>2, <1>3, <1>4, <1>5 DEF FdTableInv, FdTableTypeOK
<1>7. Doomed'
  BY <1>1, <1>2 DEF Doomed
<1>8. x # None
  BY FdTableAssumption
<1>9. Numbers'
  <2>1. \A y \in Entry : fdd'[y].state = "hashed" =>
            fdd'[y].fd \in opened' /\ polled'[fdd'[y].fd] = y
    BY <1>1, <1>2, <1>3, <1>5 DEF Numbers
  <2>2. \A f \in FdNumbers : polled'[f] # None =>
            /\ polled'[f] \in Entry /\ fdd'[polled'[f]].state = "hashed"
            /\ fdd'[polled'[f]].fd = f
    <3> SUFFICES ASSUME NEW f \in FdNumbers, polled'[f] # None
                 PROVE  /\ polled'[f] \in Entry /\ fdd'[polled'[f]].state = "hashed"
                        /\ fdd'[polled'[f]].fd = f
      OBVIOUS
    <3>1. CASE f = fd
      BY <1>2, <1>5, <3>1
    <3>2. CASE f # fd
      <4>1. /\ polled[f] \in Entry /\ fdd[polled[f]].state = "hashed" /\ fdd[polled[f]].fd = f
            /\ polled'[f] = polled[f]
        BY <1>1, <1>5, <3>2 DEF Numbers
      <4>2. polled[f] # x
        BY <4>1
      <4>3. QED
        BY <1>2, <4>1, <4>2
    <3>3. QED
      BY <3>1, <3>2
  <2>3. \A y \in Entry : fdd'[y].state = "deleted" => y # x /\ fdd'[y] = fdd[y]
    BY <1>2
  <2>4. \A y \in Entry : fdd'[y].state = "deleted" /\ fdd'[y].shut =>
            fdd'[y].fd \in opened' /\ polled'[fdd'[y].fd] = None
    BY <1>1, <1>3, <1>5, <2>3 DEF Numbers
  <2>5. \A y, z \in Entry :
            /\ fdd'[y].state = "deleted" /\ fdd'[y].shut
            /\ fdd'[z].state = "deleted" /\ fdd'[z].shut
            /\ fdd'[y].fd = fdd'[z].fd
            => y = z
    BY <1>1, <2>3 DEF Numbers
  <2>6. QED
    BY <2>1, <2>2, <2>4, <2>5 DEF Numbers
<1>10. Limits'
  <2> SUFFICES ASSUME NEW y \in Entry, fdd'[y].limit # None
               PROVE  /\ fdd'[y].kind = "socket" /\ fdd'[y].shut /\ fdd'[y].state # "unused"
                      /\ fdd'[fdd'[y].limit].state = "hashed"
                      /\ fdd'[fdd'[y].limit].kind = "limit"
                      /\ \A z \in Entry : fdd'[z].limit = fdd'[y].limit => z = y
    BY DEF Limits
  <2>1. y # x /\ fdd'[y] = fdd[y] /\ fdd[y].limit \in Entry
    BY <1>1, <1>2 DEF Table, EntryType
  <2>2. /\ fdd[y].kind = "socket" /\ fdd[y].shut /\ fdd[y].state # "unused"
        /\ fdd[fdd[y].limit].state = "hashed" /\ fdd[fdd[y].limit].kind = "limit"
        /\ \A z \in Entry : fdd[z].limit = fdd[y].limit => z = y
    BY <1>1, <2>1 DEF Limits
  <2>3. fdd[y].limit # x /\ fdd'[fdd[y].limit] = fdd[fdd[y].limit]
    BY <1>2, <2>1, <2>2
  <2>4. QED
    BY <1>2, <2>1, <2>2, <2>3
<1>11. Kinds'
  BY <1>1, <1>2 DEF Kinds
<1>12. OnlyLimitsLeak'
  BY <1>1 DEF OnlyLimitsLeak
<1> QED
  BY <1>4, <1>6, <1>7, <1>9, <1>10, <1>11, <1>12 DEF FdTableInv

LEMMA UnusedType ==
    /\ Unused \in EntryType /\ Unused.state = "unused" /\ Unused.limit = None /\ ~Unused.shut
    /\ Unused.kind = "none"
BY FdTableAssumption DEF Unused, EntryType, FdNumbers

LEMMA AddTimerStep ==
    ASSUME FdTableInv, AddTimer
    PROVE  FdTableInv'
<1> DEFINE fd == Lowest(FreeFds)
           r == [Unused EXCEPT !.state = "hashed", !.kind = "timer", !.fd = fd]
<1>1. /\ phase = "callbacks" /\ In("unused") # {} /\ FreeFds # {}
      /\ fdd' = [fdd EXCEPT ![Fresh] = r] /\ Adding(Fresh, fd)
      /\ UNCHANGED <<doomed, phase, leaks>>
  BY DEF AddTimer
<1>2. Fresh \in Entry /\ fdd[Fresh].state = "unused" /\ fd \in FdNumbers /\ fd \notin opened
  BY <1>1, FreshType, LowestFree
<1> HIDE DEF fd
<1>3. r \in EntryType /\ r.state = "hashed" /\ r.fd = fd /\ r.limit = None /\ r.kind = "timer"
      /\ ~r.shut
  BY <1>2 DEF Unused, EntryType
<1> HIDE DEF r
<1> QED
  BY <1>1, <1>2, <1>3, AddedInv

LEMMA AddSocketStep ==
    ASSUME FdTableInv, AddSocket
    PROVE  FdTableInv'
<1> DEFINE fd == Lowest(FreeFds)
           r == [Unused EXCEPT !.state = "hashed", !.fd = fd, !.kind = "socket",
                               !.shut = TRUE]
<1>1. /\ phase = "callbacks" /\ In("unused") # {} /\ FreeFds # {}
      /\ fdd' = [fdd EXCEPT ![Fresh] = r] /\ Adding(Fresh, fd)
      /\ UNCHANGED <<doomed, phase, leaks>>
  BY DEF AddSocket
<1>2. Fresh \in Entry /\ fdd[Fresh].state = "unused" /\ fd \in FdNumbers /\ fd \notin opened
  BY <1>1, FreshType, LowestFree
<1> HIDE DEF fd
<1>3. r \in EntryType /\ r.state = "hashed" /\ r.fd = fd /\ r.limit = None /\ r.kind = "socket"
  BY <1>2 DEF Unused, EntryType
<1> HIDE DEF r
<1> QED
  BY <1>1, <1>2, <1>3, AddedInv

LEMMA AddLimitedSocketStep ==
    ASSUME FdTableInv, AddLimitedSocket
    PROVE  FdTableInv'
<1> DEFINE fd == Lowest(FreeFds)
           x == Fresh
           others == In("unused") \ {x}
           t == CHOOSE y \in others : TRUE
           left == FreeFds \ {fd}
           tfd == Lowest(left)
           r == [state |-> "hashed", kind |-> "socket", fd |-> fd, limit |-> t, shut |-> TRUE]
           q == [Unused EXCEPT !.state = "hashed", !.kind = "limit", !.fd = tfd]
           mid == [fdd EXCEPT ![x] = r]
<1>1. /\ phase = "callbacks" /\ In("unused") # {} /\ others # {}
      /\ FreeFds # {} /\ left # {}
      /\ fdd' = [fdd EXCEPT ![x] = r, ![t] = q]
      /\ opened' = opened \cup {fd, tfd}
      /\ polled' = [polled EXCEPT ![fd] = x, ![tfd] = t]
      /\ chain' = Linked(Linked(chain, x, fd), t, tfd)
      /\ UNCHANGED <<doomed, phase, leaks>>
  BY DEF AddLimitedSocket
<1>2. x \in Entry /\ fdd[x].state = "unused" /\ fd \in FdNumbers /\ fd \notin opened
  BY <1>1, FreshType, LowestFree
<1>3. t \in Entry /\ fdd[t].state = "unused" /\ t # x
  <2>1. t \in others
    BY <1>1
  <2> HIDE DEF t
  <2>2. QED
    BY <2>1 DEF In
<1>4. tfd \in FdNumbers /\ tfd \notin opened /\ tfd # fd
  <2>1. left \in SUBSET FreeFds
    OBVIOUS
  <2> HIDE DEF left
  <2>2. tfd \in left /\ tfd \in FdNumbers /\ tfd \notin opened
    BY <1>1, <2>1, LowestFree
  <2>3. QED
    BY <2>2 DEF left
<1> HIDE DEF fd, x, t, tfd, left, others
<1>5. /\ fdd \in Table /\ chain \in ChainType /\ doomed \in Seq(Entry) /\ Chained(fdd, chain)
      /\ Doomed /\ Numbers /\ Limits /\ Kinds /\ OnlyLimitsLeak
      /\ opened \subseteq FdNumbers /\ polled \in [FdNumbers -> Entry \cup {None}]
  BY DEF FdTableInv, FdTableTypeOK
<1>6. /\ r \in EntryType /\ r.state = "hashed" /\ r.fd = fd /\ r.kind = "socket" /\ r.shut
      /\ r.limit = t
  BY <1>2, <1>3 DEF EntryType
<1>7. /\ q \in EntryType /\ q.state = "hashed" /\ q.fd = tfd /\ q.kind = "limit" /\ ~q.shut
      /\ q.limit = None
  BY <1>4 DEF EntryType, Unused
<1> HIDE DEF r, q
<1>8. mid \in Table /\ mid[x] = r /\ \A y \in Entry \ {x} : mid[y] = fdd[y]
  BY <1>2, <1>5, <1>6 DEF Table
<1>9. /\ fdd' \in Table /\ fdd'[x] = r /\ fdd'[t] = q
      /\ \A y \in Entry \ {x, t} : fdd'[y] = fdd[y]
      /\ \A y \in Entry \ {t} : fdd'[y] = mid[y]
  BY <1>1, <1>2, <1>3, <1>5, <1>6, <1>7 DEF Table
<1> HIDE DEF mid
<1>10. Linked(chain, x, fd) \in ChainType /\ Chained(mid, Linked(chain, x, fd))
  BY <1>2, <1>5, <1>6, <1>8, LinkedChain
<1>11. chain' \in ChainType /\ Chained(fdd', chain')
  <2> DEFINE c == Linked(chain, x, fd)
  <2>1. c \in ChainType /\ Chained(mid, c) /\ chain' = Linked(c, t, tfd)
    BY <1>1, <1>10
  <2> HIDE DEF c
  <2>2. mid[t].state # "hashed" /\ fdd'[t].state = "hashed" /\ fdd'[t].fd = tfd
    BY <1>3, <1>7, <1>8, <1>9
  <2>3. QED
    BY <1>3, <1>4, <1>8, <1>9, <2>1, <2>2, LinkedChain
<1>12. /\ polled' \in [FdNumbers -> Entry \cup {None}] /\ polled'[fd] = x /\ polled'[tfd] = t
       /\ \A f \in FdNumbers \ {fd, tfd} : polled'[f] = polled[f]
  BY <1>1, <1>2, <1>3, <1>4, <1>5
<1>13. FdTableTypeOK'
  BY <1>1, <1>2, <1>4, <1>5, <1>9, <1>11, <1>12 DEF FdTableInv, FdTableTypeOK
<1>14. Doomed'
  <2>1. \A y \in Entry : fdd'[y].state = "deleted" <=> fdd[y].state = "deleted"
    BY <1>2, <1>3, <1>6, <1>7, <1>9
  <2>2. \A i \in 1..Len(doomed) : doomed[i] \in Entry
    BY <1>5
  <2>3. QED
    BY <1>1, <1>5, <2>1, <2>2 DEF Doomed
<1>15. x # None /\ t # None
  BY <1>2, <1>3, FdTableAssumption
<1>16. Numbers'
  <2>1. ASSUME NEW y \in Entry, fdd'[y].state = "hashed"
        PROVE  fdd'[y].fd \in opened' /\ polled'[fdd'[y].fd] = y
    <3>1. CASE y = x \/ y = t
      <4>1. CASE y = x
        <5>1. fdd'[y].fd = fd
          BY <1>6, <1>9, <4>1
        <5>2. QED
          BY <1>1, <1>12, <4>1, <5>1
      <4>2. CASE y = t
        <5>1. fdd'[y].fd = tfd
          BY <1>7, <1>9, <4>2
        <5>2. QED
          BY <1>1, <1>12, <4>2, <5>1
      <4>3. QED
        BY <3>1, <4>1, <4>2
    <3>2. CASE y # x /\ y # t
      <4>1. fdd'[y] = fdd[y] /\ fdd[y].fd \in opened /\ polled[fdd[y].fd] = y
        BY <1>5, <1>9, <2>1, <3>2 DEF Numbers
      <4>2. QED
        BY <1>1, <1>2, <1>4, <1>5, <1>12, <4>1
    <3>3. QED
      BY <3>1, <3>2
  <2>2. ASSUME NEW f \in FdNumbers, polled'[f] # None
        PROVE  /\ polled'[f] \in Entry /\ fdd'[polled'[f]].state = "hashed"
               /\ fdd'[polled'[f]].fd = f
    <3>1. CASE f = fd \/ f = tfd
      BY <1>2, <1>3, <1>6, <1>7, <1>9, <1>12, <3>1
    <3>2. CASE f # fd /\ f # tfd
      <4>1. /\ polled[f] \in Entry /\ fdd[polled[f]].state = "hashed" /\ fdd[polled[f]].fd = f
            /\ polled'[f] = polled[f]
        BY <1>5, <1>12, <2>2, <3>2 DEF Numbers
      <4>2. polled[f] # x /\ polled[f] # t
        BY <1>2, <1>3, <4>1
      <4>3. QED
        BY <1>9, <4>1, <4>2
    <3>3. QED
      BY <3>1, <3>2
  <2>3. \A y \in Entry : fdd'[y].state = "deleted" => fdd'[y] = fdd[y]
    BY <1>6, <1>7, <1>9
  <2>4. \A y \in Entry : fdd'[y].state = "deleted" /\ fdd'[y].shut =>
            fdd'[y].fd \in opened' /\ polled'[fdd'[y].fd] = None
    <3> SUFFICES ASSUME NEW y \in Entry, fdd'[y].state = "deleted", fdd'[y].shut
                 PROVE  fdd'[y].fd \in opened' /\ polled'[fdd'[y].fd] = None
      OBVIOUS
    <3>1. fdd'[y] = fdd[y] /\ fdd[y].fd \in opened /\ polled[fdd[y].fd] = None
      BY <1>5, <2>3 DEF Numbers
    <3>2. fdd[y].fd \in FdNumbers \ {fd, tfd}
      BY <1>2, <1>4, <1>5, <3>1
    <3>3. QED
      BY <1>1, <1>12, <3>1, <3>2
  <2>5. \A y, z \in Entry :
            /\ fdd'[y].state = "deleted" /\ fdd'[y].shut
            /\ fdd'[z].state = "deleted" /\ fdd'[z].shut
            /\ fdd'[y].fd = fdd'[z].fd
            => y = z
    BY <1>5, <2>3 DEF Numbers
  <2>6. QED
    BY <2>1, <2>2, <2>4, <2>5 DEF Numbers
<1>17. Limits'
  <2> SUFFICES ASSUME NEW y \in Entry, fdd'[y].limit # None
               PROVE  /\ fdd'[y].kind = "socket" /\ fdd'[y].shut /\ fdd'[y].state # "unused"
                      /\ fdd'[fdd'[y].limit].state = "hashed"
                      /\ fdd'[fdd'[y].limit].kind = "limit"
                      /\ \A z \in Entry : fdd'[z].limit = fdd'[y].limit => z = y
    BY DEF Limits
  <2>1. ASSUME NEW z \in Entry \ {x, t}, fdd[z].limit # None
        PROVE  /\ fdd[z].limit \in Entry \ {x, t}
               /\ fdd[z].kind = "socket" /\ fdd[z].shut /\ fdd[z].state # "unused"
               /\ fdd[fdd[z].limit].state = "hashed" /\ fdd[fdd[z].limit].kind = "limit"
               /\ \A w \in Entry : fdd[w].limit = fdd[z].limit => w = z
    BY <1>2, <1>3, <1>5, <2>1 DEF Limits, Table, EntryType
  <2>2. CASE y = x
    <3>1. \A z \in Entry : fdd'[z].limit = t => z = x
      BY <1>3, <1>7, <1>9, <1>15, <2>1
    <3>2. QED
      BY <1>6, <1>7, <1>9, <2>2, <3>1
  <2>3. CASE y # x
    <3>1. y # t /\ fdd'[y] = fdd[y]
      BY <1>7, <1>9, <2>3
    <3>2. fdd[y].limit \in Entry \ {x, t}
      BY <2>1, <2>3, <3>1
    <3>3. \A z \in Entry : fdd'[z].limit = fdd[y].limit => z = y
      BY <1>6, <1>7, <1>9, <2>1, <2>3, <3>1, <3>2
    <3>4. QED
      BY <1>9, <2>1, <2>3, <3>1, <3>2, <3>3
  <2>4. QED
    BY <2>2, <2>3
<1>18. Kinds'
  BY <1>5, <1>6, <1>7, <1>9 DEF Kinds
<1>19. OnlyLimitsLeak'
  BY <1>1, <1>5 DEF OnlyLimitsLeak
<1> QED
  BY <1>11, <1>13, <1>14, <1>16, <1>17, <1>18, <1>19 DEF FdTableInv

\* socket_del and timer_del; b is whether the destructor is to close.
LEMMA DeletedInv ==
    ASSUME FdTableInv, phase = "callbacks",
           NEW x \in Entry, fdd[x].state = "hashed", fdd[x].kind \in {"socket", "timer"},
           NEW t \in Table, NEW b \in BOOLEAN, b => fdd[x].kind = "socket",
           fdd[x].limit # None => b,
           t[x].state = "hashed", t[x].fd = fdd[x].fd, t[x].kind = fdd[x].kind,
           t[x].limit = fdd[x].limit, t[x].shut = b,
           \A y \in Entry \ {x} : t[y] = fdd[y],
           EventDelFd(t, fdd[x].fd),
           opened' = opened \/ (~b /\ opened' = opened \ {fdd[x].fd}),
           UNCHANGED <<phase, leaks>>
    PROVE  FdTableInv'
<1> DEFINE fd == fdd[x].fd
           h == Hash(fd)
           r == [t[x] EXCEPT !.state = "deleted"]
<1>1. /\ fd \in FdNumbers /\ h \in Hashes /\ Found(fd) # {} /\ chain[h][Unhash(fd)] = x
  BY FoundEntry
<1>2. /\ fdd \in Table /\ chain \in ChainType /\ doomed \in Seq(Entry) /\ Chained(fdd, chain)
      /\ Doomed /\ Numbers /\ Limits /\ Kinds /\ OnlyLimitsLeak
      /\ opened \subseteq FdNumbers /\ polled \in [FdNumbers -> Entry \cup {None}]
  BY DEF FdTableInv, FdTableTypeOK
<1>3. /\ polled' = [polled EXCEPT ![fd] = None] /\ chain' = Unlinked(fd)
      /\ fdd' = [t EXCEPT ![x] = r] /\ doomed' = <<x>> \o doomed
  BY <1>1 DEF EventDelFd
<1>4. /\ r \in EntryType /\ r.state = "deleted" /\ r.fd = fd /\ r.kind = fdd[x].kind
      /\ r.limit = fdd[x].limit /\ r.shut = b
  <2> DEFINE q == t[x]
  <2>1. q \in EntryType
    BY DEF Table
  <2> HIDE DEF q
  <2>2. LET p == [q EXCEPT !.state = "deleted"]
        IN /\ p \in EntryType /\ p.state = "deleted" /\ p.fd = q.fd /\ p.kind = q.kind
           /\ p.limit = q.limit /\ p.shut = q.shut
    BY <2>1 DEF EntryType
  <2>3. QED
    BY <2>2 DEF q
<1> HIDE DEF r, h
<1>5. fdd' \in Table /\ fdd'[x] = r /\ \A y \in Entry \ {x} : fdd'[y] = fdd[y]
  BY <1>3, <1>4 DEF Table
<1>6. chain' \in ChainType /\ Chained(fdd', chain')
  <2>1. /\ fdd'[x].state # "hashed"
        /\ \A y \in Entry \ {x} : fdd'[y].state = "hashed" <=> fdd[y].state = "hashed"
        /\ \A y \in Entry : fdd'[y].state = "hashed" => fdd'[y].fd = fdd[y].fd
    BY <1>4, <1>5
  <2>2. QED
    BY <1>3, <1>5, <2>1, UnlinkedChain
<1>7. /\ polled' \in [FdNumbers -> Entry \cup {None}] /\ polled'[fd] = None
      /\ \A f \in FdNumbers \ {fd} : polled'[f] = polled[f]
  BY <1>1, <1>2, <1>3
<1>8. /\ doomed' \in Seq(Entry) /\ Len(doomed') = Len(doomed) + 1 /\ doomed'[1] = x
      /\ \A i \in 1..Len(doomed) : doomed'[i + 1] = doomed[i]
  <2>1. /\ <<x>> \in Seq(Entry) /\ Len(<<x>>) = 1 /\ <<x>>[1] = x
    OBVIOUS
  <2> DEFINE s == <<x>>
  <2>2. s \in Seq(Entry) /\ Len(s) = 1 /\ s[1] = x /\ doomed' = s \o doomed
    BY <1>3, <2>1
  <2> HIDE DEF s
  <2>3. /\ s \o doomed \in Seq(Entry) /\ Len(s \o doomed) = Len(s) + Len(doomed)
        /\ \A i \in 1..(Len(s) + Len(doomed)) :
               (s \o doomed)[i] = IF i <= Len(s) THEN s[i] ELSE doomed[i - Len(s)]
    <3>1. s \in Seq(Entry) /\ doomed \in Seq(Entry)
      BY <1>2, <2>2
    <3>2. QED
      BY <3>1, ConcatProperties
  <2>4. Len(doomed) \in Nat
    BY <1>2
  <2>5. QED
    BY <2>2, <2>3, <2>4
<1>9. FdTableTypeOK'
  BY <1>2, <1>5, <1>6, <1>7, <1>8 DEF FdTableInv, FdTableTypeOK
<1>10. Doomed'
  <2>1. /\ Len(doomed) \in Nat
        /\ \A i \in 1..Len(doomed) : /\ doomed[i] \in Entry \ {x}
                                     /\ fdd[doomed[i]].state = "deleted"
    BY <1>2 DEF Doomed
  <2>2. \A i \in 1..Len(doomed') :
            \/ i = 1 /\ doomed'[i] = x
            \/ i - 1 \in 1..Len(doomed) /\ doomed'[i] = doomed[i - 1]
    BY <1>8, <2>1
  <2>3. \A i, j \in 1..Len(doomed') : doomed'[i] = doomed'[j] => i = j
    <3> SUFFICES ASSUME NEW i \in 1..Len(doomed'), NEW j \in 1..Len(doomed'),
                        doomed'[i] = doomed'[j]
                 PROVE  i = j
      OBVIOUS
    <3>1. CASE i = 1 \/ j = 1
      BY <2>1, <2>2, <3>1, SMTT(30)
    <3>2. CASE i # 1 /\ j # 1
      <4>1. /\ i - 1 \in 1..Len(doomed) /\ j - 1 \in 1..Len(doomed)
            /\ doomed[i - 1] = doomed[j - 1]
        BY <2>2, <3>2
      <4>2. i - 1 = j - 1
        BY <1>2, <4>1 DEF Doomed
      <4>3. QED
        BY <4>2
    <3>3. QED
      BY <3>1, <3>2
  <2>4. \A i \in 1..Len(doomed') : fdd'[doomed'[i]].state = "deleted"
    BY <1>4, <1>5, <2>1, <2>2
  <2>5. ASSUME NEW y \in Entry, fdd'[y].state = "deleted"
        PROVE  \E i \in 1..Len(doomed') : doomed'[i] = y
    <3>1. CASE y = x
      BY <1>8, <2>1, <3>1
    <3>2. CASE y # x
      <4>1. PICK i \in 1..Len(doomed) : doomed[i] = y
        BY <1>2, <1>5, <2>5, <3>2 DEF Doomed
      <4>2. i + 1 \in 1..Len(doomed') /\ doomed'[i + 1] = y
        BY <1>8, <2>1, <4>1
      <4>3. QED
        BY <4>2
    <3>3. QED
      BY <3>1, <3>2
  <2>6. QED
    BY <2>3, <2>4, <2>5 DEF Doomed
<1>11. x # None /\ polled[fd] = x /\ fd \in opened
  BY <1>2, FdTableAssumption DEF Numbers
<1>12. Numbers'
  <2>1. ASSUME NEW y \in Entry, fdd'[y].state = "hashed"
        PROVE  fdd'[y].fd \in opened' /\ polled'[fdd'[y].fd] = y
    <3>1. y # x /\ fdd'[y] = fdd[y] /\ fdd[y].fd \in opened /\ polled[fdd[y].fd] = y
      BY <1>2, <1>4, <1>5, <2>1 DEF Numbers
    <3>2. fdd[y].fd \in FdNumbers \ {fd}
      BY <1>2, <1>11, <3>1
    <3>3. QED
      BY <1>7, <3>1, <3>2
  <2>2. ASSUME NEW f \in FdNumbers, polled'[f] # None
        PROVE  /\ polled'[f] \in Entry /\ fdd'[polled'[f]].state = "hashed"
               /\ fdd'[polled'[f]].fd = f
    <3>1. /\ f # fd /\ polled'[f] = polled[f] /\ polled[f] \in Entry
          /\ fdd[polled[f]].state = "hashed" /\ fdd[polled[f]].fd = f
      BY <1>2, <1>7, <2>2 DEF Numbers
    <3>2. polled[f] # x
      BY <3>1
    <3>3. QED
      BY <1>5, <3>1, <3>2
  <2>3. ASSUME NEW y \in Entry, y # x, fdd'[y].state = "deleted", fdd'[y].shut
        PROVE  /\ fdd'[y] = fdd[y] /\ fdd[y].fd \in FdNumbers \ {fd} /\ fdd[y].fd \in opened
               /\ polled[fdd[y].fd] = None
    <3>1. fdd'[y] = fdd[y] /\ fdd[y].fd \in opened /\ polled[fdd[y].fd] = None
      BY <1>2, <1>5, <2>3 DEF Numbers
    <3>2. QED
      BY <1>2, <1>11, <3>1
  <2>4. ASSUME NEW y \in Entry, fdd'[y].state = "deleted", fdd'[y].shut
        PROVE  fdd'[y].fd \in opened' /\ polled'[fdd'[y].fd] = None
    <3>1. CASE y = x
      <4>1. fdd'[y].fd = fd /\ b
        BY <1>4, <1>5, <2>4, <3>1
      <4>2. QED
        BY <1>7, <1>11, <4>1
    <3>2. CASE y # x
      BY <1>7, <2>3, <2>4, <3>2
    <3>3. QED
      BY <3>1, <3>2
  <2>5. ASSUME NEW y \in Entry, NEW z \in Entry,
               fdd'[y].state = "deleted", fdd'[y].shut,
               fdd'[z].state = "deleted", fdd'[z].shut, fdd'[y].fd = fdd'[z].fd
        PROVE  y = z
    <3>1. CASE y = x /\ z # x
      BY <1>4, <1>5, <2>3, <2>5, <3>1
    <3>2. CASE y # x /\ z = x
      BY <1>4, <1>5, <2>3, <2>5, <3>2
    <3>3. CASE y # x /\ z # x
      BY <1>2, <1>5, <2>5, <3>3 DEF Numbers
    <3>4. QED
      BY <3>1, <3>2, <3>3
  <2>6. QED
    BY <2>1, <2>2, <2>4, <2>5 DEF Numbers
<1>13. \A y \in Entry : /\ fdd'[y].limit = fdd[y].limit /\ fdd'[y].kind = fdd[y].kind
                        /\ fdd'[y].state = "unused" <=> fdd[y].state = "unused"
  BY <1>4, <1>5
<1>14. Limits'
  <2> SUFFICES ASSUME NEW y \in Entry, fdd'[y].limit # None
               PROVE  /\ fdd'[y].kind = "socket" /\ fdd'[y].shut /\ fdd'[y].state # "unused"
                      /\ fdd'[fdd'[y].limit].state = "hashed"
                      /\ fdd'[fdd'[y].limit].kind = "limit"
                      /\ \A z \in Entry : fdd'[z].limit = fdd'[y].limit => z = y
    BY DEF Limits
  <2>1. /\ fdd[y].limit \in Entry
        /\ fdd[y].kind = "socket" /\ fdd[y].shut /\ fdd[y].state # "unused"
        /\ fdd[fdd[y].limit].state = "hashed" /\ fdd[fdd[y].limit].kind = "limit"
        /\ \A z \in Entry : fdd[z].limit = fdd[y].limit => z = y
    BY <1>2, <1>13 DEF Limits, Table, EntryType
  <2>2. fdd[y].limit # x
    BY <2>1
  <2>3. fdd'[y].shut
    BY <1>4, <1>5, <1>13, <2>1
  <2>4. QED
    BY <1>5, <1>13, <2>1, <2>2, <2>3
<1>15. Kinds'
  BY <1>2, <1>4, <1>5 DEF Kinds
<1>16. OnlyLimitsLeak'
  BY <1>2 DEF OnlyLimitsLeak
<1> QED
  BY <1>6, <1>9, <1>10, <1>12, <1>14, <1>15, <1>16 DEF FdTableInv

LEMMA DelSocketStep ==
    ASSUME FdTableInv, NEW x \in Entry, DelSocket(x)
    PROVE  FdTableInv'
<1>1. /\ phase = "callbacks" /\ fdd[x].state = "hashed" /\ fdd[x].kind = "socket"
      /\ EventDelFd(fdd, fdd[x].fd) /\ UNCHANGED <<opened, phase, leaks>>
  BY DEF DelSocket, In
<1>2. fdd \in Table /\ fdd[x].shut \in BOOLEAN /\ (fdd[x].limit # None => fdd[x].shut)
  BY DEF FdTableInv, FdTableTypeOK, Table, EntryType, Limits
<1> QED
  BY <1>1, <1>2, DeletedInv

LEMMA DelTimerStep ==
    ASSUME FdTableInv, NEW x \in Entry, DelTimer(x)
    PROVE  FdTableInv'
<1>1. /\ phase = "callbacks" /\ fdd[x].state = "hashed" /\ fdd[x].kind = "timer"
      /\ EventDelFd(fdd, fdd[x].fd) /\ opened' = opened \ {fdd[x].fd}
      /\ UNCHANGED <<phase, leaks>>
  BY DEF DelTimer, In
<1>2. fdd \in Table /\ fdd[x].shut = FALSE /\ fdd[x].limit = None
  BY <1>1 DEF FdTableInv, FdTableTypeOK, Kinds, Table, EntryType
<1> QED
  BY <1>1, <1>2, DeletedInv

LEMMA HandOverStep ==
    ASSUME FdTableInv, NEW x \in Entry, HandOver(x)
    PROVE  FdTableInv'
<1> DEFINE t == [fdd EXCEPT ![x].shut = FALSE]
<1>1. /\ phase = "callbacks" /\ fdd[x].state = "hashed" /\ fdd[x].kind = "socket"
      /\ fdd[x].limit = None
      /\ EventDelFd(t, fdd[x].fd) /\ UNCHANGED <<opened, phase, leaks>>
  BY DEF HandOver, In
<1>2. fdd \in Table
  BY DEF FdTableInv, FdTableTypeOK
<1>3. /\ t \in Table /\ t[x].state = fdd[x].state /\ t[x].fd = fdd[x].fd
      /\ t[x].kind = fdd[x].kind /\ t[x].limit = fdd[x].limit /\ t[x].shut = FALSE
      /\ \A y \in Entry \ {x} : t[y] = fdd[y]
  <2> DEFINE r == fdd[x]
             q == [r EXCEPT !.shut = FALSE]
  <2>1. t = [fdd EXCEPT ![x] = q] /\ r \in EntryType
    BY <1>2 DEF Table
  <2> HIDE DEF r
  <2>2. /\ q \in EntryType /\ q.state = r.state /\ q.fd = r.fd /\ q.kind = r.kind
        /\ q.limit = r.limit /\ q.shut = FALSE
    BY <2>1 DEF EntryType
  <2> HIDE DEF q, t
  <2>3. t \in Table /\ t[x] = q /\ \A y \in Entry \ {x} : t[y] = fdd[y]
    BY <1>2, <2>1, <2>2 DEF Table
  <2>4. QED
    BY <2>2, <2>3 DEF r
<1> HIDE DEF t
<1> QED
  BY <1>1, <1>3, DeletedInv

LEMMA PipeTakesStep ==
    ASSUME FdTableInv, NEW f \in FdNumbers, PipeTakes(f)
    PROVE  FdTableInv'
<1>1. /\ f \in Handed /\ opened' = opened \ {f}
      /\ UNCHANGED <<fdd, chain, doomed, polled, phase, leaks>>
  BY DEF PipeTakes
<1>2. polled[f] = None /\ \A x \in Entry : fdd[x].state = "deleted" /\ fdd[x].shut => fdd[x].fd # f
  BY <1>1 DEF Handed, In
<1>3. \A x \in Entry : x # None
  BY FdTableAssumption
<1>4. FdTableTypeOK' /\ Chained(fdd', chain')
  BY <1>1 DEF FdTableInv, FdTableTypeOK
<1>5. Doomed' /\ Limits' /\ Kinds' /\ OnlyLimitsLeak'
  <2>1. Doomed'
    BY <1>1 DEF FdTableInv, Doomed
  <2>2. Limits'
    BY <1>1 DEF FdTableInv, Limits
  <2>3. Kinds'
    BY <1>1 DEF FdTableInv, Kinds
  <2>4. OnlyLimitsLeak'
    BY <1>1 DEF FdTableInv, OnlyLimitsLeak, In
  <2>5. QED
    BY <2>1, <2>2, <2>3, <2>4
<1>6. Numbers'
  <2>1. \A x \in Entry : fdd[x].state = "hashed" => fdd[x].fd # f
    BY <1>2, <1>3 DEF FdTableInv, Numbers
  <2>2. QED
    BY <1>1, <1>2, <2>1 DEF FdTableInv, Numbers
<1> QED
  BY <1>4, <1>5, <1>6 DEF FdTableInv
-----------------------------------------------------------------------------
(* release_deleted                                                         *)

\* What changes nothing but the phase; before epoll_wait nothing is deleted.
LEMMA PhaseStep ==
    ASSUME FdTableInv, phase' \in {"callbacks", "release", "wait"},
           UNCHANGED <<fdd, chain, doomed, opened, polled, leaks>>,
           phase' = "wait" => doomed = << >>
    PROVE  FdTableInv'
<1>1. FdTableTypeOK' /\ Chained(fdd', chain')
  BY DEF FdTableInv, FdTableTypeOK
<1>2. Doomed'
  BY DEF FdTableInv, Doomed
<1>3. Limits'
  BY DEF FdTableInv, Limits
<1>4. Kinds'
  BY DEF FdTableInv, Kinds
<1>5. Numbers'
  BY DEF FdTableInv, Numbers
<1>6. OnlyLimitsLeak'
  <2>1. ASSUME doomed = << >>
        PROVE  In("deleted")' = {}
    <3>1. Len(doomed) = 0
      BY <2>1
    <3>2. \A x \in Entry : fdd[x].state # "deleted"
      BY <3>1 DEF FdTableInv, Doomed
    <3>3. QED
      BY <3>2 DEF In
  <2>2. leaks' = leaks
    OBVIOUS
  <2>3. QED
    BY <2>1, <2>2 DEF FdTableInv, OnlyLimitsLeak
<1> QED
  BY <1>1, <1>2, <1>3, <1>4, <1>5, <1>6 DEF FdTableInv

LEMMA UnusedLemma ==
    /\ Unused \in EntryType /\ Unused.state = "unused" /\ Unused.limit = None
    /\ Unused.shut = FALSE /\ Unused.kind = "none"
<1>1. 0 \in FdNumbers
  BY FdTableAssumption DEF FdNumbers
<1>2. QED
  BY <1>1 DEF Unused, EntryType

\* The first entry of the list.
LEMMA FirstDoomed ==
    ASSUME FdTableInv, doomed # << >>
    PROVE  LET x == Head(doomed)
           IN /\ x \in Entry /\ fdd[x].state = "deleted" /\ Tail(doomed) \in Seq(Entry)
              /\ \A i \in 1..Len(Tail(doomed)) :
                     /\ Tail(doomed)[i] \in Entry \ {x}
                     /\ fdd[Tail(doomed)[i]].state = "deleted"
              /\ \A i, j \in 1..Len(Tail(doomed)) : Tail(doomed)[i] = Tail(doomed)[j] => i = j
              /\ \A y \in Entry \ {x} : fdd[y].state = "deleted" =>
                     \E i \in 1..Len(Tail(doomed)) : Tail(doomed)[i] = y
<1> DEFINE x == Head(doomed)
           s == Tail(doomed)
<1>1. doomed \in Seq(Entry) /\ Len(doomed) \in Nat \ {0} /\ Doomed
  BY EmptySeq DEF FdTableInv, FdTableTypeOK
<1>2. /\ x \in Entry /\ x = doomed[1] /\ s \in Seq(Entry) /\ Len(s) = Len(doomed) - 1
      /\ \A i \in 1..Len(s) : s[i] = doomed[i + 1]
  BY <1>1, HeadTailProperties
<1> HIDE DEF x, s
<1>3. \A i \in 1..Len(s) : i + 1 \in 1..Len(doomed) /\ i + 1 # 1 /\ s[i] \in Entry
  BY <1>1, <1>2
<1>4. 1 \in 1..Len(doomed)
  BY <1>1
<1>5. \A i \in 1..Len(s) : s[i] \in Entry \ {x} /\ fdd[s[i]].state = "deleted"
  <2> SUFFICES ASSUME NEW i \in 1..Len(s)
               PROVE  s[i] \in Entry \ {x} /\ fdd[s[i]].state = "deleted"
    OBVIOUS
  <2>1. i + 1 \in 1..Len(doomed) /\ i + 1 # 1 /\ s[i] \in Entry /\ s[i] = doomed[i + 1]
    BY <1>2, <1>3
  <2>2. fdd[doomed[i + 1]].state = "deleted"
    BY <1>1, <2>1 DEF Doomed
  <2>3. doomed[i + 1] # doomed[1]
    BY <1>1, <1>4, <2>1 DEF Doomed
  <2>4. QED
    BY <1>2, <2>1, <2>2, <2>3
<1>6. \A i, j \in 1..Len(s) : s[i] = s[j] => i = j
  <2> SUFFICES ASSUME NEW i \in 1..Len(s), NEW j \in 1..Len(s), s[i] = s[j]
               PROVE  i = j
    OBVIOUS
  <2>1. i + 1 = j + 1
    BY <1>1, <1>2, <1>3 DEF Doomed
  <2>2. QED
    BY <2>1
<1>7. ASSUME NEW y \in Entry \ {x}, fdd[y].state = "deleted"
      PROVE  \E i \in 1..Len(s) : s[i] = y
  <2>1. PICK j \in 1..Len(doomed) : doomed[j] = y
    BY <1>1, <1>7 DEF Doomed
  <2>2. j # 1
    BY <1>2, <2>1
  <2>3. j - 1 \in 1..Len(s) /\ (j - 1) + 1 = j
    BY <1>1, <1>2, <2>2
  <2>4. QED
    BY <1>2, <2>1, <2>3
<1>8. fdd[x].state = "deleted"
  BY <1>1, <1>2, <1>4 DEF Doomed
<1> QED
  BY <1>2, <1>5, <1>6, <1>7, <1>8 DEF x, s

\* The entry x is released, with the timer of its limit if it has one.
LEMMA ReleaseNextStep ==
    ASSUME FdTableInv, ReleaseNext
    PROVE  FdTableInv'
<1> DEFINE x == Head(doomed)
           t == fdd[x].limit
           killed == Release(x).killed
           out == {x} \cup killed
           gone == {fdd[y].fd : y \in {z \in out : fdd[z].shut \/ z \in killed}}
<1>1. /\ phase = "release" /\ phase' = phase /\ doomed # << >> /\ doomed' = Tail(doomed)
      /\ fdd' = [y \in Entry |-> IF y \in out THEN Unused ELSE fdd[y]]
      /\ chain' = IF killed = {} THEN chain ELSE Unlinked(fdd[t].fd)
      /\ opened' = opened \ gone
      /\ polled' = [f \in FdNumbers |-> IF f \in gone THEN None ELSE polled[f]]
      /\ leaks' = leaks
            \cup {<<Kind(y), "memory">> : y \in out \ {Release(x).freed}}
            \cup {<<Kind(y), "destructor">> : y \in out \ Release(x).cleaned}
  BY DEF ReleaseNext
<1>2. /\ x \in Entry /\ fdd[x].state = "deleted" /\ Tail(doomed) \in Seq(Entry)
      /\ \A i \in 1..Len(Tail(doomed)) :
             /\ Tail(doomed)[i] \in Entry \ {x}
             /\ fdd[Tail(doomed)[i]].state = "deleted"
      /\ \A i, j \in 1..Len(Tail(doomed)) : Tail(doomed)[i] = Tail(doomed)[j] => i = j
      /\ \A y \in Entry \ {x} : fdd[y].state = "deleted" =>
             \E i \in 1..Len(Tail(doomed)) : Tail(doomed)[i] = y
  BY <1>1, FirstDoomed
<1>3. /\ fdd \in Table /\ chain \in ChainType /\ doomed \in Seq(Entry) /\ Chained(fdd, chain)
      /\ Numbers /\ Limits /\ Kinds /\ OnlyLimitsLeak
      /\ opened \subseteq FdNumbers /\ polled \in [FdNumbers -> Entry \cup {None}]
  BY DEF FdTableInv, FdTableTypeOK
<1>4. killed = IF t # None THEN {t} ELSE {}
  BY DEF Release
<1>5. /\ out \subseteq Entry
      /\ \A y \in out : y = x \/ (t # None /\ y = t)
      /\ t # None => /\ t \in Entry /\ fdd[t].state = "hashed" /\ fdd[t].kind = "limit"
                     /\ fdd[x].kind = "socket" /\ fdd[x].shut
                     /\ \A y \in Entry : fdd[y].limit = t => y = x
  <2>1. t \in Entry \cup {None}
    BY <1>2, <1>3 DEF Table, EntryType
  <2>2. QED
    BY <1>2, <1>3, <1>4, <2>1 DEF Limits
<1>6. gone = (IF fdd[x].shut THEN {fdd[x].fd} ELSE {}) \cup (IF t # None THEN {fdd[t].fd} ELSE {})
  <2>1. CASE t = None
    BY <1>4, <2>1
  <2>2. CASE t # None
    BY <1>4, <1>5, <2>2
  <2>3. QED
    BY <2>1, <2>2
<1>7. ASSUME NEW y \in Entry
      PROVE  fdd'[y] = IF y \in out THEN Unused ELSE fdd[y]
  BY <1>1
<1>8. fdd' \in Table
  BY <1>1, <1>3, UnusedLemma DEF Table
<1>9. polled' \in [FdNumbers -> Entry \cup {None}]
  BY <1>1, <1>3
<1>10. ASSUME NEW f \in FdNumbers
       PROVE  polled'[f] = IF f \in gone THEN None ELSE polled[f]
  BY <1>1
<1> HIDE DEF x, killed, out, gone
<1>11. chain' \in ChainType /\ Chained(fdd', chain')
  <2>1. CASE t = None
    <3>1. chain' = chain /\ out = {x}
      BY <1>1, <1>4, <2>1 DEF out
    <3>2. \A y \in Entry : fdd'[y].state = "hashed" \/ fdd[y].state = "hashed" => fdd'[y] = fdd[y]
      BY <1>2, <1>7, <3>1, UnusedLemma
    <3>3. \A h \in Hashes : \A i \in 1..Len(chain[h]) :
              /\ chain[h][i] \in Entry /\ fdd[chain[h][i]].state = "hashed"
              /\ Hash(fdd[chain[h][i]].fd) = h
      BY <1>3 DEF Chained, ChainType
    <3>4. \A h \in Hashes : \A i \in 1..Len(chain[h]) :
              fdd'[chain[h][i]].state = "hashed" /\ Hash(fdd'[chain[h][i]].fd) = h
      BY <3>2, <3>3
    <3>5. \A y \in Entry : fdd'[y].state = "hashed" =>
              \E i \in 1..Len(chain[Hash(fdd'[y].fd)]) : chain[Hash(fdd'[y].fd)][i] = y
      BY <1>3, <3>2 DEF Chained
    <3>6. QED
      BY <1>3, <3>1, <3>4, <3>5 DEF Chained
  <2>2. CASE t # None
    <3>1. chain' = Unlinked(fdd[t].fd) /\ out = {x, t}
      BY <1>1, <1>4, <2>2 DEF out
    <3>2. /\ t \in Entry /\ fdd[t].state = "hashed" /\ fdd'[t].state # "hashed"
          /\ \A y \in Entry \ {t} : fdd'[y].state = "hashed" <=> fdd[y].state = "hashed"
          /\ \A y \in Entry : fdd'[y].state = "hashed" => fdd'[y].fd = fdd[y].fd
      BY <1>2, <1>5, <1>7, <2>2, <3>1, UnusedLemma
    <3>3. QED
      BY <1>8, <3>1, <3>2, UnlinkedChain
  <2>3. QED
    BY <2>1, <2>2
<1>12. FdTableTypeOK'
  BY <1>1, <1>2, <1>3, <1>8, <1>9, <1>11 DEF FdTableInv, FdTableTypeOK
<1>13. \A y \in Entry : fdd'[y].state = "deleted" <=> y # x /\ fdd[y].state = "deleted"
  BY <1>2, <1>5, <1>7, UnusedLemma DEF out
<1>14. Doomed'
  BY <1>1, <1>2, <1>13 DEF Doomed
<1>15. \A y \in Entry : fdd'[y].state # "unused" =>
           y # x /\ (t # None => y # t) /\ fdd'[y] = fdd[y] /\ y \notin out
  BY <1>4, <1>7, UnusedLemma DEF out
<1>16. \A y \in Entry \ out :
           /\ fdd[y].fd \in FdNumbers
           /\ (fdd[y].state = "hashed" \/ (fdd[y].state = "deleted" /\ fdd[y].shut)) =>
                  fdd[y].fd \notin gone
  <2> SUFFICES ASSUME NEW y \in Entry \ out
               PROVE  /\ fdd[y].fd \in FdNumbers
                      /\ (fdd[y].state = "hashed" \/ (fdd[y].state = "deleted" /\ fdd[y].shut)) =>
                             fdd[y].fd \notin gone
    OBVIOUS
  <2>1. fdd[y].fd \in FdNumbers /\ y # x /\ (t # None => y # t) /\ y # None
    BY <1>3, <1>4, FdTableAssumption DEF Table, EntryType, out
  <2>2. ASSUME fdd[y].state = "hashed"
        PROVE  fdd[y].fd \notin gone
    <3>1. polled[fdd[y].fd] = y
      BY <1>3, <2>2 DEF Numbers
    <3>2. fdd[x].shut => fdd[x].fd # fdd[y].fd
      BY <1>2, <1>3, <2>1, <3>1 DEF Numbers
    <3>3. t # None => fdd[t].fd # fdd[y].fd
      BY <1>3, <1>5, <2>1, <3>1 DEF Numbers
    <3>4. QED
      BY <1>6, <3>2, <3>3
  <2>3. ASSUME fdd[y].state = "deleted", fdd[y].shut
        PROVE  fdd[y].fd \notin gone
    <3>1. polled[fdd[y].fd] = None
      BY <1>3, <2>3 DEF Numbers
    <3>2. fdd[x].shut => fdd[x].fd # fdd[y].fd
      BY <1>2, <1>3, <2>1, <2>3 DEF Numbers
    <3>3. t # None => fdd[t].fd # fdd[y].fd
      BY <1>3, <1>5, <3>1 DEF Numbers
    <3>4. QED
      BY <1>6, <3>2, <3>3
  <2>4. QED
    BY <2>1, <2>2, <2>3
<1>17. Numbers'
  <2>1. \A y \in Entry : fdd'[y].state = "hashed" =>
            fdd'[y].fd \in opened' /\ polled'[fdd'[y].fd] = y
    <3> SUFFICES ASSUME NEW y \in Entry, fdd'[y].state = "hashed"
                 PROVE  fdd'[y].fd \in opened' /\ polled'[fdd'[y].fd] = y
      OBVIOUS
    <3>1. y \in Entry \ out /\ fdd'[y] = fdd[y]
      BY <1>15
    <3>2. fdd[y].fd \in FdNumbers /\ fdd[y].fd \notin gone
      BY <1>16, <3>1
    <3>3. fdd[y].fd \in opened /\ polled[fdd[y].fd] = y
      BY <1>3, <3>1 DEF Numbers
    <3>4. QED
      BY <1>1, <1>10, <3>1, <3>2, <3>3
  <2>2. ASSUME NEW f \in FdNumbers, polled'[f] # None
        PROVE  /\ polled'[f] \in Entry /\ fdd'[polled'[f]].state = "hashed"
               /\ fdd'[polled'[f]].fd = f
    <3>1. /\ f \notin gone /\ polled'[f] = polled[f] /\ polled[f] \in Entry
          /\ fdd[polled[f]].state = "hashed" /\ fdd[polled[f]].fd = f
      BY <1>3, <1>10, <2>2 DEF Numbers
    <3>2. polled[f] \notin out
      BY <1>2, <1>4, <1>6, <3>1 DEF out
    <3>3. QED
      BY <1>7, <3>1, <3>2
  <2>3. \A y \in Entry : fdd'[y].state = "deleted" /\ fdd'[y].shut =>
            fdd'[y].fd \in opened' /\ polled'[fdd'[y].fd] = None
    BY <1>1, <1>3, <1>10, <1>15, <1>16 DEF Numbers
  <2>4. \A y, z \in Entry :
            /\ fdd'[y].state = "deleted" /\ fdd'[y].shut
            /\ fdd'[z].state = "deleted" /\ fdd'[z].shut
            /\ fdd'[y].fd = fdd'[z].fd
            => y = z
    BY <1>3, <1>15 DEF Numbers
  <2>5. QED
    BY <2>1, <2>2, <2>3, <2>4 DEF Numbers
<1>18. Limits'
  <2> SUFFICES ASSUME NEW y \in Entry, fdd'[y].limit # None
               PROVE  /\ fdd'[y].kind = "socket" /\ fdd'[y].shut /\ fdd'[y].state # "unused"
                      /\ fdd'[fdd'[y].limit].state = "hashed"
                      /\ fdd'[fdd'[y].limit].kind = "limit"
                      /\ \A z \in Entry : fdd'[z].limit = fdd'[y].limit => z = y
    BY DEF Limits
  <2>1. y \notin out /\ fdd'[y] = fdd[y]
    BY <1>7, UnusedLemma
  <2>2. /\ fdd[y].limit \in Entry
        /\ fdd[y].kind = "socket" /\ fdd[y].shut /\ fdd[y].state # "unused"
        /\ fdd[fdd[y].limit].state = "hashed" /\ fdd[fdd[y].limit].kind = "limit"
        /\ \A z \in Entry : fdd[z].limit = fdd[y].limit => z = y
    BY <1>3, <2>1 DEF Limits, Table, EntryType
  <2>3. fdd[y].limit \notin out
    <3>1. fdd[y].limit # x
      BY <1>2, <2>2
    <3>2. t # None => fdd[y].limit # t
      BY <1>2, <2>1, <2>2 DEF out
    <3>3. QED
      BY <1>4, <3>1, <3>2 DEF out
  <2>4. fdd'[fdd[y].limit] = fdd[fdd[y].limit]
    BY <1>7, <2>2, <2>3
  <2>5. ASSUME NEW z \in Entry, fdd'[z].limit = fdd[y].limit
        PROVE  z = y
    <3>1. z \notin out
      BY <1>7, <2>1, <2>5, UnusedLemma
    <3>2. QED
      BY <1>7, <2>2, <2>5, <3>1
  <2>6. QED
    BY <2>1, <2>2, <2>4, <2>5
<1>19. Kinds'
  BY <1>3, <1>7, UnusedLemma DEF Kinds
<1>20. OnlyLimitsLeak'
  <2>1. CASE t = None
    <3>1. out = {x} /\ Release(x).freed = x /\ Release(x).cleaned = {x}
      BY <1>4, <2>1 DEF out, Release
    <3>2. leaks' = leaks
      BY <1>1, <3>1
    <3>3. QED
      BY <1>1, <1>3, <3>2 DEF OnlyLimitsLeak
  <2>2. CASE t # None
    <3>1. out = {x, t} /\ Release(x).freed = t /\ Release(x).cleaned = {x}
      BY <1>4, <2>2 DEF out, Release
    <3>2. Kind(x) = "limited socket" /\ Kind(t) = "limit"
      <4>1. fdd[t].limit = None
        BY <1>3, <1>5, <2>2 DEF Kinds
      <4>2. QED
        BY <1>5, <2>2, <4>1 DEF Kind
    <3>3. leaks' \subseteq leaks \cup {<<"limited socket", "memory">>, <<"limit", "destructor">>}
      BY <1>1, <3>1, <3>2
    <3>4. QED
      BY <1>1, <1>3, <3>3 DEF OnlyLimitsLeak
  <2>3. QED
    BY <2>1, <2>2
<1> QED
  BY <1>11, <1>12, <1>14, <1>17, <1>18, <1>19, <1>20 DEF FdTableInv
-----------------------------------------------------------------------------
(* The theorems                                                            *)

LEMMA InitInv == FdTableInit => FdTableInv
<1> SUFFICES ASSUME FdTableInit
             PROVE  FdTableInv
  OBVIOUS
<1>1. /\ fdd = [x \in Entry |-> Unused] /\ chain = [h \in Hashes |-> << >>] /\ doomed = << >>
      /\ opened = {} /\ polled = [f \in FdNumbers |-> None] /\ phase = "callbacks"
      /\ leaks = {}
  BY DEF FdTableInit, Hashes
<1>2. FdTableTypeOK
  BY <1>1, UnusedLemma DEF FdTableTypeOK, Table, ChainType
<1>3. \A x \in Entry : fdd[x] = Unused
  BY <1>1
<1>4. Chained(fdd, chain) /\ Doomed
  <2>1. \A h \in Hashes : Len(chain[h]) = 0
    BY <1>1
  <2>2. Len(doomed) = 0
    BY <1>1
  <2>3. Chained(fdd, chain)
    BY <1>3, <2>1, UnusedLemma DEF Chained
  <2>4. Doomed
    BY <1>3, <2>2, UnusedLemma DEF Doomed
  <2>5. QED
    BY <2>3, <2>4
<1>5. Numbers
  BY <1>1, <1>3, UnusedLemma DEF Numbers
<1>6. Limits
  BY <1>3, UnusedLemma DEF Limits
<1>7. Kinds
  BY <1>3, UnusedLemma DEF Kinds
<1>8. OnlyLimitsLeak
  BY <1>1 DEF OnlyLimitsLeak
<1> QED
  BY <1>2, <1>4, <1>5, <1>6, <1>7, <1>8 DEF FdTableInv

LEMMA NextInv == FdTableInv /\ [FdTableNext]_fdTable => FdTableInv'
<1> SUFFICES ASSUME FdTableInv, [FdTableNext]_fdTable
             PROVE  FdTableInv'
  OBVIOUS
<1>1. CASE AddTimer
  BY <1>1, AddTimerStep
<1>2. CASE AddSocket
  BY <1>2, AddSocketStep
<1>3. CASE AddLimitedSocket
  BY <1>3, AddLimitedSocketStep
<1>4. CASE \E x \in Entry : DelSocket(x) \/ DelTimer(x) \/ HandOver(x)
  BY <1>4, DelSocketStep, DelTimerStep, HandOverStep
<1>5. CASE \E f \in FdNumbers : PipeTakes(f)
  BY <1>5, PipeTakesStep
<1>6. CASE BatchEnds
  BY <1>6, PhaseStep DEF BatchEnds
<1>7. CASE ReleaseNext
  BY <1>7, ReleaseNextStep
<1>8. CASE Released
  BY <1>8, PhaseStep DEF Released
<1>9. CASE FdTableWait
  BY <1>9, PhaseStep DEF FdTableWait
<1>10. CASE UNCHANGED fdTable
  <2>1. /\ UNCHANGED <<fdd, chain, doomed, opened, polled, leaks>> /\ phase' = phase
    BY <1>10 DEF fdTable
  <2>2. FdTableTypeOK' /\ Chained(fdd', chain')
    BY <2>1 DEF FdTableInv, FdTableTypeOK
  <2>3. Doomed'
    BY <2>1 DEF FdTableInv, Doomed
  <2>4. Limits'
    BY <2>1 DEF FdTableInv, Limits
  <2>5. Kinds'
    BY <2>1 DEF FdTableInv, Kinds
  <2>6. Numbers'
    BY <2>1 DEF FdTableInv, Numbers
  <2>7. OnlyLimitsLeak'
    BY <2>1 DEF FdTableInv, OnlyLimitsLeak, In
  <2>8. QED
    BY <2>2, <2>3, <2>4, <2>5, <2>6, <2>7 DEF FdTableInv
<1> QED
  BY <1>1, <1>2, <1>3, <1>4, <1>5, <1>6, <1>7, <1>8, <1>9, <1>10 DEF FdTableNext

\* The hash, the list of deleted entries, epoll and the open descriptors fit
\* together in every state, between any two steps of callbacks and releases.
THEOREM FdTableInvariant == FdTableSpec => []FdTableInv
<1>1. FdTableInit => FdTableInv
  BY InitInv
<1>2. FdTableInv /\ [FdTableNext]_fdTable => FdTableInv'
  BY NextInv
<1>3. QED
  BY <1>1, <1>2, PTL DEF FdTableSpec

\* find_event finds the fd_data that epoll has for a number, whatever was deleted
\* and added under that number before, and nothing for one that is not watched.
THEOREM LooksUp == FdTableSpec => []FoundByNumber
<1>1. FdTableInv => FoundByNumber
  <2> SUFFICES ASSUME FdTableInv, NEW f \in FdNumbers
               PROVE  FindEvent(f) = polled[f]
    BY DEF FoundByNumber
  <2>1. CASE polled[f] = None
    <3>1. \A x \in Entry : fdd[x].state = "hashed" => fdd[x].fd # f
      BY <2>1, FdTableAssumption DEF FdTableInv, Numbers
    <3>2. Found(f) = {}
      BY <3>1, NotFound
    <3>3. QED
      BY <2>1, <3>2 DEF FindEvent
  <2>2. CASE polled[f] # None
    <3> DEFINE x == polled[f]
    <3>1. x \in Entry /\ fdd[x].state = "hashed" /\ fdd[x].fd = f
      BY <2>2 DEF FdTableInv, Numbers
    <3> HIDE DEF x
    <3>2. Found(f) # {} /\ chain[Hash(f)][Unhash(f)] = x
      BY <3>1, FoundEntry
    <3>3. QED
      BY <3>2 DEF FindEvent, Unhash, x
  <2>3. QED
    BY <2>1, <2>2
<1>2. QED
  BY <1>1, FdTableInvariant, PTL

\* Whatever is deleted in a batch, in whatever order, is destroyed and freed before
\* the program waits, but for the two objects of each rate limit.
THEOREM Leaks == FdTableSpec => []OnlyLimitsLeak
<1>1. FdTableInv => OnlyLimitsLeak
  BY DEF FdTableInv
<1>2. QED
  BY <1>1, FdTableInvariant, PTL
=============================================================================
