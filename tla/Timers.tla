------------------------------- MODULE Timers -------------------------------
(***************************************************************************)
(* The timers of server/event.c on Linux timerfds, with the level timers   *)
(* of server/proto.c that a hold (WAIT) pauses.  Events are collected by   *)
(* epoll_wait and dispatched one after the other; callbacks arm, pause and *)
(* delete timers in between, so that an event can be stale when its turn   *)
(* comes.  Time is counted in ticks.                                       *)
(***************************************************************************)
EXTENDS Naturals, FiniteSets

CONSTANTS
    Timer,      \* timer_data objects
    System,     \* those that are not level timers
    Delays,     \* arguments of timer_arm
    LateMax     \* bound: expirations of a timer nobody has read

ASSUME TimersAssumption ==
    /\ System \subseteq Timer /\ IsFiniteSet(Timer)
    /\ Delays \subseteq Nat \ {0}
    /\ LateMax \in Nat \ {0}

VARIABLES
    td,         \* the timer_data of each timer with its fd_data
    kernel,     \* the timerfd behind each descriptor
    batch,      \* timers whose event is yet to be dispatched
    running,    \* the program is in callbacks, not in epoll_wait
    held,       \* p_waiting
    wish,       \* history: what the program asked of each timer
    early,      \* history: timers that were called before their time or in a hold
    lost,       \* history: timers an expiration of which was discarded
    reset       \* history: timers that were set since the batch was collected

timers == <<td, kernel, batch, running, held, wish, early, lost, reset>>

Fd == 1..Cardinality(Timer)

\* A timerfd: ticks to the next expiration (0 is disarmed), the interval and
\* the expirations read() will return.
NoClock == [open |-> FALSE, due |-> 0, period |-> 0, fired |-> 0]

\* timerfd_settime starts the count of expirations anew.
SetTime(due, period) ==
    [open |-> TRUE, due |-> due, period |-> period, fired |-> 0]

NoTimer == [state |-> "free", fd |-> 0, armed |-> FALSE, paused |-> FALSE,
            backlog |-> 0, resumeDue |-> 0, resumePeriod |-> 0]

\* delay, whether to repeat, the time the timer ran since it was armed or last
\* called, whether a one shot was called, and whether it was armed in a hold.
NoWish == [delay |-> 0, repeat |-> FALSE, ran |-> 0, done |-> FALSE, inHold |-> FALSE]

Live == {x \in Timer : td[x].state = "live"}
LevelTimers == Live \ System

TimersInit ==
    /\ td = [x \in Timer |-> NoTimer]
    /\ kernel = [f \in Fd |-> NoClock]
    /\ batch = {} /\ running = FALSE /\ held = FALSE
    /\ wish = [x \in Timer |-> NoWish]
    /\ early = {} /\ lost = {} /\ reset = {}
-----------------------------------------------------------------------------
(* Time and epoll                                                          *)

Expired(c) ==
    IF c.due = 0 THEN c
    ELSE IF c.due > 1 THEN [c EXCEPT !.due = @ - 1]
    ELSE [c EXCEPT !.due = c.period, !.fired = @ + 1]

\* The time of LateMax expirations is as good as any longer one.
Ran(x) ==
    LET w == wish[x]
    IN IF x \in Live /\ td[x].armed /\ ~td[x].paused /\ w.ran < LateMax * w.delay
       THEN [w EXCEPT !.ran = @ + 1] ELSE w

TimersTick ==
    /\ \A f \in Fd : kernel[f].fired < LateMax \/ kernel[f].due = 0
    /\ kernel' = [f \in Fd |-> Expired(kernel[f])]
    /\ wish' = [x \in Timer |-> Ran(x)]
    /\ UNCHANGED <<td, batch, running, held, early, lost, reset>>

\* Expired timers are reported, with other events or when there are any.
EpollWait ==
    /\ ~running
    /\ running' = TRUE
    /\ batch' = {x \in Live : kernel[td[x].fd].fired > 0}
    /\ reset' = {}
    /\ UNCHANGED <<td, kernel, held, wish, early, lost>>

\* The batch is done: release_deleted frees what was deleted.
EndBatch ==
    /\ running /\ batch = {}
    /\ running' = FALSE
    /\ td' = [x \in Timer |-> IF td[x].state = "deleted" THEN NoTimer ELSE td[x]]
    /\ reset' = {}
    /\ UNCHANGED <<kernel, batch, held, wish, early, lost>>
-----------------------------------------------------------------------------
(* timer_cb                                                                *)

\* A call that comes too soon: for more expirations than there was time for, for
\* none although nothing was set since the event was collected, or for a level
\* timer from before the hold.
TooSoon(x, n) ==
    \/ wish[x].ran < n * wish[x].delay
    \/ n = 0 /\ x \notin reset
    \/ held /\ x \in LevelTimers /\ ~wish[x].inHold

\* The program is called: n expirations since the last call.
Called(x, n) ==
    LET w == wish[x]
    IN /\ early' = IF TooSoon(x, n) THEN early \cup {x} ELSE early
       /\ wish' = [wish EXCEPT ![x] =
                     [w EXCEPT !.ran = IF @ >= n * w.delay THEN @ - n * w.delay ELSE 0,
                               !.done = @ \/ (n > 0 /\ ~w.repeat)]]

\* read(fd): what it returns is gone from the descriptor, whosever it is now.
Count(x) == kernel[td[x].fd].fired

Victims(x) == {y \in Live \ {x} : td[y].fd = td[x].fd /\ Count(x) > 0}

\* Mutant: a paused timer is called all the same.
CallsBack_Paused(x) == td[x].armed

CallsBack(x) == td[x].armed /\ ~td[x].paused

TimerCb(x) ==
    /\ running /\ x \in batch
    /\ batch' = batch \ {x}
    /\ kernel' = [kernel EXCEPT ![td[x].fd].fired = 0]
    /\ IF CallsBack(x)
       THEN Called(x, Count(x)) /\ UNCHANGED td
       ELSE /\ td' = IF td[x].paused
                     THEN [td EXCEPT ![x].backlog = @ + Count(x)] ELSE td
            /\ UNCHANGED <<wish, early>>
    /\ lost' = lost \cup Victims(x)
    /\ UNCHANGED <<running, held, reset>>
-----------------------------------------------------------------------------
(* What callbacks do with timers                                           *)

\* timer_new: the kernel hands out the lowest descriptor that is free.
New(x) ==
    /\ running /\ td[x].state = "free"
    /\ LET free == {f \in Fd : ~kernel[f].open}
           low == CHOOSE f \in free : \A g \in free : f <= g
       IN /\ free # {}
          /\ td' = [td EXCEPT ![x] = [NoTimer EXCEPT !.state = "live", !.fd = low]]
          /\ kernel' = [kernel EXCEPT ![low] = SetTime(0, 0)]
    /\ wish' = [wish EXCEPT ![x] = NoWish]
    /\ lost' = lost \ {x}
    /\ UNCHANGED <<batch, running, held, early, reset>>

\* timer_arm and, with ms = 0, timer_disarm.
Arm(x, ms, repeat) ==
    /\ running /\ x \in Live
    /\ td' = [td EXCEPT ![x].armed = ms > 0, ![x].paused = FALSE]
    /\ kernel' = [kernel EXCEPT ![td[x].fd] = SetTime(ms, IF repeat THEN ms ELSE 0)]
    /\ wish' = [wish EXCEPT ![x] = [NoWish EXCEPT !.delay = ms, !.repeat = repeat,
                                                  !.inHold = held]]
    /\ lost' = lost \ {x}
    /\ reset' = reset \cup {x}
    /\ UNCHANGED <<batch, running, held, early>>

\* Mutant: the descriptor is closed without event_del_fd.
Unregister_Not(r) == r

\* Mutant: event_del_fd frees at once.
Unregister_Frees(r) == NoTimer

\* event_del_fd: out of the hash, on the list of deleted fds.
Unregister(r) == [r EXCEPT !.state = "deleted", !.armed = FALSE, !.paused = FALSE]

\* timer_del and level_timer_del
Del(x) ==
    /\ running /\ x \in Live
    /\ td' = [td EXCEPT ![x] = Unregister(@)]
    /\ kernel' = [kernel EXCEPT ![td[x].fd] = NoClock]
    /\ wish' = [wish EXCEPT ![x] = NoWish]
    /\ lost' = lost \ {x}
    /\ UNCHANGED <<batch, running, held, early, reset>>

PausedClock(c) == SetTime(0, 0)

\* timer_pause of every level timer, by proto_pause.
PauseTimers ==
    LET paused == {x \in LevelTimers : ~td[x].paused}
    IN /\ running /\ ~held
       /\ held' = TRUE
       /\ td' = [x \in Timer |->
                   IF x \notin paused THEN td[x]
                   ELSE [td[x] EXCEPT !.paused = TRUE, !.backlog = 0,
                                      !.resumeDue = kernel[td[x].fd].due,
                                      !.resumePeriod = kernel[td[x].fd].period]]
       /\ kernel' = [f \in Fd |->
                      IF \E x \in paused : td[x].fd = f THEN PausedClock(kernel[f])
                      ELSE kernel[f]]
       /\ lost' = lost \cup {x \in paused : td[x].armed /\ Count(x) > 0}
       /\ wish' = [x \in Timer |-> [wish[x] EXCEPT !.inHold = FALSE]]
       /\ UNCHANGED <<batch, running, early, reset>>

\* Mutant: the timer is not set again.
ResumedClock_Off(r) == SetTime(0, 0)

ResumedClock(r) == SetTime(r.resumeDue, r.resumePeriod)

\* timer_resume of every level timer, by proto_resume; a backlog is reported.
ResumeTimers ==
    LET paused == {x \in LevelTimers : td[x].paused}
        told == {x \in paused : td[x].backlog > 0}
    IN /\ running /\ held
       /\ held' = FALSE
       /\ td' = [x \in Timer |-> IF x \in paused THEN [td[x] EXCEPT !.paused = FALSE]
                                 ELSE td[x]]
       /\ kernel' = [f \in Fd |->
                      IF \E x \in paused : td[x].fd = f
                      THEN ResumedClock(td[CHOOSE x \in paused : td[x].fd = f])
                      ELSE kernel[f]]
       /\ early' = early \cup
            {x \in told : wish[x].ran < td[x].backlog * wish[x].delay}
       /\ reset' = reset \cup paused
       /\ UNCHANGED <<batch, running, wish, lost>>
-----------------------------------------------------------------------------
Program ==
    \/ PauseTimers \/ ResumeTimers
    \/ \E x \in Timer :
          \/ New(x) \/ Del(x)
          \/ Arm(x, 0, FALSE)
          \/ \E ms \in Delays, repeat \in BOOLEAN : Arm(x, ms, repeat)

Loop == EpollWait \/ EndBatch \/ \E x \in Timer : TimerCb(x)

TimersNext == TimersTick \/ Loop \/ Program

TimersSpec == TimersInit /\ [][TimersNext]_timers
-----------------------------------------------------------------------------
(* Safety                                                                  *)

\* No event is dispatched to a timer that was freed (event.c:299-302, 265).
NoFreedTimer == \A x \in batch : td[x].state # "free"

\* A callback is never told of more expirations than there was time for since
\* the timer was armed, leaving out the time it was paused (event.h:32-35).  It
\* is called for none at all, through an event that is stale, only if the timer
\* was armed or resumed since that event was collected; and during a hold only if
\* it was armed in it (proto.c:656).
NeverEarly == early = {}

\* The program was promised a call.
Awaited(x) == x \in Live /\ td[x].armed /\ ~td[x].paused /\ ~wish[x].done

\* The kernel still has something to report for x.
Coming(x) == kernel[td[x].fd].due > 0 \/ kernel[td[x].fd].fired > 0

\* A timer that is armed and not paused will be called, unless an expiration
\* was discarded by a pause or by the stale event of another timer, see Fires.
FiresUnlessLost == \A x \in Timer : Awaited(x) /\ x \notin lost => Coming(x)
-----------------------------------------------------------------------------
(* What the documentation says                                             *)

\* event.h:55 says of timer_pause "If the callback has been already scheduled,
\* it will be fired right after resume": what was armed is called.
Fires == \A x \in Timer : Awaited(x) => Coming(x)
=============================================================================
