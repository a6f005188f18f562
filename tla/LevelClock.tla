---------------------------- MODULE LevelClock ----------------------------
(***************************************************************************)
(* The clock of a level in a child process (server/proto.c): the LEVL      *)
(* command that starts it, the commands refused after its end, the WAIT    *)
(* command and the START button that hold it, and the seconds that p_draw  *)
(* shows.  Time is counted in nanoseconds (of TimeArith) and compared, set *)
(* and subtracted as server/time.c does; p_end and the other timespecs are *)
(* absolute.  Write queues and epoll interest belong to module Child.      *)
(***************************************************************************)
EXTENDS TimeArith, FiniteSets

CONSTANTS
    Conn,           \* the application connections handed to the child
    MaxConn,        \* level_ops.max_conn
    MaxTime,        \* level_ops.max_time, in seconds; 0 is no limit
    CanPause,       \* CAN_PAUSE_INTERVAL, in milliseconds
    Horizon         \* bound: the last instant that is explored

ASSUME ClockAssumption ==
    /\ MaxConn \in Nat
    /\ MaxTime \in Nat
    /\ CanPause \in Nat
    /\ Horizon \in Nat

VARIABLES
    now,            \* time_now()
    stage,          \* pd->process: "absent", "level" or "cmd"
    closing,        \* connections that only wait for their queue to drain
    started,        \* p_code is set
    boundMax,       \* p_bound_max
    pEndSet,        \* p_end_set
    pEnd,           \* p_end
    canPauseUntil,  \* p_can_pause_until
    waiting,        \* p_waiting
    pausedTime,     \* p_paused_time
    quit,           \* event_quit() was called
    run,            \* history: nanoseconds of the level that were not held
    slack,          \* history: what holds that began between two milliseconds may
                    \* have given or taken, less than a millisecond each
    last            \* history: how this step answered a command or what it showed

clock == <<started, boundMax, pEndSet, pEnd, canPauseUntil>>
hold == <<waiting, pausedTime>>
vars == <<now, stage, closing, clock, hold, quit, run, slack, last>>

\* p_level->max_time * 1000, and the same in nanoseconds.
Limit == MaxTime * Sec
Allowed == Limit * Sub

TimeFromNow(ms) == TimeAdd(Stamp(now), ms)

\* time_after: the present is after tp.
TimeAfter(tp) ==
    LET n == Stamp(now)
    IN n.sec > tp.sec \/ (n.sec = tp.sec /\ n.nsec > tp.nsec)

\* time_left: never negative.
TimeLeft(tp) ==
    LET ms == TimeDiff(tp, Stamp(now))
    IN IF ms < 0 THEN 0 ELSE ms

Bound == {c \in Conn : stage[c] = "cmd"}
Present == {c \in Conn : stage[c] # "absent"}
Listening(c) == ~quit /\ stage[c] # "absent" /\ c \notin closing

\* p_draw and proto_resume use p_paused_time only when it is not zero.
Held == waiting /\ pausedTime # 0

\* draw_seconds((left + 999) / 1000)
WholeSeconds(ms) == (ms + Sec - 1) \div Sec

\* Before p_end and p_can_pause_until are set.
NoTime == [sec |-> 0, nsec |-> 0]

NoAnswer == [kind |-> "none", held |-> FALSE, seconds |-> 0]
Nothing == last' = NoAnswer
Answered(kind) == last' = [kind |-> kind, held |-> Held, seconds |-> 0]

Init ==
    /\ now = 0
    /\ stage = [c \in Conn |-> "absent"]
    /\ closing = {}
    /\ started = FALSE /\ boundMax = 1
    /\ pEndSet = FALSE /\ pEnd = NoTime /\ canPauseUntil = NoTime
    /\ waiting = FALSE /\ pausedTime = 0
    /\ quit = FALSE
    /\ run = 0 /\ slack = 0
    /\ last = NoAnswer

Tick ==
    /\ ~quit /\ now < Horizon
    /\ now' = now + 1
    /\ run' = IF started /\ ~Held THEN run + 1 ELSE run
    /\ Nothing
    /\ UNCHANGED <<stage, closing, clock, hold, quit, slack>>

\* proto_client_add: a connection arrives over the pipe.
Arrive(c) ==
    /\ ~quit /\ stage[c] = "absent"
    /\ stage' = [stage EXCEPT ![c] = "level"]
    /\ Nothing
    /\ UNCHANGED <<now, closing, clock, hold, quit, run, slack>>

\* Mutant: every LEVL restarts the clock.
StartLevel_Always ==
    /\ started' = TRUE
    /\ boundMax' = MaxConn
    /\ canPauseUntil' = TimeFromNow(CanPause)
    /\ pEndSet' = (MaxTime # 0)
    /\ pEnd' = IF MaxTime # 0 THEN TimeFromNow(Limit) ELSE pEnd

\* Only the first accepted LEVL loads the level and starts the clock.
StartLevel ==
    IF started
    THEN UNCHANGED clock
    ELSE /\ started' = TRUE
         /\ boundMax' = MaxConn
         /\ canPauseUntil' = TimeFromNow(CanPause)
         /\ pEndSet' = (MaxTime # 0)
         /\ pEnd' = IF MaxTime # 0 THEN TimeFromNow(Limit) ELSE pEnd

\* process_level accepts LEVL.
Level(c) ==
    /\ Listening(c) /\ stage[c] = "level"
    /\ Cardinality(Bound) < boundMax
    /\ StartLevel
    /\ stage' = [stage EXCEPT ![c] = "cmd"]
    /\ Nothing
    /\ UNCHANGED <<now, closing, hold, quit, run, slack>>

\* Any violation of the protocol, a win or a loss: OVER is queued and reading
\* stops.  An unknown level leaves the clock as it is.
Over(c) ==
    /\ Listening(c)
    /\ closing' = closing \cup {c}
    /\ Nothing
    /\ UNCHANGED <<now, stage, clock, hold, quit, run, slack>>

TimedOut == pEndSet /\ TimeAfter(pEnd)

\* process_cmd after the end of the level.
Refuse(c) ==
    /\ Listening(c) /\ stage[c] = "cmd"
    /\ TimedOut
    /\ closing' = closing \cup {c}
    /\ Answered("refused")
    /\ UNCHANGED <<now, stage, clock, hold, quit, run, slack>>

\* process_cmd before the end of the level.
Serve(c) ==
    /\ Listening(c) /\ stage[c] = "cmd"
    /\ ~TimedOut
    /\ Answered("served")
    /\ UNCHANGED <<now, stage, closing, clock, hold, quit, run, slack>>

\* Whether the remaining time is not a whole number of milliseconds, so that
\* time_left rounds it, up or down.
Rounded(ms) == ms # 0 /\ ms * Sub # Instant(pEnd) - now

\* proto_pause: the second of two concurrent WAITs changes nothing.
Pause ==
    IF waiting
    THEN UNCHANGED <<hold, slack>>
    ELSE /\ waiting' = TRUE
         /\ pausedTime' = IF ~pEndSet THEN pausedTime
                          ELSE IF TimeAfter(canPauseUntil) THEN 0
                          ELSE TimeLeft(pEnd)
         /\ slack' = IF pEndSet /\ Rounded(pausedTime') THEN slack + (Sub - 1)
                     ELSE slack

\* process_cmd with WAIT.
Wait(c) ==
    /\ Listening(c) /\ stage[c] = "cmd"
    /\ ~TimedOut
    /\ Answered("served")
    /\ Pause
    /\ UNCHANGED <<now, stage, closing, clock, quit, run>>

\* Mutant: p_end is left as it was before the hold.
Resume_KeepsEnd ==
    /\ ~quit /\ waiting
    /\ waiting' = FALSE
    /\ Nothing
    /\ UNCHANGED <<now, stage, closing, clock, pausedTime, quit, run, slack>>

\* proto_resume: the START button of a browser.
Resume ==
    /\ ~quit /\ waiting
    /\ waiting' = FALSE
    /\ pEnd' = IF pEndSet /\ pausedTime # 0 THEN TimeFromNow(pausedTime)
               ELSE pEnd
    /\ Nothing
    /\ UNCHANGED <<now, stage, closing, started, boundMax, pEndSet,
                   canPauseUntil, pausedTime, quit, run, slack>>

\* draw_seconds
Shows(ms) == last' = [kind |-> "drawn", held |-> Held, seconds |-> WholeSeconds(ms)]

\* Mutant: the held time is never shown.
Draw_IgnoresHold ==
    /\ ~quit /\ started
    /\ IF pEndSet THEN Shows(TimeLeft(pEnd)) ELSE Nothing
    /\ UNCHANGED <<now, stage, closing, clock, hold, quit, run, slack>>

\* p_draw, called every REDRAW_INTERVAL once the level is loaded.
Draw ==
    /\ ~quit /\ started
    /\ IF pEndSet THEN Shows(IF Held THEN pausedTime ELSE TimeLeft(pEnd))
       ELSE Nothing
    /\ UNCHANGED <<now, stage, closing, clock, hold, quit, run, slack>>

\* p_free: the client left or the queue of a closing connection drained.
Close(c) ==
    /\ ~quit /\ stage[c] # "absent"
    /\ stage' = [stage EXCEPT ![c] = "absent"]
    /\ closing' = closing \ {c}
    /\ quit' = (stage[c] = "cmd" \/ Present = {c})
    /\ Nothing
    /\ UNCHANGED <<now, clock, hold, run, slack>>

ConnStep(c) == Arrive(c) \/ Level(c) \/ Over(c) \/ Refuse(c) \/ Serve(c)
                 \/ Wait(c) \/ Close(c)

Next ==
    \/ Tick
    \/ Resume
    \/ Draw
    \/ \E c \in Conn : ConnStep(c)

Spec == Init /\ [][Next]_vars
-----------------------------------------------------------------------------
\* The variables hold values of the kinds the C declarations give them.
TypeOK ==
    /\ now \in Nat
    /\ stage \in [Conn -> {"absent", "level", "cmd"}]
    /\ closing \subseteq Conn
    /\ started \in BOOLEAN /\ boundMax \in Nat
    /\ pEndSet \in BOOLEAN /\ pEnd \in Timespec /\ canPauseUntil \in Timespec
    /\ waiting \in BOOLEAN /\ pausedTime \in Nat
    /\ quit \in BOOLEAN
    /\ run \in Nat /\ slack \in Nat
    /\ last \in [kind : {"none", "served", "refused", "drawn"}, held : BOOLEAN,
                 seconds : Nat]

\* CAN_PAUSE_INTERVAL in nanoseconds.
Early == CanPause * Sub

\* No command is carried out once more than max_time has passed without a
\* hold, whatever WAITs, STARTs and second LEVLs came in between: each hold
\* adds less than a millisecond by its rounding, and all together never add
\* more than CAN_PAUSE_INTERVAL (proto.c:303, 440, 572-596, time.c:56-70).
LimitEnforced ==
    last.kind = "served" /\ MaxTime # 0 =>
        /\ run <= Allowed + slack
        /\ run <= Allowed + Early

\* A player whose clock runs is refused for time only when max_time is used
\* up, but for less than a millisecond that each hold may have taken; besides,
\* only a command that slips through during a hold is.
NoEarlyRefusal ==
    last.kind = "refused" => run > Allowed - slack \/ last.held

\* The browser shows the seconds that are left for commands, rounded up: held
\* time does not count, and the value is off by no more than the millisecond
\* in which it is shown and the one in which each hold began
\* (proto.c:604-608, time.c:56-70).
DisplayTruth ==
    last.kind = "drawn" =>
        LET left == Allowed - run
            error == slack + (Sub - 1)
        IN /\ left - error <= last.seconds * Whole
           /\ last.seconds > 0 => (last.seconds - 1) * Whole < left + error

\* The clock can be held only while no more than CAN_PAUSE_INTERVAL of the
\* level has been used (proto.c:579), so that WAIT cannot be used to think.
HoldIsEarly == Held => run <= Early

\* What the code believes to be left, in the one of p_end and p_paused_time
\* that is in force.
Left == IF Held THEN pausedTime * Sub ELSE Instant(pEnd) - now

\* It is what is left, but for the rounding of holds, which never gives more
\* than the time that passed while holds could begin.
Sync ==
    pEndSet =>
        /\ Left <= Allowed - run + slack
        /\ Left >= Allowed - run - slack
        /\ Left <= Allowed - run + Early
        /\ Left <= Allowed
=============================================================================
