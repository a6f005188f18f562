------------------------------ MODULE RateLimit ------------------------------
(***************************************************************************)
(* The token bucket of server/socket.c: how a socket with a rate limit     *)
(* empties its queue, with the timer that wakes it up (server/event.c) and *)
(* the cached clock of server/time.c.  Real time is counted in             *)
(* nanoseconds (of TimeArith); the program sees it once per batch.         *)
(***************************************************************************)
EXTENDS TimeArith, Sequences, FiniteSets

CONSTANTS
    Rate,       \* RATE, bytes per second
    BucketSize, \* BUCKET_SIZE
    Sizes,      \* sizes of messages
    Largest,    \* bound: no message is larger
    QueueMax,   \* WQUEUE_MAX_LEN
    Steps,      \* by how much time may advance in one step
    LastInstant \* bound: the last instant that is explored

ASSUME RateAssumption ==
    /\ Rate \in Nat \ {0} /\ BucketSize \in Nat
    /\ Largest \in Nat \ {0} /\ Sizes \subseteq 1..Largest
    /\ QueueMax \in Nat \ {0} /\ Steps \subseteq Nat \ {0} /\ LastInstant \in Nat

VARIABLES
    real,       \* CLOCK_MONOTONIC
    cached,     \* cache and cache_valid; -1 when it is not valid
    s,          \* the socket: last_xmit, rate_limit_okay, wqueue, EV_WRITE
    wakeup,     \* the timerfd: when it expires (-1 never), unread expirations
    events,     \* events of the batch that are yet to be dispatched
    inLoop,     \* the program is in callbacks, not in epoll_wait
    ideal,      \* history: token buckets that know neither rounding nor caches
    fair        \* history: the timer was armed for the message in front

rate == <<real, cached, s, wakeup, events, inLoop, ideal, fair>>

Now == IF cached >= 0 THEN cached ELSE real

\* A bucket in bytes times Whole, to stay with integers.  A message that is larger
\* than BUCKET_SIZE is sent as a whole when its time has come (socket.c:327).
Full == BucketSize * Whole
Most == (IF BucketSize > Largest THEN BucketSize ELSE Largest) * Whole
Filled(b, d) == IF b + Rate * d > Most THEN Most ELSE b + Rate * d

\* socket_set_bucket: the bucket is stored as the time it takes to fill it.
SetBucket(last, now, bucket) == TimeAdd(Stamp(now), -Quot(bucket * Sec, Rate))

\* Mutant: credit is saved up beyond the size of the bucket.
Bucket_Unbounded(last, now) ==
    LET t == Quot(TimeDiff(Stamp(now), last) * Rate, Sec)
    IN IF t < 0 THEN 0 ELSE t

\* socket_get_bucket
Bucket(last, now) ==
    LET t == Quot(TimeDiff(Stamp(now), last) * Rate, Sec)
    IN IF t > BucketSize THEN BucketSize ELSE IF t < 0 THEN 0 ELSE t

\* socket_set_ratelimit on a new socket
RateInit ==
    /\ real \in 0..(Whole - 1) /\ cached = real
    /\ s = [last |-> SetBucket(Stamp(0), real, BucketSize), okay |-> FALSE,
            queue |-> << >>, write |-> FALSE]
    /\ wakeup = [due |-> -1, fired |-> 0]
    /\ events = {"read"} /\ inLoop = TRUE
    /\ ideal = [lenient |-> Full, strict |-> Full, stale |-> FALSE, at |-> real]
    /\ fair = FALSE

\* Time passes, in epoll_wait or during callbacks.
RateTick ==
    \E d \in Steps :
       /\ real + d <= LastInstant
       /\ real' = real + d
       /\ wakeup' = IF wakeup.due >= 0 /\ wakeup.due <= real + d
                    THEN [due |-> -1, fired |-> 1] ELSE wakeup
       /\ UNCHANGED <<cached, s, events, inLoop, ideal, fair>>

\* event_loop: the clock is read anew after epoll_wait; other descriptors may
\* have events too.
RateEpoll ==
    /\ ~inLoop
    /\ \E ready \in SUBSET {"read", "write", "timer"} :
          /\ ready # {}
          /\ "write" \in ready => s.write
          /\ "timer" \in ready <=> wakeup.fired > 0
          /\ events' = ready
    /\ inLoop' = TRUE /\ cached' = -1
    /\ UNCHANGED <<real, s, wakeup, ideal, fair>>

RateEndBatch ==
    /\ inLoop /\ events = {}
    /\ inLoop' = FALSE
    /\ UNCHANGED <<real, cached, s, wakeup, events, ideal, fair>>

\* Another descriptor's callback queues messages with socket_write, none or
\* several.
QueueMessage(size) ==
    /\ inLoop /\ "read" \in events
    /\ Len(s.queue) < QueueMax
    /\ s' = [s EXCEPT !.queue = Append(@, size), !.write = TRUE]
    /\ UNCHANGED <<real, cached, wakeup, events, inLoop, ideal, fair>>

\* The clock of the batch is that of the first callback that asked for it.
ReadDone ==
    /\ inLoop /\ "read" \in events
    /\ events' = events \ {"read"}
    /\ cached' \in {cached, Now}
    /\ UNCHANGED <<real, s, wakeup, inLoop, ideal, fair>>

\* timer_cb and socket_ratelimit_cb: whatever the count.
RateLimitCb ==
    /\ inLoop /\ "timer" \in events
    /\ events' = events \ {"timer"}
    /\ s' = [s EXCEPT !.write = TRUE, !.okay = TRUE]
    /\ fair' = (fair /\ wakeup.fired > 0)
    /\ wakeup' = [wakeup EXCEPT !.fired = 0]
    /\ UNCHANGED <<real, cached, inLoop, ideal>>
-----------------------------------------------------------------------------
(* socket_process_wqueue                                                   *)

\* What the loop changes: the socket, and what was sent.
Loop0 == [last |-> s.last, okay |-> s.okay, queue |-> s.queue,
          ideal |-> ideal, fair |-> fair]

\* Mutant: the bucket is not looked at.
MayPass_Always(l) == TRUE

\* The bucket is looked at unless the timer has just expired.
MayPass(l) == l.okay \/ Head(l.queue) <= Bucket(l.last, Now)

\* n bytes of the first message are sent.  The buckets fill by the clock of the
\* program.  The lenient one forgives each message what rounding may gain it, nearly
\* 1 ms in the elapsed time and 1 ms in the delay of the timer (time.c:59,
\* socket.c:327).
Counted(l, n) ==
    LET left(b) == Filled(b, Now - l.ideal.at) - n * Whole
    IN IF l.okay /\ ~l.fair
       THEN [l EXCEPT !.ideal.strict = 0, !.ideal.stale = TRUE]
       ELSE [l EXCEPT !.ideal =
               [lenient |-> Filled(left(@.lenient), 2 * Sub),
                strict |-> IF @.stale THEN 0 ELSE left(@.strict),
                stale |-> @.stale, at |-> Now]]

\* The whole message was sent, or refused by the kernel for good.
SendWhole(l) ==
    LET left == IF l.okay THEN 0 ELSE Bucket(l.last, Now) - Head(l.queue)
    IN [Counted(l, Head(l.queue)) EXCEPT
          !.queue = Tail(@), !.okay = FALSE, !.fair = FALSE,
          !.last = SetBucket(@, Now, left)]

\* Only n bytes of it were.
SendPart(l, n) ==
    [Counted(l, n) EXCEPT
       !.queue = <<Head(@) - n>> \o Tail(@),
       !.last = IF l.okay THEN @
                ELSE SetBucket(@, Now, Bucket(@, Now) - n)]

\* The milliseconds the timer is armed for: until the bucket has enough.
Delay(l) ==
    LET ms == ((Head(l.queue) - Bucket(l.last, Now)) * Sec) \div Rate
    IN IF ms = 0 THEN 1 ELSE ms

\* After n whole messages.
Sent(n) == LET f[i \in 0..n] == IF i = 0 THEN Loop0 ELSE SendWhole(f[i - 1]) IN f[n]

CanSend(n) == \A i \in 0..(n - 1) : MayPass(Sent(i))

\* The state of the loop when it is left.
Leave(l, write) ==
    /\ s' = [last |-> l.last, okay |-> l.okay, queue |-> l.queue, write |-> write]
    /\ ideal' = l.ideal /\ fair' = l.fair

\* The queue is empty.
AllSent(n) ==
    /\ n = Len(s.queue)
    /\ Leave(Sent(n), FALSE)
    /\ UNCHANGED wakeup

\* Mutant: the socket is not polled any more, and no timer is armed.
Limited_NoTimer(n) ==
    /\ n < Len(s.queue) /\ ~MayPass(Sent(n))
    /\ Leave([Sent(n) EXCEPT !.fair = TRUE], FALSE)
    /\ UNCHANGED wakeup

\* A message is too large for the bucket; the timer is armed for it.
Limited(n) ==
    /\ n < Len(s.queue) /\ ~MayPass(Sent(n))
    /\ Leave([Sent(n) EXCEPT !.fair = TRUE], FALSE)
    /\ wakeup' = [due |-> real + Delay(Sent(n)) * Sub, fired |-> 0]

\* The kernel takes nothing of the message, or a part.
KernelFull(n) ==
    /\ n < Len(s.queue) /\ MayPass(Sent(n))
    /\ \E k \in 0..(Head(Sent(n).queue) - 1) :
          LET l == IF k = 0 THEN Sent(n) ELSE SendPart(Sent(n), k)
          IN Leave(l, s.write)
    /\ UNCHANGED wakeup

ProcessWqueue ==
    /\ inLoop /\ "write" \in events
    /\ events' = events \ {"write"}
    /\ \E n \in 0..Len(s.queue) :
          /\ CanSend(n)
          /\ AllSent(n) \/ Limited(n) \/ KernelFull(n)
          /\ cached' = IF s.queue = << >> \/ (n = 0 /\ s.okay) THEN cached ELSE Now
    /\ UNCHANGED <<real, inLoop>>
-----------------------------------------------------------------------------
RateNext ==
    \/ RateTick \/ RateEpoll \/ RateEndBatch
    \/ \E size \in Sizes : QueueMessage(size)
    \/ ReadDone \/ RateLimitCb \/ ProcessWqueue

RateSpec == RateInit /\ [][RateNext]_rate
-----------------------------------------------------------------------------
\* In any stretch of time, by the clock that the program reads once in a batch, the
\* socket sends no more than a full bucket and the rate allow, but for the rounding
\* of each message and for what a stale wakeup lets out: the timer is not disarmed
\* when the message it was armed for is sent without it, and an event that is
\* pending when it is armed again counts too.  The bucket is always kept as a valid
\* timespec that is not in the future (socket.c:126-141, 320-377).
RateHeldButStale ==
    /\ ideal.lenient >= 0
    /\ s.last \in Timespec /\ Instant(s.last) <= real

\* A message that waits is not forgotten: it can be written at once or the
\* timer will see to it (socket.c:330-331).
LimitedWaits ==
    s.queue # << >> =>
        s.write \/ wakeup.due >= 0 \/ wakeup.fired > 0 \/ "timer" \in events

-----------------------------------------------------------------------------
\* socket.c:44-46 says "Token bucket rate limiter values: RATE 12000 in bytes
\* per second, BUCKET_SIZE 60000 in bytes": leaving stale wakeups aside, that
\* is what is sent.
RateHeld == ideal.strict >= 0
=============================================================================
