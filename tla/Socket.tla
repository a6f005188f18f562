------------------------------ MODULE Socket ------------------------------
(***************************************************************************)
(* One socket of server/socket.c together with its fd_data of              *)
(* server/event.c, as a record and the operations on it.  A message is     *)
(* whatever the caller queues.  How much the kernel accepts and how full   *)
(* the token bucket is are choices of the environment.                     *)
(***************************************************************************)
EXTENDS Naturals, Sequences

CONSTANT WQueueMax      \* WQUEUE_MAX_LEN

ASSUME SocketAssumption == WQueueMax \in Nat \ {0}

\* "R" is EV_READ and "W" is EV_WRITE; EV_ERROR is always reported.
\*   reg     registered with epoll ("open"), on the list of deleted fds
\*           ("deleted"), or released with references left ("dead")
\*   events  fdd->events, what the program wants
\*   mask    what epoll was last told: {} while paused
\*   flush   cb_write_done is socket_del_cb
\*   limited, okay, timer   a rate limit is set, rate_limit_okay, and the
\*           rate_limit_timer is armed
NewSocket(limited) ==
    [reg |-> "open", events |-> {"R"}, mask |-> {"R"}, wq |-> << >>,
     flush |-> FALSE, limited |-> limited, okay |-> FALSE, timer |-> FALSE]

\* event_change_fd, _add and _remove: epoll is told all of fdd->events, also
\* when the socket was paused.
EventChange(s, events) ==
    IF s.reg = "open" THEN [s EXCEPT !.events = events, !.mask = events] ELSE s

\* event_pause_fd
SocketPause(s, pause) ==
    IF s.reg = "open"
    THEN [s EXCEPT !.mask = IF pause THEN {} ELSE s.events]
    ELSE s

SocketStopReading(s) == EventChange(s, s.events \ {"R"})
StopReadingFails(s) == s.reg = "deleted"

\* event_del_fd: the callback may still run for events already collected.
SocketDel(s) ==
    IF s.reg = "open" THEN [s EXCEPT !.reg = "deleted", !.mask = {}] ELSE s

SocketFlushAndDel(s) ==
    IF s.wq = << >> THEN SocketDel(s) ELSE [s EXCEPT !.flush = TRUE]

\* socket_write_ancil returns an error: -ENOBUFS or -ENOENT.
WriteFails(s) ==
    s.reg # "dead" /\ (Len(s.wq) >= WQueueMax \/ s.reg = "deleted")

\* Mutant: epoll is not asked for EV_WRITE.
SocketWrite_NoEvent(s, m) ==
    IF s.reg = "dead" THEN s ELSE [s EXCEPT !.wq = Append(@, m)]

\* socket_write_ancil when it returns 0; a dead socket swallows the message.
SocketWrite(s, m) ==
    IF s.reg = "dead" THEN s
    ELSE [EventChange(s, s.events \cup {"W"}) EXCEPT !.wq = Append(@, m)]

\* socket_ratelimit_cb, the one shot timer of the rate limit.
RateTimer(s) ==
    [EventChange(s, s.events \cup {"W"}) EXCEPT !.okay = TRUE, !.timer = FALSE]

\* How a round of socket_process_wqueue can end after n messages went out:
\* the queue is empty, the bucket is too low, or the kernel takes no more.
WriteStop == {"empty", "rate", "again"}

CanStop(s, n, stop) ==
    CASE stop = "empty" -> n = Len(s.wq)
      [] stop = "rate"  -> n < Len(s.wq) /\ s.limited /\ (n > 0 \/ ~s.okay)
      [] stop = "again" -> n < Len(s.wq)

\* Mutant: the bucket is too low and no timer is armed.
Throttle_NoTimer(s) == EventChange(s, s.events \ {"W"})

\* The bucket is too low: the timer will ask for EV_WRITE again.
Throttle(s) == [EventChange(s, s.events \ {"W"}) EXCEPT !.timer = TRUE]

\* Mutant: the write_done callback is not called.
QueueEmpty_NoCallback(s) == EventChange(s, s.events \ {"W"})

\* No more messages queued: EV_WRITE is dropped, a flushed socket deleted.
QueueEmpty(s) ==
    LET silent == EventChange(s, s.events \ {"W"})
    IN IF s.flush THEN [SocketDel(silent) EXCEPT !.flush = FALSE] ELSE silent

\* Mutant: a message that went out in part is not sent to its end.
SocketProcessWqueue_DropsRest(s, n, stop) ==
    LET gone == IF stop = "again" THEN n + 1 ELSE n
        sent == [s EXCEPT !.wq = SubSeq(@, gone + 1, Len(@)),
                          !.okay = @ /\ (n = 0 \/ ~s.limited)]
    IN CASE stop = "again" -> sent
         [] stop = "rate"  -> Throttle(sent)
         [] stop = "empty" -> QueueEmpty(sent)

\* socket_process_wqueue.  A message the kernel refuses for good counts as
\* sent: it leaves the queue.
SocketProcessWqueue(s, n, stop) ==
    LET sent == [s EXCEPT !.wq = SubSeq(@, n + 1, Len(@)),
                          !.okay = @ /\ (n = 0 \/ ~s.limited)]
    IN CASE stop = "again" -> sent
         [] stop = "rate"  -> Throttle(sent)
         [] stop = "empty" -> QueueEmpty(sent)

\* The sockets a program can hold with messages from Msg.
SocketType(Msg) ==
    [reg : {"open", "deleted", "dead"},
     events : SUBSET {"R", "W"}, mask : SUBSET {"R", "W"},
     wq : Seq(Msg), flush : BOOLEAN, limited : BOOLEAN, okay : BOOLEAN,
     timer : BOOLEAN]
=============================================================================
