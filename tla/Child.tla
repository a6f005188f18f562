------------------------------- MODULE Child -------------------------------
(***************************************************************************)
(* A child process of mazec: the single thread of event_loop that serves   *)
(* the connections of one login (server/proto.c, the client side), their   *)
(* write queues (module Socket), the pipe to the master with the idle      *)
(* timer (server/ipc.c) and a browser with its two buttons                 *)
(* (server/app.c, server/websocket_data.c).                                *)
(*                                                                         *)
(* epoll_wait returns a batch of events; the callbacks run one by one in   *)
(* any order, and what one of them changes is not taken out of the batch.  *)
(* Deleted sockets are released before the next epoll_wait.                *)
(***************************************************************************)
EXTENDS Socket, FiniteSets

CONSTANTS
    Conn,           \* connections of the contestant's programs
    Polites,        \* which of them wait for the answer before the next command
    MaxConns,       \* max_conn of the levels of this login
    FreeUsesData,   \* the level's free_data uses its argument (grid.c:51)
    Buttons,        \* the buttons the browser's user presses: START, KILL
    InboxMax,       \* bound: commands a client may have in flight
    NoConn          \* not a connection

ASSUME ChildAssumption ==
    /\ Polites \subseteq SUBSET Conn
    /\ MaxConns \subseteq Nat \ {0} /\ InboxMax \in Nat
    /\ FreeUsesData \in BOOLEAN
    /\ Buttons \subseteq {"start", "kill"}
    /\ NoConn \notin Conn

\* What clients send, up to what the properties tell apart: LEVL with the
\* code of the level, a command with one reply, and WAIT.  What ends a
\* connection (a violation of the protocol, a timeout, a win or a loss) is
\* the same for all: a LEVL among the commands or a command before LEVL.
Command == {"levl", "cmd", "wait"}

\* What the child sends: a reply, the reply to WAIT, and OVER.
Reply == {"reply", "waitack", "over"}

VARIABLES
    place,      \* where the connection's fd is: "out", "pipe" or "child"
    sock,       \* pd->s
    stage,      \* pd->process: "level" or "cmd"; "cmd" is pd->bound
    inbox,      \* bytes in the socket the child has not read: commands
    gone,       \* the client closed its end
    awaiting,   \* replies a polite client still waits for
    count,      \* p_count
    boundCount, \* p_bound_count
    boundMax,   \* p_bound_max
    loaded,     \* p_code and p_level are set
    waiting,    \* p_waiting
    browser,    \* "out", "pipe", "open" or "deleted"
    button,     \* a button press not yet read: "none", "start" or "kill"
    left,       \* the browser closed its end
    polite,     \* the connections that wait for their answers
    idle,       \* the idle timer is armed
    batch,      \* what is left of the last epoll_wait
    cur,        \* the connection whose callback is running
    proc        \* "run", "quit" (quit is set), "exit", "failed" or "crash"

conns == <<place, sock, stage, inbox, gone, awaiting>>
counts == <<count, boundCount, boundMax, loaded>>
ws == <<browser, button, left, polite>>
vars == <<conns, counts, waiting, ws, idle, batch, cur, proc>>

NoSocket == [NewSocket(TRUE) EXCEPT !.reg = "dead", !.events = {}, !.mask = {}]

InChild == {c \in Conn : place[c] = "child"}
Open == {c \in InChild : sock[c].reg = "open"}
Running == proc \in {"run", "quit"}

Init ==
    /\ place = [c \in Conn |-> "out"]
    /\ sock = [c \in Conn |-> NoSocket]
    /\ stage = [c \in Conn |-> "level"]
    /\ inbox = [c \in Conn |-> << >>]
    /\ gone = [c \in Conn |-> FALSE]
    /\ awaiting = [c \in Conn |-> 0]
    /\ count = 0 /\ boundCount = 0 /\ boundMax = 1 /\ loaded = FALSE
    /\ waiting = FALSE
    /\ browser = "out" /\ button = "none" /\ left = FALSE
    /\ polite \in Polites
    /\ idle = TRUE
    /\ batch = {} /\ cur = NoConn
    /\ proc = "run"
-----------------------------------------------------------------------------
(* The world outside: clients, the master and the browser.                 *)

\* USER was accepted and the master wrote the fd to the pipe.  The client
\* waits for the first DONE.
Login(c) ==
    /\ Running /\ place[c] = "out"
    /\ place' = [place EXCEPT ![c] = "pipe"]
    /\ awaiting' = [awaiting EXCEPT ![c] = 1]
    /\ UNCHANGED <<sock, stage, inbox, gone, counts, waiting, ws, idle, batch,
                   cur, proc>>

Send(c, m) ==
    /\ Running /\ place[c] # "out" /\ ~gone[c]
    /\ Len(inbox[c]) < InboxMax
    /\ c \in polite => awaiting[c] = 0
    /\ inbox' = [inbox EXCEPT ![c] = Append(@, m)]
    /\ awaiting' = [awaiting EXCEPT ![c] = IF c \in polite THEN 1 ELSE @]
    /\ UNCHANGED <<place, sock, stage, gone, counts, waiting, ws, idle, batch,
                   cur, proc>>

HangUp(c) ==
    /\ Running /\ place[c] # "out" /\ ~gone[c]
    /\ gone' = [gone EXCEPT ![c] = TRUE]
    /\ UNCHANGED <<place, sock, stage, inbox, awaiting, counts, waiting, ws,
                   idle, batch, cur, proc>>

Browse ==
    /\ Running /\ browser = "out"
    /\ browser' = "pipe"
    /\ UNCHANGED <<conns, counts, waiting, button, left, polite, idle,
                   batch, cur, proc>>

Press(b) ==
    /\ Running /\ browser = "open" /\ ~left /\ button = "none"
    /\ button' = b
    /\ UNCHANGED <<conns, counts, waiting, browser, left, polite, idle,
                   batch, cur, proc>>

Leave ==
    /\ Running /\ browser \in {"pipe", "open"} /\ ~left
    /\ left' = TRUE
    /\ UNCHANGED <<conns, counts, waiting, browser, button, polite, idle,
                   batch, cur, proc>>
-----------------------------------------------------------------------------
(* event_loop                                                              *)

ReadyToRead == {c \in Open : "R" \in sock[c].mask
                               /\ (inbox[c] # << >> \/ gone[c])}

\* Events that are pending for certain.
Pending ==
    {<<c, "R">> : c \in ReadyToRead}
      \cup {<<c, "E">> : c \in {d \in Open : gone[d]}}
      \cup (IF \E c \in Conn : place[c] = "pipe" THEN {<<NoConn, "pipe">>} ELSE {})
      \cup (IF browser = "pipe" THEN {<<NoConn, "pipe">>} ELSE {})
      \cup (IF browser = "open" /\ button # "none" THEN {<<NoConn, "button">>} ELSE {})
      \cup (IF browser = "open" /\ left THEN {<<NoConn, "left">>} ELSE {})

\* Events that depend on the clock and on how much the kernel has buffered.
Possible ==
    {<<c, "W">> : c \in {d \in Open : "W" \in sock[d].mask}}
      \cup {<<c, "rate">> : c \in {d \in InChild : sock[d].timer}}
      \cup (IF idle THEN {<<NoConn, "idle">>} ELSE {})

Released == Open = InChild /\ browser # "deleted"

\* epoll_wait returns everything that is pending.
EpollWait ==
    /\ proc = "run" /\ batch = {} /\ cur = NoConn /\ Released
    /\ \E also \in SUBSET Possible : batch' = Pending \cup also
    /\ batch' # {}
    /\ UNCHANGED <<conns, counts, waiting, ws, idle, cur, proc>>

\* Mutant: EV_ERROR is looked at before EV_READ and does not return.
Take_ErrorFirst(e) ==
    /\ Running
    /\ e \in batch
    /\ cur \in {NoConn, e[1]}
    /\ e[2] = "R" => <<e[1], "E">> \notin batch
    /\ e[2] = "W" => <<e[1], "R">> \notin batch /\ <<e[1], "E">> \notin batch

\* The loop takes event e: a callback of its own, or the next part of the
\* socket_cb that is running, in the order EV_READ, EV_ERROR, EV_WRITE.
Take(e) ==
    /\ Running
    /\ e \in batch
    /\ cur \in {NoConn, e[1]}
    /\ e[2] = "E" => <<e[1], "R">> \notin batch
    /\ e[2] = "W" => <<e[1], "R">> \notin batch /\ <<e[1], "E">> \notin batch

\* After the part e of socket_cb of c: the parts that follow come next.
Goes(c, rest) ==
    /\ batch' = rest
    /\ cur' = IF rest \cap {<<c, "E">>, <<c, "W">>} = {} THEN NoConn ELSE c
-----------------------------------------------------------------------------
(* proto.c: reading commands                                               *)

\* p_send_msg: the socket is deleted when the message cannot be queued.
SendMsg(s, m) == IF WriteFails(s) THEN SocketDel(s) ELSE SocketWrite(s, m)

\* Mutant: reading goes on after OVER.
Report_KeepsReading(s) == SocketFlushAndDel(SendMsg(s, "over"))

\* p_report_and_close, as far as the socket is concerned.
Report(s) == SocketFlushAndDel(SendMsg(SocketStopReading(s), "over"))

\* p_report_error: OVER.  check() ends the process when the socket is not
\* registered any more.
ReportError(c) ==
    /\ sock' = [sock EXCEPT ![c] = Report(@)]
    /\ proc' = IF StopReadingFails(sock[c]) THEN "failed" ELSE proc
    /\ UNCHANGED <<stage, counts, waiting>>

\* process_level accepts the connection.
AcceptLevel(c) ==
    LET acked == SendMsg(sock[c], "reply")
    IN /\ sock' = [sock EXCEPT ![c] = IF waiting THEN SocketPause(acked, TRUE)
                                       ELSE acked]
       /\ stage' = [stage EXCEPT ![c] = "cmd"]
       /\ boundCount' = boundCount + 1
       /\ boundMax' \in IF loaded THEN {boundMax} ELSE MaxConns
       /\ loaded' = TRUE
       /\ UNCHANGED <<count, waiting, proc>>

\* Mutant: one player too many.
RoomLeft_OffByOne == boundCount <= boundMax

\* P_MSG_CONN_TOO_MANY
RoomLeft == boundCount < boundMax

ProcessLevel(c, m) ==
    IF m = "levl" /\ RoomLeft THEN AcceptLevel(c)
    ELSE ReportError(c)

\* p_pause_sockets
PauseSockets(f, pause) == [c \in Conn |-> SocketPause(f[c], pause)]

\* WAIT: the reply is queued, then proto_pause.
ProcessWait(c) ==
    LET acked == [sock EXCEPT ![c] = SendMsg(@, "waitack")]
    IN /\ sock' = IF waiting THEN acked ELSE PauseSockets(acked, TRUE)
       /\ waiting' = TRUE
       /\ UNCHANGED <<stage, counts, proc>>

ProcessCmd(c, m) ==
    CASE m = "cmd"  -> /\ sock' = [sock EXCEPT ![c] = SendMsg(@, "reply")]
                       /\ UNCHANGED <<stage, counts, waiting, proc>>
      [] m = "wait" -> ProcessWait(c)
      [] OTHER      -> ReportError(c)

\* p_read: everything in the socket is read; a second command before the
\* first was answered is a violation (P_MSG_IMPATIENT).
OnRead(c) ==
    /\ Take(<<c, "R">>)
    /\ Goes(c, batch \ {<<c, "R">>})
    /\ inbox' = [inbox EXCEPT ![c] = << >>]
    /\ \/ Len(inbox[c]) = 0 /\ UNCHANGED <<sock, stage, counts, waiting, proc>>
       \/ Len(inbox[c]) > 1 /\ ReportError(c)
       \/ /\ Len(inbox[c]) = 1 /\ stage[c] = "level"
          /\ ProcessLevel(c, Head(inbox[c]))
       \/ /\ Len(inbox[c]) = 1 /\ stage[c] = "cmd"
          /\ ProcessCmd(c, Head(inbox[c]))
    /\ UNCHANGED <<place, gone, awaiting, ws, idle>>

\* EV_ERROR in socket_cb: the other side closed, EV_WRITE is not looked at.
OnError(c) ==
    /\ Take(<<c, "E">>)
    /\ Goes(c, batch \ {<<c, "E">>, <<c, "W">>})
    /\ sock' = [sock EXCEPT ![c] = SocketDel(@)]
    /\ UNCHANGED <<place, stage, inbox, gone, awaiting, counts, waiting, ws,
                   idle, proc>>

\* EV_WRITE in socket_cb: n messages go out, also from a paused or deleted
\* socket.
OnWrite(c) ==
    /\ Take(<<c, "W">>)
    /\ Goes(c, batch \ {<<c, "W">>})
    /\ \E n \in 0..Len(sock[c].wq), stop \in WriteStop :
          /\ CanStop(sock[c], n, stop)
          /\ sock' = [sock EXCEPT ![c] = SocketProcessWqueue(@, n, stop)]
          /\ awaiting' = [awaiting EXCEPT
                            ![c] = IF c \in polite THEN @ - n ELSE @]
    /\ UNCHANGED <<place, stage, inbox, gone, counts, waiting, ws, idle, proc>>

OnRate(c) ==
    /\ Take(<<c, "rate">>) /\ cur = NoConn
    /\ batch' = batch \ {<<c, "rate">>}
    /\ sock' = [sock EXCEPT ![c] = RateTimer(@)]
    /\ UNCHANGED <<place, stage, inbox, gone, awaiting, counts, waiting, ws,
                   idle, cur, proc>>
-----------------------------------------------------------------------------
(* ipc.c and app.c: the pipe, the idle timer and the buttons               *)

\* pipe_read and proto_client_add: the first DONE is queued.  A hold does not
\* pause a connection that arrives during it.
OnPipeConn(c) ==
    /\ Take(<<NoConn, "pipe">>) /\ place[c] = "pipe"
    /\ batch' = batch \ {<<NoConn, "pipe">>}
    /\ place' = [place EXCEPT ![c] = "child"]
    /\ sock' = [sock EXCEPT ![c] = SendMsg(NewSocket(TRUE), "reply")]
    /\ count' = count + 1
    /\ idle' = FALSE
    /\ UNCHANGED <<stage, inbox, gone, awaiting, boundCount, boundMax, loaded,
                   waiting, ws, cur, proc>>

\* pipe_read and websocket_add.
OnPipeBrowser ==
    /\ Take(<<NoConn, "pipe">>) /\ browser = "pipe"
    /\ batch' = batch \ {<<NoConn, "pipe">>}
    /\ browser' = "open"
    /\ idle' = FALSE
    /\ UNCHANGED <<conns, counts, waiting, button, left, polite, cur, proc>>

\* idle_expired; a timer that was deleted in the same batch is not called.
OnIdle ==
    /\ Take(<<NoConn, "idle">>)
    /\ batch' = batch \ {<<NoConn, "idle">>}
    /\ proc' = IF idle THEN "quit" ELSE proc
    /\ UNCHANGED <<conns, counts, waiting, ws, idle, cur>>

\* Mutant: the sockets stay paused after a hold.
ProtoResume_NoSockets ==
    /\ waiting' = FALSE
    /\ UNCHANGED sock

\* proto_resume
ProtoResume ==
    /\ waiting' = FALSE
    /\ sock' = IF waiting THEN PauseSockets(sock, FALSE) ELSE sock

\* app_remote_command: START resumes, KILL quits.
OnButton ==
    /\ Take(<<NoConn, "button">>)
    /\ batch' = batch \ {<<NoConn, "button">>}
    /\ button' = "none"
    /\ \/ button = "start" /\ ProtoResume /\ UNCHANGED proc
       \/ button = "kill" /\ proc' = "quit" /\ UNCHANGED <<sock, waiting>>
    /\ UNCHANGED <<place, stage, inbox, gone, awaiting, counts, browser, left,
                   polite, idle, cur>>

OnLeft ==
    /\ Take(<<NoConn, "left">>) /\ <<NoConn, "button">> \notin batch
    /\ batch' = batch \ {<<NoConn, "left">>}
    /\ browser' = "deleted"
    /\ UNCHANGED <<conns, counts, waiting, button, left, polite, idle, cur, proc>>
-----------------------------------------------------------------------------
(* release_deleted, p_free and ws_free                                     *)

Deleted == {c \in InChild : sock[c].reg = "deleted"}

BoundDeleted == {c \in Deleted : stage[c] = "cmd"}

\* p_free calls the level's free_data for every connection once a level is
\* loaded, for one without data with NULL.
FreesNull == loaded /\ FreeUsesData /\ \E c \in Deleted : stage[c] = "level"

\* Mutant: only the end of a player makes the process quit.
Closes_OnlyBound == BoundDeleted # {}

\* p_free and proto_cond_close ask the process to quit.
Closes ==
    \/ BoundDeleted # {}
    \/ count = Cardinality(Deleted)

\* Everything is forgotten about the released connections; their clients see
\* the end of the connection and may log in again.
Release ==
    /\ proc = "run" /\ batch = {} /\ cur = NoConn
    /\ ~Released
    /\ LET On(f, x) == [c \in Conn |-> IF c \in Deleted THEN x ELSE f[c]]
       IN /\ place' = On(place, "out")
          /\ sock' = On(sock, NoSocket)
          /\ stage' = On(stage, "level")
          /\ inbox' = On(inbox, << >>)
          /\ gone' = On(gone, FALSE)
          /\ awaiting' = On(awaiting, 0)
    /\ count' = count - Cardinality(Deleted)
    /\ boundCount' = boundCount - Cardinality(BoundDeleted)
    /\ browser' = IF browser = "deleted" THEN "out" ELSE browser
    /\ button' = IF browser = "deleted" THEN "none" ELSE button
    /\ left' = IF browser = "deleted" THEN FALSE ELSE left
    /\ proc' = IF FreesNull THEN "crash"
               ELSE IF Closes THEN "quit" ELSE proc
    /\ UNCHANGED <<boundMax, loaded, waiting, polite, idle, batch, cur>>

\* event_loop returns when quit is set and the batch is done; the kernel
\* closes every fd.
Exit ==
    /\ proc = "quit" /\ batch = {} /\ cur = NoConn
    /\ proc' = "exit"
    /\ UNCHANGED <<conns, counts, waiting, ws, idle, batch, cur>>
-----------------------------------------------------------------------------
Client(c) == Login(c) \/ HangUp(c) \/ \E m \in Command : Send(c, m)

World == Browse \/ Leave \/ (\E b \in Buttons : Press(b))
           \/ \E c \in Conn : Client(c)

Callback(c) == OnRead(c) \/ OnError(c) \/ OnWrite(c) \/ OnRate(c)
                 \/ OnPipeConn(c)

Loop == EpollWait \/ OnPipeBrowser \/ OnIdle \/ OnButton \/ OnLeft \/ Release
          \/ Exit \/ \E c \in Conn : Callback(c)

Next == World \/ Loop

Spec == Init /\ [][Next]_vars
-----------------------------------------------------------------------------
(* Safety                                                                  *)

\* The variables hold values of their kinds.
TypeOK ==
    /\ place \in [Conn -> {"out", "pipe", "child"}]
    /\ sock \in [Conn -> SocketType(Reply)]
    /\ stage \in [Conn -> {"level", "cmd"}]
    /\ inbox \in [Conn -> Seq(Command)]
    /\ gone \in [Conn -> BOOLEAN]
    /\ awaiting \in [Conn -> Nat]
    /\ count \in Nat /\ boundCount \in Nat /\ boundMax \in Nat
    /\ loaded \in BOOLEAN /\ waiting \in BOOLEAN
    /\ browser \in {"out", "pipe", "open", "deleted"}
    /\ button \in {"none", "start", "kill"}
    /\ polite \in Polites /\ left \in BOOLEAN /\ idle \in BOOLEAN
    /\ batch \subseteq ((Conn \cup {NoConn})
                     \X {"R", "E", "W", "rate", "pipe", "idle", "button", "left"})
    /\ cur \in Conn \cup {NoConn}
    /\ proc \in {"run", "quit", "exit", "failed", "crash"}

\* p_count and p_bound_count count the connections on p_sockets and those
\* that play, whatever order they arrive, fail and are released in
\* (proto.c:451, 526-529, 556), and a level never has more players than its
\* max_conn.
CountsAreTrue ==
    LET bound == {c \in InChild : stage[c] = "cmd"}
    IN /\ count = Cardinality(InChild)
       /\ boundCount = Cardinality(bound)
       /\ Cardinality(bound) <= IF loaded THEN boundMax ELSE 0

\* A child never stays behind with nobody connected: either the idle timer
\* of ipc.c still runs or the last release made it quit (proto.c:533,
\* websocket_data.c:56).
NoLingering ==
    proc = "run" /\ count = 0 /\ browser \in {"out", "pipe"} => idle

\* check() in p_report_and_close (proto.c:146) never fails: nobody reports an
\* error on a socket that was deleted earlier in the same batch.
NoFailedCheck == proc # "failed"

\* A client that waits for each answer gets exactly one per command, through
\* rate limiting, holds, partial writes and errors of other connections.
OneReplyEach ==
    \A c \in polite : place[c] # "out" =>
        awaiting[c] = Len(inbox[c]) + Len(sock[c].wq)
                        + (IF place[c] = "pipe" THEN 1 ELSE 0)

\* Nothing is queued after OVER, nothing is read after it, and the socket is
\* certain to be deleted (proto.c:144-149).
OverIsLast ==
    \A c \in InChild : \A i \in 1..Len(sock[c].wq) :
        sock[c].wq[i] = "over" =>
            /\ i = Len(sock[c].wq)
            /\ "R" \notin sock[c].events
            /\ sock[c].flush \/ sock[c].reg = "deleted"

\* A queued message never waits for nothing: epoll is asked for EV_WRITE, or
\* the timer of the rate limit will ask, or START will (socket.c:287, 331).
NoLostWrite ==
    \A c \in Open : sock[c].wq # << >> =>
        \/ "W" \in sock[c].events
        \/ sock[c].timer

\* A socket that is only there to be flushed has something to flush.
FlushPending == \A c \in Open : sock[c].flush => sock[c].wq # << >>

\* Outside of a hold epoll watches each socket for just what the program
\* wants: no pause survives START (proto.c:592).
NoStalePause ==
    ~waiting => \A c \in Open : sock[c].mask = sock[c].events

\* The child plays the game it promises: the callbacks, releases and batches
\* add up to members that join, enter within the size of the level and leave,
\* and to an end when a player or the last member leaves (proto.c:437, 533).
Promise == INSTANCE Game WITH
    members <- InChild,
    players <- {c \in InChild : stage[c] = "cmd"},
    size <- IF loaded THEN boundMax ELSE 0,
    over <- proc # "run",
    Sizes <- MaxConns

PlaysTheGame == Promise!Spec
-----------------------------------------------------------------------------
(* Liveness.  The thread keeps running; a client that stays keeps reading, *)
(* so that a socket that is watched for EV_WRITE is writable again and     *)
(* again and accepts messages then; an armed timer fires.                  *)

Wakes(e) == EpollWait /\ e \in batch'
Sends(c) == OnWrite(c) /\ sock'[c].wq # sock[c].wq

Fairness ==
    /\ WF_vars(Loop)
    /\ \A c \in Conn :
          /\ SF_vars(Wakes(<<c, "W">>))
          /\ SF_vars(Wakes(<<c, "rate">>))
          /\ SF_vars(Sends(c))
          /\ WF_vars(OnPipeConn(c))

FairSpec == Spec /\ Fairness

\* A polite client is answered: its command is not forgotten in the socket,
\* the queue or the bucket.  It may wait for as long as the level is held,
\* and loses the answer only with the connection.
Answered ==
    \A c \in Conn :
        c \in polite /\ <>[](~waiting) =>
            (awaiting[c] > 0 ~> (awaiting[c] = 0 \/ place[c] = "out"
                                  \/ gone[c] \/ proc # "run"))
-----------------------------------------------------------------------------
(* What the documentation says                                             *)

\* The messages of c that leave its queue in a step.
SentNow(c) == {sock[c].wq[i] : i \in 1..(Len(sock[c].wq) - Len(sock'[c].wq))}

\* proto.c:380 says of WAIT "The response will be queued but won't be send
\* until the socket is enabled": it is not sent before START.
WaitAckHeld ==
    [][\A c \in Conn : waiting /\ place'[c] = "child" => "waitack" \notin SentNow(c)]_vars

\* level.h:29 says that free_data "Frees private data allocated by the
\* 'get_data' callback": it is not given what get_data did not return.
FreeDataGetsData == proc # "crash"
=============================================================================
