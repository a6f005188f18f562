------------------------------ MODULE Master ------------------------------
(***************************************************************************)
(* The master process of mazec: connections are accepted, give a login,    *)
(* and their file descriptors are passed over a pipe to the child process  *)
(* of that login, which is started when there is none (server/db.c,        *)
(* server/ipc.c, server/spawn.c, process_user of server/proto.c and the    *)
(* handshake of server/websocket_http.c).  Pipes are sockets of module     *)
(* Socket whose messages are the connections they carry.                   *)
(*                                                                         *)
(* A child is only what the master sees of it: it takes descriptors from   *)
(* the pipe, closes its end and becomes a zombie.                          *)
(***************************************************************************)
EXTENDS Socket, FiniteSets

CONSTANTS
    Login,          \* logins that may be in the db file
    Conn,           \* TCP connections
    Web,            \* those of browsers; the others are programs
    Kid,            \* bound: child processes that can exist at a time
    ReloadMax,      \* bound: SIGHUPs
    NoKid, NoLogin  \* neither a child nor a login

ASSUME MasterAssumption ==
    /\ Web \subseteq Conn
    /\ ReloadMax \in Nat
    /\ NoKid \notin Kid
    /\ NoLogin \notin Login

VARIABLES
    file,       \* the logins in the db file
    users,      \* logins of the list users
    inactive,   \* logins of the list inactive
    pid,        \* u->pid of each record; u->pipe is the pipe of that child
    kid,        \* "none", "alive", "closing" (its fds are closed), "zombie"
    kidLogin,   \* the argument the child was started with
    pipe,       \* the master's end of the pipe of each child
    refs,       \* its reference count; 0 is freed
    channel,    \* connections in the pipe, not yet received by the child
    reg,        \* the socket of a connection: "none", "open", "deleted"
    stage,      \* "user", "headers" (response being sent) or "over"
    wants,      \* history: the login the connection asked for
    managed,    \* should_close
    fd,         \* the master's fd of the connection: "none", "open", "closed"
    served,     \* history: the login of the child that received the connection
    swallowed,  \* history: connections written to a dead pipe
    twice,      \* history: connections whose fd was closed twice
    batch,      \* what is left of the last epoll_wait
    signals,    \* pending signals: "CHLD", "HUP"
    reloads     \* SIGHUPs so far

db == <<users, inactive, pid>>
kids == <<kid, kidLogin, channel>>
pipes == <<pipe, refs>>
conns == <<reg, stage, wants, managed, fd>>
hist == <<served, swallowed, twice>>
vars == <<file, db, kids, pipes, conns, hist, batch, signals, reloads>>

Records == users \cup inactive
NoPipe == [NewSocket(FALSE) EXCEPT !.reg = "dead", !.events = {}, !.mask = {}]

\* db_init: the records of the logins in the file, no child yet.
Init ==
    /\ file \in SUBSET Login \ {{}}
    /\ users = file /\ inactive = {}
    /\ pid = [l \in Login |-> NoKid]
    /\ kid = [k \in Kid |-> "none"]
    /\ kidLogin = [k \in Kid |-> NoLogin]
    /\ channel = [k \in Kid |-> << >>]
    /\ pipe = [k \in Kid |-> NoPipe]
    /\ refs = [k \in Kid |-> 0]
    /\ reg = [c \in Conn |-> "none"]
    /\ stage = [c \in Conn |-> "user"]
    /\ wants = [c \in Conn |-> NoLogin]
    /\ managed = [c \in Conn |-> TRUE]
    /\ fd = [c \in Conn |-> "none"]
    /\ served = [c \in Conn |-> NoLogin]
    /\ swallowed = {} /\ twice = {}
    /\ batch = {} /\ signals = {} /\ reloads = 0
-----------------------------------------------------------------------------
(* Clients, children and the administrator                                 *)

\* socket_accept
Accept(c) ==
    /\ reg[c] = "none" /\ fd[c] = "none"
    /\ reg' = [reg EXCEPT ![c] = "open"]
    /\ fd' = [fd EXCEPT ![c] = "open"]
    /\ UNCHANGED <<file, db, kids, pipes, stage, wants, managed, hist, batch,
                   signals, reloads>>

\* The child receives the next descriptor.
Receive(k) ==
    /\ kid[k] = "alive" /\ channel[k] # << >>
    /\ served' = [served EXCEPT ![Head(channel[k])] = kidLogin[k]]
    /\ channel' = [channel EXCEPT ![k] = Tail(@)]
    /\ UNCHANGED <<file, db, kid, kidLogin, pipes, conns, swallowed, twice,
                   batch, signals, reloads>>

\* The child exits.  Its descriptors are closed first, what is in the pipe
\* with them; SIGCHLD is sent when it is a zombie.
CloseKid(k) ==
    /\ kid[k] = "alive"
    /\ kid' = [kid EXCEPT ![k] = "closing"]
    /\ channel' = [channel EXCEPT ![k] = << >>]
    /\ UNCHANGED <<file, db, kidLogin, pipes, conns, hist, batch, signals, reloads>>

EndKid(k) ==
    /\ kid[k] = "closing"
    /\ kid' = [kid EXCEPT ![k] = "zombie"]
    /\ signals' = signals \cup {"CHLD"}
    /\ UNCHANGED <<file, db, kidLogin, channel, pipes, conns, hist, batch, reloads>>

\* The administrator edits the file and sends SIGHUP.
Edit ==
    /\ reloads < ReloadMax
    /\ reloads' = reloads + 1
    /\ file' \in SUBSET Login
    /\ signals' = signals \cup {"HUP"}
    /\ UNCHANGED <<db, kids, pipes, conns, hist, batch>>
-----------------------------------------------------------------------------
(* event_loop                                                              *)

Waiting == {c \in Conn : reg[c] = "open"}
Piped == {k \in Kid : pipe[k].reg = "open"}

Released == (\A c \in Conn : reg[c] # "deleted")
               /\ (\A k \in Kid : pipe[k].reg # "deleted")

\* A socket whose client may send, leave or take data, a pipe whose child is
\* gone, a pipe that is writable, signals.
Pending ==
    {<<k, "E">> : k \in {j \in Piped : kid[j] \notin {"none", "alive"}}}
      \cup (IF signals = {} THEN {} ELSE {<<NoKid, "signal">>})

Possible ==
    {<<c, "conn">> : c \in Waiting}
      \cup {<<k, "W">> : k \in {j \in Piped : "W" \in pipe[j].mask}}

EpollWait ==
    /\ batch = {} /\ Released
    /\ \E also \in SUBSET Possible : batch' = Pending \cup also
    /\ batch' # {}
    /\ UNCHANGED <<file, db, kids, pipes, conns, hist, signals, reloads>>

Take(e) == e \in batch /\ batch' = batch \ {e}
-----------------------------------------------------------------------------
(* socket.c                                                                *)

\* close(fd) of the connections in S.
Closed(S) == [c \in Conn |-> IF c \in S THEN "closed" ELSE fd[c]]
ClosedTwice(S) == twice \cup {c \in S : fd[c] # "open"}

Queued(k) == {pipe[k].wq[i] : i \in DOMAIN pipe[k].wq}

\* socket_kill: the last reference frees the socket and closes what is queued.
Freed(K) == UNION {Queued(k) : k \in K}
-----------------------------------------------------------------------------
(* Handing a connection over                                               *)

\* Mutant: the record does not take a reference on its pipe.
StartProcess_NoRef(l, k) ==
    /\ kid' = [kid EXCEPT ![k] = "alive"]
    /\ kidLogin' = [kidLogin EXCEPT ![k] = l]
    /\ pid' = [pid EXCEPT ![l] = k]
    /\ refs' = [refs EXCEPT ![k] = 1]

\* db_start_process (refs is 1 for the event loop and 1 for u->pipe).
StartProcess(l, k) ==
    /\ kid' = [kid EXCEPT ![k] = "alive"]
    /\ kidLogin' = [kidLogin EXCEPT ![k] = l]
    /\ pid' = [pid EXCEPT ![l] = k]
    /\ refs' = [refs EXCEPT ![k] = 2]

\* Mutant: the socket still closes the fd that is now in the pipe.
SendFd_StaysManaged(c, k, p) ==
    /\ ~WriteFails(p)
    /\ pipe' = [pipe EXCEPT ![k] = SocketWrite(p, c)]
    /\ swallowed' = IF p.reg = "dead" THEN swallowed \cup {c} ELSE swallowed
    /\ UNCHANGED managed

\* ipc_send_fd returned 0: the fd is the pipe's, the socket is unmanaged.
SendFd(c, k, p) ==
    /\ ~WriteFails(p)
    /\ pipe' = [pipe EXCEPT ![k] = SocketWrite(p, c)]
    /\ swallowed' = IF p.reg = "dead" THEN swallowed \cup {c} ELSE swallowed
    /\ managed' = [managed EXCEPT ![c] = FALSE]

\* ipc_send_fd failed: the socket keeps the fd and closes it when it is freed.
SendFails(k, p) ==
    /\ WriteFails(p)
    /\ pipe' = [pipe EXCEPT ![k] = p]
    /\ UNCHANGED <<swallowed, managed>>

Unstarted == {k \in Kid : kid[k] = "none" /\ refs[k] = 0}

\* ipc_send_socket with db_get_pipe and spawn, which may fail.
HandOver(c, l) ==
    /\ reg' = [reg EXCEPT ![c] = "deleted"]
    /\ \/ /\ l \in users /\ pid[l] # NoKid
          /\ SendFd(c, pid[l], pipe[pid[l]]) \/ SendFails(pid[l], pipe[pid[l]])
          /\ UNCHANGED <<pid, kid, kidLogin, refs>>
       \/ /\ l \in users /\ pid[l] = NoKid
          /\ \E k \in Unstarted :
                StartProcess(l, k) /\ SendFd(c, k, NewSocket(FALSE))
       \/ /\ l \notin users \/ pid[l] = NoKid
          /\ UNCHANGED <<pid, kid, kidLogin, refs, pipe, swallowed, managed>>
    /\ UNCHANGED <<file, users, inactive, channel, stage, fd, served, twice,
                   signals, reloads>>
-----------------------------------------------------------------------------
(* Callbacks                                                               *)

\* The client is gone, or its answer is flushed: socket_del.
OnConnEnd(c) ==
    /\ Take(<<c, "conn">>)
    /\ reg' = [reg EXCEPT ![c] = "deleted"]
    /\ UNCHANGED <<file, db, kids, pipes, stage, wants, managed, fd, hist,
                   signals, reloads>>

\* The request is refused: an answer is queued and the socket is flushed.
Refuse(c) ==
    /\ stage' = [stage EXCEPT ![c] = "over"]
    /\ UNCHANGED <<file, db, kids, pipes, reg, fd, managed, hist, signals,
                   reloads>>

\* check_msg_complete with process_user: USER with a login, or an error.
OnUser(c, l) ==
    /\ c \notin Web /\ stage[c] = "user"
    /\ Take(<<c, "conn">>)
    /\ wants' = [wants EXCEPT ![c] = l]
    /\ IF l \in users THEN HandOver(c, l) /\ UNCHANGED stage ELSE Refuse(c)

\* ws_headers_processed: the response is written before the fd is passed on.
OnHandshake(c, l) ==
    /\ c \in Web /\ stage[c] = "user"
    /\ Take(<<c, "conn">>)
    /\ wants' = [wants EXCEPT ![c] = l]
    /\ IF l \in users
       THEN /\ stage' = [stage EXCEPT ![c] = "headers"]
            /\ UNCHANGED <<file, db, kids, pipes, reg, fd, managed, hist,
                           signals, reloads>>
       ELSE Refuse(c)

\* ws_headers_sent.  The login may have left the file since it was checked.
OnHeadersSent(c) ==
    /\ stage[c] = "headers"
    /\ Take(<<c, "conn">>)
    /\ HandOver(c, wants[c])
    /\ UNCHANGED <<stage, wants>>

\* The other end of the pipe is closed: socket_del, EV_WRITE is not handled.
OnPipeError(k) ==
    /\ <<k, "E">> \in batch
    /\ batch' = batch \ {<<k, "E">>, <<k, "W">>}
    /\ pipe' = [pipe EXCEPT ![k] = SocketDel(@)]
    /\ UNCHANGED <<file, db, kids, refs, conns, hist, signals, reloads>>

\* socket_process_wqueue of a pipe.  Each message that is sent, or refused
\* because the child is gone, closes the master's fd.
OnPipeWrite(k) ==
    /\ <<k, "E">> \notin batch
    /\ Take(<<k, "W">>)
    /\ \E n \in 0..Len(pipe[k].wq), stop \in WriteStop :
          /\ CanStop(pipe[k], n, stop)
          /\ pipe' = [pipe EXCEPT ![k] = SocketProcessWqueue(@, n, stop)]
          /\ LET sent == SubSeq(pipe[k].wq, 1, n)
                 done == {sent[i] : i \in 1..n}
             IN /\ channel' = IF kid[k] = "alive"
                              THEN [channel EXCEPT ![k] = @ \o sent]
                              ELSE channel
                /\ fd' = Closed(done)
                /\ twice' = ClosedTwice(done)
    /\ UNCHANGED <<file, db, kid, kidLogin, refs, reg, stage, wants, managed,
                   served, swallowed, signals, reloads>>

\* Mutant: the pipe of a child that ended stays in its record.
EndProcess_KeepsPipe(z) == pid

\* db_end_process for each child of z: its record has no child any more.
EndProcess(z) ==
    [l \in Login |-> IF l \in Records /\ pid[l] \in z THEN NoKid ELSE pid[l]]

\* Mutant: users that left the file are forgotten with their child.
Reload_Forgets ==
    /\ users' = file /\ inactive' = {}
    /\ pid' = [l \in Login |-> IF l \in Records THEN pid[l] ELSE NoKid]

\* Mutant: a new login takes the record of one that left.
Reload_WrongRecord ==
    /\ users' = file /\ inactive' = Records \ file
    /\ pid' \in [Login -> {pid[l] : l \in Records} \cup {NoKid}]

\* db_reload: records move between the lists; new ones have no child.
Reload ==
    /\ users' = file /\ inactive' = Records \ file
    /\ pid' = [l \in Login |-> IF l \in Records THEN pid[l] ELSE NoKid]

\* sig_handler for SIGCHLD: every zombie is reaped and its record released;
\* a pipe whose error was handled before is freed.
OnChild ==
    LET zombies == {k \in Kid : kid[k] = "zombie"}
        known == {pid[l] : l \in Records} \cap zombies
        last == {k \in known : refs[k] = 1}
    IN /\ Take(<<NoKid, "signal">>) /\ signals = {"CHLD"}
       /\ signals' = {}
       /\ kid' = [k \in Kid |-> IF k \in zombies THEN "none" ELSE kid[k]]
       /\ pid' = EndProcess(zombies)
       /\ pipe' = [k \in Kid |-> IF k \in last THEN NoPipe
                                 ELSE IF k \in known THEN SocketDel(pipe[k])
                                 ELSE pipe[k]]
       /\ refs' = [k \in Kid |-> IF k \in known THEN refs[k] - 1 ELSE refs[k]]
       /\ fd' = Closed(Freed(last))
       /\ twice' = ClosedTwice(Freed(last))
       /\ UNCHANGED <<file, users, inactive, kidLogin, channel, reg, stage,
                      wants, managed, served, swallowed, reloads>>

\* sig_handler for SIGHUP, the lower number and so read first; a pending
\* SIGCHLD is handled by the same call.
OnHangup ==
    /\ <<NoKid, "signal">> \in batch /\ "HUP" \in signals
    /\ signals' = signals \ {"HUP"}
    /\ batch' = IF signals' = {} THEN batch \ {<<NoKid, "signal">>} ELSE batch
    /\ Reload
    /\ UNCHANGED <<file, kids, pipes, conns, hist, reloads>>

\* release_deleted: ws_free and p_server_free, close of the managed fds;
\* socket_kill of pipes.
Release ==
    LET gone == {c \in Conn : reg[c] = "deleted"}
        dead == {k \in Kid : pipe[k].reg = "deleted"}
        last == {k \in dead : refs[k] = 1}
        shut == {c \in gone : managed[c]} \cup Freed(last)
    IN /\ batch = {} /\ ~Released
       /\ reg' = [c \in Conn |-> IF c \in gone THEN "none" ELSE reg[c]]
       /\ pipe' = [k \in Kid |->
                     IF k \in last THEN NoPipe
                     ELSE IF k \in dead THEN [pipe[k] EXCEPT !.reg = "dead"]
                     ELSE pipe[k]]
       /\ refs' = [k \in Kid |-> IF k \in dead THEN refs[k] - 1 ELSE refs[k]]
       /\ fd' = Closed(shut)
       /\ twice' = ClosedTwice(shut)
       /\ UNCHANGED <<file, db, kids, stage, wants, managed, served, swallowed,
                      batch, signals, reloads>>
-----------------------------------------------------------------------------
Callback(c) ==
    \/ OnConnEnd(c) \/ OnHeadersSent(c)
    \/ \E l \in Login : OnUser(c, l) \/ OnHandshake(c, l)

Loop ==
    \/ EpollWait \/ Release \/ OnChild \/ OnHangup
    \/ \E k \in Kid : OnPipeError(k) \/ OnPipeWrite(k)
    \/ \E c \in Conn : Callback(c)

World ==
    \/ Edit
    \/ \E c \in Conn : Accept(c)
    \/ \E k \in Kid : Receive(k) \/ CloseKid(k) \/ EndKid(k)

Next == World \/ Loop

Spec == Init /\ [][Next]_vars
-----------------------------------------------------------------------------
(* Safety                                                                  *)

Children == {k \in Kid : kid[k] # "none"}

\* The variables hold values of their kinds.
TypeOK ==
    /\ file \subseteq Login /\ users \subseteq Login /\ inactive \subseteq Login
    /\ users \cap inactive = {}
    /\ pid \in [Login -> Kid \cup {NoKid}]
    /\ kid \in [Kid -> {"none", "alive", "closing", "zombie"}]
    /\ kidLogin \in [Kid -> Login \cup {NoLogin}]
    /\ pipe \in [Kid -> SocketType(Conn)]
    /\ refs \in [Kid -> 0..2]
    /\ channel \in [Kid -> Seq(Conn)]
    /\ reg \in [Conn -> {"none", "open", "deleted"}]
    /\ stage \in [Conn -> {"user", "headers", "over"}]
    /\ wants \in [Conn -> Login \cup {NoLogin}]
    /\ managed \in [Conn -> BOOLEAN]
    /\ fd \in [Conn -> {"none", "open", "closed"}]
    /\ served \in [Conn -> Login \cup {NoLogin}]
    /\ swallowed \subseteq Conn /\ twice \subseteq Conn
    /\ batch \subseteq ((Conn \X {"conn"}) \cup (Kid \X {"E", "W"})
                       \cup {<<NoKid, "signal">>})
    /\ signals \subseteq {"CHLD", "HUP"}
    /\ reloads \in 0..ReloadMax

\* A login never has two children, and each child that was not reaped yet is
\* the one of the record of its login, however the db file changed since it
\* was started (db.c:116-129, 231).
OneChildPerLogin ==
    \A k \in Children :
        /\ kidLogin[k] \in Records
        /\ pid[kidLogin[k]] = k

\* A record only knows a child that was not reaped: a login whose child ended
\* gets a new one (db.c:201-217).
ChildIsCurrent ==
    \A l \in Login : pid[l] # NoKid =>
        l \in Records /\ pid[l] \in Children /\ kidLogin[pid[l]] = l

\* The connections that were handed over and have not arrived.
InChannel(k) == {channel[k][i] : i \in DOMAIN channel[k]}
OnItsWay(k) == Queued(k) \cup InChannel(k)

\* A connection only ever reaches the child of the login it gave.
RightChild ==
    /\ \A c \in Conn : served[c] \in {NoLogin, wants[c]}
    /\ \A k \in Kid : \A c \in OnItsWay(k) : wants[c] = kidLogin[k]

\* No freed pipe is written to or called back: a record's pipe has a
\* reference, and so has a pipe epoll reported (db.c:197, 212).
NoFreedPipe ==
    /\ \A l \in Login : pid[l] # NoKid => refs[pid[l]] > 0
    /\ \A k \in Kid : {<<k, "E">>, <<k, "W">>} \cap batch # {} => refs[k] > 0

\* Who is going to close the master's fd of c.
Owners(c) ==
    Cardinality({i \in {0} : reg[c] # "none" /\ managed[c]})
      + Cardinality({q \in Kid \X (1..WQueueMax) :
            q[2] \in DOMAIN pipe[q[1]].wq /\ pipe[q[1]].wq[q[2]] = c})

\* The fd of a connection has one owner while it is open, its socket or the
\* queue of a pipe, and none afterwards: it is not closed twice and not closed
\* under the pipe.  Connections written to a dead pipe are the exception,
\* see FdIsOwned.
OneOwner ==
    /\ twice = {}
    /\ \A c \in Conn \ swallowed : Owners(c) = IF fd[c] = "open" THEN 1 ELSE 0
-----------------------------------------------------------------------------
(* Liveness.  The thread keeps running; clients that connected send        *)
(* something, read their answer or leave; children read their pipe or end. *)

Wakes(e) == EpollWait /\ e \in batch'
Sends(k) == OnPipeWrite(k) /\ pipe'[k].wq # pipe[k].wq

Fairness ==
    /\ WF_vars(Loop)
    /\ \A c \in Conn : SF_vars(Wakes(<<c, "conn">>))
    /\ \A k \in Kid : /\ SF_vars(Wakes(<<k, "W">>)) /\ SF_vars(Sends(k))
                      /\ WF_vars(Receive(k)) /\ WF_vars(EndKid(k))

FairSpec == Spec /\ Fairness

\* The master lets go of each connection: it is passed on or closed.  Again
\* with the exception of those written to a dead pipe.
LetsGo == \A c \in Conn : fd[c] = "open" ~> (fd[c] = "closed" \/ c \in swallowed)
-----------------------------------------------------------------------------
(* What the documentation says                                             *)

\* socket.h:24 says of an unmanaged socket "The caller is responsible for
\* closing the fd": an open fd always belongs to somebody who will close it.
FdIsOwned == \A c \in Conn : fd[c] = "open" => Owners(c) = 1
=============================================================================
