------------------------------- MODULE FdTable -------------------------------
(***************************************************************************)
(* The descriptors that server/event.c watches: the hash of fd_data, the   *)
(* list of deleted ones that is emptied between two batches of events, and *)
(* the destructors that run then.  The kernel hands out the lowest number  *)
(* that is free, so numbers come back while the fd_data of their last      *)
(* owner is still on the list.                                             *)
(***************************************************************************)
EXTENDS Naturals, Sequences, FiniteSets, SequencesExt

CONSTANTS
    Entry,      \* fd_data objects
    FdMax,      \* bound: the highest descriptor
    HashSize    \* FDD_HASH_SIZE

None == "none"

ASSUME FdTableAssumption ==
    FdMax \in Nat /\ HashSize \in Nat \ {0} /\ None \notin Entry

VARIABLES
    fdd,        \* the fd_data of each entry and what its cb_data refers to
    chain,      \* fdd_hash: a list for each value of hash(fd)
    doomed,     \* the list "deleted", its first element first
    opened,     \* descriptors that are open
    polled,     \* the fd_data that epoll has for each descriptor, or none
    phase,      \* the program is in "callbacks", in "release" or in "wait"
    leaks       \* history: what was not released, of which kind of entry

fdTable == <<fdd, chain, doomed, opened, polled, phase, leaks>>

FdNumbers == 0..FdMax

\* state: "unused", "hashed" or "deleted" (on the list).  limit is the timer of a
\* socket with a rate limit; shut, whether a socket closes its descriptor.
Unused == [state |-> "unused", kind |-> "none", fd |-> 0, limit |-> None, shut |-> FALSE]

Hash(fd) == fd % HashSize

Kind(x) == IF fdd[x].limit # None THEN "limited socket" ELSE fdd[x].kind

In(state) == {x \in Entry : fdd[x].state = state}

Lowest(S) == CHOOSE f \in S : \A g \in S : f <= g

\* The links of its chain that have a number, by their places.
Found(fd) == {i \in DOMAIN chain[Hash(fd)] : fdd[chain[Hash(fd)][i]].fd = fd}

\* find_event: the first of the chain with that number.
FindEvent(fd) == IF Found(fd) = {} THEN None ELSE chain[Hash(fd)][Lowest(Found(fd))]

FdTableInit ==
    /\ fdd = [x \in Entry |-> Unused]
    /\ chain = [h \in 0..(HashSize - 1) |-> << >>]
    /\ doomed = << >>
    /\ opened = {} /\ polled = [f \in FdNumbers |-> None]
    /\ phase = "callbacks"
    /\ leaks = {}

FreeFds == FdNumbers \ opened
-----------------------------------------------------------------------------
(* What callbacks do                                                       *)

\* event_add_fd: the entry becomes the last link of its chain.
Linked(table, x, fd) == [table EXCEPT ![Hash(fd)] = Append(@, x)]

\* event_add_fd of a new descriptor.
Adding(x, fd) ==
    /\ opened' = opened \cup {fd}
    /\ polled' = [polled EXCEPT ![fd] = x]
    /\ chain' = Linked(chain, x, fd)

\* The fd_data that salloc returns; which one it is makes no difference.
Fresh == CHOOSE x \in In("unused") : TRUE

\* timer_new
AddTimer ==
    /\ phase = "callbacks" /\ In("unused") # {} /\ FreeFds # {}
    /\ LET fd == Lowest(FreeFds)
           x == Fresh
       IN /\ fdd' = [fdd EXCEPT ![x] = [Unused EXCEPT !.state = "hashed",
                                                      !.kind = "timer", !.fd = fd]]
          /\ Adding(x, fd)
    /\ UNCHANGED <<doomed, phase, leaks>>

\* socket_add of a connection that was accepted.
AddSocket ==
    /\ phase = "callbacks" /\ In("unused") # {} /\ FreeFds # {}
    /\ LET fd == Lowest(FreeFds)
           x == Fresh
       IN /\ fdd' = [fdd EXCEPT ![x] = [Unused EXCEPT !.state = "hashed", !.fd = fd,
                                                      !.kind = "socket", !.shut = TRUE]]
          /\ Adding(x, fd)
    /\ UNCHANGED <<doomed, phase, leaks>>

\* socket_add and socket_set_ratelimit, with the timer t.
AddLimitedSocket ==
    LET fd == Lowest(FreeFds)
        x == Fresh
        others == In("unused") \ {x}
        t == CHOOSE y \in others : TRUE
        left == FreeFds \ {fd}
        tfd == Lowest(left)
    IN /\ phase = "callbacks" /\ In("unused") # {} /\ others # {}
       /\ FreeFds # {} /\ left # {}
       /\ fdd' = [fdd EXCEPT
                ![x] = [state |-> "hashed", kind |-> "socket", fd |-> fd, limit |-> t,
                        shut |-> TRUE],
                ![t] = [Unused EXCEPT !.state = "hashed", !.kind = "limit", !.fd = tfd]]
       /\ opened' = opened \cup {fd, tfd}
       /\ polled' = [polled EXCEPT ![fd] = x, ![tfd] = t]
       /\ chain' = Linked(Linked(chain, x, fd), t, tfd)
       /\ UNCHANGED <<doomed, phase, leaks>>

\* Mutant: the first of the chain is taken, whatever its number.
Unhash_First(fd) == 1

\* The link that event_del_fd takes out of the chain.
Unhash(fd) == Lowest(Found(fd))

Unlinked(fd) ==
    IF Found(fd) = {} THEN chain
    ELSE [chain EXCEPT ![Hash(fd)] = RemoveAt(@, Unhash(fd))]

\* event_del_fd: out of epoll and of the hash, to the front of the list.
EventDelFd(table, fd) ==
    /\ polled' = [polled EXCEPT ![fd] = None]
    /\ chain' = Unlinked(fd)
    /\ IF Found(fd) = {} THEN fdd' = table /\ doomed' = doomed
       ELSE LET x == chain[Hash(fd)][Unhash(fd)]
            IN /\ doomed' = <<x>> \o doomed
               /\ fdd' = [table EXCEPT ![x].state = "deleted"]

\* socket_del: the descriptor stays open until the destructor closes it.
DelSocket(x) ==
    /\ phase = "callbacks" /\ x \in In("hashed") /\ fdd[x].kind = "socket"
    /\ EventDelFd(fdd, fdd[x].fd)
    /\ UNCHANGED <<opened, phase, leaks>>

\* timer_del of a timer of a level or of the program.
DelTimer(x) ==
    /\ phase = "callbacks" /\ x \in In("hashed") /\ fdd[x].kind = "timer"
    /\ EventDelFd(fdd, fdd[x].fd)
    /\ opened' = opened \ {fdd[x].fd}
    /\ UNCHANGED <<phase, leaks>>

\* ipc_send_socket: the socket is deleted without closing, and the descriptor
\* closed when the pipe took it, before or after the end of the batch.
HandOver(x) ==
    /\ phase = "callbacks" /\ x \in In("hashed")
    /\ fdd[x].kind = "socket" /\ fdd[x].limit = None
    /\ EventDelFd([fdd EXCEPT ![x].shut = FALSE], fdd[x].fd)
    /\ UNCHANGED <<opened, phase, leaks>>

\* Descriptors of sockets that were handed over and still wait to be sent.
Handed == {f \in opened : polled[f] = None /\
             ~\E x \in In("deleted") : fdd[x].fd = f /\ fdd[x].shut}

PipeTakes(f) ==
    /\ phase = "callbacks" /\ f \in Handed
    /\ opened' = opened \ {f}
    /\ UNCHANGED <<fdd, chain, doomed, polled, phase, leaks>>
-----------------------------------------------------------------------------
(* event_loop                                                              *)

\* The last event of the batch was handled, or event_loop begins.
BatchEnds ==
    /\ phase = "callbacks"
    /\ phase' = "release"
    /\ UNCHANGED <<fdd, chain, doomed, opened, polled, leaks>>

\* Mutant: the destructor is not called.
Release_NoDestructor(x) == [freed |-> x, killed |-> {}, cleaned |-> {}]

\* One round of release_deleted.  socket_kill deletes the timer of the rate limit,
\* and event_del_fd puts that in front of the entry being released: it is freed in
\* its place, and nobody frees that.
Release(x) ==
    IF fdd[x].limit # None
    THEN [freed |-> fdd[x].limit, killed |-> {fdd[x].limit}, cleaned |-> {x}]
    ELSE [freed |-> x, killed |-> {}, cleaned |-> {x}]

ReleaseNext ==
    /\ phase = "release" /\ doomed # << >>
    /\ LET x == Head(doomed)
           out == {x} \cup Release(x).killed
           gone == {fdd[y].fd : y \in {z \in out : fdd[z].shut \/ z \in Release(x).killed}}
       IN /\ doomed' = Tail(doomed)
          /\ fdd' = [y \in Entry |-> IF y \in out THEN Unused ELSE fdd[y]]
          /\ chain' = IF Release(x).killed = {} THEN chain
                      ELSE Unlinked(fdd[fdd[x].limit].fd)
          /\ opened' = opened \ gone
          /\ polled' = [f \in FdNumbers |-> IF f \in gone THEN None ELSE polled[f]]
          /\ leaks' = leaks
                \cup {<<Kind(y), "memory">> : y \in out \ {Release(x).freed}}
                \cup {<<Kind(y), "destructor">> : y \in out \ Release(x).cleaned}
    /\ UNCHANGED phase

\* epoll_wait
Released ==
    /\ phase = "release" /\ doomed = << >>
    /\ phase' = "wait"
    /\ UNCHANGED <<fdd, chain, doomed, opened, polled, leaks>>

\* epoll_wait returned; callbacks follow, see Timers for the events themselves.
FdTableWait ==
    /\ phase = "wait"
    /\ phase' = "callbacks"
    /\ UNCHANGED <<fdd, chain, doomed, opened, polled, leaks>>
-----------------------------------------------------------------------------
FdTableNext ==
    \/ AddTimer \/ AddSocket \/ AddLimitedSocket
    \/ \E x \in Entry : DelSocket(x) \/ DelTimer(x) \/ HandOver(x)
    \/ \E f \in FdNumbers : PipeTakes(f)
    \/ BatchEnds \/ ReleaseNext \/ Released \/ FdTableWait

FdTableSpec == FdTableInit /\ [][FdTableNext]_fdTable
-----------------------------------------------------------------------------
\* A number is looked up in the hash long after it was handed out: it finds the
\* very fd_data that epoll reports for it, also when the number was used before
\* and shares a chain with others, and what is not watched is not found.
FoundByNumber ==
    \A f \in FdNumbers : FindEvent(f) = polled[f]

\* While the program waits everything that was deleted is destroyed and freed, but
\* for two objects that each connection with a rate limit leaves: its fd_data is
\* never freed and the timer_data of its timer never destroyed, as its destructor
\* deletes the timer in the middle of release_deleted.
OnlyLimitsLeak ==
    /\ phase = "wait" => In("deleted") = {}
    /\ leaks \subseteq {<<"limited socket", "memory">>, <<"limit", "destructor">>}
=============================================================================
