------------------------------ MODULE PyLevel ------------------------------
(***************************************************************************)
(* A level written in Python (server/pybindings.c): its objects for players *)
(* and timers, called back from the loop of the child, with the list of a  *)
(* level's timers (server/proto.c).  Any method may do what Python code can *)
(* do to the timers, and may raise an exception.                           *)
(***************************************************************************)
EXTENDS Integers, Sequences, FiniteSets, SequencesExt

CONSTANTS
    Player,     \* connections of programs
    PyTimer,    \* objects of class level.Timer, numbers
    drawTimer,  \* p_draw_timer
    TimersMax,  \* MAX_TIMERS
    ConnMax     \* max_conn of the level's class

ASSUME PyLevelAssumption ==
    /\ TimersMax \in Nat /\ ConnMax \in Nat
    /\ PyTimer \subseteq Nat /\ drawTimer \notin Player \cup PyTimer

VARIABLES
    played,     \* the connections: new, bound, over (OVER is queued), deleted
    data_list,  \* the level's objects, by the connections they were made for
    timer_td,   \* fd_data and timer_data of each timer: fd 0 when deleted
    living,     \* the timers whose Python object exists
    level_timers,   \* the list timers of proto.c: descriptors
    marked,     \* level_dirty was called since the last redraw
    batched,    \* the rest of the batch: connections, timers, the drawing
    child,      \* "runs", "quits" or "failed"
    gone,       \* history: the connections that were deleted when the batch began
    called      \* history: the redraw or fired that was just called, on what, and
                \* who played then

python == <<played, data_list, timer_td, living, level_timers, marked, batched,
            child, gone, called>>
objects == <<timer_td, living, level_timers>>      \* what a level's own code changes

NoCall == [what |-> "nothing", on |-> << >>, players |-> {}, gone |-> {}]
NoTd == [fd |-> 0, armed |-> FALSE, runs |-> "no"]

PyInit ==
    /\ played = [c \in Player |-> "new"] /\ data_list = << >>
    /\ timer_td = [t \in PyTimer |-> NoTd] /\ living = {} /\ level_timers = << >>
    /\ marked = FALSE /\ batched = {} /\ child = "runs"
    /\ gone = {}
    /\ called = NoCall
-----------------------------------------------------------------------------
(* What the code of a level does during a call                              *)

LowestFd == Min((1..Len(level_timers) + 1) \ {timer_td[t].fd : t \in PyTimer})

\* f_timer_new and level_timer_new; without a place the caller gets an OSError.
TimerNew(t) ==
    /\ PyTimer \ (living \cup batched) # {} /\ t = Min(PyTimer \ (living \cup batched))
    /\ Len(level_timers) < TimersMax
    /\ timer_td' = [timer_td EXCEPT ![t] = [NoTd EXCEPT !.fd = LowestFd]]
    /\ level_timers' = Append(level_timers, LowestFd)
    /\ living' = living \cup {t}

\* f_timer_arm and f_timer_disarm
TimerArm(t) ==
    /\ t \in living
    /\ \/ \E runs \in {"once", "again"} :
             timer_td' = [timer_td EXCEPT ![t].armed = TRUE, ![t].runs = runs]
       \/ timer_td' = [timer_td EXCEPT ![t].armed = FALSE, ![t].runs = "no"]
    /\ UNCHANGED <<living, level_timers>>

\* Mutant: the object is freed and its timer stays.
TimerDealloc_Leaves(t) ==
    /\ t \in living
    /\ living' = living \ {t}
    /\ UNCHANGED <<timer_td, level_timers>>

\* f_timer_dealloc, when the last reference goes, and level_timer_del; the
\* memory of the object is free at once.
TimerDealloc(t) ==
    /\ t \in living
    /\ living' = living \ {t}
    /\ timer_td' = [timer_td EXCEPT ![t] = NoTd]
    /\ level_timers' = RemoveFirst(level_timers, timer_td[t].fd)

\* draw.dirty() is one of the things code may do, but not in redraw.
Marks == marked' \in {marked, TRUE}

PythonCode ==
    \/ UNCHANGED objects
    \/ \E t \in PyTimer : TimerNew(t) \/ TimerArm(t) \/ TimerDealloc(t)
-----------------------------------------------------------------------------
(* The callbacks                                                            *)

\* An event of the batch, by a process that was not ended by another one.
Handles(e) == child = "runs" /\ e \in batched /\ batched' = batched \ {e}

\* Whose connection lasts, of those the level has an object for.
Playing == {c \in Range(data_list) : played[c] # "deleted"}

CallsOther == called' = NoCall
CallsFired(t) == called' = [NoCall EXCEPT !.what = "fired", !.on = <<t, t \in living>>]
CallsRedraw == called' = [what |-> "redraw", on |-> data_list, players |-> Playing,
                          gone |-> gone]

\* The rest of socket_cb, behind cb_read: the same event may say that the other
\* side has closed, or that what is left in the queue can be sent, so that the
\* connection is deleted at once.
IsThen(c, stage) ==
    played' \in {[played EXCEPT ![c] = stage], [played EXCEPT ![c] = "deleted"]}

\* fatal(): an exception that is none of the level's ends the process.
Fatal(e) ==
    /\ Handles(e)
    /\ \/ e \in Player /\ played[e] \in {"new", "bound"}
       \/ e \in living /\ timer_td[e].armed
       \/ e = drawTimer /\ marked
    /\ child' = "failed"
    /\ CallsOther
    /\ UNCHANGED <<played, data_list, objects, marked, gone>>

\* pyb_get_data
PybGetData(c) == data_list' = Append(data_list, c)

\* process_level and the constructor of the level's class; p_bound_count is not
\* counted down before the process ends.
Levl(c) ==
    /\ Handles(c) /\ played[c] = "new"
    /\ IF Len(data_list) < ConnMax
       THEN PythonCode /\ PybGetData(c) /\ marked' = TRUE /\ IsThen(c, "bound")
       ELSE IsThen(c, "over") /\ UNCHANGED <<data_list, objects, marked>>
    /\ CallsOther
    /\ UNCHANGED <<child, gone>>

\* pyb_move: refused by allowed_moves without a call, or carried out; Nope
\* leaves the player in the game, Win and Lose end it.
PybMove(c) ==
    /\ Handles(c) /\ played[c] = "bound"
    /\ \/ IsThen(c, "bound") /\ UNCHANGED <<objects, marked>>
       \/ PythonCode /\ Marks /\ \E stage \in {"bound", "over"} : IsThen(c, stage)
    /\ CallsOther
    /\ UNCHANGED <<data_list, child, gone>>

\* pyb_what, pyb_maze and pyb_get: an answer or Nope.
PybAsk(c) ==
    /\ Handles(c) /\ played[c] = "bound"
    /\ PythonCode /\ Marks /\ IsThen(c, "bound") /\ CallsOther
    /\ UNCHANGED <<data_list, child, gone>>

\* A connection ends without another command, or its OVER has been sent; a level
\* in Python has no free_data.
Leaves(c) ==
    /\ Handles(c) /\ played[c] # "deleted"
    /\ played' = [played EXCEPT ![c] = "deleted"]
    /\ CallsOther
    /\ UNCHANGED <<data_list, objects, marked, child, gone>>

\* timer_cb and cb_timer
CbTimer(t) ==
    /\ Handles(t)
    /\ IF timer_td[t].armed
       THEN PythonCode /\ Marks /\ CallsFired(t)
       ELSE CallsOther /\ UNCHANGED <<objects, marked>>
    /\ UNCHANGED <<played, data_list, child, gone>>

\* p_draw and app_redraw with a browser.
PybRedraw ==
    /\ Handles(drawTimer)
    /\ IF marked
       THEN PythonCode /\ CallsRedraw
       ELSE CallsOther /\ UNCHANGED objects
    /\ marked' = FALSE
    /\ UNCHANGED <<played, data_list, child, gone>>

Deleted == {c \in Player : played[c] = "deleted"}

\* Mutant: the process goes on as long as anybody is connected.
LastLeaves_Alone == Deleted = Player

\* p_free calls event_quit: somebody who was bound was deleted, or everybody.
LastLeaves == Deleted \cap Range(data_list) # {} \/ Deleted = Player

\* What can have happened when epoll_wait returns.
Ready ==
    (Player \ Deleted)
    \cup {t \in PyTimer : timer_td[t].runs # "no"}
    \cup {e \in {drawTimer} : data_list # << >>}

\* release_deleted and epoll_wait: programs send something, timers expire.
PyEpollWait ==
    /\ child = "runs" /\ batched = {}
    /\ IF LastLeaves
       THEN child' = "quits" /\ UNCHANGED <<timer_td, batched, gone>>
       ELSE /\ batched' \in SUBSET Ready \ {{}}
            /\ timer_td' = [t \in PyTimer |->
                         IF t \in batched' /\ timer_td[t].runs = "once"
                         THEN [timer_td[t] EXCEPT !.runs = "no"] ELSE timer_td[t]]
            /\ gone' = Deleted
            /\ UNCHANGED child
    /\ CallsOther
    /\ UNCHANGED <<played, data_list, living, level_timers, marked>>

PyNext ==
    \/ PyEpollWait \/ PybRedraw
    \/ \E c \in Player : Levl(c) \/ PybMove(c) \/ PybAsk(c) \/ Leaves(c)
    \/ \E t \in PyTimer : CbTimer(t)
    \/ \E e \in batched : Fatal(e)

PySpec == PyInit /\ [][PyNext]_python
-----------------------------------------------------------------------------
\* The objects a level is given to draw are those of all its players, each
\* once, and of nobody who had left before this batch, although the list of
\* objects only grows; it is never empty, so that its first one can be used.
\* Who leaves in this batch, with the event of his own LEVL perhaps, is drawn
\* once more (pybindings.c:584-598, mazec.py:52-81, socket.c:56-70).
RedrawGetsPlayers ==
    called.what = "redraw" =>
        /\ called.on # << >> /\ IsInjective(called.on)
        /\ called.players \subseteq Range(called.on)
        /\ Range(called.on) \cap called.gone = {}

\* A timer's method is only called on an object that still exists, whatever
\* other methods freed in the same batch, and a hold finds exactly the
\* existing ones in its list (pybindings.c:197-214, proto.c:620-650).
NoDeadSelf ==
    /\ called.what = "fired" => called.on[2]
    /\ Range(level_timers) = {timer_td[t].fd : t \in living}
    /\ Len(level_timers) = Cardinality(living)
=============================================================================
