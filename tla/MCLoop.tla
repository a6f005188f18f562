------------------------------- MODULE MCLoop -------------------------------
(* What lives on the event loop and its clock, one part at a time: timers,   *)
(* the table of descriptors, the rate limit of a socket, the clock of a      *)
(* level, the lists of users, the program run for a winner, a level in       *)
(* Python.                                                                   *)
EXTENDS LevelClock, Timers, FdTable, RateLimit, DbFile, Spawn, PyLevel, TLC

VARIABLE part       \* the part that runs

loop == <<part, vars, timers, fdTable, rate, db, winning, python>>

Symmetry == Permutations(Conn)

\* Lines shorter than LOGIN_LEN, as long and longer, repeated, empty, and
\* without an end.
MCFiles ==
    {<< >>, <<nl>>, <<"a", nl, "b", "c", nl>>, <<"b", "c", "a", nl, "a">>,
     <<"a", "b", "c", "c", nl>>, <<"a", nl, nl, "b", "c", nl, "a", nl>>}
MCDefault == <<"t", nl>>

\* Reports that are empty, of one or two lines, as long as the buffer and
\* longer, and other outputs.
MCOutputs ==
    LET R == "REPORT"
        N == "newline"
    IN {<< >>, <<"x">>, <<"ERROR", "x">>, <<"OK", N>>, <<R>>, <<R, N>>, <<R, "x", N>>,
        <<R, "x", N, N>>, <<R, "x", "x", N, "x">>, <<R, "x", "x", "x", N>>}

LoopInit ==
    /\ part \in {"clock", "timers", "fds", "rate", "users", "winner", "python"}
    /\ Init /\ TimersInit /\ FdTableInit /\ RateInit /\ DbInit /\ SpawnInit /\ PyInit
    /\ part = "rate" \/ real = 0
    /\ part = "users" \/ file = MCDefault

LoopNext ==
    \/ /\ part = "clock" /\ Next
       /\ UNCHANGED <<part, timers, fdTable, rate, db, winning, python>>
    \/ /\ part = "timers" /\ TimersNext
       /\ UNCHANGED <<part, vars, fdTable, rate, db, winning, python>>
    \/ /\ part = "fds" /\ FdTableNext
       /\ UNCHANGED <<part, vars, timers, rate, db, winning, python>>
    \/ /\ part = "rate" /\ RateNext
       /\ UNCHANGED <<part, vars, timers, fdTable, db, winning, python>>
    \/ /\ part = "users" /\ DbNext
       /\ UNCHANGED <<part, vars, timers, fdTable, rate, winning, python>>
    \/ /\ part = "winner" /\ SpawnNext
       /\ UNCHANGED <<part, vars, timers, fdTable, rate, db, python>>
    \/ /\ part = "python" /\ PyNext
       /\ UNCHANGED <<part, vars, timers, fdTable, rate, db, winning>>

LoopSpec == LoopInit /\ [][LoopNext]_loop
=============================================================================
