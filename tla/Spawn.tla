------------------------------- MODULE Spawn -------------------------------
(***************************************************************************)
(* What a child does when a program reaches the treasure: it runs another  *)
(* program, waits for what that one writes, and tells the winner           *)
(* (p_report_win of server/proto.c, exec_wait of server/spawn.c).  The     *)
(* loop stands still meanwhile; the end of the process is noticed later.   *)
(* Words of the output are values, a buffer is as long as they are many;   *)
(* "REPORT" is the start "REPORT: " of a message.                          *)
(***************************************************************************)
EXTENDS Integers, Sequences, FiniteSets, SequencesExt

CONSTANTS
    OutMax,     \* out_size - 1, what fits into the buffer besides its end
    Outputs,    \* what a process may write: sequences of words
    WinsMax     \* bound: moves that win

ASSUME SpawnAssumption ==
    OutMax \in Nat \ {0} /\ WinsMax \in Nat /\ Outputs \subseteq Seq(STRING)

VARIABLES
    reading,    \* exec_wait: the process that is read from, 0 for none
    outbuf,     \* the buffer
    unread,     \* what the process has not been read yet
    programs,   \* processes that were started and have not ended
    zombies,    \* processes that ended and were not waited for
    ignored_pid,
    unknown,    \* the processes db_end_process was called for
    winner_told,    \* what the last winner was told
    said        \* history: all the output of the last process

winning == <<reading, outbuf, unread, programs, zombies, ignored_pid, unknown, winner_told, said>>

Error == <<"expected_no_more">>      \* the message of res < 0
Won == <<"congratulations">>         \* what MOVE_WIN came with

SpawnInit ==
    /\ reading = 0 /\ outbuf = << >> /\ unread = << >>
    /\ programs = {} /\ zombies = {} /\ ignored_pid = 0 /\ unknown = {}
    /\ winner_told = << >> /\ said = << >>

Started == programs \cup zombies \cup unknown \cup {ignored_pid}

\* MOVE_WIN: fork; socketpair and fork may fail.  Numbers are given in order.
Win(output) ==
    /\ reading = 0
    /\ LET pid == Max(Started) + 1
       IN /\ pid <= WinsMax
          /\ \/ /\ reading' = pid /\ ignored_pid' = pid
                /\ programs' = programs \cup {pid}
                /\ outbuf' = << >> /\ unread' = output /\ said' = output
                /\ UNCHANGED winner_told
             \/ /\ winner_told' = Error /\ said' = << >>
                /\ UNCHANGED <<reading, ignored_pid, programs, outbuf, unread>>
    /\ UNCHANGED <<zombies, unknown>>

\* Mutant: only what the first read returned is looked at.
ReadOut_Once(n) ==
    /\ reading # 0 /\ n \in 1..Min({OutMax - Len(outbuf), Len(unread)})
    /\ outbuf' = outbuf \o SubSeq(unread, 1, n)
    /\ unread' = << >>
    /\ UNCHANGED <<reading, programs, zombies, ignored_pid, unknown, winner_told, said>>

\* read() returns a piece of the output, no more than fits.
ReadOut(n) ==
    /\ reading # 0 /\ n \in 1..Min({OutMax - Len(outbuf), Len(unread)})
    /\ outbuf' = outbuf \o SubSeq(unread, 1, n)
    /\ unread' = SubSeq(unread, n + 1, Len(unread))
    /\ UNCHANGED <<reading, programs, zombies, ignored_pid, unknown, winner_told, said>>

StripOne(text) == IF Last(text) = "newline" THEN Front(text) ELSE text

\* The outcome of p_report_win.
Report(text) ==
    IF text # << >> /\ Head(text) = "REPORT"
    THEN IF Tail(StripOne(text)) = << >> THEN Error ELSE Tail(StripOne(text))
    ELSE IF text # << >> /\ Head(text) = "OK" THEN Won
    ELSE Error

\* read() returns 0: the process has closed its output, or the buffer is full,
\* when 0 bytes were asked for.
ReadEnd ==
    /\ reading # 0
    /\ unread = << >> \/ Len(outbuf) = OutMax
    /\ winner_told' = Report(outbuf)
    /\ reading' = 0
    /\ UNCHANGED <<outbuf, unread, programs, zombies, ignored_pid, unknown, said>>

\* A process ends by itself; one that still has something to write is stuck
\* until it is read or the other end is closed.
Ends(pid) ==
    /\ pid \in programs
    /\ pid = reading => unread = << >>
    /\ programs' = programs \ {pid} /\ zombies' = zombies \cup {pid}
    /\ UNCHANGED <<reading, outbuf, unread, ignored_pid, unknown, winner_told, said>>

\* SIGCHLD, when the loop runs again.
SigHandler ==
    /\ reading = 0 /\ zombies # {}
    /\ unknown' = unknown \cup (zombies \ {ignored_pid})
    /\ ignored_pid' = IF ignored_pid \in zombies THEN 0 ELSE ignored_pid
    /\ zombies' = {}
    /\ UNCHANGED <<reading, outbuf, unread, programs, winner_told, said>>

SpawnNext ==
    \/ \E output \in Outputs : Win(output)
    \/ \E n \in 1..OutMax : ReadOut(n)
    \/ ReadEnd \/ SigHandler
    \/ \E pid \in 1..WinsMax : Ends(pid)

SpawnSpec == SpawnInit /\ [][SpawnNext]_winning
-----------------------------------------------------------------------------
\* Whatever pieces the output comes in, and when it is longer than the buffer,
\* the winner is told all of a report that fits, without the end of its line,
\* congratulated after OK, and told of an error after anything else, an empty
\* report too (proto.c:164-184, spawn.c:112-131).
WinnerIsTold ==
    reading = 0 /\ said # << >> =>
        LET seen == SubSeq(said, 1, Min({OutMax, Len(said)}))
            report == <<"REPORT">> \o winner_told
        IN \/ winner_told = Won /\ seen[1] = "OK"
           \/ /\ winner_told = Error
              /\ \/ seen[1] \notin {"OK", "REPORT"}
                 \/ seen \in {<<"REPORT">>, <<"REPORT", "newline">>}
           \/ /\ winner_told # << >>
              /\ \/ seen = report \o <<"newline">>
                 \/ seen = report /\ Last(seen) # "newline"
=============================================================================
