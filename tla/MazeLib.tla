------------------------------ MODULE MazeLib ------------------------------
(***************************************************************************)
(* The C library (lib/c+cpp/lib/libmaze.c): its receive buffer, for answers *)
(* of one line and the numbers of a whole maze, read from pieces of the     *)
(* stream that may be cut anywhere, and what its calls make of the answers. *)
(***************************************************************************)
EXTENDS Integers, Sequences, SequencesExt

CONSTANTS
    LibBuf,     \* BUFSIZE
    Widths,     \* what a maze may consist of: digits of each number, in order
    LineWidths, \* digits of the number of a line
    AllArrived, \* TRUE: all of an answer has arrived when the program reads
    AnswersMax  \* bound: commands of a program

ASSUME MazeLibAssumption ==
    /\ LibBuf \in Nat \ 0..5 /\ AllArrived \in BOOLEAN /\ AnswersMax \in Nat
    /\ \A widths \in Widths : widths \in Seq(Nat \ {0}) /\ widths # << >>
    /\ LineWidths \subseteq Nat \ {0}

VARIABLES
    lib,        \* buf up to end, ptr as an offset, what the program is doing
    stream,     \* bytes of the server that were not read
    answer,     \* history: the kind of the last answer, the digits of its numbers
    got         \* history: what the program was given of it

client == <<lib, stream, answer, got>>

\* Digits are numbers: all digits of the k-th number of an answer are k.
Gap == 0
Newline == -1
DataWord == <<-2, -3, -2, -3, Gap>>
NopeWord == <<-4, -5, -6, -7, Gap>>
OverWord == <<-5, -8, -7, -9, Gap>>
DoneWord == <<-2, -5, -4, -7>>

Number(widths, k) == [i \in 1..widths[k] |-> k]
Delimiter(widths, k) == IF k = Len(widths) THEN Newline ELSE Gap
Numbers(widths) ==
    LET upto[k \in 0..Len(widths)] ==
            IF k = 0 THEN << >>
            ELSE upto[k - 1] \o Append(Number(widths, k), Delimiter(widths, k))
    IN upto[Len(widths)]
Text(kind, widths) ==
    CASE kind = "DATA" -> DataWord \o Numbers(widths)
      [] kind = "NOPE" -> NopeWord \o Numbers(widths)
      [] kind = "OVER" -> OverWord \o Numbers(widths)
      [] kind = "DONE" -> Append(DoneWord, Newline)

\* The calls of the library and how the server may answer them.
Answers(call) ==
    CASE call = "number" -> {"DATA", "NOPE", "OVER"}    \* maze_x, maze_what, ...
      [] call = "done" -> {"DONE", "OVER"}              \* maze_user, maze_wait, ...
      [] call = "move" -> {"DONE", "NOPE", "OVER"}
      [] call = "maze" -> {"DATA"}

ClientInit ==
    /\ lib = [buf |-> << >>, ptr |-> 0, doing |-> "nothing", call |-> "done",
              tries |-> 0, asked |-> 0]
    /\ stream = << >> /\ answer = [kind |-> "none", widths |-> << >>] /\ got = << >>
-----------------------------------------------------------------------------
Unscanned == SubSeq(lib.buf, lib.ptr + 1, Len(lib.buf))
Room == LibBuf - 1 - Len(lib.buf)

\* What is left to read is moved to the beginning, if there is any.
Moved == IF Unscanned = << >> THEN lib ELSE [lib EXCEPT !.buf = Unscanned, !.ptr = 0]

\* read() into a buffer with that much room: any piece, or all there is, or
\* nothing when there is no room.
Pieces(room) ==
    LET most == Min({room, Len(stream)})
    IN IF room = 0 THEN {0} ELSE IF AllArrived THEN {most} \ {0} ELSE 1..most

Ask(call, kind, widths, doing, reader) ==
    /\ lib.doing = "nothing" /\ lib.asked < AnswersMax
    /\ kind \in Answers(call)
    /\ lib' = [reader EXCEPT !.doing = doing, !.call = call, !.asked = @ + 1]
    /\ stream' = Text(kind, widths) /\ answer' = [kind |-> kind, widths |-> widths]
    /\ got' = << >>

\* maze_cmd: a command with an answer of one line, and the beginning of
\* maze_raw_recv.
MazeCmd(call, kind, widths) ==
    Ask(call, kind, widths, "line",
        [Moved EXCEPT !.buf = IF Unscanned = << >> THEN << >> ELSE @, !.ptr = 0])

\* maze_maze, which knows how many numbers there are.
MazeMaze(widths) == Ask("maze", "DATA", widths, "start", lib)

Begins(word, text) == IsPrefix(word, text)
After(word, text) == SubSeq(text, Len(word) + 1, Len(text))

\* What a call makes of its answer: a value, or a call of the error handler, after
\* which the program ends (maze_throw).
Returned(call, text) ==
    CASE Begins(OverWord, text) -> [doing |-> "thrown", value |-> <<After(OverWord, text)>>]
      [] call = "number" /\ Begins(DataWord, text) ->
            [doing |-> "nothing", value |-> <<After(DataWord, text)>>]
      [] call = "move" /\ Begins(NopeWord, text) ->
            [doing |-> "nothing", value |-> <<After(NopeWord, text)>>]
      [] call # "number" /\ text = DoneWord -> [doing |-> "nothing", value |-> << >>]
      [] OTHER -> [doing |-> "thrown", value |-> << >>]

\* The loop of maze_raw_recv and the end of the call; the other end of the loop,
\* a line that fills the buffer, is beyond the answers here.
RecvLine(n) ==
    /\ lib.doing = "line"
    /\ LET buf == lib.buf \o SubSeq(stream, 1, n)
           ends == {i \in lib.ptr + 1..Len(buf) : buf[i] = Newline}
           result == Returned(lib.call, SubSeq(buf, 1, Min(ends) - 1))
       IN
       /\ stream' = SubSeq(stream, n + 1, Len(stream))
       /\ lib' = [lib EXCEPT !.buf = buf,
                     !.ptr = IF ends = {} THEN Len(buf) ELSE Min(ends),
                     !.doing = IF ends = {} THEN @ ELSE result.doing]
       /\ got' = IF ends = {} THEN got ELSE result.value
       /\ UNCHANGED answer

\* maze_raw_recv_start reads once.
RecvStart(n) ==
    /\ lib.doing = "start"
    /\ LET buf == lib.buf \o SubSeq(stream, 1, n)
       IN
       /\ stream' = SubSeq(stream, n + 1, Len(stream))
       /\ lib' = IF IsPrefix(DataWord, SubSeq(buf, lib.ptr + 1, Len(buf)))
                 THEN [lib EXCEPT !.buf = buf, !.ptr = @ + 5, !.doing = "numbers", !.tries = 0]
                 ELSE [lib EXCEPT !.buf = buf, !.doing = "error"]
       /\ UNCHANGED <<answer, got>>

Delimiters == {i \in lib.ptr + 1..Len(lib.buf) : lib.buf[i] \in {Gap, Newline}}

\* Mutant: a number may end where the buffer does.
RecvInt_NoDelimiter ==
    LET at == IF Delimiters = {} THEN Len(lib.buf) + 1 ELSE Min(Delimiters)
        last == at <= Len(lib.buf) /\ lib.buf[at] = Newline
    IN /\ lib.doing = "numbers" /\ Unscanned # << >>
       /\ got' = Append(got, SubSeq(lib.buf, lib.ptr + 1, at - 1))
       /\ lib' = [lib EXCEPT !.ptr = Min({at, Len(lib.buf)}), !.tries = 0,
                             !.doing = IF last THEN "nothing" ELSE @]
       /\ UNCHANGED <<stream, answer>>

\* maze_raw_recv_int with a whole number in the buffer; after the last one the
\* answer has been read to its end and maze_raw_recv_flush has nothing to do.
RecvInt ==
    LET at == Min(Delimiters)
    IN /\ lib.doing = "numbers" /\ Delimiters # {}
       /\ got' = Append(got, SubSeq(lib.buf, lib.ptr + 1, at - 1))
       /\ lib' = [lib EXCEPT !.ptr = at, !.tries = 0,
                             !.doing = IF lib.buf[at] = Newline THEN "nothing" ELSE @]
       /\ UNCHANGED <<stream, answer>>

\* maze_raw_recv_int without one: one round of its loop, or the end of it.
Refill(n) ==
    /\ lib.doing = "numbers" /\ Delimiters = {} /\ lib.tries < 16
    /\ lib' = [Moved EXCEPT !.buf = @ \o SubSeq(stream, 1, n), !.tries = @ + 1]
    /\ stream' = SubSeq(stream, n + 1, Len(stream))
    /\ UNCHANGED <<answer, got>>

GiveUp ==
    /\ lib.doing = "numbers" /\ lib.tries = 16
    /\ lib' = [lib EXCEPT !.doing = "error"]
    /\ UNCHANGED <<stream, answer, got>>

ClientNext ==
    \/ \E w \in LineWidths, call \in {"number", "done", "move"} :
           \E kind \in Answers(call) : MazeCmd(call, kind, <<w>>)
    \/ \E widths \in Widths : MazeMaze(widths)
    \/ \E n \in Pieces(Room) : RecvLine(n) \/ RecvStart(n)
    \/ \E n \in Pieces(LibBuf - 1 - Len(Moved.buf)) : Refill(n)
    \/ RecvInt \/ GiveUp

ClientSpec == ClientInit /\ [][ClientNext]_client
-----------------------------------------------------------------------------
\* However the answers are cut, a call returns or throws what its own answer
\* says, numbers whole and in their order, and when it has returned everything
\* the server sent is consumed, so that the next answer is not taken for a part
\* of this one (libmaze.c:60-181, 191-311).
AnswersArrive ==
    LET told == answer.kind # "DONE"
    IN /\ lib.doing = "numbers" =>
              \A k \in DOMAIN got : k <= Len(answer.widths) /\ got[k] = Number(answer.widths, k)
       /\ lib.doing = "nothing" /\ answer.kind # "none" =>
              /\ answer.kind # "OVER"
              /\ got = [k \in {j \in DOMAIN answer.widths : told} |-> Number(answer.widths, k)]
              /\ stream = << >> /\ Unscanned = << >>
       /\ lib.doing = "thrown" =>
              \/ answer.kind = "OVER" /\ got = <<Number(answer.widths, 1)>>
              \/ answer.kind = "NOPE" /\ lib.call = "number"

\* maze_maze "returns the whole maze in a freshly allocated array"
\* (lib/c+cpp/lib/maze.h:53).
MazeIsReturned == lib.doing # "error"
=============================================================================
