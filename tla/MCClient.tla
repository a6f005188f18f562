------------------------------ MODULE MCClient -----------------------------
(* Answers for a program that uses the C library.                            *)
EXTENDS MazeLib

\* Mazes of numbers with one digit or several, for a small buffer.
ShortMazes == {<<1, 1, 1, 1, 1>>, <<2, 1, 3>>, <<1, 3, 2, 1>>}

\* A maze of 12 by 12 and one digit in each place, for the buffer of the code.
LongMaze == {[k \in 1..144 |-> 1]}
=============================================================================
