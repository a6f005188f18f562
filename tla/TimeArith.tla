------------------------------ MODULE TimeArith ------------------------------
(***************************************************************************)
(* The arithmetic of server/time.c on struct timespec.  A second has Sec   *)
(* milliseconds of Sub nanoseconds each; C divides towards zero.           *)
(***************************************************************************)
EXTENDS Integers

CONSTANTS
    Sec,        \* milliseconds in a second (1000)
    Sub         \* nanoseconds in a millisecond (1000000)

ASSUME TimeAssumption == Sec \in Nat \ {0} /\ Sub \in Nat \ {0}

Whole == Sec * Sub

\* The operators / and % of C, for a positive divisor.
Quot(a, b) == IF a >= 0 THEN a \div b ELSE -((-a) \div b)
Rest(a, b) == a - b * Quot(a, b)

Timespec == [sec : Int, nsec : 0..(Whole - 1)]

\* The instant a timespec stands for, in nanoseconds.
Instant(tp) == tp.sec * Whole + tp.nsec

\* The timespec that clock_gettime returns at an instant.
Stamp(t) == [sec |-> t \div Whole, nsec |-> t % Whole]

TimeAdd(tp, ms) ==
    LET nsec == tp.nsec + Rest(ms, Sec) * Sub
        secs == tp.sec + Quot(ms, Sec)
    IN IF nsec >= Whole THEN [sec |-> secs + 1, nsec |-> nsec - Whole]
       ELSE IF nsec < 0 THEN [sec |-> secs - 1, nsec |-> nsec + Whole]
       ELSE [sec |-> secs, nsec |-> nsec]

\* Milliseconds from b to a: a negative difference of the nanoseconds is
\* rounded up.
TimeDiff(a, b) == (a.sec - b.sec) * Sec + Quot(a.nsec - b.nsec, Sub)
=============================================================================
