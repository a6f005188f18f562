----------------------------- MODULE Generator -----------------------------
(***************************************************************************)
(* The generator of mazes for levels (server/levels/generator.c): a random  *)
(* walk over the places with odd coordinates that opens the wall between    *)
(* two of them and backtracks with a stack; holes make cycles afterwards.   *)
(***************************************************************************)
EXTENDS Integers, Sequences, FiniteSets, SequencesExt

CONSTANT Sizes      \* arguments: a set of [width, height, holes]

ASSUME GeneratorAssumption ==
    \A s \in Sizes : s.width \in Nat \ 0..4 /\ s.height \in Nat \ 0..4 /\ s.holes \in 0..1000

VARIABLES
    size,   \* the arguments of this call
    gen     \* its locals: the open places, the stack, where it is, what it
            \* does and how many holes are left to be made

generator == <<size, gen>>

GeneratorInit ==
    /\ size \in Sizes
    /\ gen = [open |-> {<<1, 1>>}, stack |-> << >>, at |-> <<1, 1>>, does |-> "walk", left |-> 0]
-----------------------------------------------------------------------------
Directions == {<<-1, 0>>, <<1, 0>>, <<0, -1>>, <<0, 1>>}
Step(p, d, n) == <<p[1] + n * d[1], p[2] + n * d[2]>>
Inside(p) == p[1] \in 0..size.width - 1 /\ p[2] \in 0..size.height - 1

\* Mutant: it is enough that the wall in between is closed.
Unvisited_ByWall ==
    {d \in Directions : Inside(Step(gen.at, d, 2)) /\ Step(gen.at, d, 1) \notin gen.open}

\* Where the walk can go on; the shuffled directions make it any of them.
Unvisited ==
    {d \in Directions : Inside(Step(gen.at, d, 2)) /\ Step(gen.at, d, 2) \notin gen.open}

\* Mutant: the wall stays.
Walk_KeepsWall(d) ==
    /\ gen.does = "walk" /\ d \in Unvisited
    /\ gen' = [gen EXCEPT !.stack = Append(@, gen.at), !.at = Step(@, d, 2),
                          !.open = @ \cup {Step(gen.at, d, 2)}]
    /\ UNCHANGED size

Walk(d) ==
    /\ gen.does = "walk" /\ d \in Unvisited
    /\ gen' = [gen EXCEPT !.stack = Append(@, gen.at), !.at = Step(@, d, 2),
                          !.open = @ \cup {Step(gen.at, d, 1), Step(gen.at, d, 2)}]
    /\ UNCHANGED size

Backtrack ==
    /\ gen.does = "walk" /\ Unvisited = {} /\ gen.stack # << >>
    /\ gen' = [gen EXCEPT !.at = Last(gen.stack), !.stack = Front(@)]
    /\ UNCHANGED size

WalkEnds ==
    /\ gen.does = "walk" /\ Unvisited = {} /\ gen.stack = << >>
    /\ gen' = [gen EXCEPT !.does = "holes",
                  !.left = (((size.width * size.height) \div 2) * size.holes) \div 1000]
    /\ UNCHANGED size

\* The walls between two places next to each other, in a row and in a column.
Between ==
    {<<2 * i + 2, 2 * j + 1>> : i \in 0..(size.width \div 2) - 2, j \in 0..(size.height \div 2) - 1}
    \cup
    {<<2 * i + 1, 2 * j + 2>> : i \in 0..(size.width \div 2) - 1, j \in 0..(size.height \div 2) - 2}

Hole(p) ==
    /\ gen.does = "holes" /\ gen.left > 0 /\ p \in Between
    /\ gen' = [gen EXCEPT !.open = @ \cup {p}, !.left = @ - 1]
    /\ UNCHANGED size

GeneratorNext ==
    \/ \E d \in Directions : Walk(d)
    \/ Backtrack
    \/ WalkEnds
    \/ \E p \in Between : Hole(p)

GeneratorSpec == GeneratorInit /\ [][GeneratorNext]_generator
-----------------------------------------------------------------------------
OddPlaces == {p \in (0..size.width - 1) \X (0..size.height - 1) : p[1] % 2 = 1 /\ p[2] % 2 = 1}

\* The open places that a player can reach from the first one.
Reached ==
    LET near(P) == P \cup {p \in gen.open : \E d \in Directions : Step(p, d, 1) \in P}
        within[n \in 0..Cardinality(gen.open)] ==
            IF n = 0 THEN {<<1, 1>>} ELSE near(within[n - 1])
    IN within[Cardinality(gen.open)]

\* A maze is finished with all places of the odd grid open and connected, by
\* one way only if there are no holes, and with a closed border if its width
\* and height are odd (generator.c:19-84).
EverythingConnected ==
    gen.does = "holes" =>
        /\ OddPlaces \subseteq gen.open /\ Reached = gen.open
        /\ gen.left = 0 /\ size.holes = 0 =>
              Cardinality(gen.open) = 2 * Cardinality(OddPlaces) - 1
        /\ size.width % 2 = 1 /\ size.height % 2 = 1 =>
              \A p \in gen.open : p[1] \in 1..size.width - 2 /\ p[2] \in 1..size.height - 2

\* The stack never outgrows what was allocated for it, a quarter of the places
\* (generator.c:31, 49).
StackFits == Len(gen.stack) <= (size.width * size.height) \div 4
=============================================================================
