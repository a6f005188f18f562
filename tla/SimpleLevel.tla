---------------------------- MODULE SimpleLevel ----------------------------
(***************************************************************************)
(* A level on a grid (server/levels/grid.c): its players, how they move and *)
(* what they are told of it, as simple.c has it, with the part of it that   *)
(* is on the screen and follows them one place at a time, and as centered.c *)
(* has it, where everybody sees the surroundings of his own place.          *)
(***************************************************************************)
EXTENDS Integers, FiniteSets, Sequences, SequencesExt

CONSTANTS
    GridWidth, GridHeight,      \* width and height of the level
    Ground,                     \* level_data, row by row
    Start,                      \* where players begin
    ScreenWidth, ScreenHeight,  \* DRAW_MOD_WIDTH and DRAW_MOD_HEIGHT
    Border,                     \* BORDER
    PlayersMax                  \* max_conn

Places == (0..GridWidth - 1) \X (0..GridHeight - 1)

\* level_data[y * width + x], also where that is not the place that was meant.
GroundAt(p) == LET i == p[2] * GridWidth + p[1] + 1
               IN IF i \in DOMAIN Ground THEN Ground[i] ELSE "beyond"

ASSUME SimpleLevelAssumption ==
    /\ GridWidth \in Nat \ {0} /\ GridHeight \in Nat \ {0} /\ PlayersMax \in Nat
    /\ Ground \in Seq({"none", "wall", "treasure", "key"})
    /\ Len(Ground) = GridWidth * GridHeight
    /\ Start \in Places /\ GroundAt(Start) = "none"
    /\ {ScreenWidth, ScreenHeight} \subseteq Nat \ 0..2
    /\ Border \in Nat /\ 2 * Border < ScreenWidth /\ 2 * Border < ScreenHeight

VARIABLES
    turning,    \* whether MOVE is simple_o_move, simple_move otherwise
    ended,      \* a player has left: event_quit was called
    players,    \* the list grid_players
    origin,     \* the place in the upper left corner of the screen
    moved       \* history: the last MOVE, what was known before and the answer

level == <<turning, ended, players, origin, moved>>

LevelInit ==
    /\ turning \in BOOLEAN /\ ended = FALSE /\ players = << >>
    /\ origin = <<Start[1] - (ScreenWidth + 1) \div 2, Start[2] - (ScreenHeight + 1) \div 2>>
    /\ moved = [what |-> "none", shown |-> "none", window |-> {}, told |-> "nothing"]
-----------------------------------------------------------------------------
(* The screen.  Directions are up, down, left, right, as in the code.       *)

\* Of the numbers of a sequence the first of the greatest.
FindMax(data) == Min({i \in DOMAIN data : \A j \in DOMAIN data : data[j] <= data[i]})

Count(P, Test(_)) == Cardinality({k \in DOMAIN P : Test(P[k])})

\* How many more players each direction brings to the screen; on a screen of two
\* places or more no two tests of a chain of else hold at once.
Gains(P, o) ==
    LET chain(a, n) ==
            [up   |-> Count(P, LAMBDA p : p.at[a] = o[a] - 1)
                      - Count(P, LAMBDA p : p.at[a] = o[a] + n - 1),
             down |-> Count(P, LAMBDA p : p.at[a] = o[a] + n)
                      - Count(P, LAMBDA p : p.at[a] = o[a])]
    IN <<chain(2, ScreenHeight).up, chain(2, ScreenHeight).down,
         chain(1, ScreenWidth).up, chain(1, ScreenWidth).down>>

OnScreen(p, o) ==
    /\ p.at[1] \in o[1]..o[1] + ScreenWidth - 1
    /\ p.at[2] \in o[2]..o[2] + ScreenHeight - 1

\* How many more players each direction brings out of the border.
Comforts(P, o) ==
    LET Seen(Test(_)) == Count(P, LAMBDA p : OnScreen(p, o) /\ Test(p))
        chain(a, n) ==
            [up   |-> Seen(LAMBDA p : p.at[a] < o[a] + Border)
                      - Seen(LAMBDA p : p.at[a] >= o[a] + n - 1 - Border),
             down |-> Seen(LAMBDA p : p.at[a] > o[a] + n - 1 - Border)
                      - Seen(LAMBDA p : p.at[a] <= o[a] + Border)]
    IN <<chain(2, ScreenHeight).up, chain(2, ScreenHeight).down,
         chain(1, ScreenWidth).up, chain(1, ScreenWidth).down>>

\* Mutant: the last column and the last row do not get onto the screen.
Shifted_StopsEarly(o, dir) ==
    CASE dir = 1 /\ o[2] > 0 -> <<o[1], o[2] - 1>>
      [] dir = 2 /\ o[2] < GridHeight - ScreenHeight - 1 -> <<o[1], o[2] + 1>>
      [] dir = 3 /\ o[1] > 0 -> <<o[1] - 1, o[2]>>
      [] dir = 4 /\ o[1] < GridWidth - ScreenWidth - 1 -> <<o[1] + 1, o[2]>>
      [] OTHER -> o

\* One place in a direction, unless the level ends there.
Shifted(o, dir) ==
    CASE dir = 1 /\ o[2] > 0 -> <<o[1], o[2] - 1>>
      [] dir = 2 /\ o[2] < GridHeight - ScreenHeight -> <<o[1], o[2] + 1>>
      [] dir = 3 /\ o[1] > 0 -> <<o[1] - 1, o[2]>>
      [] dir = 4 /\ o[1] < GridWidth - ScreenWidth -> <<o[1] + 1, o[2]>>
      [] OTHER -> o

UpdateViewport(P, o) ==
    LET gains == Gains(P, o)
        comforts == Comforts(P, o)
    IN IF gains[FindMax(gains)] > 0 THEN Shifted(o, FindMax(gains))
       ELSE IF comforts[FindMax(comforts)] > 0 THEN Shifted(o, FindMax(comforts))
       ELSE o
-----------------------------------------------------------------------------
(* What players are told                                                    *)

SimpleWhat(p) ==
    IF p \notin Places THEN "out"
    ELSE IF \E k \in DOMAIN players : players[k].at = p THEN "player"
    ELSE GroundAt(p)

\* The answer to MAZE: a copy of the ground with the players in it.
SimpleMaze ==
    [i \in DOMAIN Ground |->
        IF \E k \in DOMAIN players : players[k].at[2] * GridWidth + players[k].at[1] + 1 = i
        THEN "player" ELSE Ground[i]]

\* How a program reads it (MAZE_WHAT).
InMaze(p) == IF p \in Places THEN SimpleMaze[GridWidth * p[2] + p[1] + 1] ELSE "out"
-----------------------------------------------------------------------------
(* What a player at p is told and shown by centered.c                       *)

Window == (0..ScreenWidth - 1) \X (0..ScreenHeight - 1)
Centre == <<ScreenWidth \div 2, ScreenHeight \div 2>>

GetColor(p, w, withPlayer) ==
    LET src == <<p[1] - Centre[1] + w[1], p[2] - Centre[2] + w[2]>>
    IN IF withPlayer /\ w = Centre THEN "player"
       ELSE IF src \in Places THEN GroundAt(src) ELSE "none"

CenteredWhat(p, w) == IF w \in Window THEN GetColor(p, w, TRUE) ELSE "out"

CenteredMaze(p) ==
    [i \in 1..ScreenWidth * ScreenHeight |->
        GetColor(p, <<(i - 1) % ScreenWidth, (i - 1) \div ScreenWidth>>, TRUE)]

\* What the browser gets of the window, before the player is drawn over it.
CenteredRedraw(p) == [w \in Window |-> GetColor(p, w, FALSE)]

\* The three answers for the place next to the middle where p would be.
InWindow(from, p) ==
    LET w == <<Centre[1] + p[1] - from[1], Centre[2] + p[2] - from[2]>>
    IN {CenteredWhat(from, w), CenteredMaze(from)[ScreenWidth * w[2] + w[1] + 1],
        CenteredRedraw(from)[w]}
-----------------------------------------------------------------------------
(* Players                                                                  *)

SimpleGetData ==
    /\ Len(players) < PlayersMax
    /\ players' = Append(players, [at |-> Start, angle |-> 0])
    /\ origin' = UpdateViewport(players', origin)
    /\ UNCHANGED <<turning, ended, moved>>

\* free_data: a connection that played ends, and with it the child after this
\* batch; nobody looks at the screen any more.
SimpleFreeData(k) ==
    /\ k \in DOMAIN players
    /\ players' = RemoveAt(players, k)
    /\ ended' = TRUE
    /\ UNCHANGED <<turning, origin, moved>>

Ahead(p, angle) ==
    CASE angle = 0 -> <<p[1], p[2] - 1>> [] angle = 90 -> <<p[1] - 1, p[2]>>
      [] angle = 180 -> <<p[1], p[2] + 1>> [] angle = 270 -> <<p[1] + 1, p[2]>>

\* Mutant: the place right of the last column is one.
Out_OffByOne(p) == p[1] \notin 0..GridWidth \/ p[2] \notin 0..GridHeight - 1

Out(p) == p[1] \notin 0..GridWidth - 1 \/ p[2] \notin 0..GridHeight - 1

\* What follows the choice of the new place in both kinds of a move, and what
\* grid_move makes of things that are neither a wall nor a treasure.
Tried(k, p) ==
    LET ground == GroundAt(p)
        told == IF Out(p) THEN "out_of_maze"
                ELSE CASE ground = "none" -> "okay"
                       [] ground = "treasure" -> "win"
                       [] OTHER -> "wall_hit"
    IN /\ players' = IF told = "okay" THEN [players EXCEPT ![k].at = p] ELSE players
       /\ origin' = IF told = "okay" THEN UpdateViewport(players', origin) ELSE origin
       /\ moved' = [what |-> SimpleWhat(p), shown |-> InMaze(p),
                     window |-> InWindow(players[k].at, p), told |-> told]
       /\ UNCHANGED <<turning, ended>>

\* w, a, s and d; others are refused without an effect.
GridMove(k, angle) ==
    /\ ~turning /\ k \in DOMAIN players
    /\ Tried(k, Ahead(players[k].at, angle))

\* w goes on, a and d turn.
GridOMove(k) ==
    /\ turning /\ k \in DOMAIN players
    /\ Tried(k, Ahead(players[k].at, players[k].angle))

Turn(k, by) ==
    /\ turning /\ k \in DOMAIN players
    /\ players' = [players EXCEPT ![k].angle = (@ + by) % 360]
    /\ origin' = UpdateViewport(players', origin)
    /\ UNCHANGED <<turning, ended, moved>>

Play ==
    \/ SimpleGetData
    \/ \E k \in DOMAIN players :
           \/ \E angle \in {0, 90, 180, 270} : GridMove(k, angle)
           \/ GridOMove(k)
           \/ \E by \in {90, 270} : Turn(k, by)

LevelNext == Play \/ \E k \in DOMAIN players : SimpleFreeData(k)

LevelSpec == LevelInit /\ [][LevelNext]_level
-----------------------------------------------------------------------------
Outcome(ground) ==
    CASE ground = "out" -> "out_of_maze"
      [] ground \in {"none", "player"} -> "okay"
      [] ground = "treasure" -> "win"
      [] OTHER -> "wall_hit"

\* A MOVE is answered as a program that asked with WHAT, or for the whole MAZE,
\* could tell before, whoever stands where, in a centered level too, where the
\* outside of it looks empty; every player stands on a place of the level that
\* is empty (grid.c:61-110, simple.c:49-79, centered.c:22-56).
MovesAsTold ==
    /\ \A k \in DOMAIN players : players[k].at \in Places /\ GroundAt(players[k].at) = "none"
    /\ moved.shown = moved.what
    /\ moved.told # "nothing" =>
           /\ moved.told = Outcome(moved.what)
           /\ \A ground \in moved.window :
                  \/ moved.told = Outcome(ground)
                  \/ moved.told = "out_of_maze" /\ ground = "none"

\* Wherever a player goes who is alone, the screen keeps up with him
\* (simple.c:128-207).
LonePlayerSeen == ~ended /\ Len(players) = 1 => OnScreen(players[1], origin)
=============================================================================
