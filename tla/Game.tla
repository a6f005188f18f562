-------------------------------- MODULE Game --------------------------------
(***************************************************************************)
(* What a child process promises of the game it runs, without sockets,     *)
(* queues and batches: the first player decides on the level and thereby   *)
(* on the number of players; members come and go until a player leaves or  *)
(* the last member does, which ends the game for all, as level.h and       *)
(* proto.h have it.                                                        *)
(***************************************************************************)
EXTENDS Naturals, FiniteSets

CONSTANTS
    Conn,       \* possible members
    Sizes       \* numbers of players of the levels, at least 1

VARIABLES
    members,    \* connections in the game
    players,    \* those that play
    size,       \* players the level has room for, 0 before there is a level
    over        \* the game has ended

vars == <<members, players, size, over>>

Init == members = {} /\ players = {} /\ size = 0 /\ over = FALSE

Join(c) ==
    /\ c \notin members
    /\ members' = members \cup {c}
    /\ UNCHANGED <<players, size, over>>

Enter(c) ==
    /\ c \in members \ players
    /\ players' = players \cup {c}
    /\ \/ size = 0 /\ size' \in Sizes
       \/ Cardinality(players) < size /\ size' = size
    /\ UNCHANGED <<members, over>>

\* The members in S leave while the game is on.
Part(S) ==
    /\ ~over /\ S # {} /\ S \subseteq members
    /\ members' = members \ S
    /\ players' = players \ S
    /\ over' = (S \cap players # {} \/ members' = {})
    /\ UNCHANGED size

\* Nobody came or stayed, or the players' browser ends the game.
End ==
    /\ ~over /\ over' = TRUE
    /\ UNCHANGED <<members, players, size>>

Next ==
    \/ End
    \/ \E c \in Conn : Join(c) \/ Enter(c)
    \/ \E S \in SUBSET members : Part(S)

Spec == Init /\ [][Next]_vars
=============================================================================
