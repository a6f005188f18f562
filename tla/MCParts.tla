------------------------------ MODULE MCParts ------------------------------
(* Parts that can be checked by themselves, one at a time: commands of a     *)
(* program, the handshake and its key and the frames of a browser, the       *)
(* picture it is sent, answers in the buffer of a program, a level, the      *)
(* making of one.                                                            *)
EXTENDS MsgParser, WsFrames, WsHttp, AcceptKey, Draw, MCClient, SimpleLevel, Generator

VARIABLE part       \* the part that runs

parts == <<part, parser, websocket, handshake, accepting, drawing, client, level,
           generator>>

Item(x, y, angle, color) == [x |-> x, y |-> y, angle |-> angle, color |-> color]

\* Runs of tiles; a tile drawn over, a sprite at the edge, an item outside it;
\* sprites turned or off the grid.
ItemLists == {
    << >>,
    <<Item(0, 0, 0, 2), Item(15, 0, 0, 2), Item(30, 0, 0, 2), Item(0, 15, 0, 2),
      Item(15, 15, 0, 2), Item(30, 30, 0, 2)>>,
    <<Item(15, 15, 0, 1), Item(15, 15, 0, 0), Item(-14, -14, 5, 3),
      Item(45, 0, 0, 1), Item(7, 22, 0, 4)>>,
    <<Item(15, 0, 90, 5), Item(43, 43, 1, 5), Item(-15, 0, 0, 3), Item(30, 15, 0, 31)>>}
MCScenes ==
    {[origin |-> o, items |-> l, bank |-> Len(l) % 2] :
        o \in {<<0, 0>>, <<7, 22>>, <<-8, -8>>, <<15, 30>>, <<14, 0>>}, l \in ItemLists}
MCLeft == {-1, 0, 300}

\* Walls, a key, a treasure; the places around the first one are empty.
MCGround ==
    LET N == "none"
        W == "wall"
    IN <<N, N, N, W, N, N,
         N, W, N, N, N, "key",
         N, N, N, N, W, N,
         W, N, W, N, N, "treasure",
         N, N, N, N, N, N>>
MCStart == <<3, 2>>

Args(width, height, holes) == [width |-> width, height |-> height, holes |-> holes]
MCSizes == {Args(9, 7, 0), Args(7, 7, 0), Args(8, 6, 0), Args(5, 5, 170), Args(5, 7, 120)}

\* The key of the example of RFC 6455 and others whose hashed text ends in
\* every interesting place of a block; the other texts are the two short
\* examples of sha1.c and one of several blocks.
RfcKey == <<100, 71, 104, 108, 73, 72, 78, 104, 98, 88, 66, 115, 90, 83, 66, 117, 98,
            50, 53, 106, 90, 81, 61, 61>>
KeyOf(n) == [k \in 1..n |-> 33 + ((7 * k) % 90)]
Abc == <<97, 98, 99>>
Abcdbcde == [k \in 1..56 |-> 97 + ((k - 1) \div 4) + ((k - 1) % 4)]
MCKeys == {RfcKey} \cup {KeyOf(n) : n \in {0, 1, 19, 20, 27, 28, 64, 92}}
MCVectors == {Abc, Abcdbcde, KeyOf(200)}
MCKnownTexts ==
    {[pieces |-> <<RfcKey, WsUuid>>,
      text |-> <<115, 51, 112, 80, 76, 77, 66, 105, 84, 120, 97, 81, 57, 107, 89, 71, 122,
                 122, 104, 90, 82, 98, 75, 43, 120, 79, 111, 61>>],
     [pieces |-> <<Abc>>,
      text |-> <<113, 90, 107, 43, 78, 107, 99, 71, 103, 87, 113, 54, 80, 105, 86, 120, 101,
                 70, 68, 67, 98, 74, 122, 81, 50, 74, 48, 61>>],
     [pieces |-> <<Abcdbcde>>,
      text |-> <<104, 74, 103, 43, 82, 66, 119, 55, 48, 109, 54, 54, 114, 107, 113, 104, 43,
                 86, 69, 112, 53, 101, 86, 71, 99, 80, 69, 61>>]}

PartsInit ==
    /\ part \in {"parser", "frames", "http", "key", "draw", "client", "level",
                 "generator"}
    /\ ParserInit /\ WebsocketInit /\ HttpInit /\ AcceptInit /\ DrawInit
    /\ ClientInit /\ LevelInit /\ GeneratorInit
    /\ part = "draw" \/ scene = CHOOSE s \in Scenes : TRUE
    /\ part = "level" \/ ~turning
    /\ part = "generator" \/ size = CHOOSE s \in Sizes : TRUE
    /\ part = "key" \/ given = <<RfcKey, WsUuid>>

PartsNext ==
    \/ /\ part = "parser" /\ ParserNext
       /\ UNCHANGED <<part, websocket, handshake, accepting, drawing, client, level,
                      generator>>
    \/ /\ part = "frames" /\ WebsocketNext
       /\ UNCHANGED <<part, parser, handshake, accepting, drawing, client, level,
                      generator>>
    \/ /\ part = "http" /\ HttpNext
       /\ UNCHANGED <<part, parser, websocket, accepting, drawing, client, level,
                      generator>>
    \/ /\ part = "key" /\ AcceptNext
       /\ UNCHANGED <<part, parser, websocket, handshake, drawing, client, level,
                      generator>>
    \/ /\ part = "draw" /\ DrawNext
       /\ UNCHANGED <<part, parser, websocket, handshake, accepting, client, level,
                      generator>>
    \/ /\ part = "client" /\ ClientNext
       /\ UNCHANGED <<part, parser, websocket, handshake, accepting, drawing, level,
                      generator>>
    \/ /\ part = "level" /\ LevelNext
       /\ UNCHANGED <<part, parser, websocket, handshake, accepting, drawing, client,
                      generator>>
    \/ /\ part = "generator" /\ GeneratorNext
       /\ UNCHANGED <<part, parser, websocket, handshake, accepting, drawing, client,
                      level>>

PartsSpec == PartsInit /\ [][PartsNext]_parts
=============================================================================
