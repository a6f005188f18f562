------------------------------- MODULE Draw --------------------------------
(***************************************************************************)
(* The picture of a level: drawn by the level (server/draw.c), redrawn when *)
(* it may have changed (server/app.c), sent to all browsers in one message  *)
(* and understood by each of them (frontend/script.js).                     *)
(***************************************************************************)
EXTENDS Integers, Sequences, SequencesExt

CONSTANTS
    Mod,            \* DRAW_MOD: width and height of a tile
    Width, Height,  \* DRAW_WIDTH and DRAW_HEIGHT: of what is visible
    RunMax,         \* tiles a repetition stands for at most: 258
    Scenes,         \* what there is in a level and where it is seen from:
                    \* [origin |-> <<x, y>>, bank |-> which sprites,
                    \*  items |-> <<[x, y, angle, color], ...>>]
    Left,           \* seconds that may be left, -1 without a limit
    Browser         \* browsers of this level

ASSUME DrawAssumption ==
    /\ Mod \in 1..16 /\ Width \in Nat /\ Height \in Nat
    /\ RunMax \in 3..258 /\ Left \subseteq Nat \cup {-1}
    /\ \A s \in Scenes : s \in [origin : Int \X Int, bank : Nat,
                              items : Seq([x : Int, y : Int, angle : Nat, color : Nat])]

Columns == Width \div Mod + 1
Cells == Columns * (Height \div Mod + 1)

VARIABLES
    scene,      \* the level's own data
    started,    \* the first LEVL was received: the redraw timer runs
    canvas,     \* the static variables of draw.c
    dirty,      \* as in app.c
    shown       \* the last message each browser received; << >> none yet,
                \* <<"away">> not connected

drawing == <<scene, started, canvas, dirty, shown>>

Away == <<"away">>

\* draw_init in the child.
DrawInit ==
    /\ scene \in Scenes /\ started = FALSE
    /\ canvas = [seconds |-> -1, buttons |-> {}, bank |-> 0,
                 orig |-> <<0, 0>>, start |-> <<0, 0>>,
                 fixed |-> [i \in 1..Cells |-> 0], floating |-> << >>, changed |-> TRUE]
    /\ dirty = FALSE
    /\ shown = [b \in Browser |-> Away]
-----------------------------------------------------------------------------
(* The message                                                             *)

\* cnt tiles of one color: repetitions, and what is too short for one.
EmitField(color, cnt) ==
    LET emit[n \in 0..cnt] ==
            CASE n = 0 -> << >>
              [] n \in {1, 2} -> <<color>> \o emit[n - 1]
              [] n > 2 -> <<128 + color, Min({n, RunMax}) - 3>> \o emit[n - Min({n, RunMax})]
    IN emit[cnt]

PackedTiles(tiles) ==
    LET next(i) == Min({j \in i + 1..Cells : tiles[j] # tiles[i]} \cup {Cells + 1})
        packed[i \in 1..Cells + 1] ==
            IF i > Cells THEN << >>
            ELSE EmitField(tiles[i], next(i) - i) \o packed[next(i)]
    IN packed[1]

\* Nine bits of each coordinate.
PackedSprite(p) ==
    <<64 * ((p.x \div 256) % 2) + 128 * ((p.y \div 256) % 2)
         + (IF p.angle # 0 THEN 32 ELSE 0) + p.color,
      p.x % 256, p.y % 256>>
    \o (IF p.angle # 0 THEN <<p.angle % 128>> ELSE << >>)

\* What draw_force_commit sends.
Message(c) ==
    LET rsec == IF c.seconds < 0 THEN 1023 ELSE c.seconds
    IN <<16 * (c.orig[1] - c.start[1]) + c.orig[2] - c.start[2],
         64 * ((rsec \div 256) % 4)
            + (IF "start" \in c.buttons THEN 1 ELSE 0) + (IF "end" \in c.buttons THEN 2 ELSE 0),
         rsec % 256, c.bank>>
       \o PackedTiles(c.fixed)
       \o FlattenSeq([k \in DOMAIN c.floating |-> PackedSprite(c.floating[k])])
-----------------------------------------------------------------------------
(* The functions of draw.c                                                 *)

DrawSeconds(c, s) ==
    IF s = c.seconds THEN c ELSE [c EXCEPT !.seconds = s, !.changed = TRUE]

DrawButton(c, b, on) ==
    IF (b \in c.buttons) = on THEN c
    ELSE [c EXCEPT !.buttons = IF on THEN @ \cup {b} ELSE @ \ {b}, !.changed = TRUE]

DrawSetBank(c, n) == [c EXCEPT !.bank = n, !.changed = TRUE]

DrawClear(c) ==
    [c EXCEPT !.fixed = [i \in 1..Cells |-> 0], !.floating = << >>, !.changed = TRUE]

\* TLA+'s % is the function modulo.
DrawSetOrigin(c, o) ==
    IF o = c.orig THEN c
    ELSE [c EXCEPT !.orig = o, !.start = [i \in 1..2 |-> o[i] - (o[i] % Mod)],
                   !.changed = TRUE]

Visible(item, o) ==
    /\ item.x > o[1] - Mod /\ item.x < o[1] + Width
    /\ item.y > o[2] - Mod /\ item.y < o[2] + Height

\* A tile where one fits the grid, a sprite elsewhere.
DrawItem(c, item) ==
    LET x == item.x - c.start[1]
        y == item.y - c.start[2]
    IN CASE ~Visible(item, c.orig) -> c
         [] Visible(item, c.orig) /\ x % Mod = 0 /\ y % Mod = 0 /\ item.angle = 0 ->
                [c EXCEPT !.fixed[(y \div Mod) * Columns + (x \div Mod) + 1] = item.color,
                          !.changed = TRUE]
         [] OTHER ->
                [c EXCEPT !.floating = Append(@, [x |-> x + Mod, y |-> y + Mod,
                              angle |-> item.angle \div 3, color |-> item.color]),
                          !.changed = TRUE]
-----------------------------------------------------------------------------
(* The child                                                               *)

\* Mutant: what was drawn last time stays.
Redraw_NoClear(c) ==
    LET drawn[k \in 0..Len(scene.items)] ==
            IF k = 0 THEN DrawSetOrigin(DrawSetBank(c, scene.bank), scene.origin)
            ELSE DrawItem(drawn[k - 1], scene.items[k])
    IN drawn[Len(scene.items)]

\* The redraw function of a level, one written in Python for the bank.
Redraw(c) ==
    LET drawn[k \in 0..Len(scene.items)] ==
            IF k = 0 THEN DrawSetOrigin(DrawSetBank(DrawClear(c), scene.bank), scene.origin)
            ELSE DrawItem(drawn[k - 1], scene.items[k])
    IN drawn[Len(scene.items)]

\* process_level; the first time also start_level.
ProcessLevel ==
    /\ started' = TRUE
    /\ canvas' = IF started THEN canvas ELSE DrawButton(canvas, "end", TRUE)
    /\ dirty' = TRUE
    /\ UNCHANGED <<scene, shown>>

\* A level function changes what is seen and says so.
LevelChanges(s) ==
    /\ started /\ s # scene
    /\ scene' = s /\ dirty' = TRUE
    /\ UNCHANGED <<started, canvas, shown>>

\* proto_pause and proto_resume.
HoldButton(on) ==
    /\ started
    /\ canvas' = DrawButton(canvas, "start", on)
    /\ UNCHANGED <<scene, started, dirty, shown>>

\* Mutant: a new browser waits for the next change.
WebsocketAdd_NotDirty(b) ==
    /\ shown[b] = Away
    /\ shown' = [shown EXCEPT ![b] = << >>]
    /\ UNCHANGED <<dirty, scene, started, canvas>>

\* pipe_read with a websocket.
WebsocketAdd(b) ==
    /\ shown[b] = Away
    /\ shown' = [shown EXCEPT ![b] = << >>]
    /\ dirty' = TRUE
    /\ UNCHANGED <<scene, started, canvas>>

WebsocketFree(b) ==
    /\ shown[b] # Away
    /\ shown' = [shown EXCEPT ![b] = Away]
    /\ UNCHANGED <<scene, started, canvas, dirty>>

\* p_draw with app_redraw: nothing is drawn for nobody.
PDraw(left) ==
    LET timed == DrawSeconds(canvas, left)
        drawn == IF dirty THEN Redraw(timed) ELSE timed
        connected == \E b \in Browser : shown[b] # Away
    IN /\ started
       /\ canvas' = IF connected THEN [drawn EXCEPT !.changed = FALSE] ELSE timed
       /\ dirty' = (dirty /\ ~connected)
       /\ shown' = [b \in Browser |-> IF shown[b] # Away /\ drawn.changed
                                      THEN Message(drawn) ELSE shown[b]]
       /\ UNCHANGED <<scene, started>>

DrawNext ==
    \/ ProcessLevel
    \/ \E s \in Scenes : LevelChanges(s)
    \/ \E on \in BOOLEAN : HoldButton(on)
    \/ \E b \in Browser : WebsocketAdd(b) \/ WebsocketFree(b)
    \/ \E left \in Left : PDraw(left)

DrawSpec == DrawInit /\ [][DrawNext]_drawing
-----------------------------------------------------------------------------
(* The browser                                                             *)

\* The tiles at the beginning of data and what follows them.
UnpackedTiles(data) ==
    LET round(u) ==
            LET long == u.rest[1] >= 128
                times == IF long THEN u.rest[2] + 3 ELSE 1
                color == u.rest[1] % 32
            IN IF Len(u.tiles) = Cells THEN u
               ELSE [tiles |-> u.tiles \o [i \in 1..times |-> color],
                     rest |-> SubSeq(u.rest, IF long THEN 3 ELSE 2, Len(u.rest))]
        unpacked[k \in 0..Cells] ==
            IF k = 0 THEN [tiles |-> << >>, rest |-> data] ELSE round(unpacked[k - 1])
    IN unpacked[Cells]

UnpackedSprites(data) ==
    LET rotated(i) == (data[i] \div 32) % 2 = 1
        sprites[i \in 1..Len(data) + 1] ==
            IF i > Len(data) THEN << >>
            ELSE <<[x |-> data[i + 1] + 256 * ((data[i] \div 64) % 2),
                    y |-> data[i + 2] + 256 * (data[i] \div 128),
                    angle |-> IF rotated(i) THEN 3 * data[i + 3] ELSE 0,
                    color |-> data[i] % 32]>>
                 \o sprites[i + (IF rotated(i) THEN 4 ELSE 3)]
    IN sprites[1]

\* In script.js the mask of y_ofs is shifted before it is applied: both offsets
\* are those of the lower half.
Offset(data) == data[1] % 16

\* What a browser draws: where the pixels of a tile or a sprite go.
Drawn(data) ==
    LET packed == UnpackedTiles(SubSeq(data, 5, Len(data)))
        sprites == UnpackedSprites(packed.rest)
        ofs == Offset(data)
    IN [left |-> data[3] + 256 * (data[2] \div 64),
        buttons |-> (IF data[2] % 2 = 1 THEN {"start"} ELSE {})
                    \cup (IF (data[2] \div 2) % 2 = 1 THEN {"end"} ELSE {}),
        bank |-> data[4],
        tiles |-> {[x |-> ((i - 1) % Columns) * Mod - ofs, y |-> ((i - 1) \div Columns) * Mod - ofs,
                    color |-> packed.tiles[i]] : i \in {j \in 1..Cells : packed.tiles[j] # 0}},
        sprites |-> [k \in DOMAIN sprites |->
                        [sprites[k] EXCEPT !.x = @ - Mod - ofs, !.y = @ - Mod - ofs]]]

\* What is to be seen: the last item at a place of the grid, and the others.
Seen(s) ==
    LET tile(i) == /\ (i.x - s.origin[1] + (s.origin[1] % Mod)) % Mod = 0
                   /\ (i.y - s.origin[2] + (s.origin[2] % Mod)) % Mod = 0
                   /\ i.angle = 0
        items == SelectSeq(s.items, LAMBDA i : Visible(i, s.origin))
        placed(i) == [x |-> i.x - s.origin[1], y |-> i.y - s.origin[2], color |-> i.color]
        sprites == SelectSeq(items, LAMBDA i : ~tile(i))
    IN [tiles |-> {placed(items[k]) : k \in {k \in DOMAIN items :
                       /\ tile(items[k]) /\ items[k].color # 0
                       /\ \A l \in k + 1..Len(items) : ~(/\ tile(items[l])
                              /\ items[l].x = items[k].x /\ items[l].y = items[k].y)}},
        sprites |-> [k \in DOMAIN sprites |->
                        [x |-> placed(sprites[k]).x, y |-> placed(sprites[k]).y,
                         angle |-> sprites[k].angle - (sprites[k].angle % 3),
                         color |-> sprites[k].color]]]

Right(data) ==
    LET drawn == Drawn(data)
        seen == Seen(scene)
    IN /\ drawn.left = IF canvas.seconds = -1 THEN 1023 ELSE canvas.seconds
       /\ drawn.buttons = canvas.buttons /\ drawn.bank = scene.bank
       /\ drawn.tiles = seen.tiles /\ drawn.sprites = seen.sprites

\* Whether the message can say it at all: ten bits for the seconds, nine for a
\* coordinate, and one offset for both axes.
Expressible ==
    /\ canvas.seconds < 1023
    /\ scene.origin[1] % Mod = scene.origin[2] % Mod
    /\ \A i \in Range(scene.items) :
          Visible(i, scene.origin) => \A d \in 1..2 :
              <<i.x, i.y>>[d] - scene.origin[d] + (scene.origin[d] % Mod) + Mod < 512

\* While nothing is marked as changed, everybody who is connected sees the level
\* as it is, its buttons and its time, however long ago it connected and whatever
\* was drawn before for others or for nobody (app.c:110-119, draw.c, ipc.c:63).
EverybodySees ==
    ~dirty /\ ~canvas.changed /\ Expressible =>
        \A b \in Browser : shown[b] # Away => shown[b] # << >> /\ Right(shown[b])
=============================================================================
