----------------------------- MODULE WsFrames ------------------------------
(***************************************************************************)
(* Frames of a browser in the child (server/websocket_data.c): headers and *)
(* payload come in pieces cut anywhere, fragments are put together,        *)
(* control frames may come between them, and the first frame that cannot   *)
(* be accepted starts the end of the connection.                           *)
(***************************************************************************)
EXTENDS Integers, Sequences, SequencesExt

CONSTANTS
    MaxPayload,     \* MAX_PAYLOAD_SIZE
    ShortLengths,   \* payload lengths a browser uses for any frame
    LongLengths,    \* longer ones, for the first fragment of a message
    FramesMax       \* bound: frames a browser sends

ASSUME WsFramesAssumption ==
    /\ MaxPayload \in Nat /\ MaxPayload < 65536 /\ FramesMax \in Nat
    /\ \A len \in ShortLengths : len \in Nat /\ len <= 125
    /\ \A len \in LongLengths : len \in Nat /\ len > 125 /\ len < 65536

VARIABLES
    wsd,        \* the parsing and reassembling fields of struct ws_data, with
                \* what a reading has done so far and the error it has met
    inbox,      \* bytes that were sent and not read
    asked,      \* ws_error was called; the socket is deleted when it is flushed
    frames,     \* history: the frames sent, in order
    events      \* history: messages handed over, pongs and errors, in order

websocket == <<wsd, inbox, asked, frames, events>>

CONT == 0
TEXT == 1
BINARY == 2
CLOSE == 8
PING == 9
PONG == 10

WebsocketInit ==
    /\ wsd = [offset |-> 0, fin |-> FALSE, opcode |-> 0, encLen |-> 0, size |-> 0,
              mask |-> <<0, 0, 0, 0>>, allocated |-> FALSE, payload |-> << >>,
              reasmOpcode |-> 0, reassembled |-> << >>, did |-> << >>, err |-> "none"]
    /\ inbox = << >> /\ asked = FALSE /\ frames = << >> /\ events = << >>
-----------------------------------------------------------------------------
(* The browser.  Payload and mask are bits, enough to see them unmasked.   *)

Xor(a, b) == (a + b) % 2
Seed(f) == (f.len + (IF f.fin THEN 1 ELSE 0)) % 2
Mask(f) == <<Seed(f), 1, 1 - Seed(f), 0>>
Payload(f) == [i \in 1..f.len |-> ((i \div 3) + Seed(f)) % 2]

\* How a browser announces a length.
Announced(len) == IF len <= 125 THEN <<len>> ELSE <<126, len \div 256, len % 256>>

Bytes(f) ==
    LET size == Announced(f.len)
    IN <<(IF f.fin THEN 128 ELSE 0) + f.op,
         Head(size) + (IF f.masked THEN 128 ELSE 0)>>
       \o Tail(size) \o Mask(f)
       \o [i \in 1..f.len |-> Xor(Payload(f)[i], Mask(f)[((i - 1) % 4) + 1])]

\* Any frame of a message and any control frame; then one of each kind that
\* is refused: text, close, a reserved bit, an unknown opcode, no mask.
Frame ==
    [op : {CONT, BINARY}, fin : BOOLEAN, len : ShortLengths, masked : {TRUE}]
    \cup [op : {BINARY}, fin : {FALSE}, len : LongLengths, masked : {TRUE}]
    \cup [op : {PING}, fin : {TRUE}, len : ShortLengths \cup LongLengths, masked : {TRUE}]
    \cup [op : {PONG}, fin : {TRUE}, len : ShortLengths, masked : {TRUE}]
    \cup [op : {TEXT, CLOSE, 16 + BINARY, 3}, fin : {TRUE}, len : {0}, masked : {TRUE}]
    \cup [op : {BINARY}, fin : {TRUE}, len : {0}, masked : {FALSE}]

\* Bound: at most two frames are on their way, none of them in part.
Send(f) ==
    /\ Len(frames) < FramesMax
    /\ inbox # << >> => inbox = Bytes(Last(frames))
    /\ frames' = Append(frames, f) /\ inbox' = inbox \o Bytes(f)
    /\ UNCHANGED <<wsd, asked, events>>
-----------------------------------------------------------------------------
(* The server: what a frame is answered with                               *)

\* The frame ws_write builds; no size of this program needs the 4 bytes.
Written(opcode, data) ==
    LET size == Len(data)
        length == IF size <= 125 THEN <<size>>
                  ELSE IF size <= 65535 THEN <<126, size \div 256, size % 256>>
                  ELSE <<127, size \div 16777216, (size \div 65536) % 256,
                         (size \div 256) % 256, size % 256>>
    IN <<opcode + 128>> \o length \o data

Did(w, what, data) == [w EXCEPT !.did = Append(@, [what |-> what, data |-> data])]
Refuse(w, err) == [w EXCEPT !.err = err]
ResetMessage(w) == [w EXCEPT !.allocated = FALSE, !.payload = << >>, !.offset = 0]
ResetReassembly(w) == [w EXCEPT !.reassembled = << >>, !.reasmOpcode = 0]

\* reassembly_message: nothing is kept between two messages, so that joining
\* also covers the first fragment.
Reassembly(w) ==
    LET joined == w.reassembled \o w.payload
    IN CASE Len(joined) > MaxPayload -> ResetReassembly(w)
         [] Len(joined) <= MaxPayload /\ ~w.fin ->
                [w EXCEPT !.reassembled = joined,
                          !.reasmOpcode = IF @ = 0 THEN w.opcode ELSE @]
         [] Len(joined) <= MaxPayload /\ w.fin ->
                ResetReassembly(IF joined = << >> THEN w ELSE Did(w, "message", joined))

\* Mutant: a control frame ends the message it interrupts.
ConsumeMessage_PingResets(w) ==
    ResetMessage(
        CASE w.opcode = CONT /\ w.reasmOpcode = 0 -> Refuse(w, "EINVAL")
          [] w.opcode = CONT /\ w.reasmOpcode # 0 -> Reassembly(w)
          [] w.opcode = TEXT -> Refuse(w, "EOPNOTSUPP")
          [] w.opcode = BINARY -> Reassembly(ResetReassembly(w))
          [] w.opcode = CLOSE -> Refuse(w, "EPIPE")
          [] w.opcode = PING ->
                ResetReassembly(Did(w, "pong", Written(PONG, w.payload)))
          [] w.opcode = PONG -> w)

ConsumeMessage(w) ==
    ResetMessage(
        CASE w.opcode = CONT /\ w.reasmOpcode = 0 -> Refuse(w, "EINVAL")
          [] w.opcode = CONT /\ w.reasmOpcode # 0 -> Reassembly(w)
          [] w.opcode = TEXT -> Refuse(w, "EOPNOTSUPP")
          [] w.opcode = BINARY -> Reassembly(ResetReassembly(w))
          [] w.opcode = CLOSE -> Refuse(w, "EPIPE")
          [] w.opcode = PING -> Did(w, "pong", Written(PONG, w.payload))
          [] w.opcode = PONG -> w)
-----------------------------------------------------------------------------
(* The server: one byte                                                    *)

\* The first of the four header fields, with its checks.
FirstByte(w, c) ==
    LET fin == [w EXCEPT !.fin = c >= 128]
        op == [fin EXCEPT !.opcode = c % 16]
    IN CASE (c \div 16) % 8 # 0 -> Refuse(fin, "EINVAL")
         [] (c \div 16) % 8 = 0 /\ c % 8 > 2 -> Refuse(op, "EINVAL")
         [] OTHER -> [op EXCEPT !.offset = 1]

SecondByte(w, c) ==
    LET n == c % 128
    IN IF c < 128 THEN Refuse(w, "EINVAL")
       ELSE [w EXCEPT !.encLen = IF n <= 125 THEN 0 ELSE IF n = 126 THEN 2 ELSE 4,
                      !.size = IF n <= 125 THEN n ELSE 0,
                      !.offset = 2]

\* Bytes from 128 are negative chars: or-ing one sets all the upper bits of
\* the size, for which 65536 stands here as it does for every larger value.
LengthByte(w, c) ==
    [w EXCEPT !.size = IF c >= 128 \/ @ > 255 THEN 65536 ELSE 256 * @ + c,
              !.offset = @ + 1]

MaskByte(w, c) ==
    [w EXCEPT !.mask[w.offset - 1 - w.encLen] = c, !.offset = @ + 1]

HeaderByte(w, c) ==
    CASE w.offset = 0 -> FirstByte(w, c)
      [] w.offset = 1 -> SecondByte(w, c)
      [] w.offset \in 2..1 + w.encLen -> LengthByte(w, c)
      [] OTHER -> MaskByte(w, c)

\* After a header byte that was accepted.
HeaderEnds(w) ==
    CASE w.err # "none" \/ w.offset # 6 + w.encLen -> w
      [] w.err = "none" /\ w.offset = 6 + w.encLen ->
            IF w.size > MaxPayload THEN Refuse(w, "ENOSPC")
            ELSE IF w.size = 0 THEN ConsumeMessage(w)
            ELSE [w EXCEPT !.allocated = TRUE]

\* Bytes of a payload, up to its last one.
PayloadBytes(w, bytes) ==
    LET more == [w EXCEPT !.payload = @ \o [i \in DOMAIN bytes |->
                     Xor(bytes[i], w.mask[((Len(w.payload) + i - 1) % 4) + 1])]]
    IN IF Len(more.payload) = w.size THEN ConsumeMessage(more) ELSE more

\* The loop of process_chunk is left at an error.  A round of it takes one byte of
\* a header, or all there are of a payload, or everything after a header whose
\* size was refused: its offset only grows.
ChunkDone(l) == l.wsd.err # "none" \/ l.bytes = << >>

ChunkRound(l) ==
    LET w == l.wsd
        room == w.size - Len(w.payload)
        n == IF w.allocated THEN (IF Len(l.bytes) <= room THEN Len(l.bytes) ELSE room)
             ELSE IF w.offset < 6 + w.encLen THEN 1 ELSE Len(l.bytes)
    IN IF ChunkDone(l) THEN l
       ELSE [wsd |-> IF w.allocated THEN PayloadBytes(w, SubSeq(l.bytes, 1, n))
                     ELSE IF w.offset < 6 + w.encLen THEN HeaderEnds(HeaderByte(w, l.bytes[1]))
                     ELSE [w EXCEPT !.offset = @ + n],
             bytes |-> SubSeq(l.bytes, n + 1, Len(l.bytes))]

\* There are no more rounds than bytes.
ProcessChunk(w, bytes) ==
    LET after[k \in 0..Len(bytes)] ==
            IF k = 0 THEN [wsd |-> w, bytes |-> bytes] ELSE ChunkRound(after[k - 1])
        end == CHOOSE k \in 0..Len(bytes) : ChunkDone(after[k])
    IN after[end].wsd

\* ws_error: the reasons are compared with positive numbers, so that every
\* one of them is the default.
CloseCode(err) == 1008

\* ws_read with the n bytes that have arrived: after an error the rest of what
\* was read is lost, and reading goes on until the close frame is flushed.
WsRead(n) ==
    LET w == ProcessChunk(wsd, SubSeq(inbox, 1, n))
        told == IF w.err = "none" THEN w ELSE Did(w, "close", Written(CLOSE, <<CloseCode(w.err)>>))
    IN /\ wsd' = [w EXCEPT !.did = << >>, !.err = "none"]
       /\ inbox' = SubSeq(inbox, n + 1, Len(inbox))
       /\ asked' = (asked \/ w.err # "none")
       /\ events' = events \o told.did
       /\ UNCHANGED frames

\* Bound: until the connection is closing, a header may be cut after any byte
\* and a payload after its first; later everything is read at once.
Cut(n) ==
    \/ n = Len(inbox)
    \/ ~asked /\ wsd.payload = << >> /\ n <= IF wsd.allocated THEN 1 ELSE 6 - wsd.offset + wsd.encLen

WebsocketNext ==
    \/ \E f \in Frame : Send(f)
    \/ \E n \in 1..Len(inbox) : Cut(n) /\ WsRead(n)

WebsocketSpec == WebsocketInit /\ [][WebsocketNext]_websocket
-----------------------------------------------------------------------------
(* What the frames of the browser mean                                     *)

IsData(f) == f.op \in {CONT, BINARY}

\* The fragments up to frame i of the message it belongs to, put together.
Whole(sent, i) ==
    LET first == Max({j \in 1..i : sent[j].op = BINARY})
    IN FlattenSeq([j \in 1..i + 1 - first |->
           IF IsData(sent[first + j - 1]) THEN Payload(sent[first + j - 1]) ELSE << >>])

\* Frame i finds a message that has begun and has neither ended nor been dropped.
Continues(sent, i) ==
    \E j \in 1..i - 1 :
        /\ sent[j].op = BINARY
        /\ \A k \in j..i - 1 :
              IsData(sent[k]) => ~sent[k].fin /\ Len(Whole(sent, k)) <= MaxPayload

\* A long length is only understood if both its bytes are below 128.
Fits(len) ==
    /\ len <= MaxPayload
    /\ len > 125 => len % 256 < 128 /\ len \div 256 < 128

Accepted(sent, i) ==
    /\ sent[i].op \in {CONT, BINARY, PING, PONG} /\ sent[i].masked
    /\ Fits(sent[i].len)
    /\ sent[i].op = CONT => Continues(sent, i)

Answer(sent, i) ==
    CASE ~Accepted(sent, i) -> <<[what |-> "close", data |-> <<1008>>]>>
      [] Accepted(sent, i) /\ sent[i].op = PING ->
            <<[what |-> "pong", data |-> Payload(sent[i])]>>
      [] Accepted(sent, i) /\ IsData(sent[i]) /\ sent[i].fin
              /\ Len(Whole(sent, i)) \in 1..MaxPayload ->
            <<[what |-> "message", data |-> Whole(sent, i)]>>
      [] OTHER -> << >>

\* How a browser reads a frame of the server: its payload, if that is as long
\* as the header says.
Understood(bytes) ==
    LET long == bytes[2] = 126
        size == IF long THEN 256 * bytes[3] + bytes[4] ELSE bytes[2]
        data == SubSeq(bytes, IF long THEN 5 ELSE 3, Len(bytes))
    IN IF bytes[2] < 127 /\ Len(data) = size THEN data ELSE <<"notAFrame">>

Heard(e) == IF e.what = "message" THEN e
            ELSE [e EXCEPT !.data = Understood(e.data)]

\* Once all that was sent is read, the server has handed over exactly the
\* messages of the browser, whole and in order, answered every ping with its
\* payload, also between fragments, and started to close at the first frame it
\* does not accept; a message that grows too long is dropped
\* (websocket_data.c:118-291).
EveryFrameAnswered ==
    inbox = << >> =>
        LET bad == {i \in DOMAIN frames : ~Accepted(frames, i)}
            last == IF bad = {} THEN Len(frames) ELSE Min(bad)
            ends == {k \in DOMAIN events : events[k].what = "close"}
            heard == IF ends = {} THEN events ELSE SubSeq(events, 1, Min(ends))
        IN FlattenSeq([i \in 1..last |-> Answer(frames, i)])
           = [k \in DOMAIN heard |-> Heard(heard[k])]
=============================================================================
