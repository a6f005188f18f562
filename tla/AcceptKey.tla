----------------------------- MODULE AcceptKey -----------------------------
(***************************************************************************)
(* The key that answers the key of a browser in the websocket handshake:   *)
(* construct_accept_key of server/websocket_http.c with the hash of        *)
(* server/sha1.c and the encoding of server/base64.c.  Characters and      *)
(* bytes are numbers, words of 32 bits are pairs of halves.  Each round    *)
(* of the hash is a step.                                                  *)
(***************************************************************************)
EXTENDS Integers, Sequences
LOCAL INSTANCE SequencesExt
LOCAL INSTANCE Bitwise

CONSTANTS
    Keys,       \* keys of browsers
    Vectors,    \* other things to hash
    KnownTexts  \* the answers that are known, with what they are for

VARIABLES
    sha,        \* SHA1_CTX: state, count and the filled part of buffer
    pieces,     \* what remains to be given to SHA1Update
    ending,     \* SHA1Final: how far it is, and the count before it
    rounds,     \* SHA1Transform: block, working variables and round
    blocks,     \* what remains to be transformed of the data of this call
    hashed,     \* history: all blocks that were transformed
    accept,     \* the answer
    given       \* history: the pieces at the beginning

accepting == <<sha, pieces, ending, rounds, blocks, hashed, accept, given>>
\* ws_uuid
WsUuid == <<50, 53, 56, 69, 65, 70, 65, 53, 45, 69, 57, 49, 52, 45, 52, 55, 68, 65,
            45, 57, 53, 67, 65, 45, 67, 53, 65, 66, 48, 68, 67, 56, 53, 66, 49, 49>>
-----------------------------------------------------------------------------
(* Words                                                                    *)

Half == 2^16
Plus(x, y) == LET lo == x[2] + y[2]
              IN <<(x[1] + y[1] + (lo \div Half)) % Half, lo % Half>>
Swap(x) == <<x[2], x[1]>>
\* rol for less than 16 bits.
RolHalf(x, n) == <<((x[1] * 2^n) % Half) + (x[2] \div 2^(16 - n)),
                   ((x[2] * 2^n) % Half) + (x[1] \div 2^(16 - n))>>
Rol(x, n) == IF n < 16 THEN RolHalf(x, n) ELSE RolHalf(Swap(x), n - 16)
XorWords(x, y) == <<x[1] ^^ y[1], x[2] ^^ y[2]>>
AndWords(x, y) == <<x[1] & y[1], x[2] & y[2]>>
OrWords(x, y) == <<x[1] | y[1], x[2] | y[2]>>

\* Four bytes as a word, the first one highest, and back.
WordOf(b) == <<b[1] * 256 + b[2], b[3] * 256 + b[4]>>
BytesOf(x) == <<x[1] \div 256, x[1] % 256, x[2] \div 256, x[2] % 256>>
-----------------------------------------------------------------------------
(* SHA-1                                                                    *)

NoRounds == [block |-> << >>, work |-> << >>, round |-> 80]

\* construct_accept_key and SHA1Init
AcceptInit ==
    /\ given \in {<<key, WsUuid>> : key \in Keys} \cup {<<v>> : v \in Vectors}
    /\ pieces = given
    /\ sha = [state |-> <<<<26437, 8961>>, <<61389, 43913>>, <<39098, 56574>>,
                          <<4146, 21622>>, <<50130, 57840>>>>,
              count |-> 0, buffer |-> << >>]
    /\ ending = [stage |-> "data", count |-> 0]
    /\ rounds = NoRounds /\ blocks = << >> /\ hashed = << >> /\ accept = << >>

Idle == rounds.round = 80 /\ blocks = << >>

\* Mutant: 64 bytes that are complete wait for the next one.
ToBlocks_Late(data) ==
    LET n == IF Len(data) > 64 THEN (Len(data) - 1) \div 64 ELSE 0
    IN [blocks |-> [k \in 1..n |-> SubSeq(data, 64 * (k - 1) + 1, 64 * k)],
        rest |-> SubSeq(data, 64 * n + 1, Len(data))]

\* Blocks of 64 bytes, the first one begun by what is in the buffer, and the rest.
ToBlocks(data) ==
    LET n == Len(data) \div 64
    IN [blocks |-> [k \in 1..n |-> SubSeq(data, 64 * (k - 1) + 1, 64 * k)],
        rest |-> SubSeq(data, 64 * n + 1, Len(data))]

\* SHA1Update: its blocks are transformed before the next call.
Update(data) ==
    LET cut == ToBlocks(sha.buffer \o data)
    IN /\ sha' = [sha EXCEPT !.count = @ + 8 * Len(data), !.buffer = cut.rest]
       /\ blocks' = cut.blocks

UpdateNext ==
    /\ Idle /\ pieces # << >>
    /\ Update(Head(pieces))
    /\ pieces' = Tail(pieces)
    /\ UNCHANGED <<ending, rounds, hashed, accept, given>>

\* The beginning of SHA1Transform; a word of the block from four bytes (blk0).
BeginTransform ==
    /\ rounds.round = 80 /\ blocks # << >>
    /\ rounds' = [block |-> [i \in 1..16 |-> WordOf(SubSeq(Head(blocks), 4 * i - 3, 4 * i))],
                  work |-> sha.state, round |-> 0]
    /\ hashed' = Append(hashed, Head(blocks))
    /\ blocks' = Tail(blocks)
    /\ UNCHANGED <<sha, pieces, ending, accept, given>>

\* blk(i): the block is a ring of words.
Blk(block, i) ==
    LET at(k) == block[((i + k) % 16) + 1]
    IN Rol(XorWords(XorWords(at(13), at(8)), XorWords(at(2), at(0))), 1)

\* The function of three words and the constant of each of R0 to R4.
Mixed(w, x, y, i) ==
    CASE i < 20 -> XorWords(AndWords(w, XorWords(x, y)), y)
      [] i \in 40..59 -> OrWords(AndWords(OrWords(w, x), y), AndWords(w, x))
      [] OTHER -> XorWords(XorWords(w, x), y)
Constant(i) ==
    CASE i < 20 -> <<23170, 31129>> [] i \in 20..39 -> <<28377, 60321>>
      [] i \in 40..59 -> <<36635, 48348>> [] OTHER -> <<51810, 49622>>

\* One of R0 to R4: what the code does by the order of its arguments, the
\* working variables move on by one.
Worked ==
    LET i == rounds.round
        word == IF i < 16 THEN rounds.block[i + 1] ELSE Blk(rounds.block, i)
        v == rounds.work[1]
        w == rounds.work[2]
        x == rounds.work[3]
        y == rounds.work[4]
        z == rounds.work[5]
        sum == Plus(Plus(Plus(z, Mixed(w, x, y, i)), Plus(word, Constant(i))), Rol(v, 5))
    IN [block |-> [rounds.block EXCEPT ![(i % 16) + 1] = word],
        work |-> <<sum, v, Rol(w, 30), x, y>>, round |-> i + 1]

\* A round; after the last one the variables are added to the state.
Round ==
    /\ rounds.round < 80
    /\ IF rounds.round < 79
       THEN rounds' = Worked /\ UNCHANGED sha
       ELSE /\ rounds' = NoRounds
            /\ sha' = [sha EXCEPT !.state =
                            [k \in 1..5 |-> Plus(sha.state[k], Worked.work[k])]]
    /\ UNCHANGED <<pieces, ending, blocks, hashed, accept, given>>

\* SHA1Final: 0200, zeros up to 8 bytes before the end of a block, and the
\* number of bits before all that, one SHA1Update each.
Pad ==
    /\ Idle /\ pieces = << >> /\ ending.stage \in {"data", "zeros"}
    /\ CASE ending.stage = "data" ->
              /\ Update(<<128>>)
              /\ ending' = [stage |-> "zeros", count |-> sha.count]
         [] ending.stage = "zeros" /\ sha.count % 512 # 448 ->
              Update(<<0>>) /\ UNCHANGED ending
         [] OTHER ->
              /\ Update(<<0, 0, 0, 0>> \o BytesOf(<<ending.count \div Half, ending.count % Half>>))
              /\ ending' = [ending EXCEPT !.stage = "length"]
    /\ UNCHANGED <<pieces, rounds, hashed, accept, given>>
-----------------------------------------------------------------------------
(* Base 64                                                                  *)

\* base64_table
Base64Char(n) == CASE n < 26 -> 65 + n [] n \in 26..51 -> 71 + n
                   [] n \in 52..61 -> n - 4 [] n = 62 -> 43 [] n = 63 -> 47

\* Three bytes as four characters; what is missing is read as 0.
Base64Group(b) ==
    LET n == 65536 * b[1] + 256 * b[2] + b[3]
    IN <<Base64Char(n \div 262144), Base64Char((n \div 4096) % 64),
         Base64Char((n \div 64) % 64), Base64Char(n % 64)>>

\* base64_encode: a last group of one or two bytes ends with =.
Base64(bytes) ==
    LET over == Len(bytes) % 3
        fill == [k \in 1..(3 - over) % 3 |-> 0]
        all == bytes \o fill
        text == FlattenSeq([k \in 1..Len(all) \div 3 |->
                               Base64Group(SubSeq(all, 3 * k - 2, 3 * k))])
    IN SubSeq(text, 1, Len(text) - Len(fill)) \o [k \in DOMAIN fill |-> 61]

\* The digest and its text.
Accept ==
    /\ Idle /\ pieces = << >> /\ ending.stage = "length"
    /\ accept' = Base64(FlattenSeq([k \in 1..5 |-> BytesOf(sha.state[k])]))
    /\ ending' = [ending EXCEPT !.stage = "done"]
    /\ UNCHANGED <<sha, pieces, rounds, blocks, hashed, given>>

AcceptNext == UpdateNext \/ BeginTransform \/ Round \/ Pad \/ Accept

AcceptSpec == AcceptInit /\ [][AcceptNext]_accepting
-----------------------------------------------------------------------------
\* A message as the standard has it hashed: 1, as few 0 as possible and the
\* length, to whole blocks.
Padded(message) ==
    LET zeros == CHOOSE n \in 0..63 : (Len(message) + 1 + n) % 64 = 56
        bits == 8 * Len(message)
    IN message \o <<128>> \o [k \in 1..zeros + 4 |-> 0]
       \o <<0, bits \div Half, (bits \div 256) % 256, bits % 256>>

\* The example of the standard of websockets and those of sha1.c:6-10 get the
\* right answers, and for keys of any length, cut into pieces or not, every
\* byte is hashed once and in its place (sha1.c:182-274, base64.c:33-75,
\* websocket_http.c:315-327).
KnownAnswers ==
    ending.stage = "done" =>
        /\ FlattenSeq(hashed) = Padded(FlattenSeq(given))
        /\ \A a \in KnownTexts : a.pieces = given => a.text = accept
=============================================================================
