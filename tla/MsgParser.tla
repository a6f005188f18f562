----------------------------- MODULE MsgParser -----------------------------
(***************************************************************************)
(* The parser of one text connection (server/proto.c, process_msg_chunk,   *)
(* check_msg_complete and p_read): bytes come in pieces cut anywhere, each *)
(* callback takes all that has arrived, and a message is handled at the    *)
(* end of the callback that completes it.                                  *)
(***************************************************************************)
EXTENDS Naturals, Sequences

CONSTANTS
    CmdLen,     \* CMD_LEN
    ValLen,     \* VAL_LEN
    ReadMax,    \* bound: bytes that arrive before a callback
    LineMax     \* bound: bytes a client sends for one message

ASSUME MsgParserAssumption ==
    /\ CmdLen \in Nat \ {0} /\ ValLen \in Nat \ {0}
    /\ ReadMax \in Nat /\ LineMax \in Nat

\* Bytes as far as the parser tells them apart: a capital letter, another
\* printable one, a space or tab, CR, LF and NUL.
Byte == {"A", "a", "blank", "CR", "LF", "NUL"}

VARIABLES
    pd,     \* the fields of struct p_data the parser uses, and if it failed
    line,   \* history: the bytes since the last message that was handled
    last    \* history: what the last callback was given and what it did

parser == <<pd, line, last>>

\* val keeps what is in the buffer, valLen bytes of it belong to the message.
ParserInit ==
    /\ pd = [cmdLen |-> 0, val |-> << >>, valLen |-> 0, isVal |-> FALSE,
             expectLf |-> FALSE, crlf |-> FALSE, complete |-> FALSE,
             failed |-> FALSE]
    /\ line = << >>
    /\ last = [line |-> << >>, did |-> "more", val |-> << >>, crlf |-> FALSE]
-----------------------------------------------------------------------------
Fails(p) == [p EXCEPT !.failed = TRUE]
Completes(p, crlf) ==
    [p EXCEPT !.complete = TRUE, !.crlf = crlf, !.expectLf = FALSE]
AddToVal(p, c) ==
    [p EXCEPT !.val = Append(SubSeq(@, 1, p.valLen), c), !.valLen = @ + 1]

\* What the parser is waiting for.
Phase(p) ==
    CASE p.cmdLen < CmdLen                   -> "command"
      [] p.cmdLen = CmdLen /\ p.complete     -> "nothing"
      [] p.cmdLen = CmdLen /\ ~p.complete    ->
            IF p.expectLf THEN "lf" ELSE IF p.valLen = 0 THEN "gap" ELSE "value"

\* The part of the loop for value bytes and for the end of the line.
InValue(p, c) ==
    CASE c = "CR" -> [p EXCEPT !.expectLf = TRUE]
      [] c = "LF" -> Completes(p, FALSE)
      [] c = "NUL" -> Fails(p)
      [] c \in {"A", "a", "blank"} ->
            IF p.valLen = ValLen THEN Fails(p) ELSE AddToVal(p, c)

\* Before the first byte of the value.
InGap(p, c) ==
    IF c = "blank" THEN [p EXCEPT !.isVal = TRUE]
    ELSE IF ~p.isVal /\ c \notin {"CR", "LF"} THEN Fails(p)
    ELSE InValue(p, c)

\* One round of the loop of process_msg_chunk.
Advance(p, c) ==
    IF p.failed THEN p
    ELSE CASE Phase(p) = "command" ->
                  IF c = "A" THEN [p EXCEPT !.cmdLen = @ + 1] ELSE Fails(p)
           [] Phase(p) = "nothing" -> Fails(p)
           [] Phase(p) = "lf"      -> IF c = "LF" THEN Completes(p, TRUE) ELSE Fails(p)
           [] Phase(p) = "gap"     -> InGap(p, c)
           [] Phase(p) = "value"   -> InValue(p, c)

\* Mutant: the value of the last message goes on.
Forget_KeepsVal(p) ==
    [p EXCEPT !.cmdLen = 0, !.complete = FALSE, !.isVal = FALSE,
              !.expectLf = FALSE]

\* The end of check_msg_complete: val itself is not emptied.
Forget(p) ==
    [p EXCEPT !.cmdLen = 0, !.valLen = 0, !.complete = FALSE, !.isVal = FALSE,
              !.expectLf = FALSE]

\* process_msg_chunk, over a buffer with these bytes.
Parsed(bytes) ==
    LET after[i \in 0..Len(bytes)] ==
            IF i = 0 THEN pd ELSE Advance(after[i - 1], bytes[i])
    IN after[Len(bytes)]

\* p_read: everything that arrived is parsed, then a complete message handled.
\* After a failure the socket is not read any more.
PRead(bytes) ==
    LET p == Parsed(bytes)
        did == IF p.failed THEN "error" ELSE IF p.complete THEN "message" ELSE "more"
    IN /\ ~pd.failed
       /\ pd' = IF did = "message" THEN Forget(p) ELSE p
       /\ line' = IF did = "message" THEN << >> ELSE line \o bytes
       /\ last' = [line |-> line \o bytes, did |-> did, val |-> p.val, crlf |-> p.crlf]

ParserNext ==
    \E n \in 1..ReadMax : \E bytes \in [1..n -> Byte] :
        Len(line) + n <= LineMax /\ PRead(bytes)

ParserSpec == ParserInit /\ [][ParserNext]_parser
-----------------------------------------------------------------------------
(* The messages the protocol has                                           *)

IsCommand(s) == \A i \in DOMAIN s : s[i] = "A"
Body(l, n) == SubSeq(l, CmdLen + 1, n)
Behind(l, n) == SubSeq(l, n + 1, Len(l))

\* b without the blanks before its value.
Value(b) ==
    LET blanks == CHOOSE n \in 0..Len(b) : /\ \A i \in 1..n : b[i] = "blank"
                                           /\ n < Len(b) => b[n + 1] # "blank"
    IN SubSeq(b, blanks + 1, Len(b))

IsBody(b) ==
    /\ \A i \in DOMAIN b : b[i] \notin {"CR", "LF", "NUL"}
    /\ b # << >> => b[1] = "blank"
    /\ Len(Value(b)) <= ValLen

\* l is a command, a body and then one of the given ends.
Splits(l, n, ends) ==
    /\ IsCommand(SubSeq(l, 1, CmdLen))
    /\ IsBody(Body(l, n)) /\ Behind(l, n) \in ends

IsMessage(l) == \E n \in CmdLen..Len(l) : Splits(l, n, {<<"LF">>, <<"CR", "LF">>})
IsUnfinished(l) ==
    \/ Len(l) < CmdLen /\ IsCommand(l)
    \/ \E n \in CmdLen..Len(l) : Splits(l, n, {<< >>, <<"CR">>})

\* The verdict on what came since the last message.
RightVerdict ==
    last.did = CASE IsMessage(last.line) -> "message"
                 [] IsUnfinished(last.line) -> "more"
                 [] OTHER -> "error"

\* The value of a command without one is still that of an earlier command.
OwnValue ==
    last.did = "message" =>
        \E n \in CmdLen..Len(last.line) :
            /\ Splits(last.line, n, {IF last.crlf THEN <<"CR", "LF">> ELSE <<"LF">>})
            /\ Value(Body(last.line, n)) \in {<< >>, last.val}

\* However the bytes are cut, a callback handles a message exactly when all
\* since the last one are a message, waits exactly when they can still become
\* one, and reports an error otherwise, a second message in the same callback
\* included; a command with a value is given its own value, whatever came
\* before it, and answered with the end of line it used (proto.c:81, 189-261).
Verdict == RightVerdict /\ OwnValue
=============================================================================
