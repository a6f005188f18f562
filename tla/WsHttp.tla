------------------------------ MODULE WsHttp -------------------------------
(***************************************************************************)
(* The websocket handshake of the master (server/websocket_http.c): the    *)
(* request of a browser is cut into tokens as it arrives, its headers come *)
(* in any order, and it is answered once.  A word is one character here;   *)
(* "SP" and "TAB" are the blanks, and "none" is no field, no path, no      *)
(* expected character and no answer yet.                                   *)
(***************************************************************************)
EXTENDS Integers, Sequences

CONSTANTS
    BufSize,    \* BUF_SIZE, in characters of this module
    Known       \* paths db_user_exists finds behind their slash

\* The longest header that is accepted fits; no blank or end of a line is part
\* of a path.
ASSUME WsHttpAssumption ==
    /\ BufSize \in Nat \ 0..8
    /\ Known \cap {"SP", "TAB", "CR", "LF"} = {}

VARIABLES
    http,       \* the tokenizing and collecting fields of struct ws_http_data
    unread,     \* what was sent and not read
    outcome,    \* "reading", the status that was sent, or "crash"
    request     \* history: what the request sent so far amounts to

handshake == <<http, unread, outcome, request>>

HttpInit ==
    /\ http = [tokenEnd |-> "space", future |-> "none", process |-> "method",
               buf |-> << >>, field |-> "none", path |-> "none", key |-> << >>,
               hasKey |-> FALSE, handshake |-> {}, ret |-> "none"]
    /\ unread = << >> /\ outcome = "reading"
    /\ request = [begun |-> FALSE, path |-> "none", seen |-> {}, wrong |-> "none", ended |-> FALSE]
-----------------------------------------------------------------------------
(* The browser                                                             *)

LineEnd == {<<"LF">>, <<"CR", "LF">>}
Blank == {"SP", "TAB"}

\* The values a browser may give a header, some with a continuation line behind
\* an end of a line, and those of them the server accepts.  A value on a
\* continuation line of its own keeps the blank before it.
Folding(end) == end \o <<"SP", "TAB">>
Folded(end) == <<"x", "COMMA">> \o Folding(end) \o <<"upgrade", "COMMA", "x">>
Values(name, end) ==
    CASE name = "upgrade" ->
            {<<"websocket">>, <<"x">>, Folding(end) \o <<"websocket">>}
      [] name = "connection" ->
            {<<"upgrade">>, <<"x", "COMMA", "SP", "upgrade">>, <<"x">>, Folded(end),
             <<"upgrade", "x">>}
      [] name = "version" -> {<<"13">>, <<"x">>}
      [] name = "key" -> {<<"x">>}
      [] name = "other" -> {<<"x", "x">>, << >>, [i \in 1..BufSize |-> "x"]}
Good(name, end) ==
    CASE name = "upgrade" -> {<<"websocket">>}
      [] name = "connection" -> {<<"upgrade">>, <<"x", "COMMA", "SP", "upgrade">>, Folded(end)}
      [] name = "version" -> {<<"13">>}
      [] name = "key" -> {<<"x">>}
      [] name = "other" -> {<<"x", "x">>, << >>}
Names == {"upgrade", "connection", "version", "key", "other"}

Sends(text, req) ==
    /\ outcome = "reading" /\ unread = << >> /\ ~request.ended
    /\ unread' = text
    /\ request' = IF request.wrong = "none" THEN req ELSE [req EXCEPT !.wrong = request.wrong]
    /\ UNCHANGED <<http, outcome>>

RequestLine(method, path, version, end) ==
    /\ ~request.begun
    /\ Sends(<<method, "SP">> \o (IF path = "none" THEN << >> ELSE <<path>>)
                 \o <<"SP", version>> \o end,
             [request EXCEPT !.begun = TRUE, !.path = path,
                 !.wrong = IF method # "GET" THEN "501"
                           ELSE IF version # "HTTP/1.1" THEN "505" ELSE "none"])

\* With blanks around the colon and at the end, or without.
Header(name, before, after, value, end) ==
    /\ request.begun
    /\ Sends(<<name>> \o before \o <<":">> \o after \o value \o before \o end,
             [request EXCEPT !.seen = @ \cup {name},
                 !.wrong = IF \/ value \notin Good(name, end)
                              \/ name = "key" /\ name \in request.seen
                           THEN "400" ELSE "none"])

\* No colon; a CR without its LF; a continuation line where none may be.
BadLine(text) ==
    /\ request.begun
    /\ Sends(text, [request EXCEPT !.wrong = "400"])

EndOfHeaders(end) == request.begun /\ Sends(end, [request EXCEPT !.ended = TRUE])

BrowserSends ==
    \/ \E method \in {"GET", "POST"}, path \in Known \cup {"/x", "none"},
          version \in {"HTTP/1.1", "HTTP/1.0"}, end \in LineEnd :
           RequestLine(method, path, version, end)
    \/ \E name \in Names, end \in LineEnd :
           \/ \E value \in Values(name, end) : Header(name, << >>, << >>, value, end)
           \/ \E value \in Good(name, end) : Header(name, <<"SP">>, <<"TAB", "SP">>, value, end)
    \/ BadLine(<<"x", "LF">>) \/ BadLine(<<"x", ":", "CR", "x">>)
    \/ request.seen = {} /\ request.wrong = "none" /\ BadLine(<<"SP", "x", ":", "LF">>)
    \/ \E end \in LineEnd : EndOfHeaders(end)
-----------------------------------------------------------------------------
(* The tokenizer                                                           *)

\* What a character is for: to be added, left out, the end of a token, its end
\* without being part of it, the end of all, or an error.
Is(w, future, what) == [http |-> [w EXCEPT !.future = future], what |-> what]

\* Mutant: a line may go on in the next one everywhere.
StartOfLine_AlwaysFolds(w, c) ==
    CASE c \in Blank -> Is(w, "skip", "blank")
      [] c = "LF" -> Is(w, "none", "last")
      [] c = "CR" -> Is(w, "lfLast", "skip")
      [] OTHER -> Is(w, "none", "endBefore")

\* Futures '\\' and '_'.
StartOfLine(w, c) ==
    CASE c \in Blank /\ w.future = "start" -> Is(w, "skip", "blank")
      [] c \in Blank /\ w.future = "plainStart" -> Is(w, w.future, "abort")
      [] c = "LF" -> Is(w, "none", "last")
      [] c = "CR" -> Is(w, "lfLast", "skip")
      [] OTHER -> Is(w, "none", "endBefore")

\* Futures '\n', 'N' and 'E'.
MandatoryLf(w, c) ==
    CASE c # "LF" -> Is(w, "none", "abort")
      [] c = "LF" /\ w.future = "lfLast" -> Is(w, "none", "last")
      [] c = "LF" /\ w.future = "lf" -> Is(w, "start", "skip")
      [] c = "LF" /\ w.future = "plainLf" -> Is(w, "plainStart", "skip")

InToken(w, c) ==
    CASE w.tokenEnd = "space" /\ c = "SP" -> Is(w, "none", "end")
      [] w.tokenEnd = "colon" /\ c = ":" -> Is(w, "skip", "end")
      [] w.tokenEnd = "line" /\ c = "CR" -> Is(w, "lf", "skip")
      [] w.tokenEnd = "line" /\ c = "LF" -> Is(w, "start", "skip")
      [] w.tokenEnd = "plainLine" /\ c = "CR" -> Is(w, "plainLf", "skip")
      [] w.tokenEnd = "plainLine" /\ c = "LF" -> Is(w, "plainStart", "skip")
      [] w.tokenEnd \in {"space", "colon"} /\ c \in {"CR", "LF"} -> Is(w, "none", "abort")
      [] OTHER -> Is(w, "none", "add")

Tokenizer(w, c) ==
    CASE w.future = "skip" /\ c \in Blank -> Is(w, "skip", "skip")
      [] w.future \in {"start", "plainStart"} -> StartOfLine(w, c)
      [] w.future \in {"lf", "plainLf", "lfLast"} -> MandatoryLf(w, c)
      [] OTHER -> InToken(w, c)
-----------------------------------------------------------------------------
(* What the tokens are used for                                            *)

Refused(w, err) == [w EXCEPT !.ret = err]
Rstrip(s) ==
    LET n == CHOOSE n \in 0..Len(s) : /\ n > 0 => s[n] \notin Blank
                                      /\ \A i \in n + 1..Len(s) : s[i] \in Blank
    IN SubSeq(s, 1, n)

\* find_value_token: blanks are removed before a value of the list, not after it.
FindValueToken(s, needle) ==
    \E i \in DOMAIN s :
        /\ s[i] = needle
        /\ i < Len(s) => s[i + 1] = "COMMA"
        /\ \E j \in 0..i - 1 : /\ j > 0 => s[j] = "COMMA"
                              /\ \A k \in j + 1..i - 1 : s[k] \in Blank

ToField(w) == [w EXCEPT !.process = "field", !.tokenEnd = "colon"]

ProcessMethod(w) ==
    IF w.buf # <<"GET">> THEN Refused(w, "501") ELSE [w EXCEPT !.process = "path"]

ProcessPath(w) ==
    [w EXCEPT !.path = IF w.buf = << >> THEN "none" ELSE w.buf[1],
              !.process = "version", !.tokenEnd = "plainLine"]

ProcessHttpVer(w) ==
    IF w.buf # <<"HTTP/1.1">> THEN Refused(w, "505") ELSE ToField(w)

ProcessField(w) ==
    LET name == Rstrip(w.buf)
    IN [w EXCEPT !.field = IF Len(name) = 1 THEN name[1] ELSE "none",
                 !.process = "value", !.tokenEnd = "line"]

\* Whether the header serves the handshake, and what is kept of it.
ProcessValue(w) ==
    LET value == Rstrip(w.buf)
        serves == CASE w.field = "upgrade" -> value = <<"websocket">>
                    [] w.field = "connection" -> FindValueToken(value, "upgrade")
                    [] w.field = "version" -> value = <<"13">>
                    [] w.field = "key" -> ~w.hasKey
                    [] OTHER -> TRUE
    IN CASE ~serves -> Refused(w, "400")
         [] serves /\ w.field = "key" -> ToField([w EXCEPT !.key = value, !.hasKey = TRUE])
         [] serves /\ w.field \in {"upgrade", "connection", "version"} ->
                ToField([w EXCEPT !.handshake = @ \cup {w.field}])
         [] OTHER -> ToField(w)

Process(w) ==
    LET v == CASE w.process = "method" -> ProcessMethod(w)
               [] w.process = "path" -> ProcessPath(w)
               [] w.process = "version" -> ProcessHttpVer(w)
               [] w.process = "field" -> ProcessField(w)
               [] w.process = "value" -> ProcessValue(w)
    IN [v EXCEPT !.buf = IF v.ret = "none" THEN << >> ELSE @]

\* One round of the loop of process_header_chunk.
TokenRound(w, c) ==
    LET is == Tokenizer(w, c)
        done == Process(is.http)
    IN CASE is.what = "abort" -> Refused(is.http, "400")
         [] is.what = "skip" -> is.http
         [] is.what \in {"add", "blank"} ->
                IF Len(w.buf) >= BufSize - 1 THEN Refused(is.http, "400")
                ELSE [is.http EXCEPT !.buf = Append(@, IF is.what = "add" THEN c ELSE "SP")]
         [] is.what \in {"end", "endBefore"} -> done
         [] is.what = "last" -> IF done.ret = "none" THEN Refused(done, "headers") ELSE done

\* A character that was left by the end before it is taken by the next round.
ProcessChar(w, c) ==
    LET v == TokenRound(w, c)
    IN IF w.ret # "none" THEN w
       ELSE IF Tokenizer(w, c).what = "endBefore" /\ v.ret = "none" THEN TokenRound(v, c) ELSE v

ProcessHeaderChunk(w, text) ==
    LET after[n \in 0..Len(text)] ==
            IF n = 0 THEN w ELSE ProcessChar(after[n - 1], text[n])
    IN after[Len(text)]

\* ws_headers_processed: without a key its length is taken of no string.
HeadersProcessed(w) ==
    CASE w.handshake # {"upgrade", "connection", "version"} -> "400"
      [] w.handshake = {"upgrade", "connection", "version"} /\ w.path \notin Known -> "404"
      [] w.handshake = {"upgrade", "connection", "version"} /\ w.path \in Known ->
            IF w.hasKey THEN "101" ELSE "crash"

\* ws_header_read with the first n characters that are on their way; the
\* answer ends the reading.
WsHeaderRead(n) ==
    LET w == ProcessHeaderChunk(http, SubSeq(unread, 1, n))
    IN /\ outcome = "reading"
       /\ http' = w
       /\ unread' = SubSeq(unread, n + 1, Len(unread))
       /\ outcome' = CASE w.ret = "none" -> "reading"
                       [] w.ret = "headers" -> HeadersProcessed(w)
                       [] OTHER -> w.ret
       /\ UNCHANGED request

\* One character or all of them: reading others is the same as some of these.
HttpNext == BrowserSends \/ \E n \in {1, Len(unread)} \cap (1..Len(unread)) : WsHeaderRead(n)

HttpSpec == HttpInit /\ [][HttpNext]_handshake
-----------------------------------------------------------------------------
(* What a request deserves                                                 *)

Required == {"upgrade", "connection", "version", "key"}

\* A request without a key is short of a header like any other.
Deserved ==
    CASE request.wrong # "none" -> request.wrong
      [] request.wrong = "none" /\ ~request.ended -> "reading"
      [] request.wrong = "none" /\ request.ended ->
            IF ~(Required \ {"key"}) \subseteq request.seen THEN "400"
            ELSE IF request.path \notin Known THEN "404"
            ELSE IF "key" \notin request.seen THEN "400" ELSE "101"

\* A request for a known path with every header but the key.
Keyless ==
    /\ request.wrong = "none" /\ request.ended
    /\ Required \ {"key"} \subseteq request.seen /\ "key" \notin request.seen
    /\ request.path \in Known

\* However it is cut, and in whatever order its headers come, a request is
\* answered as the first mistake in it deserves, at the latest when it ends,
\* and accepted when there is none (websocket_http.c:56-260, 329-352); with one
\* exception: exactly a request that lacks nothing but its key is not refused
\* as misformatted (websocket_http.c:277) but ends the master, which takes the
\* length of no string (websocket_http.c:323, 343).
RequestVerdict ==
    /\ outcome # "reading" => outcome = IF Keyless THEN "crash" ELSE Deserved
    /\ outcome = "reading" => ~(request.ended /\ unread = << >>)
=============================================================================
