----------------------------- MODULE ChildProofs -----------------------------
(***************************************************************************)
(* Proofs about module Child: for any number of programs, levels of any    *)
(* size and any length of the write queue, what the runs child_polite and  *)
(* child_alone check holds, and the child plays the game it promises.      *)
(***************************************************************************)
EXTENDS Child, SocketProofs, FiniteSetTheorems

(* One socket                                                              *)

\* A queued message waits for EV_WRITE or for the timer of the rate limit.
WritesOn(s) == s.reg = "open" /\ s.wq # << >> => "W" \in s.events \/ s.timer

\* A socket that is there to be flushed has something to flush.
Flushes(s) == s.reg = "open" /\ s.flush => s.wq # << >>

\* epoll is never asked for more than the program wants.
Masked(s) == s.reg = "open" => s.mask \subseteq s.events

\* OVER is the last message, and nothing is read after it.
LastOver(s) ==
    \A i \in 1..Len(s.wq) : s.wq[i] = "over" =>
        /\ i = Len(s.wq)
        /\ "R" \notin s.events
        /\ s.flush \/ s.reg = "deleted"

Sound(s) == WritesOn(s) /\ Flushes(s) /\ Masked(s) /\ LastOver(s)

\* epoll watches for just what the program wants.
Watched(s) == s.reg = "open" => s.mask = s.events

LEMMA NoSocketSound ==
    /\ NoSocket \in SocketType(Reply) /\ Sound(NoSocket)
    /\ NoSocket.reg = "dead" /\ NoSocket.wq = << >>
<1> DEFINE n == NewSocket(TRUE)
           s == [n EXCEPT !.reg = "dead", !.events = {}, !.mask = {}]
<1>1. n \in SocketType(Reply) /\ n.wq = << >>
  BY NewSocketLemma
<1>2. NoSocket = s
  BY DEF NoSocket
<1> HIDE DEF n
<1>3. s \in SocketType(Reply) /\ s.reg = "dead" /\ s.wq = << >>
  BY <1>1 DEF SocketType
<1> HIDE DEF s
<1>4. Sound(s)
  BY <1>3 DEF Sound, WritesOn, Flushes, Masked, LastOver
<1> QED
  BY <1>2, <1>3, <1>4

\* socket_pause leaves everything but the mask alone.
LEMMA SocketPauseSound ==
    ASSUME NEW s \in SocketType(Reply), NEW pause \in BOOLEAN, Sound(s)
    PROVE  /\ SocketPause(s, pause) \in SocketType(Reply)
           /\ Sound(SocketPause(s, pause))
           /\ SocketPause(s, pause).reg = s.reg
           /\ SocketPause(s, pause).wq = s.wq
           /\ SocketPause(s, pause).events = s.events
           /\ ~pause => Watched(SocketPause(s, pause))
BY DEF SocketPause, SocketType, Sound, WritesOn, Flushes, Masked, LastOver, Watched

LEMMA SocketDelSound ==
    ASSUME NEW s \in SocketType(Reply), Sound(s)
    PROVE  /\ Sound(SocketDel(s)) /\ Watched(SocketDel(s))
           /\ SocketDel(s).events = s.events
BY DEF SocketDel, SocketType, Sound, WritesOn, Flushes, Masked, LastOver, Watched

\* What p_send_msg queues, it queues last, and EV_WRITE is asked for.
LEMMA SendMsgQueues ==
    ASSUME NEW s \in SocketType(Reply), NEW m \in Reply, s.reg = "open", ~WriteFails(s)
    PROVE  /\ SendMsg(s, m) \in SocketType(Reply)
           /\ SendMsg(s, m).reg = "open"
           /\ SendMsg(s, m).wq = Append(s.wq, m)
           /\ SendMsg(s, m).events = s.events \cup {"W"}
           /\ SendMsg(s, m).mask = SendMsg(s, m).events
           /\ SendMsg(s, m).flush = s.flush
<1>1. SendMsg(s, m) = SocketWrite(s, m)
  BY DEF SendMsg
<1>2. /\ SocketWrite(s, m) \in SocketType(Reply) /\ SocketWrite(s, m).reg = "open"
      /\ SocketWrite(s, m).wq = Append(s.wq, m)
  <2>1. s.reg # "dead"
    OBVIOUS
  <2>2. /\ SocketWrite(s, m) \in SocketType(Reply)
        /\ SocketWrite(s, m).reg = s.reg
        /\ SocketWrite(s, m).wq = IF s.reg = "dead" THEN s.wq ELSE Append(s.wq, m)
    BY SocketWriteLemma, Zenon
  <2>3. QED
    BY <2>1, <2>2
<1> DEFINE e == EventChange(s, s.events \cup {"W"})
           w == Append(e.wq, m)
<1>3. /\ e.events = s.events \cup {"W"} /\ e.mask = e.events /\ e.flush = s.flush
      /\ e \in SocketType(Reply)
  BY DEF EventChange, SocketType
<1>4. SocketWrite(s, m) = [e EXCEPT !.wq = w]
  BY DEF SocketWrite
<1> DEFINE r == SocketWrite(s, m)
<1>5. r = [e EXCEPT !.wq = w]
  BY <1>4
<1> HIDE DEF e, w, r
<1>6. r.events = e.events /\ r.mask = e.mask /\ r.flush = e.flush
  BY <1>3, <1>5 DEF SocketType
<1> QED
  BY <1>1, <1>2, <1>3, <1>6 DEF r

\* p_send_msg on an open socket without OVER: the message is queued, if there is
\* room, or the socket deleted.
LEMMA SendMsgSound ==
    ASSUME NEW s \in SocketType(Reply), NEW m \in Reply, Sound(s), s.reg = "open",
           m # "over", "R" \in s.events
    PROVE  /\ SendMsg(s, m) \in SocketType(Reply)
           /\ Sound(SendMsg(s, m)) /\ Watched(SendMsg(s, m))
           /\ SendMsg(s, m).reg \in {"open", "deleted"}
           /\ Len(s.wq) < WQueueMax => SendMsg(s, m).wq = Append(s.wq, m)
<1>1. s.wq \in Seq(Reply) /\ Len(s.wq) \in Nat
  BY DEF SocketType
<1>2. CASE WriteFails(s)
  <2>1. SendMsg(s, m) = SocketDel(s) /\ ~(Len(s.wq) < WQueueMax)
    BY <1>1, <1>2, SocketAssumption DEF SendMsg, WriteFails
  <2>2. QED
    BY <2>1, SocketDelLemma, SocketDelSound
<1>3. CASE ~WriteFails(s)
  <2> DEFINE t == SendMsg(s, m)
  <2>1. /\ t \in SocketType(Reply) /\ t.reg = "open" /\ t.wq = Append(s.wq, m)
        /\ t.events = s.events \cup {"W"} /\ t.mask = t.events /\ t.flush = s.flush
    BY <1>3, SendMsgQueues
  <2> HIDE DEF t
  <2>3. \A i \in 1..Len(s.wq) : s.wq[i] # "over"
    BY DEF Sound, LastOver
  <2>4. \A i \in 1..Len(t.wq) : t.wq[i] # "over"
    BY <1>1, <2>1, <2>3
  <2>5. t.wq # << >>
    BY <1>1, <2>1
  <2>6. Sound(t) /\ Watched(t)
    BY <2>1, <2>4, <2>5 DEF Sound, WritesOn, Flushes, Masked, LastOver, Watched
  <2>7. QED
    BY <2>1, <2>6 DEF t
<1>4. QED
  BY <1>2, <1>3

\* p_report_and_close on an open socket: OVER is queued last, and the socket is
\* flushed or deleted.
LEMMA ReportSound ==
    ASSUME NEW s \in SocketType(Reply), Sound(s), s.reg = "open", "R" \in s.events
    PROVE  /\ Report(s) \in SocketType(Reply)
           /\ Sound(Report(s)) /\ Watched(Report(s))
           /\ Report(s).reg \in {"open", "deleted"}
           /\ Len(s.wq) < WQueueMax => Report(s).wq = Append(s.wq, "over")
<1> DEFINE q == SocketStopReading(s)
           t == SendMsg(q, "over")
<1>1. s.wq \in Seq(Reply) /\ s.events \in SUBSET {"R", "W"}
  BY DEF SocketType
<1>2. /\ q \in SocketType(Reply) /\ q.reg = "open" /\ q.wq = s.wq
      /\ q.events = s.events \ {"R"} /\ q.mask = q.events /\ q.flush = s.flush
      /\ q.timer = s.timer
  BY <1>1, EventChangeLemma DEF SocketStopReading, EventChange, SocketType
<1>3. \A i \in 1..Len(q.wq) : q.wq[i] # "over"
  BY <1>2 DEF Sound, LastOver
<1>4. /\ WritesOn(q) /\ Flushes(q)
  BY <1>2 DEF Sound, WritesOn, Flushes
<1>5. Report(s) = SocketFlushAndDel(t)
  BY DEF Report
<1>6. "over" \in Reply
  BY DEF Reply
<1> HIDE DEF q
<1>7. CASE WriteFails(q)
  <2>1. t = SocketDel(q) /\ Len(s.wq) >= WQueueMax
    BY <1>2, <1>7 DEF SendMsg, WriteFails
  <2>2. /\ t \in SocketType(Reply) /\ t.reg = "deleted" /\ t.wq = s.wq
    BY <1>2, <2>1, SocketDelLemma
  <2>3. t.wq # << >>
    BY <1>1, <2>1, <2>2, SocketAssumption
  <2> HIDE DEF t
  <2>4. Report(s) = [t EXCEPT !.flush = TRUE]
    BY <1>5, <2>3 DEF SocketFlushAndDel
  <2>5. /\ Report(s) \in SocketType(Reply) /\ Report(s).reg = "deleted"
        /\ Report(s).wq = s.wq
    BY <2>2, <2>4 DEF SocketType
  <2>6. Sound(Report(s)) /\ Watched(Report(s))
    BY <1>2, <1>3, <2>5 DEF Sound, WritesOn, Flushes, Masked, LastOver, Watched
  <2>7. QED
    BY <1>1, <2>1, <2>5, <2>6, SocketAssumption
<1>8. CASE ~WriteFails(q)
  <2>1. /\ t \in SocketType(Reply) /\ t.reg = "open" /\ t.wq = Append(s.wq, "over")
    BY <1>2, <1>6, <1>8, SendMsgQueues
  <2>2. /\ t.events = q.events \cup {"W"} /\ t.mask = t.events
    BY <1>2, <1>6, <1>8, SendMsgQueues
  <2>3. t.wq # << >>
    BY <1>1, <2>1
  <2> HIDE DEF t
  <2>4. Report(s) = [t EXCEPT !.flush = TRUE]
    BY <1>5, <2>3 DEF SocketFlushAndDel
  <2> DEFINE r == Report(s)
  <2>5. /\ r \in SocketType(Reply) /\ r.reg = "open" /\ r.flush = TRUE
        /\ r.wq = Append(s.wq, "over") /\ r.events = t.events /\ r.mask = r.events
    BY <2>1, <2>2, <2>4 DEF SocketType
  <2> HIDE DEF r
  <2>6. \A i \in 1..Len(r.wq) : r.wq[i] = "over" => i = Len(r.wq)
    BY <1>1, <1>2, <1>3, <2>5
  <2>7. "R" \notin r.events /\ "W" \in r.events
    BY <1>2, <2>2, <2>5
  <2>8. Sound(r) /\ Watched(r)
    BY <2>5, <2>6, <2>7, <2>1, <2>3 DEF Sound, WritesOn, Flushes, Masked, LastOver, Watched
  <2>9. QED
    BY <2>5, <2>8 DEF r
<1>9. QED
  BY <1>7, <1>8

\* The timer of the rate limit asks for EV_WRITE.
LEMMA RateTimerSound ==
    ASSUME NEW s \in SocketType(Reply), Sound(s)
    PROVE  /\ RateTimer(s) \in SocketType(Reply)
           /\ Sound(RateTimer(s)) /\ Watched(RateTimer(s))
           /\ RateTimer(s).reg = s.reg /\ RateTimer(s).wq = s.wq
           /\ "R" \in s.events => "R" \in RateTimer(s).events
<1> DEFINE e == EventChange(s, s.events \cup {"W"})
           r == RateTimer(s)
<1>1. /\ e \in SocketType(Reply) /\ e.reg = s.reg /\ e.wq = s.wq /\ e.flush = s.flush
      /\ e.reg = "open" => e.events = s.events \cup {"W"} /\ e.mask = e.events
      /\ e.reg # "open" => e.events = s.events
  BY DEF EventChange, SocketType
<1>2. r = [e EXCEPT !.okay = TRUE, !.timer = FALSE]
  BY DEF RateTimer
<1> HIDE DEF e, r
<1>3. /\ r \in SocketType(Reply) /\ r.reg = s.reg /\ r.wq = s.wq /\ r.flush = s.flush
      /\ r.events = e.events /\ r.mask = e.mask
  BY <1>1, <1>2 DEF SocketType
<1>4. Sound(r) /\ Watched(r)
  BY <1>1, <1>3 DEF Sound, WritesOn, Flushes, Masked, LastOver, Watched
<1> QED
  BY <1>1, <1>3, <1>4 DEF r

\* What is left of a queue of which n messages were sent.
LEMMA RestOfQueue ==
    ASSUME NEW q \in Seq(Reply), NEW n \in 0..Len(q)
    PROVE  /\ SubSeq(q, n + 1, Len(q)) \in Seq(Reply)
           /\ Len(SubSeq(q, n + 1, Len(q))) = Len(q) - n
           /\ \A i \in 1..(Len(q) - n) : SubSeq(q, n + 1, Len(q))[i] = q[n + i]
OBVIOUS

\* However a round of socket_process_wqueue ends, the socket is left sound.
LEMMA SocketProcessWqueueSound ==
    ASSUME NEW s \in SocketType(Reply), NEW stop \in WriteStop, NEW n \in 0..Len(s.wq),
           CanStop(s, n, stop), Sound(s), s.reg # "dead"
    PROVE  LET t == SocketProcessWqueue(s, n, stop)
           IN /\ t \in SocketType(Reply) /\ Sound(t)
              /\ Watched(s) => Watched(t)
              /\ t.reg \in {"open", "deleted"}
              /\ Len(t.wq) = Len(s.wq) - n
<1> DEFINE rest == SubSeq(s.wq, n + 1, Len(s.wq))
           ok == s.okay /\ (n = 0 \/ ~s.limited)
           sent == [s EXCEPT !.wq = rest, !.okay = ok]
           t == SocketProcessWqueue(s, n, stop)
<1>1. /\ s.wq \in Seq(Reply) /\ Len(s.wq) \in Nat /\ s.reg \in {"open", "deleted"}
      /\ s.okay \in BOOLEAN /\ s.limited \in BOOLEAN
  BY DEF SocketType
<1>2. /\ rest \in Seq(Reply) /\ Len(rest) = Len(s.wq) - n
      /\ \A i \in 1..(Len(s.wq) - n) : rest[i] = s.wq[n + i]
  BY <1>1, RestOfQueue
<1>3. t \in SocketType(Reply) /\ t.wq = rest /\ t.reg \in {"open", "deleted"}
  BY <1>1, SocketProcessWqueueLemma
<1>4. /\ stop = "again" => t = sent
      /\ stop = "rate" => t = Throttle(sent)
      /\ stop = "empty" => t = QueueEmpty(sent)
  BY DEF SocketProcessWqueue
<1>5. ok \in BOOLEAN
  BY <1>1
<1> HIDE DEF rest, ok
<1>6. /\ sent \in SocketType(Reply) /\ sent.wq = rest /\ sent.reg = s.reg
      /\ sent.events = s.events /\ sent.mask = s.mask /\ sent.flush = s.flush
      /\ sent.timer = s.timer
  BY <1>2, <1>5 DEF SocketType
<1> HIDE DEF sent
<1>7. LastOver(sent)
  <2>1. SUFFICES ASSUME NEW i \in 1..Len(rest), rest[i] = "over"
                 PROVE  /\ i = Len(rest) /\ "R" \notin s.events
                        /\ s.flush \/ s.reg = "deleted"
    BY <1>6 DEF LastOver
  <2>2. n + i \in 1..Len(s.wq) /\ s.wq[n + i] = "over"
    BY <1>1, <1>2, <2>1
  <2>3. QED
    BY <1>1, <1>2, <2>2 DEF Sound, LastOver
<1>8. CASE stop = "again"
  <2>1. rest # << >> /\ s.wq # << >>
    BY <1>1, <1>2, <1>8 DEF CanStop
  <2>2. Sound(sent) /\ (Watched(s) => Watched(sent))
    BY <1>6, <1>7, <2>1 DEF Sound, WritesOn, Flushes, Masked, Watched
  <2>3. QED
    BY <1>2, <1>3, <1>4, <1>8, <2>2
<1> DEFINE e == EventChange(sent, sent.events \ {"W"})
<1>9. /\ e \in SocketType(Reply) /\ e.reg = s.reg /\ e.wq = rest
      /\ e.flush = s.flush
      /\ e.reg = "open" => e.events = s.events \ {"W"} /\ e.mask = e.events
      /\ e.reg # "open" => e.events = s.events
  BY <1>6 DEF EventChange, SocketType
<1>10. LastOver(e)
  BY <1>6, <1>7, <1>9 DEF LastOver
<1>11. CASE stop = "rate"
  <2>1. rest # << >>
    BY <1>1, <1>2, <1>11 DEF CanStop
  <2>2. t = [e EXCEPT !.timer = TRUE]
    BY <1>4, <1>11 DEF Throttle
  <2> HIDE DEF e
  <2> DEFINE r == [e EXCEPT !.timer = TRUE]
  <2>3. /\ r.reg = e.reg /\ r.wq = rest /\ r.flush = e.flush /\ r.timer = TRUE
        /\ r.events = e.events /\ r.mask = e.mask
    BY <1>9 DEF SocketType
  <2> HIDE DEF r
  <2>4. Sound(r) /\ Watched(r)
    BY <1>9, <1>10, <2>1, <2>3 DEF Sound, WritesOn, Flushes, Masked, LastOver, Watched
  <2>5. QED
    BY <1>2, <1>3, <2>2, <2>4 DEF r
<1>12. CASE stop = "empty"
  <2>1. rest = << >>
    BY <1>1, <1>2, <1>12 DEF CanStop
  <2>2. t = IF sent.flush THEN [SocketDel(e) EXCEPT !.flush = FALSE] ELSE e
    BY <1>4, <1>12 DEF QueueEmpty
  <2> HIDE DEF e
  <2>3. \A i \in 1..Len(t.wq) : t.wq[i] # "over"
    BY <1>3, <2>1
  <2>4. CASE ~s.flush
    <3>1. t = e
      BY <1>6, <2>2, <2>4
    <3>2. Sound(e) /\ Watched(e)
      BY <1>9, <1>10, <2>1, <2>4 DEF Sound, WritesOn, Flushes, Masked, Watched
    <3>3. QED
      BY <1>2, <1>3, <3>1, <3>2
  <2>5. CASE s.flush
    <3> DEFINE d == SocketDel(e)
    <3>1. d \in SocketType(Reply) /\ d.reg = IF e.reg = "open" THEN "deleted" ELSE e.reg
      BY <1>9, SocketDelLemma
    <3>2. t = [d EXCEPT !.flush = FALSE]
      BY <1>6, <2>2, <2>5
    <3> HIDE DEF d
    <3>3. t.reg = d.reg
      BY <3>1, <3>2 DEF SocketType
    <3>4. t.reg # "open"
      BY <3>1, <3>3
    <3>5. Sound(t) /\ Watched(t)
      BY <2>3, <3>4 DEF Sound, WritesOn, Flushes, Masked, LastOver, Watched
    <3>6. QED
      BY <1>2, <1>3, <3>5
  <2>6. QED
    BY <2>4, <2>5
<1>13. QED
  BY <1>8, <1>11, <1>12 DEF WriteStop
-----------------------------------------------------------------------------
(* The invariant                                                           *)

SocketsSound == \A c \in Conn : Sound(sock[c])

\* Outside of the child a connection has no socket, and is not bound.
Placed ==
    \A c \in Conn :
        /\ place[c] # "child" => sock[c] = NoSocket /\ stage[c] = "level"
        /\ place[c] = "child" => sock[c].reg # "dead"
        /\ place[c] = "out" => inbox[c] = << >>

\* While EV_READ of a socket is in the batch, nobody deletes the socket or
\* stops to read from it; it is released after the batch.
BatchIsOpen ==
    \A c \in Conn :
        /\ <<c, "R">> \in batch =>
              place[c] = "child" /\ sock[c].reg = "open" /\ "R" \in sock[c].events
        /\ \A k \in {"E", "W", "rate"} : <<c, k>> \in batch => place[c] = "child"

\* A polite client waits for at most one answer.
OneAtATime == \A c \in polite : awaiting[c] <= 1

FewInChild == IsFiniteSet(InChild)

Inv == /\ TypeOK /\ SocketsSound /\ Placed /\ BatchIsOpen /\ OneAtATime
       /\ FewInChild /\ CountsAreTrue /\ NoLingering /\ NoFailedCheck
       /\ OneReplyEach /\ NoStalePause

Players == {c \in InChild : stage[c] = "cmd"}

\* A socket of a connection that the child has is open or deleted.
LEMMA SocketOf ==
    ASSUME Inv, NEW c \in Conn
    PROVE  /\ sock[c] \in SocketType(Reply) /\ Sound(sock[c])
           /\ place[c] = "child" => sock[c].reg \in {"open", "deleted"}
           /\ place[c] # "child" => sock[c].reg = "dead" /\ sock[c].wq = << >>
           /\ ~waiting => Watched(sock[c])
<1>1. sock[c] \in SocketType(Reply) /\ Sound(sock[c])
  BY DEF Inv, TypeOK, SocketsSound
<1>2. sock[c].reg \in {"open", "deleted", "dead"}
  BY <1>1 DEF SocketType
<1>3. place[c] # "child" => sock[c].reg = "dead" /\ sock[c].wq = << >>
  BY NoSocketSound DEF Inv, Placed
<1>4. ~waiting => Watched(sock[c])
  BY <1>3 DEF Inv, NoStalePause, Watched, Open, InChild
<1> QED
  BY <1>1, <1>2, <1>3, <1>4 DEF Inv, Placed

\* The counts depend on nothing but the places, the stages and the level.
LEMMA SameCounts ==
    ASSUME FewInChild, CountsAreTrue, UNCHANGED <<place, stage, counts>>
    PROVE  FewInChild' /\ CountsAreTrue'
BY DEF FewInChild, CountsAreTrue, InChild, counts

\* How the sockets look after one of them, that of c, was worked on, and some
\* or all of them were paused or resumed.
Changed(c) ==
    /\ sock' \in [Conn -> SocketType(Reply)]
    /\ \A d \in Conn : Sound(sock'[d]) /\ (~waiting' => Watched(sock'[d]))
    /\ \A d \in Conn \ {c} :
          /\ sock'[d].reg = sock[d].reg /\ sock'[d].wq = sock[d].wq
          /\ sock'[d].events = sock[d].events
          /\ place[d] # "child" => sock'[d] = sock[d]
    /\ c \in Conn => sock'[c].reg \in {"open", "deleted"}

LEMMA ChangedOne ==
    ASSUME Inv, NEW c \in Conn, NEW t \in SocketType(Reply), Sound(t),
           t.reg \in {"open", "deleted"}, ~waiting => Watched(t),
           sock' = [sock EXCEPT ![c] = t], waiting' = waiting
    PROVE  Changed(c) /\ sock'[c] = t
<1>1. sock \in [Conn -> SocketType(Reply)]
  BY DEF Inv, TypeOK
<1>2. /\ sock' \in [Conn -> SocketType(Reply)] /\ sock'[c] = t
      /\ \A d \in Conn \ {c} : sock'[d] = sock[d]
  BY <1>1
<1>3. \A d \in Conn : Sound(sock'[d]) /\ (~waiting' => Watched(sock'[d]))
  BY <1>2, SocketOf
<1> QED
  BY <1>2, <1>3 DEF Changed

\* Whoever works on the socket of c in the child, c is not to be read from any
\* more in this batch, or still open for that.
LEMMA ChangedSockets ==
    ASSUME Inv, NEW c \in Conn \cup {NoConn}, Changed(c),
           c \in Conn => place[c] = "child",
           batch' \subseteq batch,
           <<c, "R">> \in batch' => sock'[c].reg = "open" /\ "R" \in sock'[c].events,
           place' = place,
           \A d \in Conn \ {c} : stage'[d] = stage[d],
           \A d \in Conn : inbox[d] = << >> => inbox'[d] = << >>
    PROVE  SocketsSound' /\ Placed' /\ BatchIsOpen' /\ NoStalePause'
<1>1. SocketsSound'
  BY DEF Changed, SocketsSound
<1>2. Placed'
  <2> SUFFICES ASSUME NEW d \in Conn
               PROVE  /\ place[d] # "child" => sock'[d] = NoSocket /\ stage'[d] = "level"
                      /\ place[d] = "child" => sock'[d].reg # "dead"
                      /\ place[d] = "out" => inbox'[d] = << >>
    BY DEF Placed, NoSocket
  <2>1. CASE d = c
    BY <2>1 DEF Changed, Inv, Placed
  <2>2. CASE d # c
    BY <2>2 DEF Changed, Inv, Placed
  <2>3. QED
    BY <2>1, <2>2
<1>3. BatchIsOpen'
  <2> SUFFICES ASSUME NEW d \in Conn
               PROVE  /\ <<d, "R">> \in batch' =>
                            /\ place[d] = "child" /\ sock'[d].reg = "open"
                            /\ "R" \in sock'[d].events
                      /\ \A k \in {"E", "W", "rate"} :
                            <<d, k>> \in batch' => place[d] = "child"
    BY DEF BatchIsOpen
  <2>1. CASE d = c
    BY <2>1 DEF Inv, BatchIsOpen
  <2>2. CASE d # c
    BY <2>2 DEF Changed, Inv, BatchIsOpen
  <2>3. QED
    BY <2>1, <2>2
<1>4. NoStalePause'
  BY DEF Changed, NoStalePause, Watched, Open, InChild
<1> QED
  BY <1>1, <1>2, <1>3, <1>4

\* The clients get their answers as long as the queue takes the place of what
\* was read.
LEMMA ChangedAnswers ==
    ASSUME Inv, NEW c \in Conn \cup {NoConn}, Changed(c),
           c \in Conn => place[c] = "child",
           place' = place, polite' = polite, inbox' \in [Conn -> Seq(Command)],
           \A d \in Conn \ {c} : inbox'[d] = inbox[d] /\ awaiting'[d] = awaiting[d],
           c \in polite => awaiting'[c] = Len(inbox'[c]) + Len(sock'[c].wq)
    PROVE  OneReplyEach'
<1> SUFFICES ASSUME NEW d \in polite, place[d] # "out"
             PROVE  awaiting'[d] = Len(inbox'[d]) + Len(sock'[d].wq)
                                     + (IF place[d] = "pipe" THEN 1 ELSE 0)
  BY DEF OneReplyEach
<1>1. d \in Conn
  BY ChildAssumption DEF Inv, TypeOK
<1>2. CASE d = c
  <2>1. Len(inbox'[c]) \in Nat
    BY <1>1, <1>2
  <2>2. sock'[c].wq \in Seq(Reply)
    BY <1>1, <1>2 DEF Changed, SocketType
  <2>3. Len(sock'[c].wq) \in Nat
    BY <2>2
  <2>4. awaiting'[d] = Len(inbox'[d]) + Len(sock'[d].wq) /\ place[d] = "child"
    BY <1>1, <1>2
  <2>5. QED
    BY <1>2, <2>1, <2>3, <2>4
<1>3. CASE d # c
  BY <1>1, <1>3 DEF Changed, Inv, OneReplyEach
<1> QED
  BY <1>2, <1>3
-----------------------------------------------------------------------------
(* Steps of the clients and the browser                                    *)

\* A connection on its way is not in the child yet.
LEMMA LoginStep ==
    ASSUME Inv, NEW c \in Conn, Login(c)
    PROVE  Inv'
<1> USE DEF Login, counts, ws
<1>1. TypeOK'
  BY DEF Inv, TypeOK
<1>2. InChild' = InChild /\ Open' = Open
  BY DEF InChild, Open, Inv, TypeOK
<1>3. FewInChild' /\ CountsAreTrue'
  BY <1>2 DEF FewInChild, CountsAreTrue, Inv
<1>4. SocketsSound' /\ Placed' /\ BatchIsOpen' /\ NoSocket' = NoSocket
  BY DEF Inv, TypeOK, SocketsSound, Placed, BatchIsOpen, NoSocket
<1>5. OneAtATime' /\ NoLingering' /\ NoFailedCheck' /\ NoStalePause'
  BY <1>2, ChildAssumption
  DEF Inv, TypeOK, OneAtATime, NoLingering, NoFailedCheck, NoStalePause
<1>6. OneReplyEach'
  <2> SUFFICES ASSUME NEW d \in polite, place'[d] # "out"
               PROVE  awaiting'[d] = Len(inbox[d]) + Len(sock[d].wq)
                                       + (IF place'[d] = "pipe" THEN 1 ELSE 0)
    BY DEF OneReplyEach
  <2>1. d \in Conn
    BY ChildAssumption DEF Inv, TypeOK
  <2>2. CASE d = c
    <3>1. inbox[c] = << >> /\ sock[c].wq = << >>
      BY SocketOf DEF Inv, Placed
    <3>2. awaiting'[c] = 1 /\ place'[c] = "pipe"
      BY DEF Inv, TypeOK
    <3>3. QED
      BY <2>2, <3>1, <3>2
  <2>3. CASE d # c
    BY <2>1, <2>3 DEF Inv, TypeOK, OneReplyEach
  <2>4. QED
    BY <2>2, <2>3
<1> QED
  BY <1>1, <1>3, <1>4, <1>5, <1>6 DEF Inv

\* A polite client sends when it waits for nothing.
LEMMA SendStep ==
    ASSUME Inv, NEW c \in Conn, NEW m \in Command, Send(c, m)
    PROVE  Inv'
<1> USE DEF Send, counts, ws
<1>1. inbox' \in [Conn -> Seq(Command)] /\ Len(inbox[c]) \in Nat
  BY DEF Inv, TypeOK
<1>2. /\ Len(inbox'[c]) = Len(inbox[c]) + 1
      /\ \A d \in Conn \ {c} : inbox'[d] = inbox[d] /\ awaiting'[d] = awaiting[d]
      /\ awaiting'[c] = IF c \in polite THEN 1 ELSE awaiting[c]
  BY DEF Inv, TypeOK
<1>3. awaiting' \in [Conn -> Nat]
  BY DEF Inv, TypeOK
<1>4. TypeOK'
  BY <1>1, <1>3 DEF Inv, TypeOK
<1>5. FewInChild' /\ CountsAreTrue'
  BY SameCounts DEF Inv
<1>6. SocketsSound' /\ BatchIsOpen' /\ NoSocket' = NoSocket
  BY DEF Inv, SocketsSound, BatchIsOpen, NoSocket
<1>7. Placed'
  BY <1>2, <1>6 DEF Inv, Placed
<1>8. NoLingering' /\ NoFailedCheck' /\ NoStalePause'
  BY DEF Inv, NoLingering, NoFailedCheck, NoStalePause, Open, InChild
<1>9. OneAtATime'
  BY <1>2, ChildAssumption DEF Inv, TypeOK, OneAtATime
<1>10. OneReplyEach'
  <2> SUFFICES ASSUME NEW d \in polite, place[d] # "out"
               PROVE  awaiting'[d] = Len(inbox'[d]) + Len(sock[d].wq)
                                       + (IF place[d] = "pipe" THEN 1 ELSE 0)
    BY DEF OneReplyEach
  <2>1. d \in Conn
    BY ChildAssumption DEF Inv, TypeOK
  <2>2. CASE d = c
    <3>1. sock[c].wq \in Seq(Reply)
      BY DEF Inv, TypeOK, SocketType
    <3>2. Len(sock[c].wq) \in Nat
      BY <3>1
    <3>3. 0 = Len(inbox[c]) + Len(sock[c].wq) + (IF place[c] = "pipe" THEN 1 ELSE 0)
      BY <2>2 DEF Inv, OneReplyEach
    <3> DEFINE a == Len(inbox[c])
               b == Len(sock[c].wq)
               n == IF place[c] = "pipe" THEN 1 ELSE 0
    <3> HIDE DEF a, b, n
    <3>4. a \in Nat /\ b \in Nat /\ n \in Nat /\ a + b + n = 0
      BY <1>1, <3>2, <3>3 DEF a, b, n
    <3>5. a = 0 /\ b = 0 /\ n = 0
      BY <3>4
    <3>6. Len(inbox[c]) = 0 /\ Len(sock[c].wq) = 0 /\ place[c] # "pipe"
      BY <3>5 DEF a, b, n
    <3>7. awaiting'[d] = 1 /\ Len(inbox'[d]) = 1
      BY <1>2, <2>2, <3>6
    <3>8. QED
      BY <2>2, <3>6, <3>7
  <2>3. CASE d # c
    BY <1>2, <2>1, <2>3 DEF Inv, OneReplyEach
  <2>4. QED
    BY <2>2, <2>3
<1> QED
  BY <1>4, <1>5, <1>6, <1>7, <1>8, <1>9, <1>10 DEF Inv

\* What no property of the invariant looks at.
LEMMA HangUpStep ==
    ASSUME Inv, NEW c \in Conn, HangUp(c)
    PROVE  Inv'
<1> USE DEF HangUp, counts, ws
<1>1. TypeOK'
  BY DEF Inv, TypeOK
<1>2. FewInChild' /\ CountsAreTrue'
  BY SameCounts DEF Inv
<1>3. SocketsSound' /\ BatchIsOpen' /\ Placed'
  BY DEF Inv, SocketsSound, BatchIsOpen, Placed, NoSocket
<1>4. /\ OneAtATime' /\ OneReplyEach' /\ NoLingering' /\ NoFailedCheck'
      /\ NoStalePause'
  BY DEF Inv, OneAtATime, OneReplyEach, NoLingering, NoFailedCheck, NoStalePause,
         Open, InChild
<1> QED
  BY <1>1, <1>2, <1>3, <1>4 DEF Inv

\* As long as nothing but the browser, the batch and the idle timer changes,
\* the connections are as they were.
LEMMA SameConns ==
    ASSUME Inv, UNCHANGED <<conns, counts, waiting, polite>>,
           batch' \subseteq batch
    PROVE  /\ FewInChild' /\ CountsAreTrue' /\ SocketsSound' /\ BatchIsOpen'
           /\ Placed' /\ OneAtATime' /\ OneReplyEach' /\ NoStalePause'
<1> USE DEF conns, counts
<1>1. FewInChild' /\ CountsAreTrue'
  BY SameCounts DEF Inv
<1>2. SocketsSound' /\ BatchIsOpen' /\ Placed'
  BY DEF Inv, SocketsSound, BatchIsOpen, Placed, NoSocket
<1>3. OneAtATime' /\ OneReplyEach' /\ NoStalePause'
  BY DEF Inv, OneAtATime, OneReplyEach, NoStalePause, Open, InChild
<1> QED
  BY <1>1, <1>2, <1>3

LEMMA BrowserStep ==
    ASSUME Inv, Browse \/ Leave \/ \E b \in Buttons : Press(b)
    PROVE  Inv'
<1> USE DEF Browse, Leave, Press
<1>1. TypeOK'
  BY ChildAssumption, ZenonT(60) DEF Inv, TypeOK, conns, counts
<1>2. NoLingering' /\ NoFailedCheck'
  BY DEF Inv, NoLingering, NoFailedCheck, conns, counts
<1>3. /\ FewInChild' /\ CountsAreTrue' /\ SocketsSound' /\ BatchIsOpen'
      /\ Placed' /\ OneAtATime' /\ OneReplyEach' /\ NoStalePause'
  BY SameConns
<1> QED
  BY <1>1, <1>2, <1>3 DEF Inv
-----------------------------------------------------------------------------
(* Steps of event_loop that no connection is touched by                    *)

\* EV_READ is reported for open sockets only that are watched for it.
LEMMA EpollWaitStep ==
    ASSUME Inv, EpollWait
    PROVE  Inv'
<1>1. PICK also \in SUBSET Possible : batch' = Pending \cup also
  BY DEF EpollWait
<1>2. batch' \subseteq ((Conn \cup {NoConn})
                          \X {"R", "E", "W", "rate", "pipe", "idle", "button", "left"})
  BY <1>1 DEF Pending, Possible, ReadyToRead, Open, InChild
<1>3. TypeOK'
  BY <1>2 DEF EpollWait, Inv, TypeOK, conns, counts, ws
<1>4. BatchIsOpen'
  <2> SUFFICES ASSUME NEW c \in Conn
               PROVE  /\ <<c, "R">> \in batch' =>
                            /\ place[c] = "child" /\ sock[c].reg = "open"
                            /\ "R" \in sock[c].events
                      /\ \A k \in {"E", "W", "rate"} :
                            <<c, k>> \in batch' => place[c] = "child"
    BY DEF EpollWait, BatchIsOpen, conns
  <2>1. <<c, "R">> \in batch' => c \in ReadyToRead
    BY <1>1 DEF Pending, Possible
  <2>2. \A k \in {"E", "W", "rate"} : <<c, k>> \in batch' => c \in InChild
    BY <1>1, ChildAssumption DEF Pending, Possible, ReadyToRead, Open, InChild
  <2>3. sock[c].reg = "open" => sock[c].mask \subseteq sock[c].events
    BY SocketOf DEF Sound, Masked
  <2>4. QED
    BY <2>1, <2>2, <2>3 DEF ReadyToRead, Open, InChild
<1>5. FewInChild' /\ CountsAreTrue'
  BY SameCounts DEF EpollWait, Inv, conns
<1>6. SocketsSound' /\ Placed'
  BY DEF EpollWait, Inv, SocketsSound, Placed, NoSocket, conns
<1>7. /\ OneAtATime' /\ OneReplyEach' /\ NoLingering' /\ NoFailedCheck'
      /\ NoStalePause'
  BY DEF EpollWait, Inv, OneAtATime, OneReplyEach, NoLingering, NoFailedCheck,
         NoStalePause, Open, InChild, conns, counts, ws
<1> QED
  BY <1>3, <1>4, <1>5, <1>6, <1>7 DEF Inv

LEMMA PipeIdleLeftStep ==
    ASSUME Inv, OnPipeBrowser \/ OnIdle \/ OnLeft \/ Exit
    PROVE  Inv'
<1> USE DEF OnPipeBrowser, OnIdle, OnLeft, Exit
<1>0. batch' \subseteq batch
  OBVIOUS
<1>1. TypeOK'
  <2>1. CASE OnPipeBrowser \/ OnLeft
    BY <1>0, <2>1, ZenonT(60) DEF Inv, TypeOK, conns, counts
  <2>2. CASE OnIdle \/ Exit
    BY <1>0, <2>2 DEF Inv, TypeOK, conns, counts, ws
  <2>3. QED
    BY <2>1, <2>2
<1>2. NoLingering' /\ NoFailedCheck'
  BY DEF Inv, NoLingering, NoFailedCheck, conns, counts, ws
<1>3. UNCHANGED <<conns, counts, waiting, polite>> /\ batch' \subseteq batch
  BY DEF ws
<1>4. /\ FewInChild' /\ CountsAreTrue' /\ SocketsSound' /\ BatchIsOpen'
      /\ Placed' /\ OneAtATime' /\ OneReplyEach' /\ NoStalePause'
  BY <1>3, SameConns
<1> QED
  BY <1>1, <1>2, <1>4 DEF Inv
-----------------------------------------------------------------------------
(* Steps of event_loop for one connection                                  *)

\* What is left of a batch.
LEMMA RestOfBatch ==
    ASSUME Inv, NEW c \in Conn, NEW rest \in SUBSET batch, Goes(c, rest)
    PROVE  /\ batch' \subseteq batch
           /\ batch' \subseteq ((Conn \cup {NoConn})
                    \X {"R", "E", "W", "rate", "pipe", "idle", "button", "left"})
           /\ cur' \in Conn \cup {NoConn}
BY DEF Inv, TypeOK, Goes

\* What a polite client waits for is in its socket or in the queue.
LEMMA Owed ==
    ASSUME Inv, NEW c \in polite, place[c] = "child"
    PROVE  /\ c \in Conn /\ Len(inbox[c]) \in Nat /\ Len(sock[c].wq) \in Nat
           /\ awaiting[c] = Len(inbox[c]) + Len(sock[c].wq)
           /\ awaiting[c] <= 1
<1>1. c \in Conn
  BY ChildAssumption DEF Inv, TypeOK
<1>2. Len(inbox[c]) \in Nat
  BY <1>1 DEF Inv, TypeOK
<1>3. sock[c].wq \in Seq(Reply)
  BY <1>1 DEF Inv, TypeOK, SocketType
<1>4. Len(sock[c].wq) \in Nat
  BY <1>3
<1>5. place[c] # "out" /\ place[c] # "pipe"
  OBVIOUS
<1> DEFINE n == IF place[c] = "pipe" THEN 1 ELSE 0
<1>6. awaiting[c] = Len(inbox[c]) + Len(sock[c].wq) + n
  BY <1>5 DEF Inv, OneReplyEach
<1>7. n = 0
  BY <1>5
<1>8. awaiting[c] <= 1
  BY DEF Inv, OneAtATime
<1> HIDE DEF n
<1> DEFINE a == Len(inbox[c])
           b == Len(sock[c].wq)
<1>9. a \in Nat /\ b \in Nat /\ awaiting[c] = a + b + n
  BY <1>2, <1>4, <1>6
<1> HIDE DEF a, b
<1>10. awaiting[c] = a + b
  BY <1>7, <1>9
<1> QED
  BY <1>1, <1>8, <1>9, <1>10 DEF a, b

\* socket_cb, EV_ERROR: the socket is deleted, with what waits in its queue.
LEMMA OnErrorStep ==
    ASSUME Inv, NEW c \in Conn, OnError(c)
    PROVE  Inv'
<1> DEFINE t == SocketDel(sock[c])
<1>1. place[c] = "child" /\ <<c, "R">> \notin batch
  BY DEF OnError, Take, Inv, BatchIsOpen
<1>2. /\ sock[c] \in SocketType(Reply) /\ Sound(sock[c])
      /\ sock[c].reg \in {"open", "deleted"}
  BY <1>1, SocketOf
<1>3. /\ t \in SocketType(Reply) /\ Sound(t) /\ Watched(t)
      /\ t.reg \in {"open", "deleted"} /\ t.wq = sock[c].wq
  BY <1>2, SocketDelLemma, SocketDelSound
<1>4. sock' = [sock EXCEPT ![c] = t] /\ waiting' = waiting
  BY DEF OnError
<1> HIDE DEF t
<1>5. Changed(c) /\ sock'[c] = t
  BY <1>3, <1>4, ChangedOne
<1>6. /\ batch' \subseteq batch
      /\ batch' \subseteq ((Conn \cup {NoConn})
               \X {"R", "E", "W", "rate", "pipe", "idle", "button", "left"})
      /\ cur' \in Conn \cup {NoConn}
  BY RestOfBatch DEF OnError
<1>7. TypeOK'
  BY <1>5, <1>6 DEF OnError, Inv, TypeOK, Changed, counts, ws
<1>8. SocketsSound' /\ Placed' /\ BatchIsOpen' /\ NoStalePause'
  BY <1>1, <1>5, <1>6, ChangedSockets DEF OnError
<1>9. OneReplyEach'
  <2>1. inbox' \in [Conn -> Seq(Command)] /\ UNCHANGED <<place, polite, inbox, awaiting>>
    BY DEF OnError, Inv, TypeOK, ws
  <2>2. c \in polite => awaiting'[c] = Len(inbox'[c]) + Len(sock'[c].wq)
    BY <1>1, <1>3, <1>5, <2>1, Owed
  <2>3. QED
    BY <1>1, <1>5, <2>1, <2>2, ChangedAnswers
<1>10. FewInChild' /\ CountsAreTrue'
  BY SameCounts DEF OnError, Inv
<1>11. OneAtATime' /\ NoLingering' /\ NoFailedCheck'
  BY DEF OnError, Inv, OneAtATime, NoLingering, NoFailedCheck, counts, ws
<1> QED
  BY <1>7, <1>8, <1>9, <1>10, <1>11 DEF Inv

\* socket_cb, EV_WRITE: what leaves the queue is an answer less to wait for.
LEMMA OnWriteStep ==
    ASSUME Inv, NEW c \in Conn, OnWrite(c)
    PROVE  Inv'
<1>1. place[c] = "child" /\ <<c, "R">> \notin batch
  BY DEF OnWrite, Take, Inv, BatchIsOpen
<1>2. /\ sock[c] \in SocketType(Reply) /\ Sound(sock[c])
      /\ sock[c].reg \in {"open", "deleted"} /\ sock[c].reg # "dead"
      /\ ~waiting => Watched(sock[c])
  BY <1>1, SocketOf
<1>3. PICK n \in 0..Len(sock[c].wq), stop \in WriteStop :
         /\ CanStop(sock[c], n, stop)
         /\ sock' = [sock EXCEPT ![c] = SocketProcessWqueue(sock[c], n, stop)]
         /\ awaiting' = [awaiting EXCEPT
                           ![c] = IF c \in polite THEN awaiting[c] - n ELSE awaiting[c]]
  BY DEF OnWrite
<1> DEFINE t == SocketProcessWqueue(sock[c], n, stop)
<1>4. /\ t \in SocketType(Reply) /\ Sound(t) /\ t.reg \in {"open", "deleted"}
      /\ Watched(sock[c]) => Watched(t)
      /\ Len(t.wq) = Len(sock[c].wq) - n
  BY <1>2, <1>3, SocketProcessWqueueSound
<1>5. waiting' = waiting /\ place' = place /\ inbox' = inbox /\ polite' = polite
  BY DEF OnWrite, ws
<1>6. sock' = [sock EXCEPT ![c] = t]
  BY <1>3
<1> HIDE DEF t
<1>7. Changed(c) /\ sock'[c] = t
  BY <1>2, <1>4, <1>5, <1>6, ChangedOne
<1>8. /\ batch' \subseteq batch
      /\ batch' \subseteq ((Conn \cup {NoConn})
               \X {"R", "E", "W", "rate", "pipe", "idle", "button", "left"})
      /\ cur' \in Conn \cup {NoConn}
  BY RestOfBatch DEF OnWrite
<1>9. n \in Nat
  OBVIOUS
<1>10. /\ \A d \in Conn \ {c} : awaiting'[d] = awaiting[d]
       /\ awaiting'[c] = IF c \in polite THEN awaiting[c] - n ELSE awaiting[c]
       /\ awaiting \in [Conn -> Nat]
  BY <1>3 DEF Inv, TypeOK
<1>11. ASSUME c \in polite
       PROVE  /\ awaiting'[c] = Len(inbox[c]) + Len(t.wq)
              /\ awaiting'[c] \in Nat /\ awaiting'[c] <= 1
  <2> DEFINE a == Len(inbox[c])
             b == Len(sock[c].wq)
  <2>1. /\ a \in Nat /\ b \in Nat /\ awaiting[c] = a + b /\ a + b <= 1
        /\ awaiting'[c] = awaiting[c] - n /\ Len(t.wq) = b - n /\ n \in 0..b
    BY <1>1, <1>3, <1>4, <1>10, <1>11, Owed
  <2> HIDE DEF a, b
  <2>2. /\ awaiting'[c] = a + (b - n)
        /\ awaiting'[c] \in Nat /\ awaiting'[c] <= 1
    BY <1>9, <2>1
  <2>3. QED
    BY <2>1, <2>2 DEF a
<1>12. awaiting' \in [Conn -> Nat]
  <2>1. awaiting'[c] \in Nat
    BY <1>10, <1>11
  <2> DEFINE v == IF c \in polite THEN awaiting[c] - n ELSE awaiting[c]
  <2>2. v \in Nat /\ awaiting' = [awaiting EXCEPT ![c] = v]
    BY <1>3, <1>10, <2>1
  <2> HIDE DEF v
  <2>3. QED
    BY <1>10, <2>2
<1>13. TypeOK'
  BY <1>7, <1>8, <1>12 DEF OnWrite, Inv, TypeOK, Changed, counts, ws
<1>14. SocketsSound' /\ Placed' /\ BatchIsOpen' /\ NoStalePause'
  BY <1>1, <1>7, <1>8, ChangedSockets DEF OnWrite
<1>15. OneReplyEach'
  <2>1. inbox' \in [Conn -> Seq(Command)]
    BY <1>5 DEF Inv, TypeOK
  <2>2. QED
    BY <1>1, <1>5, <1>7, <1>10, <1>11, <2>1, ChangedAnswers
<1>16. OneAtATime'
  <2>1. \A d \in polite : d \in Conn
    BY ChildAssumption DEF Inv, TypeOK
  <2>2. QED
    BY <1>5, <1>10, <1>11, <2>1 DEF Inv, OneAtATime
<1>17. FewInChild' /\ CountsAreTrue'
  BY SameCounts DEF OnWrite, Inv
<1>18. NoLingering' /\ NoFailedCheck'
  BY DEF OnWrite, Inv, NoLingering, NoFailedCheck, counts, ws
<1> QED
  BY <1>13, <1>14, <1>15, <1>16, <1>17, <1>18 DEF Inv

\* socket_ratelimit_cb, also for a socket that was deleted in this batch.
LEMMA OnRateStep ==
    ASSUME Inv, NEW c \in Conn, OnRate(c)
    PROVE  Inv'
<1> DEFINE t == RateTimer(sock[c])
<1>1. place[c] = "child"
  BY DEF OnRate, Take, Inv, BatchIsOpen
<1>2. /\ sock[c] \in SocketType(Reply) /\ Sound(sock[c])
      /\ sock[c].reg \in {"open", "deleted"}
  BY <1>1, SocketOf
<1>3. /\ t \in SocketType(Reply) /\ Sound(t) /\ Watched(t)
      /\ t.reg = sock[c].reg /\ t.wq = sock[c].wq
      /\ "R" \in sock[c].events => "R" \in t.events
  BY <1>2, RateTimerSound
<1>4. /\ sock' = [sock EXCEPT ![c] = t] /\ waiting' = waiting
      /\ batch' \subseteq batch
  BY DEF OnRate
<1> HIDE DEF t
<1>5. Changed(c) /\ sock'[c] = t
  BY <1>2, <1>3, <1>4, ChangedOne
<1>6. <<c, "R">> \in batch' => sock'[c].reg = "open" /\ "R" \in sock'[c].events
  BY <1>3, <1>4, <1>5 DEF Inv, BatchIsOpen
<1>7. TypeOK'
  BY <1>4, <1>5 DEF OnRate, Inv, TypeOK, Changed, counts, ws
<1>8. SocketsSound' /\ Placed' /\ BatchIsOpen' /\ NoStalePause'
  BY <1>1, <1>4, <1>5, <1>6, ChangedSockets DEF OnRate
<1>9. OneReplyEach'
  <2>1. /\ inbox' \in [Conn -> Seq(Command)]
        /\ UNCHANGED <<place, polite, inbox, awaiting>>
    BY DEF OnRate, Inv, TypeOK, ws
  <2>2. c \in polite => awaiting'[c] = Len(inbox'[c]) + Len(sock'[c].wq)
    BY <1>1, <1>3, <1>5, <2>1, Owed
  <2>3. QED
    BY <1>1, <1>5, <2>1, <2>2, ChangedAnswers
<1>10. FewInChild' /\ CountsAreTrue'
  BY SameCounts DEF OnRate, Inv
<1>11. OneAtATime' /\ NoLingering' /\ NoFailedCheck'
  BY DEF OnRate, Inv, OneAtATime, NoLingering, NoFailedCheck, counts, ws
<1> QED
  BY <1>7, <1>8, <1>9, <1>10, <1>11 DEF Inv

\* The first DONE waits in the queue of the new socket.
LEMMA FirstSocket ==
    LET t == SendMsg(NewSocket(TRUE), "reply")
    IN /\ t \in SocketType(Reply) /\ Sound(t) /\ Watched(t)
       /\ t.reg \in {"open", "deleted"} /\ Len(t.wq) = 1
<1> DEFINE n == NewSocket(TRUE)
<1>1. n \in SocketType(Reply) /\ n.reg = "open" /\ n.wq = << >>
  BY NewSocketLemma
<1>2. "R" \in n.events /\ n.mask = n.events /\ n.flush = FALSE
  BY DEF NewSocket
<1> HIDE DEF n
<1>3. Sound(n)
  BY <1>1, <1>2 DEF Sound, WritesOn, Flushes, Masked, LastOver
<1>4. "reply" \in Reply /\ "reply" # "over"
  BY DEF Reply
<1>5. Len(n.wq) = 0 /\ Len(n.wq) < WQueueMax
  BY <1>1, SocketAssumption
<1> DEFINE t == SendMsg(n, "reply")
<1>6. /\ t \in SocketType(Reply) /\ Sound(t) /\ Watched(t)
      /\ t.reg \in {"open", "deleted"} /\ t.wq = Append(n.wq, "reply")
  BY <1>1, <1>2, <1>3, <1>4, <1>5, SendMsgSound
<1> HIDE DEF t
<1>7. Len(t.wq) = 1
  BY <1>1, <1>6
<1> QED
  BY <1>6, <1>7 DEF n, t

\* pipe_read: one more connection, and the idle timer is cancelled.
LEMMA OnPipeConnStep ==
    ASSUME Inv, NEW c \in Conn, OnPipeConn(c)
    PROVE  /\ Inv' /\ place[c] = "pipe"
           /\ InChild' = InChild \cup {c} /\ Players' = Players
<1> DEFINE t == SendMsg(NewSocket(TRUE), "reply")
<1>1. place[c] = "pipe" /\ stage[c] = "level" /\ batch' \subseteq batch
  BY DEF OnPipeConn, Inv, Placed
<1>2. sock' = [sock EXCEPT ![c] = t]
  BY DEF OnPipeConn
<1>3. /\ t \in SocketType(Reply) /\ Sound(t) /\ Watched(t)
      /\ t.reg \in {"open", "deleted"} /\ Len(t.wq) = 1
  BY FirstSocket
<1> HIDE DEF t
<1>4. /\ sock' \in [Conn -> SocketType(Reply)] /\ sock'[c] = t
      /\ \A d \in Conn \ {c} : sock'[d] = sock[d]
  BY <1>2, <1>3 DEF Inv, TypeOK
<1>5. /\ place' \in [Conn -> {"out", "pipe", "child"}] /\ place'[c] = "child"
      /\ \A d \in Conn \ {c} : place'[d] = place[d]
  BY DEF OnPipeConn, Inv, TypeOK
<1>6. TypeOK'
  <2>1. /\ UNCHANGED <<stage, inbox, gone, awaiting, boundCount, boundMax, loaded,
                       waiting, ws, cur, proc>>
        /\ count' = count + 1 /\ idle' = FALSE
    BY DEF OnPipeConn
  <2>2. /\ batch' \subseteq ((Conn \cup {NoConn})
                \X {"R", "E", "W", "rate", "pipe", "idle", "button", "left"})
        /\ count' \in Nat
    BY <1>1, <2>1 DEF Inv, TypeOK
  <2>3. idle' \in BOOLEAN
    BY <2>1, Zenon
  <2>4. /\ UNCHANGED <<browser, button, left, polite>>
        /\ place' \in [Conn -> {"out", "pipe", "child"}]
        /\ sock' \in [Conn -> SocketType(Reply)]
    BY <1>4, <1>5, <2>1 DEF ws
  <2>5. QED
    BY <2>1, <2>2, <2>3, <2>4 DEF Inv, TypeOK
<1>7. /\ InChild' = InChild \cup {c} /\ c \notin InChild
      /\ Players' = Players
  BY <1>1, <1>5 DEF OnPipeConn, InChild, Players
<1>8. FewInChild' /\ CountsAreTrue'
  <2>1. /\ FewInChild' /\ Cardinality(InChild') = Cardinality(InChild) + 1
    BY <1>7, FS_AddElement DEF Inv, FewInChild
  <2>2. count' = count + 1 /\ UNCHANGED <<boundCount, boundMax, loaded>>
    BY DEF OnPipeConn
  <2>3. QED
    BY <1>7, <2>1, <2>2 DEF Inv, CountsAreTrue, Players
<1>9. SocketsSound'
  BY <1>3, <1>4 DEF Inv, SocketsSound
<1>10. Placed'
  <2> SUFFICES ASSUME NEW d \in Conn
               PROVE  /\ place'[d] # "child" => sock'[d] = NoSocket /\ stage'[d] = "level"
                      /\ place'[d] = "child" => sock'[d].reg # "dead"
                      /\ place'[d] = "out" => inbox'[d] = << >>
    BY DEF Placed, NoSocket
  <2>1. CASE d = c
    BY <1>3, <1>4, <1>5, <2>1
  <2>2. CASE d # c
    BY <1>4, <1>5, <2>2 DEF OnPipeConn, Inv, Placed
  <2>3. QED
    BY <2>1, <2>2
<1>11. BatchIsOpen'
  BY <1>1, <1>4, <1>5 DEF Inv, BatchIsOpen
<1>12. NoStalePause'
  <2>1. waiting' = waiting
    BY DEF OnPipeConn
  <2> SUFFICES ASSUME ~waiting, NEW d \in Conn, place'[d] = "child",
                      sock'[d].reg = "open"
               PROVE  sock'[d].mask = sock'[d].events
    BY <2>1 DEF NoStalePause, Open, InChild
  <2>2. CASE d = c
    BY <1>3, <1>4, <2>2 DEF Watched
  <2>3. CASE d # c
    BY <1>4, <1>5, <2>3 DEF Inv, NoStalePause, Open, InChild
  <2>4. QED
    BY <2>2, <2>3
<1>13. OneReplyEach'
  <2> SUFFICES ASSUME NEW d \in polite, place'[d] # "out"
               PROVE  awaiting[d] = Len(inbox[d]) + Len(sock'[d].wq)
                                      + (IF place'[d] = "pipe" THEN 1 ELSE 0)
    BY DEF OnPipeConn, OneReplyEach, ws
  <2>1. d \in Conn
    BY ChildAssumption DEF Inv, TypeOK
  <2>2. CASE d = c
    <3>1. Len(sock[c].wq) = 0 /\ Len(inbox[c]) \in Nat
      BY <1>1, SocketOf DEF Inv, TypeOK
    <3> DEFINE a == Len(inbox[c])
               b == Len(sock[c].wq)
               n == IF place[c] = "pipe" THEN 1 ELSE 0
               m == IF place'[c] = "pipe" THEN 1 ELSE 0
    <3>2. awaiting[c] = a + b + n /\ a \in Nat /\ b = 0
      BY <1>1, <2>2, <3>1 DEF Inv, OneReplyEach
    <3>3. n = 1 /\ m = 0 /\ Len(sock'[c].wq) = 1
      BY <1>1, <1>3, <1>4, <1>5
    <3> HIDE DEF a, b, n, m
    <3>4. awaiting[c] = a + 1 + m
      BY <3>2, <3>3
    <3>5. QED
      BY <2>2, <3>3, <3>4 DEF a, m
  <2>3. CASE d # c
    BY <1>4, <1>5, <2>1, <2>3 DEF Inv, OneReplyEach
  <2>4. QED
    BY <2>2, <2>3
<1>14. NoLingering'
  <2>1. count \in Nat /\ count' = count + 1
    BY DEF OnPipeConn, Inv, TypeOK
  <2>2. count' # 0
    BY <2>1
  <2>3. QED
    BY <2>2 DEF NoLingering
<1>15. OneAtATime' /\ NoFailedCheck'
  BY DEF OnPipeConn, Inv, OneAtATime, NoFailedCheck, ws
<1> QED
  BY <1>1, <1>6, <1>7, <1>8, <1>9, <1>10, <1>11, <1>12, <1>13, <1>14, <1>15 DEF Inv
-----------------------------------------------------------------------------
(* p_read                                                                  *)

\* p_read is called for an open socket that nobody stopped reading from, and
\* finds no more than one command of a polite client.
LEMMA ReadIsOpen ==
    ASSUME Inv, NEW c \in Conn, OnRead(c)
    PROVE  /\ place[c] = "child" /\ Len(inbox[c]) \in Nat
           /\ sock[c] \in SocketType(Reply) /\ Sound(sock[c])
           /\ sock[c].reg = "open" /\ "R" \in sock[c].events
           /\ ~waiting => Watched(sock[c])
           /\ batch' \subseteq batch /\ <<c, "R">> \notin batch'
           /\ batch' \subseteq ((Conn \cup {NoConn})
                    \X {"R", "E", "W", "rate", "pipe", "idle", "button", "left"})
           /\ cur' \in Conn \cup {NoConn}
           /\ c \in polite =>
                 /\ Len(inbox[c]) = 0 => awaiting[c] = Len(sock[c].wq)
                 /\ Len(inbox[c]) >= 1 =>
                       Len(inbox[c]) = 1 /\ awaiting[c] = 1 /\ Len(sock[c].wq) = 0
<1>1. /\ place[c] = "child" /\ sock[c].reg = "open" /\ "R" \in sock[c].events
  BY DEF OnRead, Take, Inv, BatchIsOpen
<1>2. /\ sock[c] \in SocketType(Reply) /\ Sound(sock[c])
      /\ ~waiting => Watched(sock[c])
  BY SocketOf
<1>3. /\ batch' \subseteq batch
      /\ batch' \subseteq ((Conn \cup {NoConn})
               \X {"R", "E", "W", "rate", "pipe", "idle", "button", "left"})
      /\ cur' \in Conn \cup {NoConn}
  BY RestOfBatch DEF OnRead
<1>4. <<c, "R">> \notin batch'
  BY DEF OnRead, Goes
<1>5. Len(inbox[c]) \in Nat
  BY DEF Inv, TypeOK
<1>6. ASSUME c \in polite
      PROVE  /\ Len(inbox[c]) = 0 => awaiting[c] = Len(sock[c].wq)
             /\ Len(inbox[c]) >= 1 =>
                   Len(inbox[c]) = 1 /\ awaiting[c] = 1 /\ Len(sock[c].wq) = 0
  <2> DEFINE a == Len(inbox[c])
             b == Len(sock[c].wq)
  <2>1. a \in Nat /\ b \in Nat /\ awaiting[c] = a + b /\ awaiting[c] <= 1
    BY <1>1, <1>6, Owed
  <2> HIDE DEF a, b
  <2>2. /\ a = 0 => awaiting[c] = b
        /\ a >= 1 => a = 1 /\ awaiting[c] = 1 /\ b = 0
    BY <2>1
  <2>3. QED
    BY <2>2 DEF a, b
<1> QED
  BY <1>1, <1>2, <1>3, <1>4, <1>5, <1>6

\* Whatever p_read did to the sockets, if it answered the command of a polite
\* client, then the clients get what they wait for.
LEMMA ReadKeeps ==
    ASSUME Inv, NEW c \in Conn, OnRead(c), Changed(c),
           \A d \in Conn \ {c} : stage'[d] = stage[d],
           c \in polite => awaiting[c] = Len(sock'[c].wq),
           UNCHANGED <<count, proc>>
    PROVE  /\ SocketsSound' /\ Placed' /\ BatchIsOpen' /\ NoStalePause'
           /\ OneReplyEach' /\ OneAtATime' /\ NoLingering' /\ NoFailedCheck'
<1>1. UNCHANGED <<place, gone, awaiting, browser, button, left, polite, idle>>
  BY DEF OnRead, ws
<1>2. /\ inbox' \in [Conn -> Seq(Command)] /\ inbox'[c] = << >>
      /\ \A d \in Conn \ {c} : inbox'[d] = inbox[d]
  BY DEF OnRead, Inv, TypeOK
<1>3. place[c] = "child" /\ batch' \subseteq batch /\ <<c, "R">> \notin batch'
  BY ReadIsOpen
<1>4. \A d \in Conn : inbox[d] = << >> => inbox'[d] = << >>
  BY <1>2
<1>5. SocketsSound' /\ Placed' /\ BatchIsOpen' /\ NoStalePause'
  BY <1>1, <1>3, <1>4, ChangedSockets
<1>6. OneReplyEach'
  <2>1. sock'[c].wq \in Seq(Reply)
    BY DEF Changed, SocketType
  <2>2. c \in polite => awaiting'[c] = Len(inbox'[c]) + Len(sock'[c].wq)
    <3>1. Len(inbox'[c]) = 0 /\ Len(sock'[c].wq) \in Nat
      BY <1>2, <2>1
    <3>2. QED
      BY <1>1, <3>1
  <2>3. QED
    BY <1>1, <1>2, <1>3, <2>2, ChangedAnswers
<1>7. OneAtATime' /\ NoLingering' /\ NoFailedCheck'
  BY <1>1 DEF Inv, OneAtATime, NoLingering, NoFailedCheck
<1> QED
  BY <1>5, <1>6, <1>7

\* One message more, in a queue that is not full, answers the command.
LEMMA ReadAnswers ==
    ASSUME Inv, NEW c \in Conn, OnRead(c), Len(inbox[c]) >= 1,
           NEW t \in SocketType(Reply), Sound(t),
           t.reg \in {"open", "deleted"}, ~waiting => Watched(t),
           Len(sock[c].wq) < WQueueMax => Len(t.wq) = Len(sock[c].wq) + 1
    PROVE  c \in polite => awaiting[c] = Len(t.wq)
<1> SUFFICES ASSUME c \in polite
             PROVE  awaiting[c] = Len(t.wq)
  OBVIOUS
<1> DEFINE b == Len(sock[c].wq)
<1>1. awaiting[c] = 1 /\ b = 0
  BY ReadIsOpen
<1>2. b < WQueueMax => Len(t.wq) = b + 1
  OBVIOUS
<1> HIDE DEF b
<1> QED
  BY <1>1, <1>2, SocketAssumption

\* An error is reported, with OVER, on an open socket: check() holds.
LEMMA ReportErrorStep ==
    ASSUME Inv, NEW c \in Conn, OnRead(c), Len(inbox[c]) >= 1, ReportError(c)
    PROVE  Inv'
<1> DEFINE t == Report(sock[c])
<1>1. /\ sock[c] \in SocketType(Reply) /\ Sound(sock[c]) /\ sock[c].reg = "open"
      /\ "R" \in sock[c].events
  BY ReadIsOpen
<1>2. /\ t \in SocketType(Reply) /\ Sound(t) /\ Watched(t)
      /\ t.reg \in {"open", "deleted"}
      /\ Len(sock[c].wq) < WQueueMax => t.wq = Append(sock[c].wq, "over")
  BY <1>1, ReportSound
<1>3. sock' = [sock EXCEPT ![c] = t] /\ UNCHANGED <<stage, counts, waiting>>
  BY DEF ReportError
<1>4. proc' = proc
  BY <1>1 DEF ReportError, StopReadingFails
<1> HIDE DEF t
<1>5. sock[c].wq \in Seq(Reply)
  BY <1>1 DEF SocketType
<1>6. Len(sock[c].wq) < WQueueMax => Len(t.wq) = Len(sock[c].wq) + 1
  BY <1>2, <1>5
<1>7. Changed(c) /\ sock'[c] = t
  BY <1>2, <1>3, ChangedOne
<1>8. c \in polite => awaiting[c] = Len(sock'[c].wq)
  BY <1>2, <1>6, <1>7, ReadAnswers
<1>9. /\ SocketsSound' /\ Placed' /\ BatchIsOpen' /\ NoStalePause'
      /\ OneReplyEach' /\ OneAtATime' /\ NoLingering' /\ NoFailedCheck'
  BY <1>3, <1>4, <1>7, <1>8, ReadKeeps DEF counts
<1>10. TypeOK'
  <2>1. inbox' \in [Conn -> Seq(Command)] /\ UNCHANGED <<place, gone, awaiting, ws, idle>>
    BY DEF OnRead, Inv, TypeOK
  <2>2. QED
    BY <1>3, <1>4, <1>7, <2>1, ReadIsOpen, ZenonT(60) DEF Inv, TypeOK, Changed, counts, ws
<1>11. FewInChild' /\ CountsAreTrue'
  BY <1>3, SameCounts DEF OnRead, Inv
<1> QED
  BY <1>9, <1>10, <1>11 DEF Inv

\* A reply is queued, and nothing but the socket changes.
LEMMA ReplyStep ==
    ASSUME Inv, NEW c \in Conn, OnRead(c), Len(inbox[c]) >= 1, NEW m \in Reply, m # "over",
           sock' = [sock EXCEPT ![c] = SendMsg(sock[c], m)],
           UNCHANGED <<stage, counts, waiting, proc>>
    PROVE  Inv'
<1> DEFINE t == SendMsg(sock[c], m)
<1>1. /\ sock[c] \in SocketType(Reply) /\ Sound(sock[c]) /\ sock[c].reg = "open"
      /\ "R" \in sock[c].events
  BY ReadIsOpen
<1>2. /\ t \in SocketType(Reply) /\ Sound(t) /\ Watched(t)
      /\ t.reg \in {"open", "deleted"}
      /\ Len(sock[c].wq) < WQueueMax => t.wq = Append(sock[c].wq, m)
  BY <1>1, SendMsgSound
<1>3. sock' = [sock EXCEPT ![c] = t]
  OBVIOUS
<1> HIDE DEF t
<1>4. sock[c].wq \in Seq(Reply)
  BY <1>1 DEF SocketType
<1>5. Len(sock[c].wq) < WQueueMax => Len(t.wq) = Len(sock[c].wq) + 1
  BY <1>2, <1>4
<1>6. Changed(c) /\ sock'[c] = t
  BY <1>2, <1>3, ChangedOne
<1>7. c \in polite => awaiting[c] = Len(sock'[c].wq)
  BY <1>2, <1>5, <1>6, ReadAnswers
<1>8. /\ SocketsSound' /\ Placed' /\ BatchIsOpen' /\ NoStalePause'
      /\ OneReplyEach' /\ OneAtATime' /\ NoLingering' /\ NoFailedCheck'
  BY <1>6, <1>7, ReadKeeps DEF counts
<1>9. TypeOK'
  <2>1. inbox' \in [Conn -> Seq(Command)] /\ UNCHANGED <<place, gone, awaiting, ws, idle>>
    BY DEF OnRead, Inv, TypeOK
  <2>2. QED
    BY <1>6, <2>1, ReadIsOpen, ZenonT(60) DEF Inv, TypeOK, Changed, counts, ws
<1>10. FewInChild' /\ CountsAreTrue'
  BY SameCounts DEF OnRead, Inv
<1> QED
  BY <1>8, <1>9, <1>10 DEF Inv

\* EV_READ with nothing to read.
LEMMA NothingReadStep ==
    ASSUME Inv, NEW c \in Conn, OnRead(c), Len(inbox[c]) = 0,
           UNCHANGED <<sock, stage, counts, waiting, proc>>
    PROVE  Inv'
<1> DEFINE t == sock[c]
<1>1. /\ t \in SocketType(Reply) /\ Sound(t) /\ t.reg \in {"open", "deleted"}
      /\ ~waiting => Watched(t)
      /\ c \in polite => awaiting[c] = Len(t.wq)
  BY ReadIsOpen
<1>2. sock' = [sock EXCEPT ![c] = t]
  <2>1. sock \in [Conn -> SocketType(Reply)]
    BY DEF Inv, TypeOK
  <2>2. sock = [sock EXCEPT ![c] = sock[c]]
    BY <2>1
  <2>3. QED
    BY <2>2
<1> HIDE DEF t
<1>3. waiting' = waiting
  OBVIOUS
<1>4. Changed(c) /\ sock'[c] = t
  BY <1>1, <1>2, <1>3, ChangedOne
<1>5. /\ SocketsSound' /\ Placed' /\ BatchIsOpen' /\ NoStalePause'
      /\ OneReplyEach' /\ OneAtATime' /\ NoLingering' /\ NoFailedCheck'
  BY <1>1, <1>4, ReadKeeps DEF counts
<1>6. TypeOK'
  <2>1. inbox' \in [Conn -> Seq(Command)] /\ UNCHANGED <<place, gone, awaiting, ws, idle>>
    BY DEF OnRead, Inv, TypeOK
  <2>2. QED
    BY <1>4, <2>1, ReadIsOpen, ZenonT(60) DEF Inv, TypeOK, Changed, counts, ws
<1>7. FewInChild' /\ CountsAreTrue'
  BY SameCounts DEF OnRead, Inv
<1> QED
  BY <1>5, <1>6, <1>7 DEF Inv

\* socket_pause of every socket.
LEMMA PauseSocketsSound ==
    ASSUME NEW f \in [Conn -> SocketType(Reply)], \A d \in Conn : Sound(f[d]),
           NEW pause \in BOOLEAN
    PROVE  LET g == PauseSockets(f, pause)
           IN /\ g \in [Conn -> SocketType(Reply)]
              /\ \A d \in Conn :
                    /\ Sound(g[d]) /\ (~pause => Watched(g[d]))
                    /\ g[d].reg = f[d].reg /\ g[d].wq = f[d].wq
                    /\ g[d].events = f[d].events
                    /\ f[d].reg # "open" => g[d] = f[d]
<1>1. ASSUME NEW d \in Conn
      PROVE  LET s == SocketPause(f[d], pause)
             IN /\ s \in SocketType(Reply)
                /\ Sound(s) /\ (~pause => Watched(s))
                /\ s.reg = f[d].reg /\ s.wq = f[d].wq /\ s.events = f[d].events
                /\ f[d].reg # "open" => s = f[d]
  <2>1. f[d] \in SocketType(Reply)
    OBVIOUS
  <2>2. f[d].reg # "open" => SocketPause(f[d], pause) = f[d]
    BY DEF SocketPause
  <2>3. QED
    BY <2>1, <2>2, SocketPauseSound
<1> DEFINE g == PauseSockets(f, pause)
<1>2. g = [d \in Conn |-> SocketPause(f[d], pause)]
  BY DEF PauseSockets
<1> HIDE DEF g
<1>3. g \in [Conn -> SocketType(Reply)] /\ \A d \in Conn : g[d] = SocketPause(f[d], pause)
  BY <1>1, <1>2
<1> QED
  BY <1>1, <1>3 DEF g

\* WAIT: the reply is queued; the first to wait pauses every socket.
LEMMA ProcessWaitStep ==
    ASSUME Inv, NEW c \in Conn, OnRead(c), Len(inbox[c]) >= 1, ProcessWait(c)
    PROVE  Inv'
<1> DEFINE t == SendMsg(sock[c], "waitack")
           acked == [sock EXCEPT ![c] = t]
<1>1. /\ sock[c] \in SocketType(Reply) /\ Sound(sock[c]) /\ sock[c].reg = "open"
      /\ "R" \in sock[c].events /\ place[c] = "child"
  BY ReadIsOpen
<1>2. "waitack" \in Reply /\ "waitack" # "over"
  BY DEF Reply
<1>3. /\ t \in SocketType(Reply) /\ Sound(t) /\ Watched(t)
      /\ t.reg \in {"open", "deleted"}
      /\ Len(sock[c].wq) < WQueueMax => t.wq = Append(sock[c].wq, "waitack")
  BY <1>1, <1>2, SendMsgSound
<1>4. /\ sock' = IF waiting THEN acked ELSE PauseSockets(acked, TRUE)
      /\ waiting' = TRUE /\ UNCHANGED <<stage, counts, proc>>
  BY DEF ProcessWait
<1> HIDE DEF t
<1>5. Len(sock[c].wq) < WQueueMax => Len(t.wq) = Len(sock[c].wq) + 1
  <2>1. sock[c].wq \in Seq(Reply)
    BY <1>1 DEF SocketType
  <2>2. QED
    BY <1>3, <2>1
<1>6. c \in polite => awaiting[c] = Len(t.wq)
  BY <1>3, <1>5, ReadAnswers
<1>7. /\ acked \in [Conn -> SocketType(Reply)] /\ acked[c] = t
      /\ \A d \in Conn \ {c} : acked[d] = sock[d]
      /\ \A d \in Conn : Sound(acked[d])
  BY <1>3 DEF Inv, TypeOK, SocketsSound
<1> HIDE DEF acked
<1>8. \A d \in Conn : place[d] # "child" => sock[d].reg # "open"
  BY SocketOf
<1>9. Changed(c) /\ sock'[c].wq = t.wq
  <2>1. CASE waiting
    BY <1>3, <1>4, <1>7, <2>1 DEF Changed
  <2>2. CASE ~waiting
    <3> DEFINE g == PauseSockets(acked, TRUE)
    <3>1. /\ g \in [Conn -> SocketType(Reply)]
          /\ \A d \in Conn :
                /\ Sound(g[d]) /\ g[d].reg = acked[d].reg /\ g[d].wq = acked[d].wq
                /\ g[d].events = acked[d].events
                /\ acked[d].reg # "open" => g[d] = acked[d]
      BY <1>7, PauseSocketsSound
    <3>2. sock' = g
      BY <1>4, <2>2
    <3> HIDE DEF g
    <3>3. QED
      BY <1>3, <1>4, <1>7, <1>8, <3>1, <3>2 DEF Changed
  <2>3. QED
    BY <2>1, <2>2
<1>10. /\ SocketsSound' /\ Placed' /\ BatchIsOpen' /\ NoStalePause'
       /\ OneReplyEach' /\ OneAtATime' /\ NoLingering' /\ NoFailedCheck'
  BY <1>4, <1>6, <1>9, ReadKeeps DEF counts
<1>11. TypeOK'
  <2>1. inbox' \in [Conn -> Seq(Command)] /\ UNCHANGED <<place, gone, awaiting, ws, idle>>
    BY DEF OnRead, Inv, TypeOK
  <2>2. QED
    BY <1>4, <1>9, <2>1, ReadIsOpen, ZenonT(60) DEF Inv, TypeOK, Changed, counts, ws
<1>12. FewInChild' /\ CountsAreTrue'
  BY <1>4, SameCounts DEF OnRead, Inv
<1> QED
  BY <1>10, <1>11, <1>12 DEF Inv

\* LEVL: one player more, within the size of the level.
LEMMA AcceptLevelStep ==
    ASSUME Inv, NEW c \in Conn, OnRead(c), Len(inbox[c]) >= 1, stage[c] = "level",
           RoomLeft, AcceptLevel(c)
    PROVE  /\ Inv' /\ c \in InChild \ Players
           /\ InChild' = InChild /\ Players' = Players \cup {c}
<1> DEFINE a == SendMsg(sock[c], "reply")
           t == IF waiting THEN SocketPause(a, TRUE) ELSE a
<1>1. /\ sock[c] \in SocketType(Reply) /\ Sound(sock[c]) /\ sock[c].reg = "open"
      /\ "R" \in sock[c].events /\ place[c] = "child"
  BY ReadIsOpen
<1>2. "reply" \in Reply /\ "reply" # "over"
  BY DEF Reply
<1>3. /\ a \in SocketType(Reply) /\ Sound(a) /\ Watched(a)
      /\ a.reg \in {"open", "deleted"}
      /\ Len(sock[c].wq) < WQueueMax => a.wq = Append(sock[c].wq, "reply")
  BY <1>1, <1>2, SendMsgSound
<1>4. /\ sock' = [sock EXCEPT ![c] = t]
      /\ stage' = [stage EXCEPT ![c] = "cmd"]
      /\ boundCount' = boundCount + 1
      /\ boundMax' \in IF loaded THEN {boundMax} ELSE MaxConns
      /\ loaded' = TRUE
      /\ UNCHANGED <<count, waiting, proc>>
  BY DEF AcceptLevel
<1> HIDE DEF a
<1>5. /\ t \in SocketType(Reply) /\ Sound(t) /\ t.reg \in {"open", "deleted"}
      /\ ~waiting => Watched(t)
      /\ t.wq = a.wq
  <2>1. CASE waiting
    BY <1>3, <2>1, SocketPauseSound
  <2>2. CASE ~waiting
    BY <1>3, <2>2
  <2>3. QED
    BY <2>1, <2>2
<1> HIDE DEF t
<1>6. Len(sock[c].wq) < WQueueMax => Len(t.wq) = Len(sock[c].wq) + 1
  <2>1. sock[c].wq \in Seq(Reply)
    BY <1>1 DEF SocketType
  <2>2. QED
    BY <1>3, <1>5, <2>1
<1>7. Changed(c) /\ sock'[c] = t
  BY <1>4, <1>5, ChangedOne
<1>8. c \in polite => awaiting[c] = Len(sock'[c].wq)
  BY <1>5, <1>6, <1>7, ReadAnswers
<1>9. /\ stage' \in [Conn -> {"level", "cmd"}] /\ stage'[c] = "cmd"
      /\ \A d \in Conn \ {c} : stage'[d] = stage[d]
  BY <1>4 DEF Inv, TypeOK
<1>10. /\ SocketsSound' /\ Placed' /\ BatchIsOpen' /\ NoStalePause'
       /\ OneReplyEach' /\ OneAtATime' /\ NoLingering' /\ NoFailedCheck'
  BY <1>4, <1>7, <1>8, <1>9, ReadKeeps
<1>11. boundCount' \in Nat /\ boundMax' \in Nat /\ loaded' \in BOOLEAN
  BY <1>4, ChildAssumption DEF Inv, TypeOK
<1>12. TypeOK'
  <2>1. inbox' \in [Conn -> Seq(Command)] /\ UNCHANGED <<place, gone, awaiting, ws, idle>>
    BY DEF OnRead, Inv, TypeOK
  <2>2. QED
    BY <1>4, <1>7, <1>9, <1>11, <2>1, ReadIsOpen, ZenonT(60) DEF Inv, TypeOK, Changed, ws
<1>13. /\ InChild' = InChild /\ c \in InChild \ Players
       /\ Players' = Players \cup {c}
  BY <1>1, <1>9 DEF OnRead, InChild, Players
<1>14. FewInChild' /\ CountsAreTrue'
  <2>1. /\ IsFiniteSet(Players) /\ Cardinality(Players) \in Nat
    <3>1. Players \in SUBSET InChild
      BY DEF Players
    <3>2. IsFiniteSet(Players)
      BY <3>1, FS_Subset DEF Inv, FewInChild
    <3>3. QED
      BY <3>2, FS_CardinalityType
  <2>2. Cardinality(Players') = Cardinality(Players) + 1
    BY <1>13, <2>1, FS_AddElement
  <2>3. /\ boundCount = Cardinality(Players) /\ count = Cardinality(InChild)
        /\ Cardinality(Players) <= IF loaded THEN boundMax ELSE 0
    BY DEF Inv, CountsAreTrue, Players
  <2>4. Cardinality(Players') <= boundMax'
    <3>1. CASE loaded
      BY <1>4, <2>1, <2>2, <2>3, <3>1 DEF RoomLeft, Inv, TypeOK
    <3>2. CASE ~loaded
      <4>1. boundMax' \in Nat \ {0}
        BY <1>4, <3>2, ChildAssumption
      <4>2. QED
        BY <2>1, <2>2, <2>3, <3>2, <4>1
    <3>3. QED
      BY <3>1, <3>2
  <2>5. QED
    BY <1>4, <1>13, <2>2, <2>3, <2>4 DEF Inv, FewInChild, CountsAreTrue, Players
<1> QED
  BY <1>10, <1>12, <1>13, <1>14 DEF Inv

\* p_read reads at most one command; it answers it or reports an error.
LEMMA OnReadStep ==
    ASSUME Inv, NEW c \in Conn, OnRead(c)
    PROVE  /\ Inv'
           /\ \/ UNCHANGED <<place, stage, counts, proc>>
              \/ /\ AcceptLevel(c) /\ RoomLeft /\ c \in InChild \ Players
                 /\ InChild' = InChild /\ Players' = Players \cup {c}
<1>1. CASE Len(inbox[c]) = 0 /\ UNCHANGED <<sock, stage, counts, waiting, proc>>
  BY <1>1, NothingReadStep DEF OnRead
<1>2. CASE Len(inbox[c]) >= 1 /\ ReportError(c)
  BY <1>2, ReportErrorStep, ReadIsOpen DEF OnRead, ReportError, StopReadingFails
<1>3. CASE Len(inbox[c]) = 1 /\ stage[c] = "level" /\ RoomLeft /\ AcceptLevel(c)
  BY <1>3, AcceptLevelStep
<1>4. CASE /\ Len(inbox[c]) = 1
           /\ sock' = [sock EXCEPT ![c] = SendMsg(sock[c], "reply")]
           /\ UNCHANGED <<stage, counts, waiting, proc>>
  <2>1. "reply" \in Reply /\ "reply" # "over"
    BY DEF Reply
  <2>2. Len(inbox[c]) >= 1
    BY <1>4
  <2>3. Inv'
    BY <1>4, <2>1, <2>2, ReplyStep
  <2>4. QED
    BY <1>4, <2>3 DEF OnRead
<1>5. CASE Len(inbox[c]) = 1 /\ ProcessWait(c)
  <2>1. Len(inbox[c]) >= 1
    BY <1>5
  <2>2. QED
    BY <1>5, <2>1, ProcessWaitStep DEF OnRead, ProcessWait
<1>6. Head(inbox[c]) \in Command \/ Len(inbox[c]) # 1
  BY DEF Inv, TypeOK
<1> QED
  BY <1>1, <1>2, <1>3, <1>4, <1>5, <1>6, ReadIsOpen
  DEF OnRead, ProcessLevel, ProcessCmd, Command
-----------------------------------------------------------------------------
(* START and KILL                                                          *)

\* START ends a hold: every socket is watched again for what the program
\* wants.
LEMMA ResumeStep ==
    ASSUME Inv, ProtoResume
    PROVE  /\ Changed(NoConn) /\ ~waiting'
           /\ \A d \in Conn : sock'[d].wq = sock[d].wq
<1>1. /\ sock \in [Conn -> SocketType(Reply)]
      /\ \A d \in Conn : /\ Sound(sock[d]) /\ (~waiting => Watched(sock[d]))
                         /\ place[d] # "child" => sock[d].reg # "open"
  BY SocketOf DEF Inv, TypeOK
<1>2. ~waiting' /\ NoConn \notin Conn
  BY ChildAssumption DEF ProtoResume
<1>3. CASE ~waiting
  BY <1>1, <1>2, <1>3 DEF ProtoResume, Changed
<1>4. CASE waiting
  <2> DEFINE g == PauseSockets(sock, FALSE)
  <2>1. /\ g \in [Conn -> SocketType(Reply)]
        /\ \A d \in Conn :
              /\ Sound(g[d]) /\ Watched(g[d])
              /\ g[d].reg = sock[d].reg /\ g[d].wq = sock[d].wq
              /\ g[d].events = sock[d].events
              /\ sock[d].reg # "open" => g[d] = sock[d]
    BY <1>1, PauseSocketsSound
  <2>2. sock' = g
    BY <1>4 DEF ProtoResume
  <2> HIDE DEF g
  <2>3. QED
    BY <1>1, <1>2, <2>1, <2>2 DEF Changed
<1> QED
  BY <1>3, <1>4

LEMMA OnButtonStep ==
    ASSUME Inv, OnButton
    PROVE  Inv' /\ UNCHANGED <<place, stage, counts>>
<1>1. /\ batch' \subseteq batch
      /\ UNCHANGED <<place, stage, inbox, gone, awaiting, counts, browser, left,
                     polite, idle, cur>>
      /\ button' = "none"
  BY DEF OnButton
<1>2. FewInChild' /\ CountsAreTrue'
  BY <1>1, SameCounts DEF Inv
<1>3. CASE button = "kill" /\ proc' = "quit" /\ UNCHANGED <<sock, waiting>>
  <2>1. /\ SocketsSound' /\ BatchIsOpen' /\ Placed' /\ OneAtATime'
        /\ OneReplyEach' /\ NoStalePause'
    BY <1>1, <1>3, SameConns DEF conns
  <2>2. TypeOK' /\ NoLingering' /\ NoFailedCheck'
    BY <1>1, <1>3 DEF Inv, TypeOK, NoLingering, NoFailedCheck, counts
  <2>3. QED
    BY <1>1, <1>2, <2>1, <2>2 DEF Inv
<1>4. CASE button = "start" /\ ProtoResume /\ UNCHANGED proc
  <2>1. /\ Changed(NoConn) /\ ~waiting' /\ NoConn \notin Conn
        /\ \A d \in Conn : sock'[d].wq = sock[d].wq
    BY <1>4, ResumeStep, ChildAssumption
  <2>2. waiting' \in BOOLEAN
    BY <1>4 DEF ProtoResume
  <2>3. TypeOK'
    BY <1>1, <1>4, <2>1, <2>2 DEF Inv, TypeOK, Changed, counts
  <2>4. SocketsSound' /\ NoStalePause'
    BY <2>1 DEF SocketsSound, Changed, NoStalePause, Watched, Open, InChild
  <2>5. BatchIsOpen'
    BY <1>1, <2>1 DEF Inv, BatchIsOpen, Changed
  <2>6. OneAtATime' /\ NoLingering' /\ NoFailedCheck'
    BY <1>1, <1>4 DEF Inv, OneAtATime, NoLingering, NoFailedCheck, counts
  <2>7. Placed'
    BY <1>1, <2>1 DEF Inv, Placed, Changed, NoSocket
  <2>8. OneReplyEach'
    BY <1>1, <2>1, ChildAssumption DEF Inv, TypeOK, OneReplyEach
  <2>9. QED
    BY <1>1, <1>2, <2>3, <2>4, <2>5, <2>6, <2>7, <2>8 DEF Inv
<1> QED
  BY <1>3, <1>4 DEF OnButton
-----------------------------------------------------------------------------
(* release_deleted                                                         *)

\* The deleted connections are those that the counts go down by.
LEMMA DeletedCounts ==
    ASSUME Inv
    PROVE  /\ IsFiniteSet(InChild) /\ IsFiniteSet(Players)
           /\ Deleted \subseteq InChild /\ BoundDeleted = Players \cap Deleted
           /\ Cardinality(Deleted) \in Nat /\ Cardinality(BoundDeleted) \in Nat
           /\ count = Cardinality(InChild) /\ boundCount = Cardinality(Players)
           /\ Cardinality(InChild \ Deleted) = count - Cardinality(Deleted)
           /\ Cardinality(InChild \ Deleted) \in Nat
           /\ Cardinality(Players \ Deleted) = boundCount - Cardinality(BoundDeleted)
           /\ Cardinality(Players \ Deleted) \in Nat
           /\ Cardinality(Players \ Deleted) <= Cardinality(Players)
<1>1. IsFiniteSet(InChild) /\ Players \in SUBSET InChild /\ Deleted \in SUBSET InChild
  BY DEF Inv, FewInChild, Players, Deleted
<1>2. IsFiniteSet(Players) /\ IsFiniteSet(Deleted)
  BY <1>1, FS_Subset
<1>3. BoundDeleted = Players \cap Deleted /\ InChild \cap Deleted = Deleted
  BY DEF BoundDeleted, Players, Deleted
<1>4. BoundDeleted \in SUBSET Players
  BY <1>3
<1>5. IsFiniteSet(BoundDeleted)
  BY <1>2, <1>4, FS_Subset
<1>6. Cardinality(Deleted) \in Nat /\ Cardinality(BoundDeleted) \in Nat
  BY <1>2, <1>5, FS_CardinalityType
<1>7. count = Cardinality(InChild) /\ boundCount = Cardinality(Players)
  BY DEF Inv, CountsAreTrue, Players
<1>8. /\ IsFiniteSet(InChild \ Deleted)
      /\ Cardinality(InChild \ Deleted) = Cardinality(InChild) - Cardinality(Deleted)
  BY <1>1, <1>3, FS_Difference
<1>9. /\ IsFiniteSet(Players \ Deleted)
      /\ Cardinality(Players \ Deleted)
           = Cardinality(Players) - Cardinality(BoundDeleted)
  BY <1>2, <1>3, FS_Difference
<1>10. Players \ Deleted \in SUBSET Players
  OBVIOUS
<1>11. Cardinality(Players \ Deleted) <= Cardinality(Players)
  BY <1>2, <1>10, FS_Subset
<1>12. Cardinality(InChild \ Deleted) \in Nat /\ Cardinality(Players \ Deleted) \in Nat
  BY <1>8, <1>9, FS_CardinalityType
<1> QED
  BY <1>1, <1>2, <1>3, <1>6, <1>7, <1>8, <1>9, <1>11, <1>12

\* When the last connection is released, or a player's, the process quits.
LEMMA ReleaseStep ==
    ASSUME Inv, Release
    PROVE  /\ Inv'
           /\ InChild' = InChild \ Deleted /\ Players' = Players \ Deleted
           /\ proc = "run"
           /\ (Players \cap Deleted # {} \/ InChild' = {}) => Closes
           /\ Closes => Players \cap Deleted # {} \/ InChild' = {}
<1> DEFINE On(f, x) == [c \in Conn |-> IF c \in Deleted THEN x ELSE f[c]]
<1>1. /\ place' = On(place, "out") /\ sock' = On(sock, NoSocket)
      /\ stage' = On(stage, "level") /\ inbox' = On(inbox, << >>)
      /\ gone' = On(gone, FALSE) /\ awaiting' = On(awaiting, 0)
      /\ proc = "run" /\ batch = {} /\ batch' = {}
      /\ UNCHANGED <<boundMax, loaded, waiting, polite, idle, batch, cur>>
  BY DEF Release
<1>2. \A d \in Conn :
         /\ d \in Deleted =>
               /\ place'[d] = "out" /\ sock'[d] = NoSocket /\ stage'[d] = "level"
               /\ inbox'[d] = << >> /\ awaiting'[d] = 0
         /\ d \notin Deleted =>
               /\ place'[d] = place[d] /\ sock'[d] = sock[d] /\ stage'[d] = stage[d]
               /\ inbox'[d] = inbox[d] /\ awaiting'[d] = awaiting[d]
  BY <1>1
<1>3. /\ place' \in [Conn -> {"out", "pipe", "child"}]
      /\ stage' \in [Conn -> {"level", "cmd"}] /\ gone' \in [Conn -> BOOLEAN]
      /\ awaiting' \in [Conn -> Nat]
  BY <1>1 DEF Inv, TypeOK
<1>4. sock' \in [Conn -> SocketType(Reply)]
  BY <1>1, NoSocketSound DEF Inv, TypeOK
<1>5. inbox' \in [Conn -> Seq(Command)]
  <2>1. << >> \in Seq(Command)
    OBVIOUS
  <2>2. QED
    BY <1>1, <2>1 DEF Inv, TypeOK
<1> HIDE DEF On
<1>6. /\ count' = count - Cardinality(Deleted)
      /\ boundCount' = boundCount - Cardinality(BoundDeleted)
      /\ browser' = IF browser = "deleted" THEN "out" ELSE browser
      /\ button' = IF browser = "deleted" THEN "none" ELSE button
      /\ left' = IF browser = "deleted" THEN FALSE ELSE left
      /\ proc' = IF FreesNull THEN "crash" ELSE IF Closes THEN "quit" ELSE proc
  BY DEF Release
<1>7. InChild' = InChild \ Deleted /\ Players' = Players \ Deleted
  BY <1>2 DEF InChild, Players
<1>8. /\ count' \in Nat /\ count' = Cardinality(InChild')
      /\ boundCount' \in Nat /\ boundCount' = Cardinality(Players')
      /\ Cardinality(Players') <= Cardinality(Players)
      /\ Cardinality(Players) = boundCount
  BY <1>6, <1>7, DeletedCounts
<1>9. TypeOK'
  BY <1>1, <1>3, <1>4, <1>5, <1>6, <1>8 DEF Inv, TypeOK
<1>10. FewInChild' /\ CountsAreTrue'
  <2>1. FewInChild'
    BY <1>7, DeletedCounts, FS_Difference DEF FewInChild
  <2>2. Cardinality(Players) <= IF loaded THEN boundMax ELSE 0
    BY DEF Inv, CountsAreTrue, Players
  <2>3. Cardinality(Players') <= IF loaded' THEN boundMax' ELSE 0
    <3>1. Cardinality(Players') \in Nat /\ Cardinality(Players) \in Nat
      BY <1>8 DEF Inv, TypeOK
    <3>2. CASE loaded
      BY <1>1, <1>8, <2>2, <3>1, <3>2 DEF Inv, TypeOK
    <3>3. CASE ~loaded
      BY <1>1, <1>8, <2>2, <3>1, <3>3
    <3>4. QED
      BY <3>2, <3>3
  <2>4. QED
    BY <1>8, <2>1, <2>3 DEF CountsAreTrue, Players
<1>11. SocketsSound'
  BY <1>2, NoSocketSound DEF Inv, SocketsSound
<1>12. Placed'
  BY <1>2 DEF Inv, Placed, NoSocket
<1>13. BatchIsOpen' /\ OneAtATime' /\ NoFailedCheck'
  <2>1. BatchIsOpen' /\ NoFailedCheck'
    BY <1>1, <1>6 DEF BatchIsOpen, NoFailedCheck
  <2>2. polite' = polite /\ \A d \in polite : d \in Conn
    BY <1>1, ChildAssumption DEF Inv, TypeOK
  <2>3. \A d \in Conn : awaiting'[d] = 0 \/ awaiting'[d] = awaiting[d]
    BY <1>2
  <2>4. OneAtATime'
    BY <2>2, <2>3 DEF Inv, OneAtATime
  <2>5. QED
    BY <2>1, <2>4
<1>14. OneReplyEach'
  <2> SUFFICES ASSUME NEW d \in polite, place'[d] # "out"
               PROVE  awaiting'[d] = Len(inbox'[d]) + Len(sock'[d].wq)
                                       + (IF place'[d] = "pipe" THEN 1 ELSE 0)
    BY <1>1 DEF OneReplyEach
  <2>1. d \in Conn
    BY ChildAssumption DEF Inv, TypeOK
  <2>2. /\ place'[d] = place[d] /\ sock'[d] = sock[d]
        /\ inbox'[d] = inbox[d] /\ awaiting'[d] = awaiting[d]
    BY <1>2, <2>1
  <2>3. QED
    BY <2>2 DEF Inv, OneReplyEach
<1>15. NoStalePause'
  BY <1>1, <1>2 DEF Inv, NoStalePause, Open, InChild
<1>16. count' = 0 <=> count = Cardinality(Deleted)
  BY <1>6, DeletedCounts DEF Inv, TypeOK
<1>17. NoLingering'
  BY <1>6, <1>16 DEF NoLingering, Closes
<1>18. InChild' = {} <=> count' = 0
  BY <1>8, <1>10, FS_EmptySet DEF FewInChild
<1>19. Closes <=> Players \cap Deleted # {} \/ InChild' = {}
  BY <1>16, <1>18, DeletedCounts DEF Closes
<1> QED
  BY <1>1, <1>7, <1>9, <1>10, <1>11, <1>12, <1>13, <1>14, <1>15, <1>17, <1>19 DEF Inv
-----------------------------------------------------------------------------
(* Theorems                                                                *)

\* The initial state satisfies the invariant.
LEMMA InitInv == Init => Inv
<1> SUFFICES ASSUME Init PROVE Inv
  OBVIOUS
<1> USE DEF Init
<1>1. \A c \in Conn : sock[c] = NoSocket /\ place[c] = "out" /\ inbox[c] = << >>
                        /\ stage[c] = "level" /\ awaiting[c] = 0
  OBVIOUS
<1>2. sock \in [Conn -> SocketType(Reply)]
  BY NoSocketSound
<1>3. << >> \in Seq(Command)
  OBVIOUS
<1>4. inbox \in [Conn -> Seq(Command)]
  BY <1>3
<1>5. TypeOK
  BY <1>2, <1>4 DEF TypeOK
<1>6. SocketsSound /\ Placed /\ BatchIsOpen
  BY <1>1, NoSocketSound DEF SocketsSound, Placed, BatchIsOpen
<1>7. InChild = {} /\ Open = {}
  BY <1>1 DEF InChild, Open
<1>8. FewInChild /\ CountsAreTrue
  <2>1. {c \in InChild : stage[c] = "cmd"} = {}
    BY <1>7
  <2>2. QED
    BY <1>7, <2>1, FS_EmptySet DEF FewInChild, CountsAreTrue
<1>9. OneAtATime /\ OneReplyEach
  <2>1. \A c \in polite : place[c] = "out" /\ awaiting[c] = 0
    BY <1>1, ChildAssumption
  <2>2. OneAtATime
    BY <2>1 DEF OneAtATime
  <2>3. OneReplyEach
    BY <2>1 DEF OneReplyEach
  <2>4. QED
    BY <2>2, <2>3
<1>10. NoLingering /\ NoFailedCheck /\ NoStalePause
  BY <1>7 DEF NoLingering, NoFailedCheck, NoStalePause
<1> QED
  BY <1>5, <1>6, <1>8, <1>9, <1>10 DEF Inv

\* Every step preserves it.
LEMMA NextInv == Inv /\ [Next]_vars => Inv'
<1> SUFFICES ASSUME Inv, [Next]_vars PROVE Inv'
  OBVIOUS
<1>1. CASE UNCHANGED vars
  <2>1. /\ UNCHANGED <<conns, counts, waiting, polite>> /\ batch' \subseteq batch
        /\ UNCHANGED <<ws, idle, batch, cur, proc>>
    BY <1>1 DEF vars, ws
  <2>2. /\ FewInChild' /\ CountsAreTrue' /\ SocketsSound' /\ BatchIsOpen'
        /\ Placed' /\ OneAtATime' /\ OneReplyEach' /\ NoStalePause'
    BY <2>1, SameConns
  <2>3. TypeOK' /\ NoLingering' /\ NoFailedCheck'
    BY <2>1 DEF Inv, TypeOK, NoLingering, NoFailedCheck, conns, counts, ws
  <2>4. QED
    BY <2>2, <2>3 DEF Inv
<1>2. CASE World
  BY <1>2, LoginStep, SendStep, HangUpStep, BrowserStep DEF World, Client
<1>3. CASE \E c \in Conn : Callback(c)
  BY <1>3, OnReadStep, OnErrorStep, OnWriteStep, OnRateStep, OnPipeConnStep
  DEF Callback
<1>4. CASE EpollWait \/ OnPipeBrowser \/ OnIdle \/ OnButton \/ OnLeft \/ Release \/ Exit
  BY <1>4, EpollWaitStep, PipeIdleLeftStep, OnButtonStep, ReleaseStep
<1> QED
  BY <1>1, <1>2, <1>3, <1>4 DEF Next, Loop

\* The inductive invariant of the child: the callbacks of a batch in any order,
\* clients, the clock and the release of what was deleted keep it.
THEOREM Invariant == Spec => []Inv
BY InitInv, NextInv, PTL DEF Spec

\* proto.c:451, 526-529, 556: p_count and p_bound_count are the connections on
\* p_sockets and the players among them, and a level never has more players than
\* its max_conn, for any number of connections.
THEOREM ChildCounts == Spec => []CountsAreTrue
<1>1. Inv => CountsAreTrue
  BY DEF Inv
<1> QED
  BY <1>1, Invariant, PTL

\* A client that waits for each answer gets exactly one per command: what it
\* waits for is in the socket, in the queue or in the pipe, whatever the rate
\* limit, the holds and the partial writes do.
THEOREM ChildReplies == Spec => []OneReplyEach
<1>1. Inv => OneReplyEach
  BY DEF Inv
<1> QED
  BY <1>1, Invariant, PTL

\* proto.c:144-149: nothing is queued after OVER, nothing is read after it, and
\* the socket is certain to be deleted.
THEOREM ChildOver == Spec => []OverIsLast
<1>1. Inv => OverIsLast
  <2> SUFFICES ASSUME Inv, NEW c \in InChild, NEW i \in 1..Len(sock[c].wq),
                      sock[c].wq[i] = "over"
               PROVE  /\ i = Len(sock[c].wq) /\ "R" \notin sock[c].events
                      /\ sock[c].flush \/ sock[c].reg = "deleted"
    BY DEF OverIsLast
  <2>1. LastOver(sock[c])
    BY DEF Inv, SocketsSound, Sound, InChild
  <2>2. QED
    BY <2>1 DEF LastOver
<1> QED
  BY <1>1, Invariant, PTL

\* socket.c:287, 331: a queued message never waits for nothing.
THEOREM ChildWrites == Spec => []NoLostWrite
<1>1. Inv => NoLostWrite
  BY DEF Inv, SocketsSound, Sound, WritesOn, NoLostWrite, Open, InChild
<1> QED
  BY <1>1, Invariant, PTL

\* A socket that is there only to be flushed has something to flush, so that
\* EV_WRITE will delete it.
THEOREM ChildFlushes == Spec => []FlushPending
<1>1. Inv => FlushPending
  BY DEF Inv, SocketsSound, Sound, Flushes, FlushPending, Open, InChild
<1> QED
  BY <1>1, Invariant, PTL

\* proto.c:592: no pause survives START.
THEOREM ChildResumes == Spec => []NoStalePause
<1>1. Inv => NoStalePause
  BY DEF Inv
<1> QED
  BY <1>1, Invariant, PTL

\* proto.c:146: check() in p_report_and_close never fails.
THEOREM ChildChecks == Spec => []NoFailedCheck
<1>1. Inv => NoFailedCheck
  BY DEF Inv
<1> QED
  BY <1>1, Invariant, PTL

\* A child never stays behind with nobody connected (proto.c:533,
\* websocket_data.c:56).
THEOREM ChildEnds == Spec => []NoLingering
<1>1. Inv => NoLingering
  BY DEF Inv
<1> QED
  BY <1>1, Invariant, PTL
-----------------------------------------------------------------------------
(* The child plays the game it promises                                    *)

Size == IF loaded THEN boundMax ELSE 0

\* The game counts its players as the child does.
LEMMA GameCardinality == \A S : Promise!Cardinality(S) = Cardinality(S)
BY DEF Promise!Cardinality, Cardinality

\* The steps of the game that the steps of the child are.
LEMMA GameStutters ==
    ASSUME InChild' = InChild, Players' = Players, Size' = Size,
           proc' = "run" <=> proc = "run"
    PROVE  UNCHANGED Promise!vars
BY DEF Promise!vars, Players, Size

LEMMA GameJoin ==
    ASSUME NEW c \in Conn, c \notin InChild, InChild' = InChild \cup {c},
           Players' = Players, Size' = Size, proc' = proc
    PROVE  Promise!Next
<1>1. Promise!Join(c)
  BY DEF Promise!Join, Players, Size
<1> QED
  BY <1>1 DEF Promise!Next

LEMMA GameEnter ==
    ASSUME NEW c \in Conn, c \in InChild \ Players, InChild' = InChild,
           Players' = Players \cup {c}, proc' = proc,
           \/ Size = 0 /\ Size' \in MaxConns
           \/ Cardinality(Players) < Size /\ Size' = Size
    PROVE  Promise!Next
<1>1. /\ c \in InChild \ {d \in InChild : stage[d] = "cmd"}
      /\ {d \in InChild : stage[d] = "cmd"}'
           = {d \in InChild : stage[d] = "cmd"} \cup {c}
  BY DEF Players
<1>2. \/ /\ (IF loaded THEN boundMax ELSE 0) = 0
         /\ (IF loaded THEN boundMax ELSE 0)' \in MaxConns
      \/ /\ Cardinality({d \in InChild : stage[d] = "cmd"})
               < (IF loaded THEN boundMax ELSE 0)
         /\ (IF loaded THEN boundMax ELSE 0)' = (IF loaded THEN boundMax ELSE 0)
  BY Zenon DEF Players, Size
<1>3. InChild' = InChild /\ (proc # "run")' = (proc # "run")
  OBVIOUS
<1>4. Promise!Enter(c)
  BY <1>1, <1>2, <1>3, GameCardinality, Zenon DEF Promise!Enter
<1> QED
  BY <1>4 DEF Promise!Next

LEMMA GamePart ==
    ASSUME NEW S \in SUBSET InChild, S # {}, InChild' = InChild \ S,
           Players' = Players \ S, Size' = Size, proc = "run",
           proc' # "run" <=> S \cap Players # {} \/ InChild' = {}
    PROVE  Promise!Next
<1>1. Promise!Part(S)
  BY DEF Promise!Part, Players, Size
<1> QED
  BY <1>1 DEF Promise!Next

LEMMA GameEnd ==
    ASSUME InChild' = InChild, Players' = Players, Size' = Size,
           proc = "run", proc' # "run"
    PROVE  Promise!Next
<1>1. Promise!End
  BY DEF Promise!End, Players, Size
<1> QED
  BY <1>1 DEF Promise!Next

\* What leaves the connections and the level alone is no step of the game, or
\* its end.
LEMMA GameMayEnd ==
    ASSUME UNCHANGED <<place, stage, loaded, boundMax>>,
           proc = "run" \/ proc' = proc \/ (proc # "run" /\ proc' # "run")
    PROVE  [Promise!Next]_(Promise!vars)
<1>1. InChild' = InChild /\ Players' = Players /\ Size' = Size
  BY DEF InChild, Players, Size
<1>2. CASE proc = "run" /\ proc' # "run"
  BY <1>1, <1>2, GameEnd
<1>3. CASE proc' = "run" <=> proc = "run"
  BY <1>1, <1>3, GameStutters
<1> QED
  BY <1>2, <1>3

\* Every step of the child is a step of the game or none, unless the level
\* crashes it.
LEMMA ChildStepPlays ==
    Inv /\ [Next]_vars /\ FreeDataGetsData' => [Promise!Next]_(Promise!vars)
<1> SUFFICES ASSUME Inv, [Next]_vars, FreeDataGetsData'
             PROVE  [Promise!Next]_(Promise!vars)
  OBVIOUS
<1>1. CASE UNCHANGED vars
  BY <1>1, GameMayEnd DEF vars, conns, counts
<1>2. CASE \E c \in Conn : Login(c)
  <2>1. InChild' = InChild /\ Players' = Players
    BY <1>2 DEF Login, InChild, Players, Inv, TypeOK
  <2>2. QED
    BY <1>2, <2>1, GameStutters DEF Login, Size, counts
<1>3. CASE \E c \in Conn : HangUp(c) \/ \E m \in Command : Send(c, m)
  BY <1>3, GameMayEnd DEF HangUp, Send, counts
<1>4. CASE Browse \/ Leave \/ \E b \in Buttons : Press(b)
  BY <1>4, GameMayEnd DEF Browse, Leave, Press, conns, counts
<1>5. CASE EpollWait \/ OnPipeBrowser \/ OnLeft
  BY <1>5, GameMayEnd DEF EpollWait, OnPipeBrowser, OnLeft, conns, counts
<1>6. CASE OnIdle \/ Exit
  BY <1>6, GameMayEnd DEF OnIdle, Exit, conns, counts
<1>7. CASE OnButton
  BY <1>7, GameMayEnd DEF OnButton, counts
<1>8. CASE \E c \in Conn : OnError(c) \/ OnWrite(c) \/ OnRate(c)
  BY <1>8, GameMayEnd DEF OnError, OnWrite, OnRate, counts
<1>9. ASSUME NEW c \in Conn, OnPipeConn(c)
      PROVE  Promise!Next
  <2>1. place[c] = "pipe" /\ InChild' = InChild \cup {c} /\ Players' = Players
    BY <1>9, OnPipeConnStep
  <2>2. c \notin InChild /\ Size' = Size /\ proc' = proc
    BY <1>9, <2>1 DEF OnPipeConn, InChild, Size
  <2>3. QED
    BY <2>1, <2>2, GameJoin
<1>10. ASSUME NEW c \in Conn, OnRead(c)
       PROVE  [Promise!Next]_(Promise!vars)
  <2>1. CASE UNCHANGED <<place, stage, counts, proc>>
    BY <2>1, GameMayEnd DEF counts
  <2>2. CASE /\ AcceptLevel(c) /\ RoomLeft /\ c \in InChild \ Players
             /\ InChild' = InChild /\ Players' = Players \cup {c}
    <3>1. /\ boundMax' \in IF loaded THEN {boundMax} ELSE MaxConns
          /\ loaded' = TRUE /\ proc' = proc
      BY <2>2 DEF AcceptLevel
    <3>2. boundCount = Cardinality(Players) /\ boundCount < boundMax
      BY <2>2 DEF RoomLeft, Inv, CountsAreTrue, Players
    <3>3. \/ Size = 0 /\ Size' \in MaxConns
          \/ Cardinality(Players) < Size /\ Size' = Size
      BY <3>1, <3>2 DEF Size
    <3>4. QED
      BY <2>2, <3>1, <3>3, GameEnter
  <2>3. QED
    BY <1>10, <2>1, <2>2, OnReadStep
<1>11. CASE Release
  <2>1. /\ InChild' = InChild \ Deleted /\ Players' = Players \ Deleted
        /\ proc = "run"
        /\ Closes <=> Deleted \cap Players # {} \/ InChild' = {}
    BY <1>11, ReleaseStep
  <2>2. Size' = Size /\ (proc' # "run" <=> Closes)
    BY <1>11, <2>1 DEF Release, Size, FreeDataGetsData
  <2>3. Deleted \in SUBSET InChild
    BY DEF Deleted
  <2>4. CASE Deleted # {}
    BY <2>1, <2>2, <2>3, <2>4, GamePart
  <2>5. CASE Deleted = {}
    BY <2>1, <2>2, <2>5, GameEnd, GameStutters
  <2>6. QED
    BY <2>4, <2>5
<1> QED
  BY <1>1, <1>2, <1>3, <1>4, <1>5, <1>6, <1>7, <1>8, <1>9, <1>10, <1>11
  DEF Next, World, Client, Loop, Callback

LEMMA ChildStartsPlaying == Init => Promise!Init
<1> SUFFICES ASSUME Init PROVE Promise!Init
  OBVIOUS
<1>1. InChild = {} /\ loaded = FALSE /\ proc = "run"
  BY DEF Init, InChild
<1> QED
  BY <1>1 DEF Promise!Init

\* Until a level crashes it, the child plays the game it promises: members join,
\* enter within the size of the level and leave, and the game ends when a player
\* or the last member leaves (proto.c:437, 533).
THEOREM ChildPlays == Spec /\ []FreeDataGetsData => PlaysTheGame
<1>1. Inv /\ [Next]_vars /\ FreeDataGetsData' => [Promise!Next]_(Promise!vars)
  BY ChildStepPlays
<1>2. Init => Promise!Init
  BY ChildStartsPlaying
<1> QED
  BY <1>1, <1>2, Invariant, PTL DEF Spec, PlaysTheGame, Promise!Spec

\* A level whose free_data does not use its argument never crashes the child,
\* which then plays the game for good.
THEOREM ChildPlaysTheGame ==
    ASSUME ~FreeUsesData
    PROVE  Spec => PlaysTheGame
<1>1. Init => FreeDataGetsData
  BY DEF Init, FreeDataGetsData
<1>2. ASSUME Inv, FreeDataGetsData, [Next]_vars
      PROVE  FreeDataGetsData'
  <2>1. CASE UNCHANGED vars
    BY <1>2, <2>1 DEF vars, FreeDataGetsData
  <2>2. CASE World
    BY <1>2, <2>2 DEF World, Client, Login, HangUp, Send, Browse, Leave, Press,
       FreeDataGetsData
  <2>3. ASSUME NEW c \in Conn, OnRead(c)
        PROVE  FreeDataGetsData'
    <3>1. proc' = proc
      BY <1>2, <2>3, OnReadStep DEF AcceptLevel
    <3>2. QED
      BY <1>2, <3>1 DEF FreeDataGetsData
  <2>4. CASE \E c \in Conn : OnError(c) \/ OnWrite(c) \/ OnRate(c) \/ OnPipeConn(c)
    BY <1>2, <2>4 DEF OnError, OnWrite, OnRate, OnPipeConn, FreeDataGetsData
  <2>5. CASE EpollWait \/ OnPipeBrowser \/ OnIdle \/ OnButton \/ OnLeft \/ Exit
    BY <1>2, <2>5 DEF EpollWait, OnPipeBrowser, OnIdle, OnButton, OnLeft, Exit,
       FreeDataGetsData
  <2>6. CASE Release
    BY <1>2, <2>6 DEF Release, FreesNull, FreeDataGetsData
  <2>7. QED
    BY <1>2, <2>1, <2>2, <2>3, <2>4, <2>5, <2>6 DEF Next, Loop, Callback
<1> QED
  BY <1>1, <1>2, Invariant, ChildPlays, PTL DEF Spec
=============================================================================
