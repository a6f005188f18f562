---------------------------- MODULE SocketProofs ----------------------------
(***************************************************************************)
(* What the operations of module Socket do to a socket, for any messages   *)
(* and any length of the queue.                                            *)
(***************************************************************************)
EXTENDS Socket, TLAPS

Elements(q) == {q[i] : i \in DOMAIN q}

\* Queueing at the end, taking from the front and joining queues adds and
\* loses no other elements.
LEMMA AppendElements ==
    ASSUME NEW S, NEW q \in Seq(S), NEW x \in S
    PROVE  /\ Append(q, x) \in Seq(S)
           /\ Elements(Append(q, x)) \subseteq Elements(q) \cup {x}
BY DEF Elements

LEMMA SubSeqElements ==
    ASSUME NEW S, NEW q \in Seq(S), NEW m \in Nat \ {0}, NEW n \in 0..Len(q)
    PROVE  /\ SubSeq(q, m, n) \in Seq(S)
           /\ Elements(SubSeq(q, m, n)) \subseteq Elements(q)
<1>1. SubSeq(q, m, n) \in Seq(S)
  OBVIOUS
<1>2. ASSUME NEW i \in DOMAIN SubSeq(q, m, n)
      PROVE  SubSeq(q, m, n)[i] \in Elements(q)
  <2>1. i + m - 1 \in DOMAIN q /\ SubSeq(q, m, n)[i] = q[i + m - 1]
    OBVIOUS
  <2>2. QED
    BY <2>1 DEF Elements
<1> QED
  BY <1>1, <1>2 DEF Elements

LEMMA ConcatElements ==
    ASSUME NEW S, NEW q \in Seq(S), NEW r \in Seq(S)
    PROVE  /\ q \o r \in Seq(S)
           /\ Elements(q \o r) \subseteq Elements(q) \cup Elements(r)
<1>1. q \o r \in Seq(S)
  OBVIOUS
<1>2. ASSUME NEW i \in DOMAIN (q \o r)
      PROVE  (q \o r)[i] \in Elements(q) \cup Elements(r)
  <2>1. CASE i <= Len(q)
    BY <2>1 DEF Elements
  <2>2. CASE i > Len(q)
    <3>1. i - Len(q) \in DOMAIN r /\ (q \o r)[i] = r[i - Len(q)]
      BY <2>2
    <3>2. QED
      BY <3>1 DEF Elements
  <2>3. QED
    BY <2>1, <2>2
<1> QED
  BY <1>1, <1>2 DEF Elements

\* A new socket is open and empty.
LEMMA NewSocketLemma ==
    ASSUME NEW Msg, NEW limited \in BOOLEAN
    PROVE  /\ NewSocket(limited) \in SocketType(Msg)
           /\ NewSocket(limited).reg = "open"
           /\ NewSocket(limited).wq = << >>
BY DEF NewSocket, SocketType

\* Changing what epoll is asked for leaves registration and queue alone.
LEMMA EventChangeLemma ==
    ASSUME NEW Msg, NEW s \in SocketType(Msg), NEW e \in SUBSET {"R", "W"}
    PROVE  /\ EventChange(s, e) \in SocketType(Msg)
           /\ EventChange(s, e).reg = s.reg
           /\ EventChange(s, e).wq = s.wq
BY DEF EventChange, SocketType

\* socket_del only ever turns an open socket into a deleted one and keeps the
\* queue.
LEMMA SocketDelLemma ==
    ASSUME NEW Msg, NEW s \in SocketType(Msg)
    PROVE  /\ SocketDel(s) \in SocketType(Msg)
           /\ SocketDel(s).reg = IF s.reg = "open" THEN "deleted" ELSE s.reg
           /\ SocketDel(s).wq = s.wq
BY DEF SocketDel, SocketType

\* socket_write appends, except to a dead socket, which it does not change.
LEMMA SocketWriteLemma ==
    ASSUME NEW Msg, NEW s \in SocketType(Msg), NEW m \in Msg
    PROVE  /\ SocketWrite(s, m) \in SocketType(Msg)
           /\ SocketWrite(s, m).reg = s.reg
           /\ SocketWrite(s, m).wq = IF s.reg = "dead" THEN s.wq ELSE Append(s.wq, m)
<1> DEFINE e == EventChange(s, s.events \cup {"W"})
<1>1. e \in SocketType(Msg) /\ e.reg = s.reg /\ e.wq = s.wq
  <2>1. s.events \cup {"W"} \in SUBSET {"R", "W"}
    BY DEF SocketType
  <2>2. QED
    BY <2>1, EventChangeLemma
<1>2. Append(e.wq, m) \in Seq(Msg)
  <2>1. e.wq \in Seq(Msg)
    BY <1>1 DEF SocketType
  <2>2. QED
    BY <2>1
<1>3. CASE s.reg = "dead"
  BY <1>3 DEF SocketWrite
<1>4. CASE s.reg # "dead"
  <2> HIDE DEF e
  <2>1. SocketWrite(s, m) = [e EXCEPT !.wq = Append(@, m)]
    BY <1>4 DEF SocketWrite, e
  <2>2. QED
    BY <1>1, <1>2, <1>4, <2>1 DEF SocketType
<1>5. QED
  BY <1>3, <1>4

\* However a round of socket_process_wqueue ends, the messages it sent leave
\* the front of the queue and the others stay in order; a socket is at most
\* deleted by it.
LEMMA SocketProcessWqueueLemma ==
    ASSUME NEW Msg, NEW s \in SocketType(Msg),
           NEW stop \in WriteStop, NEW n \in 0..Len(s.wq)
    PROVE  /\ SocketProcessWqueue(s, n, stop) \in SocketType(Msg)
           /\ SocketProcessWqueue(s, n, stop).wq = SubSeq(s.wq, n + 1, Len(s.wq))
           /\ SocketProcessWqueue(s, n, stop).reg \in {s.reg, "deleted"}
           /\ s.reg = "dead" => SocketProcessWqueue(s, n, stop).reg = "dead"
<1> DEFINE rest == SubSeq(s.wq, n + 1, Len(s.wq))
           ok == s.okay /\ (n = 0 \/ ~s.limited)
           sent == [s EXCEPT !.wq = rest, !.okay = ok]
<1>1. s.wq \in Seq(Msg) /\ s.okay \in BOOLEAN /\ s.events \subseteq {"R", "W"}
  BY DEF SocketType
<1>2. rest \in Seq(Msg)
  BY <1>1
<1>3. ok \in BOOLEAN
  BY <1>1
<1>4. /\ sent \in SocketType(Msg) /\ sent.wq = rest /\ sent.reg = s.reg
      /\ sent.events = s.events
  <2> HIDE DEF rest, ok
  <2>1. QED
    BY <1>2, <1>3 DEF SocketType
<1> DEFINE silent == EventChange(sent, sent.events \ {"W"})
<1>5. silent \in SocketType(Msg) /\ silent.wq = rest /\ silent.reg = s.reg
  <2> HIDE DEF sent
  <2>1. sent.events \ {"W"} \in SUBSET {"R", "W"}
    BY <1>1, <1>4
  <2>2. QED
    BY <1>4, <2>1, EventChangeLemma
<1>6. /\ Throttle(sent) \in SocketType(Msg) /\ Throttle(sent).wq = rest
      /\ Throttle(sent).reg = s.reg
  <2>1. Throttle(sent) = [silent EXCEPT !.timer = TRUE]
    BY DEF Throttle
  <2> HIDE DEF silent, rest
  <2>2. QED
    BY <1>5, <2>1 DEF SocketType
<1>7. /\ QueueEmpty(sent) \in SocketType(Msg) /\ QueueEmpty(sent).wq = rest
      /\ QueueEmpty(sent).reg \in {s.reg, "deleted"}
      /\ s.reg = "dead" => QueueEmpty(sent).reg = "dead"
  <2>1. QueueEmpty(sent) = IF sent.flush
                           THEN [SocketDel(silent) EXCEPT !.flush = FALSE]
                           ELSE silent
    BY DEF QueueEmpty
  <2> HIDE DEF silent, rest, sent
  <2>2. /\ SocketDel(silent) \in SocketType(Msg) /\ SocketDel(silent).wq = rest
        /\ SocketDel(silent).reg = IF s.reg = "open" THEN "deleted" ELSE s.reg
    BY <1>5, SocketDelLemma
  <2> DEFINE d == SocketDel(silent)
             f == [d EXCEPT !.flush = FALSE]
  <2>3. f \in SocketType(Msg) /\ f.wq = rest /\ f.reg = d.reg
    <3> HIDE DEF d
    <3>1. d \in SocketType(Msg) /\ d.wq = rest
      BY <2>2 DEF d
    <3>2. QED
      BY <3>1 DEF SocketType
  <2> HIDE DEF f
  <2>4. QueueEmpty(sent) \in {f, silent}
    BY <2>1 DEF f
  <2>5. QED
    BY <1>5, <2>2, <2>3, <2>4
<1>8. SocketProcessWqueue(s, n, stop) \in {sent, Throttle(sent), QueueEmpty(sent)}
  BY DEF SocketProcessWqueue, WriteStop
<1> HIDE DEF rest, sent
<1>9. QED
  BY <1>4, <1>6, <1>7, <1>8 DEF rest
=============================================================================
