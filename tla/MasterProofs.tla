---------------------------- MODULE MasterProofs ----------------------------
(***************************************************************************)
(* Proofs about module Master: for any number of logins, connections,      *)
(* children and reloads and any length of the pipes' queues, a login has   *)
(* one child, connections reach the child of their login, no freed pipe is *)
(* used, and each open fd has one owner.                                   *)
(***************************************************************************)
EXTENDS Master, SocketProofs, FiniteSetTheorems

\* Some record has child k.
Known(k) == \E l \in Login : pid[l] = k

\* A pipe has one reference from the event loop and one from its record.
RefsCounted ==
    \A k \in Kid :
        refs[k] = (IF pipe[k].reg = "dead" THEN 0 ELSE 1)
                    + (IF Known(k) THEN 1 ELSE 0)

FreedIsEmpty == \A k \in Kid : refs[k] = 0 => pipe[k].wq = << >>

EndedIsEmpty == \A k \in Kid : kid[k] # "alive" => channel[k] = << >>

\* Only what is registered, or was during this batch, has events.
BatchIsOpen ==
    /\ \A c \in Conn : <<c, "conn">> \in batch => reg[c] = "open"
    /\ \A k \in Kid :
          <<k, "E">> \in batch \/ <<k, "W">> \in batch => pipe[k].reg # "dead"

\* A connection that was handed over is not the master's any more.
PassedOn ==
    \A c \in Conn :
        (served[c] # NoLogin \/ \E k \in Kid : c \in OnItsWay(k)) =>
            reg[c] # "open" /\ fd[c] # "none"

OpenHasFd == \A c \in Conn : reg[c] # "none" => fd[c] # "none"

Inv == /\ TypeOK /\ RefsCounted /\ FreedIsEmpty /\ EndedIsEmpty /\ BatchIsOpen
       /\ OpenHasFd /\ PassedOn /\ ChildIsCurrent /\ OneChildPerLogin /\ RightChild
-----------------------------------------------------------------------------
(* Steps of the clients, the children and the administrator                *)

LEMMA AcceptStep ==
    ASSUME Inv, NEW c \in Conn, Accept(c)
    PROVE  Inv'
<1> USE DEF Inv, Accept, db, kids, pipes, hist
<1>1. TypeOK'
  BY DEF TypeOK
<1>2. BatchIsOpen'
  BY DEF BatchIsOpen, TypeOK
<1>3. PassedOn' /\ OpenHasFd'
  BY DEF PassedOn, OpenHasFd, OnItsWay, InChannel, Queued, TypeOK
<1>4. /\ RefsCounted' /\ FreedIsEmpty' /\ EndedIsEmpty'
      /\ ChildIsCurrent' /\ OneChildPerLogin' /\ RightChild'
  BY DEF RefsCounted, Known, FreedIsEmpty, EndedIsEmpty, ChildIsCurrent,
         OneChildPerLogin, RightChild, Records, Children, OnItsWay,
         InChannel, Queued
<1> QED
  BY <1>1, <1>2, <1>3, <1>4

LEMMA ReceiveStep ==
    ASSUME Inv, NEW k \in Kid, Receive(k)
    PROVE  Inv'
<1> USE DEF Inv, Receive, db, pipes, conns
<1>1. channel[k] \in Seq(Conn) /\ channel[k] # << >>
  BY DEF TypeOK
<1>2. /\ Head(channel[k]) \in InChannel(k)
      /\ Tail(channel[k]) \in Seq(Conn)
      /\ {Tail(channel[k])[i] : i \in DOMAIN Tail(channel[k])} \subseteq InChannel(k)
  BY <1>1 DEF InChannel
<1>3. Head(channel[k]) \in Conn /\ kidLogin[k] \in Login \cup {NoLogin}
  BY <1>1 DEF TypeOK
<1>4. \A j \in Kid : InChannel(j)' \subseteq InChannel(j)
  BY <1>2 DEF InChannel, TypeOK
<1>5. \A j \in Kid : Queued(j)' = Queued(j)
  BY DEF Queued
<1>6. \A j \in Kid : OnItsWay(j)' \subseteq OnItsWay(j)
  BY <1>4, <1>5 DEF OnItsWay
<1>7. TypeOK'
  BY <1>2, <1>3 DEF TypeOK
<1>8. EndedIsEmpty'
  BY DEF EndedIsEmpty, TypeOK
<1>9. Head(channel[k]) \in OnItsWay(k)
  BY <1>2 DEF OnItsWay
<1>10. PassedOn'
  BY <1>3, <1>6, <1>9 DEF PassedOn, TypeOK
<1>11. RightChild'
  BY <1>3, <1>6, <1>9 DEF RightChild, TypeOK
<1>12. /\ RefsCounted' /\ FreedIsEmpty' /\ BatchIsOpen'
       /\ OpenHasFd' /\ ChildIsCurrent' /\ OneChildPerLogin'
  BY DEF RefsCounted, Known, FreedIsEmpty, BatchIsOpen, OpenHasFd, ChildIsCurrent,
         OneChildPerLogin, Records, Children
<1> QED
  BY <1>7, <1>8, <1>10, <1>11, <1>12

LEMMA CloseKidStep ==
    ASSUME Inv, NEW k \in Kid, CloseKid(k)
    PROVE  Inv'
<1> USE DEF Inv, CloseKid, db, pipes, conns, hist
<1>1. \A j \in Kid : OnItsWay(j)' \subseteq OnItsWay(j)
  BY DEF OnItsWay, InChannel, Queued, TypeOK
<1>2. TypeOK'
  BY DEF TypeOK
<1>3. EndedIsEmpty'
  BY DEF EndedIsEmpty, TypeOK
<1>4. PassedOn' /\ RightChild'
  BY <1>1 DEF PassedOn, RightChild
<1>5. ChildIsCurrent' /\ OneChildPerLogin'
  BY DEF ChildIsCurrent, OneChildPerLogin, Records, Children, TypeOK
<1>6. RefsCounted' /\ FreedIsEmpty' /\ BatchIsOpen' /\ OpenHasFd'
  BY DEF RefsCounted, Known, FreedIsEmpty, BatchIsOpen, OpenHasFd
<1> QED
  BY <1>2, <1>3, <1>4, <1>5, <1>6

LEMMA EndKidStep ==
    ASSUME Inv, NEW k \in Kid, EndKid(k)
    PROVE  Inv'
<1> USE DEF Inv, EndKid, db, pipes, conns, hist
<1>1. TypeOK'
  BY DEF TypeOK
<1>2. EndedIsEmpty'
  BY DEF EndedIsEmpty, TypeOK
<1>3. ChildIsCurrent' /\ OneChildPerLogin'
  BY DEF ChildIsCurrent, OneChildPerLogin, Records, Children, TypeOK
<1>4. /\ RefsCounted' /\ FreedIsEmpty' /\ BatchIsOpen' /\ OpenHasFd'
      /\ PassedOn' /\ RightChild'
  BY DEF RefsCounted, Known, FreedIsEmpty, BatchIsOpen, OpenHasFd, PassedOn, RightChild,
         OnItsWay, InChannel, Queued
<1> QED
  BY <1>1, <1>2, <1>3, <1>4

LEMMA EditStep ==
    ASSUME Inv, Edit
    PROVE  Inv'
<1> USE DEF Inv, Edit, db, kids, pipes, conns, hist
<1>1. TypeOK'
  BY MasterAssumption DEF TypeOK
<1>2. /\ RefsCounted' /\ FreedIsEmpty' /\ EndedIsEmpty' /\ BatchIsOpen'
      /\ OpenHasFd' /\ PassedOn' /\ RightChild' /\ ChildIsCurrent'
      /\ OneChildPerLogin'
  BY DEF RefsCounted, Known, FreedIsEmpty, EndedIsEmpty, BatchIsOpen, OpenHasFd, PassedOn,
         RightChild, OnItsWay, InChannel, Queued, ChildIsCurrent,
         OneChildPerLogin, Records, Children
<1> QED
  BY <1>1, <1>2
-----------------------------------------------------------------------------
(* Steps of the loop                                                       *)

\* A connection that still has events has not been handed over.
LEMMA NotPassedOn ==
    ASSUME Inv, NEW c \in Conn, <<c, "conn">> \in batch
    PROVE  /\ reg[c] = "open" /\ served[c] = NoLogin
           /\ \A k \in Kid : c \notin OnItsWay(k)
BY DEF Inv, BatchIsOpen, PassedOn

LEMMA EpollWaitStep ==
    ASSUME Inv, EpollWait
    PROVE  Inv'
<1> USE DEF Inv, EpollWait, db, kids, pipes, conns, hist
<1>1. TypeOK'
  BY DEF TypeOK, Pending, Possible, Piped, Waiting
<1>2. BatchIsOpen'
  BY DEF BatchIsOpen, Pending, Possible, Piped, Waiting
<1>3. /\ RefsCounted' /\ FreedIsEmpty' /\ EndedIsEmpty'
      /\ OpenHasFd' /\ PassedOn' /\ RightChild' /\ ChildIsCurrent'
      /\ OneChildPerLogin'
  BY DEF RefsCounted, Known, FreedIsEmpty, EndedIsEmpty, OpenHasFd, PassedOn,
         RightChild, OnItsWay, InChannel, Queued, ChildIsCurrent,
         OneChildPerLogin, Records, Children
<1> QED
  BY <1>1, <1>2, <1>3

LEMMA OnConnEndStep ==
    ASSUME Inv, NEW c \in Conn, OnConnEnd(c)
    PROVE  Inv'
<1> USE DEF Inv, OnConnEnd, Take, db, kids, pipes, hist
<1>1. TypeOK'
  BY DEF TypeOK
<1>2. BatchIsOpen'
  BY DEF BatchIsOpen, TypeOK
<1>3. PassedOn' /\ OpenHasFd'
  <2>1. reg[c] = "open" /\ reg' = [reg EXCEPT ![c] = "deleted"]
    BY NotPassedOn
  <2>2. \A k \in Kid : OnItsWay(k)' = OnItsWay(k)
    BY DEF OnItsWay, InChannel, Queued
  <2>3. QED
    BY <2>1, <2>2 DEF PassedOn, OpenHasFd, TypeOK
<1>4. /\ RefsCounted' /\ FreedIsEmpty' /\ EndedIsEmpty'
      /\ RightChild' /\ ChildIsCurrent' /\ OneChildPerLogin'
  BY DEF RefsCounted, Known, FreedIsEmpty, EndedIsEmpty,
         RightChild, OnItsWay, InChannel, Queued, ChildIsCurrent,
         OneChildPerLogin, Records, Children
<1> QED
  BY <1>1, <1>2, <1>3, <1>4

\* A connection is refused, or gets its login and waits for its response.
LEMMA AnswerStep ==
    ASSUME Inv, NEW c \in Conn, NEW l \in Login, Take(<<c, "conn">>),
           wants' = [wants EXCEPT ![c] = l],
           \E s \in {"headers", "over"} : stage' = [stage EXCEPT ![c] = s],
           UNCHANGED <<file, db, kids, pipes, reg, fd, managed, hist, signals,
                       reloads>>
    PROVE  Inv'
<1> USE DEF Inv, Take, db, kids, pipes, hist
<1>1. TypeOK'
  BY DEF TypeOK
<1>2. BatchIsOpen'
  BY DEF BatchIsOpen
<1>3. \A k \in Kid : OnItsWay(k)' = OnItsWay(k)
  BY DEF OnItsWay, InChannel, Queued
<1>4. RightChild'
  BY <1>3, NotPassedOn DEF RightChild, TypeOK
<1>5. PassedOn' /\ OpenHasFd'
  BY <1>3 DEF PassedOn, OpenHasFd
<1>6. /\ RefsCounted' /\ FreedIsEmpty' /\ EndedIsEmpty'
      /\ ChildIsCurrent' /\ OneChildPerLogin'
  BY DEF RefsCounted, Known, FreedIsEmpty, EndedIsEmpty, ChildIsCurrent,
         OneChildPerLogin, Records, Children
<1> QED
  BY <1>1, <1>2, <1>4, <1>5, <1>6
-----------------------------------------------------------------------------
(* Handing a connection over                                               *)

\* Connection c asks for l and ipc_send_socket is called.
HandsOver(c, l) ==
    /\ Take(<<c, "conn">>)
    /\ wants' = [wants EXCEPT ![c] = l]
    /\ HandOver(c, l)

\* What holds whether or not the connection gets anywhere, as long as it only
\* joins those on their way to a child of its login.
LEMMA HandOverCommon ==
    ASSUME Inv, NEW c \in Conn, NEW l \in Login \cup {NoLogin}, HandsOver(c, l),
           pipe' \in [Kid -> SocketType(Conn)], refs' \in [Kid -> 0..2],
           pid' \in [Login -> Kid \cup {NoKid}],
           kid' \in [Kid -> {"none", "alive", "closing", "zombie"}],
           kidLogin' \in [Kid -> Login \cup {NoLogin}],
           managed' \in [Conn -> BOOLEAN], swallowed' \subseteq Conn,
           \A k \in Kid : pipe[k].reg # "dead" => pipe'[k].reg # "dead",
           \A k \in Kid : /\ OnItsWay(k)' \subseteq OnItsWay(k) \cup {c}
                          /\ c \in OnItsWay(k)' => kidLogin'[k] = l
                          /\ OnItsWay(k) # {} => kidLogin'[k] = kidLogin[k]
    PROVE  /\ TypeOK' /\ BatchIsOpen' /\ OpenHasFd' /\ PassedOn' /\ RightChild'
<1> USE DEF Inv, HandsOver, HandOver, Take
<1>1. reg[c] = "open" /\ served[c] = NoLogin /\ \A k \in Kid : c \notin OnItsWay(k)
  BY NotPassedOn
<1>2. TypeOK'
  BY DEF TypeOK
<1>3. BatchIsOpen'
  BY DEF BatchIsOpen, TypeOK
<1>4. OpenHasFd'
  BY <1>1 DEF OpenHasFd, TypeOK
<1>5. PassedOn'
  BY <1>1 DEF PassedOn, OpenHasFd, TypeOK
<1>6. RightChild'
  <2>1. \A d \in Conn : served'[d] \in {NoLogin, wants'[d]}
    BY <1>1 DEF RightChild, TypeOK
  <2>2. ASSUME NEW k \in Kid, NEW d \in OnItsWay(k)'
        PROVE  wants'[d] = kidLogin'[k]
    <3>1. CASE d = c
      BY <2>2, <3>1 DEF TypeOK
    <3>2. CASE d # c
      <4>1. d \in OnItsWay(k) /\ wants[d] = kidLogin[k]
        BY <2>2, <3>2 DEF RightChild
      <4>2. QED
        BY <3>2, <4>1 DEF TypeOK
    <3>3. QED
      BY <3>1, <3>2
  <2>3. QED
    BY <2>1, <2>2 DEF RightChild
<1> QED
  BY <1>2, <1>3, <1>4, <1>5, <1>6

LEMMA HandOverExistingStep ==
    ASSUME Inv, NEW c \in Conn, NEW l \in users, HandsOver(c, l), pid[l] # NoKid,
           SendFd(c, pid[l], pipe[pid[l]]) \/ SendFails(pid[l], pipe[pid[l]]),
           UNCHANGED <<pid, kid, kidLogin, refs>>
    PROVE  Inv'
<1> DEFINE k == pid[l]
           p == pipe[k]
<1>1. l \in Login /\ k \in Kid /\ p \in SocketType(Conn)
  BY DEF Inv, TypeOK
<1>2. kidLogin[k] = l
  BY <1>1 DEF Inv, ChildIsCurrent
<1>3. PICK q : /\ pipe' = [pipe EXCEPT ![k] = q]
               /\ q \in SocketType(Conn) /\ q.reg = p.reg
               /\ q.wq = p.wq \/ q.wq = Append(p.wq, c)
  <2>1. SocketWrite(p, c) \in SocketType(Conn) /\ SocketWrite(p, c).reg = p.reg
        /\ SocketWrite(p, c).wq = IF p.reg = "dead" THEN p.wq ELSE Append(p.wq, c)
    BY <1>1, SocketWriteLemma
  <2>2. CASE SendFd(c, k, p)
    <3> WITNESS SocketWrite(p, c)
    <3> QED
      BY <2>1, <2>2 DEF SendFd
  <2>3. CASE SendFails(k, p)
    <3> WITNESS p
    <3> QED
      BY <1>1, <2>3 DEF SendFails
  <2>4. QED
    BY <2>2, <2>3
<1>4. p.wq \in Seq(Conn)
  <2> HIDE DEF p
  <2> QED
    BY <1>1 DEF SocketType
<1>5. Queued(k)' \subseteq Queued(k) \cup {c}
  <2>1. Elements(q.wq) \subseteq Elements(p.wq) \cup {c}
    BY <1>3, <1>4, AppendElements
  <2>2. pipe'[k] = q
    BY <1>1, <1>3 DEF Inv, TypeOK
  <2> QED
    BY <2>1, <2>2 DEF Queued, Elements
<1>6. \A j \in Kid : j # k => Queued(j)' = Queued(j)
  BY <1>3 DEF Queued, Inv, TypeOK
<1>7. channel' = channel
  BY DEF HandsOver, HandOver
<1>8. \A j \in Kid : InChannel(j)' = InChannel(j)
  BY <1>7 DEF InChannel
<1>9. \A j \in Kid : OnItsWay(j)' \subseteq OnItsWay(j) \cup {c}
  BY <1>5, <1>6, <1>8 DEF OnItsWay
<1>10. \A j \in Kid : c \notin OnItsWay(j)
  BY NotPassedOn DEF HandsOver, Take
<1>11. \A j \in Kid : c \in OnItsWay(j)' => j = k
  BY <1>6, <1>8, <1>10 DEF OnItsWay
<1>12. \A j \in Kid : pipe'[j].reg = pipe[j].reg
  BY <1>3 DEF Inv, TypeOK
<1>13. /\ pipe' \in [Kid -> SocketType(Conn)]
       /\ managed' \in [Conn -> BOOLEAN] /\ swallowed' \subseteq Conn
  BY <1>1, <1>3 DEF SendFd, SendFails, Inv, TypeOK
<1>14. TypeOK' /\ BatchIsOpen' /\ OpenHasFd' /\ PassedOn' /\ RightChild'
  <2>1. /\ refs' \in [Kid -> 0..2] /\ pid' \in [Login -> Kid \cup {NoKid}]
        /\ kid' \in [Kid -> {"none", "alive", "closing", "zombie"}]
        /\ kidLogin' \in [Kid -> Login \cup {NoLogin}]
    BY DEF Inv, TypeOK
  <2>2. QED
    BY <1>1, <1>2, <1>9, <1>11, <1>12, <1>13, <2>1, HandOverCommon
<1>15. RefsCounted'
  BY <1>12 DEF Inv, RefsCounted, Known
<1>16. FreedIsEmpty'
  <2>1. refs[k] # 0
    BY <1>1 DEF Inv, RefsCounted, Known, TypeOK
  <2>2. \A j \in Kid : j # k => pipe'[j] = pipe[j]
    BY <1>3 DEF Inv, TypeOK
  <2>3. QED
    BY <2>1, <2>2 DEF Inv, FreedIsEmpty
<1>17. EndedIsEmpty' /\ ChildIsCurrent' /\ OneChildPerLogin'
  BY <1>7 DEF HandsOver, HandOver, Inv, EndedIsEmpty, ChildIsCurrent, OneChildPerLogin,
         Records, Children
<1> QED
  BY <1>14, <1>15, <1>16, <1>17 DEF Inv

\* A child that was not started, or was reaped, has left nothing behind.
LEMMA UnstartedIsEmpty ==
    ASSUME Inv, NEW k \in Unstarted
    PROVE  /\ k \in Kid /\ ~Known(k) /\ pipe[k].reg = "dead"
           /\ OnItsWay(k) = {}
<1>1. k \in Kid /\ kid[k] = "none" /\ refs[k] = 0
  BY DEF Unstarted
<1>2. ~Known(k) /\ pipe[k].reg = "dead"
  BY <1>1 DEF Inv, RefsCounted
<1>3. pipe[k].wq = << >> /\ channel[k] = << >>
  BY <1>1 DEF Inv, FreedIsEmpty, EndedIsEmpty
<1>4. QED
  BY <1>1, <1>2, <1>3 DEF OnItsWay, Queued, InChannel

LEMMA HandOverNewStep ==
    ASSUME Inv, NEW c \in Conn, NEW l \in users, HandsOver(c, l), pid[l] = NoKid,
           NEW k \in Unstarted, StartProcess(l, k), SendFd(c, k, NewSocket(FALSE))
    PROVE  Inv'
<1> DEFINE q == SocketWrite(NewSocket(FALSE), c)
<1>1. /\ l \in Login /\ l \in Records /\ k \in Kid /\ kid[k] = "none"
      /\ ~Known(k) /\ pipe[k].reg = "dead" /\ OnItsWay(k) = {}
  BY UnstartedIsEmpty DEF Inv, TypeOK, Records, Unstarted
<1>2. q \in SocketType(Conn) /\ q.reg = "open" /\ q.wq = Append(<< >>, c)
  <2>1. /\ NewSocket(FALSE) \in SocketType(Conn) /\ NewSocket(FALSE).reg = "open"
        /\ NewSocket(FALSE).wq = << >>
    BY NewSocketLemma
  <2> HIDE DEF q
  <2>2. QED
    BY <2>1, SocketWriteLemma DEF q
<1>3. pipe' = [pipe EXCEPT ![k] = q]
  BY DEF SendFd
<1> HIDE DEF q
<1>4. Queued(k)' = {c}
  <2>1. Elements(q.wq) = {c}
    BY <1>2 DEF Elements
  <2>2. pipe'[k] = q
    BY <1>1, <1>3 DEF Inv, TypeOK
  <2>3. QED
    BY <2>1, <2>2 DEF Queued, Elements
<1>5. \A j \in Kid : j # k => pipe'[j] = pipe[j] /\ Queued(j)' = Queued(j)
  BY <1>3 DEF Queued, Inv, TypeOK
<1>6. channel' = channel /\ users' = users /\ inactive' = inactive
  BY DEF HandsOver, HandOver
<1>7. \A j \in Kid : InChannel(j)' = InChannel(j)
  BY <1>6 DEF InChannel
<1>8. \A j \in Kid : c \notin OnItsWay(j)
  BY NotPassedOn DEF HandsOver, Take
<1>9. /\ \A j \in Kid : OnItsWay(j)' \subseteq OnItsWay(j) \cup {c}
      /\ \A j \in Kid : c \in OnItsWay(j)' => j = k
  BY <1>4, <1>5, <1>7, <1>8 DEF OnItsWay
<1>10. /\ kid' = [kid EXCEPT ![k] = "alive"] /\ kidLogin' = [kidLogin EXCEPT ![k] = l]
       /\ pid' = [pid EXCEPT ![l] = k] /\ refs' = [refs EXCEPT ![k] = 2]
  BY DEF StartProcess
<1>11. pipe'[k].reg = "open" /\ pipe' \in [Kid -> SocketType(Conn)]
  BY <1>1, <1>2, <1>3 DEF Inv, TypeOK
<1>12. TypeOK' /\ BatchIsOpen' /\ OpenHasFd' /\ PassedOn' /\ RightChild'
  <2>1. /\ refs' \in [Kid -> 0..2] /\ pid' \in [Login -> Kid \cup {NoKid}]
        /\ kid' \in [Kid -> {"none", "alive", "closing", "zombie"}]
        /\ kidLogin' \in [Kid -> Login \cup {NoLogin}]
    BY <1>1, <1>10 DEF Inv, TypeOK
  <2>2. managed' \in [Conn -> BOOLEAN] /\ swallowed' \subseteq Conn
    BY DEF SendFd, Inv, TypeOK
  <2>3. \A j \in Kid : pipe[j].reg # "dead" => pipe'[j].reg # "dead"
    BY <1>1, <1>5
  <2>4. \A j \in Kid : /\ c \in OnItsWay(j)' => kidLogin'[j] = l
                       /\ OnItsWay(j) # {} => kidLogin'[j] = kidLogin[j]
    BY <1>1, <1>9, <1>10 DEF Inv, TypeOK
  <2>5. QED
    BY <1>1, <1>9, <1>11, <2>1, <2>2, <2>3, <2>4, HandOverCommon
<1>13. RefsCounted'
  <2>1. \A j \in Kid : j # k => Known(j)' = Known(j)
    BY <1>1, <1>10, MasterAssumption DEF Known, Inv, TypeOK
  <2>2. Known(k)'
    BY <1>1, <1>10 DEF Known, Inv, TypeOK
  <2>3. QED
    BY <1>1, <1>5, <1>10, <1>11, <2>1, <2>2 DEF Inv, RefsCounted, TypeOK
<1>14. FreedIsEmpty' /\ EndedIsEmpty'
  BY <1>1, <1>5, <1>6, <1>10 DEF Inv, FreedIsEmpty, EndedIsEmpty, TypeOK
<1>15. ChildIsCurrent' /\ OneChildPerLogin'
  BY <1>1, <1>6, <1>10, MasterAssumption
  DEF Inv, ChildIsCurrent, OneChildPerLogin, Records, Children, Known, TypeOK
<1> QED
  BY <1>12, <1>13, <1>14, <1>15 DEF Inv

\* No child for the connection: the login is gone or none can be started.
LEMMA HandOverNotStep ==
    ASSUME Inv, NEW c \in Conn, NEW l \in Login \cup {NoLogin}, HandsOver(c, l),
           UNCHANGED <<pid, kid, kidLogin, refs, pipe, swallowed, managed>>
    PROVE  Inv'
<1>1. UNCHANGED <<users, inactive, channel>>
  BY DEF HandsOver, HandOver
<1>2. \A j \in Kid : OnItsWay(j)' = OnItsWay(j)
  BY <1>1 DEF OnItsWay, InChannel, Queued
<1>3. \A j \in Kid : c \notin OnItsWay(j)
  BY NotPassedOn DEF HandsOver, Take
<1>4. TypeOK' /\ BatchIsOpen' /\ OpenHasFd' /\ PassedOn' /\ RightChild'
  <2>1. /\ pipe' \in [Kid -> SocketType(Conn)] /\ refs' \in [Kid -> 0..2]
        /\ pid' \in [Login -> Kid \cup {NoKid}]
        /\ kid' \in [Kid -> {"none", "alive", "closing", "zombie"}]
        /\ kidLogin' \in [Kid -> Login \cup {NoLogin}]
        /\ managed' \in [Conn -> BOOLEAN] /\ swallowed' \subseteq Conn
    BY DEF Inv, TypeOK
  <2>2. QED
    BY <1>2, <1>3, <2>1, HandOverCommon
<1>5. /\ RefsCounted' /\ FreedIsEmpty' /\ EndedIsEmpty'
      /\ ChildIsCurrent' /\ OneChildPerLogin'
  BY <1>1 DEF Inv, RefsCounted, Known, FreedIsEmpty, EndedIsEmpty, ChildIsCurrent,
         OneChildPerLogin, Records, Children
<1> QED
  BY <1>4, <1>5 DEF Inv

LEMMA HandsOverStep ==
    ASSUME Inv, NEW c \in Conn, NEW l \in Login \cup {NoLogin}, HandsOver(c, l)
    PROVE  Inv'
<1>1. CASE /\ l \in users /\ pid[l] # NoKid
           /\ SendFd(c, pid[l], pipe[pid[l]]) \/ SendFails(pid[l], pipe[pid[l]])
           /\ UNCHANGED <<pid, kid, kidLogin, refs>>
  BY <1>1, HandOverExistingStep
<1>2. CASE /\ l \in users /\ pid[l] = NoKid
           /\ \E k \in Unstarted :
                 StartProcess(l, k) /\ SendFd(c, k, NewSocket(FALSE))
  BY <1>2, HandOverNewStep
<1>3. CASE UNCHANGED <<pid, kid, kidLogin, refs, pipe, swallowed, managed>>
  BY <1>3, HandOverNotStep
<1>4. QED
  BY <1>1, <1>2, <1>3 DEF HandsOver, HandOver

\* The callbacks of a connection.
LEMMA CallbackStep ==
    ASSUME Inv, NEW c \in Conn, Callback(c)
    PROVE  Inv'
<1>1. CASE OnConnEnd(c)
  BY <1>1, OnConnEndStep
<1>2. CASE OnHeadersSent(c)
  <2>1. wants' = [wants EXCEPT ![c] = wants[c]] /\ wants[c] \in Login \cup {NoLogin}
    BY <1>2 DEF OnHeadersSent, Inv, TypeOK
  <2>2. QED
    BY <1>2, <2>1, HandsOverStep DEF OnHeadersSent, HandsOver
<1>3. ASSUME NEW l \in Login, OnUser(c, l)
      PROVE  Inv'
  <2>1. CASE l \in users
    BY <1>3, <2>1, HandsOverStep DEF OnUser, HandsOver
  <2>2. CASE l \notin users
    BY <1>3, <2>2, AnswerStep DEF OnUser, Refuse
  <2>3. QED
    BY <2>1, <2>2
<1>4. ASSUME NEW l \in Login, OnHandshake(c, l)
      PROVE  Inv'
  BY <1>4, AnswerStep DEF OnHandshake, Refuse
<1>5. QED
  BY <1>1, <1>2, <1>3, <1>4 DEF Callback
-----------------------------------------------------------------------------
(* Pipes, signals and the release of what was deleted                      *)

\* The freed pipe is empty; a pipe the loop released keeps its queue.
LEMMA NoPipeLemma ==
    /\ NoPipe \in SocketType(Conn) /\ NoPipe.reg = "dead" /\ NoPipe.wq = << >>
<1> DEFINE new == NewSocket(FALSE)
<1>1. new \in SocketType(Conn) /\ new.wq = << >>
  BY NewSocketLemma
<1> HIDE DEF new
<1>2. NoPipe = [new EXCEPT !.reg = "dead", !.events = {}, !.mask = {}]
  BY DEF NoPipe, new
<1>3. QED
  BY <1>1, <1>2 DEF SocketType

LEMMA ReleasedPipe ==
    ASSUME NEW s \in SocketType(Conn)
    PROVE  /\ [s EXCEPT !.reg = "dead"] \in SocketType(Conn)
           /\ [s EXCEPT !.reg = "dead"].reg = "dead"
           /\ [s EXCEPT !.reg = "dead"].wq = s.wq
BY DEF SocketType

\* Closing fds never makes one appear that was not there.
LEMMA ClosedLemma ==
    ASSUME Inv, NEW S, fd' = Closed(S)
    PROVE  /\ fd' \in [Conn -> {"none", "open", "closed"}]
           /\ \A c \in Conn : fd[c] # "none" => fd'[c] # "none"
BY DEF Closed, Inv, TypeOK

LEMMA ClosedTwiceLemma ==
    ASSUME Inv, NEW S \in SUBSET Conn, twice' = ClosedTwice(S)
    PROVE  twice' \subseteq Conn
BY DEF ClosedTwice, Inv, TypeOK

LEMMA QueuedType ==
    ASSUME Inv, NEW k \in Kid
    PROVE  /\ pipe[k] \in SocketType(Conn) /\ pipe[k].wq \in Seq(Conn)
           /\ Queued(k) \subseteq Conn
<1>1. pipe[k] \in SocketType(Conn)
  BY DEF Inv, TypeOK
<1>2. pipe[k].wq \in Seq(Conn)
  BY <1>1 DEF SocketType
<1>3. QED
  BY <1>1, <1>2 DEF Queued

LEMMA OnPipeErrorStep ==
    ASSUME Inv, NEW k \in Kid, OnPipeError(k)
    PROVE  Inv'
<1> USE DEF Inv, OnPipeError, db, kids, conns, hist
<1>1. \A j \in Kid : /\ pipe'[j] \in SocketType(Conn)
                     /\ pipe'[j].reg = "dead" <=> pipe[j].reg = "dead"
                     /\ pipe'[j].wq = pipe[j].wq
  <2>1. \A j \in Kid : pipe'[j] = IF j = k THEN SocketDel(pipe[j]) ELSE pipe[j]
    BY DEF TypeOK
  <2>2. QED
    BY <2>1, SocketDelLemma, QueuedType
<1>2. TypeOK'
  BY <1>1 DEF TypeOK
<1>3. \A j \in Kid : OnItsWay(j)' = OnItsWay(j)
  BY <1>1 DEF OnItsWay, InChannel, Queued
<1>4. RefsCounted' /\ FreedIsEmpty' /\ BatchIsOpen'
  BY <1>1 DEF RefsCounted, Known, FreedIsEmpty, BatchIsOpen
<1>5. PassedOn' /\ RightChild'
  BY <1>3 DEF PassedOn, RightChild
<1>6. EndedIsEmpty' /\ OpenHasFd' /\ ChildIsCurrent' /\ OneChildPerLogin'
  BY DEF EndedIsEmpty, OpenHasFd, ChildIsCurrent, OneChildPerLogin, Records, Children
<1> QED
  BY <1>2, <1>4, <1>5, <1>6

LEMMA OnPipeWriteStep ==
    ASSUME Inv, NEW k \in Kid, OnPipeWrite(k)
    PROVE  Inv'
<1> USE DEF Inv, OnPipeWrite, Take, db
<1> DEFINE wq == pipe[k].wq
<1>1. PICK n \in 0..Len(wq), stop \in WriteStop :
         /\ pipe' = [pipe EXCEPT ![k] = SocketProcessWqueue(@, n, stop)]
         /\ channel' = IF kid[k] = "alive"
                       THEN [channel EXCEPT ![k] = @ \o SubSeq(wq, 1, n)]
                       ELSE channel
         /\ fd' = Closed({SubSeq(wq, 1, n)[i] : i \in 1..n})
         /\ twice' = ClosedTwice({SubSeq(wq, 1, n)[i] : i \in 1..n})
  OBVIOUS
<1> DEFINE sent == SubSeq(wq, 1, n)
           rest == SubSeq(wq, n + 1, Len(wq))
           q == SocketProcessWqueue(pipe[k], n, stop)
<1>2. pipe[k] \in SocketType(Conn) /\ wq \in Seq(Conn) /\ channel[k] \in Seq(Conn)
  BY QueuedType DEF TypeOK
<1>3. pipe[k].reg # "dead"
  BY DEF BatchIsOpen
<1>4. /\ q \in SocketType(Conn) /\ q.wq = rest /\ q.reg # "dead"
  <2> DEFINE s == pipe[k]
  <2>1. s \in SocketType(Conn) /\ n \in 0..Len(s.wq)
    BY <1>2
  <2> HIDE DEF s
  <2>2. /\ SocketProcessWqueue(s, n, stop) \in SocketType(Conn)
        /\ SocketProcessWqueue(s, n, stop).wq = SubSeq(s.wq, n + 1, Len(s.wq))
        /\ SocketProcessWqueue(s, n, stop).reg \in {s.reg, "deleted"}
    BY <2>1, SocketProcessWqueueLemma
  <2>3. QED
    BY <1>3, <2>2 DEF s
<1>5. /\ sent \in Seq(Conn) /\ Elements(sent) \subseteq Elements(wq)
      /\ rest \in Seq(Conn) /\ Elements(rest) \subseteq Elements(wq)
  <2>1. n + 1 \in Nat \ {0} /\ Len(wq) \in 0..Len(wq)
    BY <1>2
  <2> HIDE DEF wq
  <2>2. QED
    BY <1>2, <2>1, SubSeqElements
<1>6. {sent[i] : i \in 1..n} \subseteq Conn
  <2>1. DOMAIN sent = 1..n
    BY <1>2
  <2> HIDE DEF sent
  <2>2. QED
    BY <1>5, <2>1
<1>7. pipe' = [pipe EXCEPT ![k] = q]
  BY <1>1
<1> HIDE DEF q, sent, rest, wq
<1>8. \A j \in Kid : pipe'[j] = IF j = k THEN q ELSE pipe[j]
  BY <1>7 DEF TypeOK
<1>9. \A j \in Kid : OnItsWay(j)' \subseteq OnItsWay(j)
  <2>1. Queued(k)' \subseteq Elements(wq)
    BY <1>4, <1>5, <1>8 DEF Queued, Elements
  <2>2. InChannel(k)' \subseteq InChannel(k) \cup Elements(wq)
    <3>1. Elements(channel[k] \o sent) \subseteq Elements(channel[k]) \cup Elements(sent)
      BY <1>2, <1>5, ConcatElements
    <3>2. channel'[k] \in {channel[k], channel[k] \o sent}
      BY <1>1 DEF TypeOK, sent, wq
    <3>3. QED
      BY <1>5, <3>1, <3>2 DEF InChannel, Elements
  <2>3. Elements(wq) = Queued(k)
    BY DEF Queued, Elements, wq
  <2>4. ASSUME NEW j \in Kid, j # k
        PROVE  Queued(j)' = Queued(j) /\ InChannel(j)' = InChannel(j)
    <3>1. channel'[j] = channel[j] /\ pipe'[j] = pipe[j]
      BY <1>1, <1>8, <2>4 DEF TypeOK
    <3>2. QED
      BY <3>1 DEF Queued, InChannel
  <2>5. QED
    BY <2>1, <2>2, <2>3, <2>4 DEF OnItsWay
<1>10. TypeOK'
  <2>1. fd' \in [Conn -> {"none", "open", "closed"}]
    BY <1>1, ClosedLemma
  <2>2. twice' \subseteq Conn
    BY <1>1, <1>6, ClosedTwiceLemma DEF sent, wq
  <2>3. channel' \in [Kid -> Seq(Conn)]
    <3> DEFINE longer == channel[k] \o sent
    <3>1. longer \in Seq(Conn)
      BY <1>2, <1>5, ConcatElements
    <3>2. channel' = [channel EXCEPT ![k] = longer] \/ channel' = channel
      BY <1>1 DEF sent, wq
    <3> HIDE DEF longer
    <3>3. channel \in [Kid -> Seq(Conn)]
      BY DEF TypeOK
    <3>4. QED
      BY <3>1, <3>2, <3>3
  <2>4. pipe' \in [Kid -> SocketType(Conn)]
    BY <1>4, <1>7 DEF TypeOK
  <2>5. QED
    BY <2>1, <2>2, <2>3, <2>4 DEF TypeOK
<1>11. RefsCounted' /\ BatchIsOpen'
  BY <1>3, <1>4, <1>8 DEF RefsCounted, Known, BatchIsOpen
<1>12. FreedIsEmpty'
  <2>1. refs[k] # 0
    BY <1>3 DEF RefsCounted, Known
  <2>2. QED
    BY <1>8, <2>1 DEF FreedIsEmpty
<1>13. EndedIsEmpty'
  BY <1>1 DEF EndedIsEmpty, TypeOK
<1>14. PassedOn' /\ OpenHasFd'
  <2>1. \A c \in Conn : fd[c] # "none" => fd'[c] # "none"
    BY <1>1, ClosedLemma
  <2>2. QED
    BY <1>9, <2>1 DEF PassedOn, OpenHasFd
<1>15. RightChild'
  BY <1>9 DEF RightChild
<1>16. ChildIsCurrent' /\ OneChildPerLogin'
  BY DEF ChildIsCurrent, OneChildPerLogin, Records, Children
<1> QED
  BY <1>10, <1>11, <1>12, <1>13, <1>14, <1>15, <1>16

LEMMA OnHangupStep ==
    ASSUME Inv, OnHangup
    PROVE  Inv'
<1> USE DEF Inv, OnHangup, Reload, Records, kids, pipes, conns, hist
<1>1. pid' = pid
  <2>1. \A l \in Login : pid'[l] = pid[l]
    BY DEF ChildIsCurrent
  <2>2. QED
    BY <2>1 DEF TypeOK
<1>2. TypeOK' /\ BatchIsOpen'
  BY <1>1 DEF TypeOK, BatchIsOpen
<1>3. ChildIsCurrent' /\ OneChildPerLogin'
  BY <1>1 DEF ChildIsCurrent, OneChildPerLogin, Children
<1>4. /\ RefsCounted' /\ FreedIsEmpty' /\ EndedIsEmpty'
      /\ OpenHasFd' /\ PassedOn' /\ RightChild'
  BY <1>1 DEF RefsCounted, Known, FreedIsEmpty, EndedIsEmpty, OpenHasFd, PassedOn,
         RightChild, OnItsWay, InChannel, Queued
<1> QED
  BY <1>2, <1>3, <1>4

\* Every child that ended is in a record, and is taken out of it.
LEMMA OnChildStep ==
    ASSUME Inv, OnChild
    PROVE  Inv'
<1> DEFINE zombies == {k \in Kid : kid[k] = "zombie"}
           known == {pid[l] : l \in Records} \cap zombies
           last == {k \in known : refs[k] = 1}
<1> USE DEF Inv
<1>1. /\ Take(<<NoKid, "signal">>) /\ signals' = {}
      /\ kid' = [k \in Kid |-> IF k \in zombies THEN "none" ELSE kid[k]]
      /\ pid' = EndProcess(zombies)
      /\ pipe' = [k \in Kid |-> IF k \in last THEN NoPipe
                                ELSE IF k \in known THEN SocketDel(pipe[k])
                                ELSE pipe[k]]
      /\ refs' = [k \in Kid |-> IF k \in known THEN refs[k] - 1 ELSE refs[k]]
      /\ fd' = Closed(Freed(last)) /\ twice' = ClosedTwice(Freed(last))
      /\ UNCHANGED <<file, users, inactive, kidLogin, channel, reg, stage,
                     wants, managed, served, swallowed, reloads>>
  BY DEF OnChild
<1>2. known = zombies
  BY DEF OneChildPerLogin, Children
<1>3. \A k \in zombies : Known(k)
  <2>1. Records \subseteq Login
    BY DEF TypeOK, Records
  <2> HIDE DEF zombies
  <2>2. QED
    BY <1>2, <2>1 DEF Known
<1>4. \A l \in Login : pid'[l] = IF pid[l] \in zombies THEN NoKid ELSE pid[l]
  BY <1>1, MasterAssumption DEF EndProcess, ChildIsCurrent
<1>5. \A k \in Kid : Known(k)' <=> Known(k) /\ k \notin zombies
  BY <1>4, MasterAssumption DEF Known
<1> HIDE DEF zombies
<1>6. /\ zombies \subseteq Kid /\ last \subseteq zombies
      /\ \A k \in zombies : kid[k] = "zombie"
      /\ \A k \in Kid : kid[k] = "zombie" => k \in zombies
  BY <1>2 DEF zombies
<1>7. \A k \in last : refs[k] = 1 /\ pipe[k].reg = "dead"
  BY <1>3, <1>6 DEF RefsCounted
<1>8. \A k \in zombies \ last : refs[k] = 2 /\ pipe[k].reg # "dead"
  BY <1>2, <1>3, <1>6 DEF RefsCounted
<1> HIDE DEF last
<1>9. \A k \in Kid :
         /\ pipe'[k] \in SocketType(Conn)
         /\ pipe'[k].reg = "dead" <=> pipe[k].reg = "dead"
         /\ pipe'[k].wq = IF k \in last THEN << >> ELSE pipe[k].wq
  <2>1. \A k \in Kid : pipe'[k] = IF k \in last THEN NoPipe
                                  ELSE IF k \in zombies THEN SocketDel(pipe[k])
                                  ELSE pipe[k]
    BY <1>1, <1>2
  <2>2. QED
    BY <1>6, <1>7, <1>8, <2>1, NoPipeLemma, SocketDelLemma, QueuedType
<1>10. \A k \in Kid : OnItsWay(k)' \subseteq OnItsWay(k)
  BY <1>1, <1>9 DEF OnItsWay, InChannel, Queued
<1>11. refs' = [k \in Kid |-> IF k \in zombies THEN refs[k] - 1 ELSE refs[k]]
  BY <1>1, <1>2
<1>12. TypeOK'
  <2>1. fd' \in [Conn -> {"none", "open", "closed"}]
    BY <1>1, ClosedLemma
  <2>2. twice' \subseteq Conn
    <3>1. Freed(last) \subseteq Conn
      BY <1>6, QueuedType DEF Freed
    <3>2. QED
      BY <1>1, <3>1, ClosedTwiceLemma
  <2>3. pipe' \in [Kid -> SocketType(Conn)]
    BY <1>1, <1>9
  <2>4. refs' \in [Kid -> 0..2]
    BY <1>6, <1>7, <1>8, <1>11 DEF TypeOK
  <2>5. pid' \in [Login -> Kid \cup {NoKid}] 
    BY <1>1, <1>4 DEF TypeOK, EndProcess
  <2>6. kid' \in [Kid -> {"none", "alive", "closing", "zombie"}]
    BY <1>1 DEF TypeOK
  <2>7. QED
    BY <1>1, <2>1, <2>2, <2>3, <2>4, <2>5, <2>6 DEF TypeOK, Take
<1>13. RefsCounted'
  BY <1>3, <1>5, <1>6, <1>9, <1>11 DEF RefsCounted, TypeOK
<1>14. FreedIsEmpty'
  <2>1. ASSUME NEW k \in Kid, refs'[k] = 0, k \notin last
        PROVE  refs[k] = 0
    BY <1>8, <1>11, <2>1
  <2>2. QED
    BY <1>9, <2>1 DEF FreedIsEmpty
<1>15. EndedIsEmpty' /\ BatchIsOpen'
  BY <1>1, <1>6, <1>9 DEF EndedIsEmpty, BatchIsOpen, Take
<1>16. PassedOn' /\ OpenHasFd'
  <2>1. \A c \in Conn : fd[c] # "none" => fd'[c] # "none"
    BY <1>1, ClosedLemma
  <2>2. QED
    BY <1>1, <1>10, <2>1 DEF PassedOn, OpenHasFd
<1>17. RightChild'
  BY <1>1, <1>10 DEF RightChild
<1>18. ChildIsCurrent' /\ OneChildPerLogin'
  BY <1>1, <1>4, ZenonT(60) DEF ChildIsCurrent, OneChildPerLogin, Records, Children, TypeOK, zombies
<1> QED
  BY <1>12, <1>13, <1>14, <1>15, <1>16, <1>17, <1>18

LEMMA ReleaseStep ==
    ASSUME Inv, Release
    PROVE  Inv'
<1> DEFINE gone == {c \in Conn : reg[c] = "deleted"}
           dead == {k \in Kid : pipe[k].reg = "deleted"}
           last == {k \in dead : refs[k] = 1}
           shut == {c \in gone : managed[c]} \cup Freed(last)
<1> USE DEF Inv
<1>1. /\ batch = {}
      /\ reg' = [c \in Conn |-> IF c \in gone THEN "none" ELSE reg[c]]
      /\ pipe' = [k \in Kid |->
                    IF k \in last THEN NoPipe
                    ELSE IF k \in dead THEN [pipe[k] EXCEPT !.reg = "dead"]
                    ELSE pipe[k]]
      /\ refs' = [k \in Kid |-> IF k \in dead THEN refs[k] - 1 ELSE refs[k]]
      /\ fd' = Closed(shut) /\ twice' = ClosedTwice(shut)
      /\ UNCHANGED <<file, db, kids, stage, wants, managed, served, swallowed,
                     batch, signals, reloads>>
  BY DEF Release
<1>2. \A k \in Kid :
         /\ pipe'[k] \in SocketType(Conn)
         /\ pipe'[k].reg = IF k \in dead THEN "dead" ELSE pipe[k].reg
         /\ pipe'[k].wq = IF k \in last THEN << >> ELSE pipe[k].wq
  BY <1>1, NoPipeLemma, ReleasedPipe, QueuedType
<1>3. shut \subseteq Conn
  <2>1. Freed(last) \subseteq Conn
    BY QueuedType DEF Freed
  <2>2. QED
    BY <2>1
<1>4. \A k \in Kid : OnItsWay(k)' \subseteq OnItsWay(k)
  <2>1. \A k \in Kid : Queued(k)' \subseteq Queued(k)
    BY <1>2 DEF Queued
  <2>2. \A k \in Kid : InChannel(k)' = InChannel(k)
    BY <1>1 DEF InChannel, kids
  <2>3. QED
    BY <2>1, <2>2 DEF OnItsWay
<1>5. \A k \in Kid : /\ refs[k] \in 0..2
                     /\ k \in dead <=> pipe[k].reg = "deleted"
                     /\ k \in last <=> k \in dead /\ refs[k] = 1
                     /\ k \in dead => refs[k] >= 1
  <2>1. \A k \in Kid : refs[k] \in 0..2
    BY DEF TypeOK
  <2>2. ASSUME NEW k \in Kid, pipe[k].reg = "deleted"
        PROVE  refs[k] >= 1
    BY <2>2 DEF RefsCounted
  <2>3. QED
    BY <2>1, <2>2
<1> HIDE DEF gone, dead, last, shut
<1>6. TypeOK'
  <2>1. fd' \in [Conn -> {"none", "open", "closed"}] /\ twice' \subseteq Conn
    BY <1>1, <1>3, ClosedLemma, ClosedTwiceLemma
  <2>2. pipe' \in [Kid -> SocketType(Conn)]
    BY <1>1, <1>2
  <2>3. refs' \in [Kid -> 0..2]
    BY <1>1, <1>5 DEF TypeOK
  <2>4. reg' \in [Conn -> {"none", "open", "deleted"}]
    BY <1>1 DEF TypeOK, gone
  <2>5. QED
    BY <1>1, <2>1, <2>2, <2>3, <2>4 DEF TypeOK, db, kids
<1>7. RefsCounted'
  <2>1. \A k \in Kid : Known(k)' = Known(k)
    BY <1>1 DEF Known, db
  <2>2. \A k \in Kid : refs'[k] = IF k \in dead THEN refs[k] - 1 ELSE refs[k]
    BY <1>1
  <2>3. QED
    BY <1>2, <1>5, <2>1, <2>2 DEF RefsCounted
<1>8. FreedIsEmpty'
  <2>1. \A k \in Kid : refs'[k] = IF k \in dead THEN refs[k] - 1 ELSE refs[k]
    BY <1>1
  <2>2. QED
    BY <1>2, <1>5, <2>1 DEF FreedIsEmpty
<1>9. EndedIsEmpty' /\ BatchIsOpen'
  BY <1>1 DEF EndedIsEmpty, BatchIsOpen, kids
<1>10. PassedOn' /\ OpenHasFd'
  <2>1. \A c \in Conn : fd[c] # "none" => fd'[c] # "none"
    BY <1>1, ClosedLemma
  <2>2. QED
    BY <1>1, <1>4, <2>1 DEF PassedOn, OpenHasFd
<1>11. RightChild'
  BY <1>1, <1>4 DEF RightChild, kids
<1>12. ChildIsCurrent' /\ OneChildPerLogin'
  BY <1>1 DEF ChildIsCurrent, OneChildPerLogin, Records, Children, db, kids
<1> QED
  BY <1>6, <1>7, <1>8, <1>9, <1>10, <1>11, <1>12
-----------------------------------------------------------------------------
(* The theorems                                                            *)

LEMMA InitInv == Init => Inv
<1> SUFFICES ASSUME Init PROVE Inv
  OBVIOUS
<1>1. \A k \in Kid : OnItsWay(k) = {}
  BY NoPipeLemma DEF Init, OnItsWay, InChannel, Queued
<1>2. TypeOK
  BY NoPipeLemma, MasterAssumption DEF Init, TypeOK
<1>3. RefsCounted /\ FreedIsEmpty
  BY NoPipeLemma, MasterAssumption DEF Init, RefsCounted, Known, FreedIsEmpty
<1>4. EndedIsEmpty /\ BatchIsOpen /\ OpenHasFd /\ ChildIsCurrent /\ OneChildPerLogin
  BY DEF Init, EndedIsEmpty, BatchIsOpen, OpenHasFd, ChildIsCurrent,
         OneChildPerLogin, Children
<1>5. PassedOn /\ RightChild
  BY <1>1 DEF Init, PassedOn, RightChild
<1>6. QED
  BY <1>2, <1>3, <1>4, <1>5 DEF Inv

LEMMA NextInv == Inv /\ [Next]_vars => Inv'
<1> SUFFICES ASSUME Inv, [Next]_vars PROVE Inv'
  OBVIOUS
<1>1. CASE World
  BY <1>1, AcceptStep, ReceiveStep, CloseKidStep, EndKidStep, EditStep DEF World
<1>2. CASE Loop
  BY <1>2, EpollWaitStep, ReleaseStep, OnChildStep, OnHangupStep, OnPipeErrorStep,
     OnPipeWriteStep, CallbackStep DEF Loop
<1>3. CASE UNCHANGED vars
  BY <1>3 DEF Inv, TypeOK, RefsCounted, Known, FreedIsEmpty, EndedIsEmpty,
     BatchIsOpen, OpenHasFd, PassedOn, ChildIsCurrent, OneChildPerLogin, RightChild,
     Records, Children, OnItsWay, InChannel, Queued, vars, db, kids, pipes,
     conns, hist
<1>4. QED
  BY <1>1, <1>2, <1>3 DEF Next

\* The inductive invariant of the master: logins, reloads, the ends of children
\* and hand-overs in any order keep it.
THEOREM Invariance == Spec => []Inv
BY InitInv, NextInv, PTL DEF Spec

\* The variables keep their types; in particular no pipe ever has more than
\* two references (socket_ref and socket_unref of socket.c).
THEOREM TypeCorrect == Spec => []TypeOK
<1>1. Inv => TypeOK
  BY DEF Inv
<1>2. QED
  BY <1>1, Invariance, PTL

\* However the db file is edited while children run, a login has at most one
\* child that was not reaped, and its record knows it.
THEOREM OneChild == Spec => []OneChildPerLogin
<1>1. Inv => OneChildPerLogin
  BY DEF Inv
<1>2. QED
  BY <1>1, Invariance, PTL

\* A record never knows a child that was reaped.
THEOREM CurrentChild == Spec => []ChildIsCurrent
<1>1. Inv => ChildIsCurrent
  BY DEF Inv
<1>2. QED
  BY <1>1, Invariance, PTL

\* A connection only reaches the child of the login it gave.
THEOREM Routing == Spec => []RightChild
<1>1. Inv => RightChild
  BY DEF Inv
<1>2. QED
  BY <1>1, Invariance, PTL

\* A freed pipe is neither written to nor called back.
THEOREM PipeLives == Spec => []NoFreedPipe
<1>1. Inv => NoFreedPipe
  <2> SUFFICES ASSUME Inv PROVE NoFreedPipe
    OBVIOUS
  <2>1. ASSUME NEW l \in Login, pid[l] # NoKid
        PROVE  refs[pid[l]] > 0
    <3>1. pid[l] \in Kid /\ Known(pid[l])
      BY <2>1 DEF Inv, TypeOK, Known
    <3>2. QED
      BY <3>1 DEF Inv, RefsCounted
  <2>2. ASSUME NEW k \in Kid, {<<k, "E">>, <<k, "W">>} \cap batch # {}
        PROVE  refs[k] > 0
    <3>1. pipe[k].reg # "dead"
      BY <2>2 DEF Inv, BatchIsOpen
    <3>2. QED
      BY <3>1 DEF Inv, RefsCounted
  <2>3. QED
    BY <2>1, <2>2 DEF NoFreedPipe
<1>2. QED
  BY <1>1, Invariance, PTL
-----------------------------------------------------------------------------
(* The descriptors: each open fd has one owner, and none is closed twice.  *)

\* c is message i of the queue of pipe k.
At(k, i, c) == i \in DOMAIN pipe[k].wq /\ pipe[k].wq[i] = c

\* The socket of c will close its fd.
Held(c) == reg[c] # "none" /\ managed[c]

QueuesShort ==
    \A k \in Kid, c \in Conn : \A i \in Nat : At(k, i, c) => i \in 1..WQueueMax

\* No connection is twice in the queues.
QueuedOnce ==
    \A k, j \in Kid, c \in Conn : \A i, h \in Nat :
        At(k, i, c) /\ At(j, h, c) => k = j /\ i = h

\* What is queued is open, and not its socket's any more.
QueuedOpen ==
    \A k \in Kid, c \in Conn : \A i \in Nat :
        At(k, i, c) => fd[c] = "open" /\ ~Held(c)

HeldOpen == \A c \in Conn : Held(c) => fd[c] = "open"

\* What is open has an owner, unless it was written to a dead pipe.
OpenOwned ==
    \A c \in Conn \ swallowed : fd[c] = "open" =>
        Held(c) \/ \E k \in Kid : \E i \in Nat : At(k, i, c)

\* A socket is made unmanaged when it is deleted, and its fd never comes back.
Fresh == \A c \in Conn : reg[c] = "open" \/ fd[c] = "none" => managed[c]

Owned == /\ QueuesShort /\ QueuedOnce /\ QueuedOpen /\ HeldOpen /\ OpenOwned
         /\ Fresh /\ twice = {}

\* What leaves the queues alone and neither opens nor frees a socket changes
\* no owner.
LEMMA SameOwners ==
    ASSUME Owned, UNCHANGED <<managed, fd, swallowed, twice>>,
           \A k \in Kid, c \in Conn : \A i \in Nat : At(k, i, c)' <=> At(k, i, c),
           \A c \in Conn : /\ reg'[c] = "none" <=> reg[c] = "none"
                           /\ reg'[c] = "open" => reg[c] = "open"
    PROVE  Owned'
<1>1. \A c \in Conn : Held(c)' <=> Held(c)
  BY DEF Held
<1>2. QueuesShort' /\ QueuedOnce' /\ QueuedOpen'
  BY <1>1 DEF Owned, QueuesShort, QueuedOnce, QueuedOpen
<1>3. HeldOpen' /\ OpenOwned'
  BY <1>1 DEF Owned, HeldOpen, OpenOwned
<1>4. Fresh' /\ twice' = {}
  BY DEF Owned, Fresh
<1> QED
  BY <1>2, <1>3, <1>4 DEF Owned

\* socket_accept: the socket owns the new fd.
LEMMA AcceptOwns ==
    ASSUME Inv, Owned, NEW c \in Conn, Accept(c)
    PROVE  Owned'
<1>1. \A k \in Kid, d \in Conn : \A i \in Nat : At(k, i, d)' <=> At(k, i, d)
  BY DEF Accept, pipes, At
<1>2. /\ reg[c] = "none" /\ fd[c] = "none" /\ managed[c]
      /\ reg'[c] = "open" /\ fd'[c] = "open" /\ managed' = managed
      /\ \A d \in Conn \ {c} : reg'[d] = reg[d] /\ fd'[d] = fd[d]
      /\ UNCHANGED <<swallowed, twice>>
  BY DEF Accept, Owned, Fresh, Inv, TypeOK, hist
<1>3. Held(c)' /\ \A d \in Conn \ {c} : Held(d)' <=> Held(d)
  BY <1>2 DEF Held
<1>4. \A k \in Kid : \A i \in Nat : ~At(k, i, c)
  BY <1>2 DEF Owned, QueuedOpen
<1>5. QueuesShort' /\ QueuedOnce'
  BY <1>1 DEF Owned, QueuesShort, QueuedOnce
<1>6. QueuedOpen'
  BY <1>1, <1>2, <1>3, <1>4 DEF Owned, QueuedOpen
<1>7. HeldOpen' /\ OpenOwned'
  BY <1>1, <1>2, <1>3 DEF Owned, HeldOpen, OpenOwned
<1>8. Fresh' /\ twice' = {}
  BY <1>2 DEF Owned, Fresh
<1> QED
  BY <1>5, <1>6, <1>7, <1>8 DEF Owned

\* ipc_send_fd: the fd goes from the socket to the end of a queue (place n), or
\* to nobody when the pipe is dead.
LEMMA SendOwns ==
    ASSUME Inv, Owned, NEW c \in Conn, NEW k \in Kid, NEW n \in 1..WQueueMax,
           reg[c] = "open", UNCHANGED <<fd, twice>>,
           reg' = [reg EXCEPT ![c] = "deleted"],
           managed' = [managed EXCEPT ![c] = FALSE],
           \/ /\ \A j \in Kid, d \in Conn : \A i \in Nat :
                    At(j, i, d)' <=> At(j, i, d) \/ (j = k /\ i = n /\ d = c)
              /\ swallowed' = swallowed
           \/ /\ \A j \in Kid, d \in Conn : \A i \in Nat : At(j, i, d)' <=> At(j, i, d)
              /\ swallowed' = swallowed \cup {c}
    PROVE  Owned'
<1>1. n \in Nat
  BY SocketAssumption
<1>2. /\ Held(c) /\ fd[c] = "open"
      /\ \A d \in Conn \ {c} : reg'[d] = reg[d] /\ managed'[d] = managed[d]
      /\ reg'[c] = "deleted" /\ ~managed'[c]
  BY DEF Held, Owned, HeldOpen, Fresh, Inv, TypeOK
<1>3. ~Held(c)' /\ \A d \in Conn \ {c} : Held(d)' <=> Held(d)
  BY <1>2 DEF Held
<1>4. \A j \in Kid : \A i \in Nat : ~At(j, i, c)
  BY <1>2 DEF Owned, QueuedOpen
<1>5. Fresh' /\ HeldOpen' /\ twice' = {}
  BY <1>2, <1>3 DEF Owned, Fresh, HeldOpen
<1>6. CASE /\ \A j \in Kid, d \in Conn : \A i \in Nat :
                 At(j, i, d)' <=> At(j, i, d) \/ (j = k /\ i = n /\ d = c)
           /\ swallowed' = swallowed
  <2>1. QueuesShort'
    BY <1>6 DEF Owned, QueuesShort
  <2>2. QueuedOnce'
    BY <1>4, <1>6 DEF Owned, QueuedOnce
  <2>3. QueuedOpen'
    BY <1>2, <1>3, <1>4, <1>6 DEF Owned, QueuedOpen
  <2>4. OpenOwned'
    BY <1>1, <1>3, <1>6 DEF Owned, OpenOwned
  <2>5. QED
    BY <1>5, <2>1, <2>2, <2>3, <2>4 DEF Owned
<1>7. CASE /\ \A j \in Kid, d \in Conn : \A i \in Nat : At(j, i, d)' <=> At(j, i, d)
           /\ swallowed' = swallowed \cup {c}
  <2>1. QueuesShort' /\ QueuedOnce'
    BY <1>7 DEF Owned, QueuesShort, QueuedOnce
  <2>2. QueuedOpen'
    BY <1>3, <1>4, <1>7 DEF Owned, QueuedOpen
  <2>3. OpenOwned'
    BY <1>3, <1>7 DEF Owned, OpenOwned
  <2>4. QED
    BY <1>5, <2>1, <2>2, <2>3 DEF Owned
<1> QED
  BY <1>6, <1>7

\* Messages leave the fronts of the queues, n[k] of pipe k, and the managed
\* sockets in S are freed.  Both close their fds, which are open and had no
\* other owner.
LEMMA CloseOwns ==
    ASSUME Inv, Owned, NEW n \in [Kid -> Nat], NEW S \in SUBSET Conn, NEW D \in SUBSET Conn,
           \A d \in Conn : d \in D <=> \E k \in Kid : \E i \in 1..n[k] : At(k, i, d),
           \A k \in Kid, d \in Conn : \A i \in Nat :
               At(k, i, d)' <=> i # 0 /\ At(k, n[k] + i, d),
           \A c \in S : Held(c) /\ reg'[c] = "none",
           \A c \in Conn : /\ c \notin S => (Held(c)' <=> Held(c))
                           /\ reg'[c] = "open" => reg[c] = "open",
           UNCHANGED <<managed, swallowed>>,
           fd' = Closed(S \cup D), twice' = ClosedTwice(S \cup D)
    PROVE  Owned'
<1>1. \A k \in Kid : n[k] \in Nat
  OBVIOUS
<1>2. \A d \in D : ~Held(d) /\ fd[d] = "open"
  BY <1>1 DEF Owned, QueuedOpen
<1>3. \A c \in S : Held(c) /\ fd[c] = "open" /\ ~Held(c)'
  BY DEF Owned, HeldOpen, Held
<1>4. \A c \in Conn : fd'[c] = IF c \in S \cup D THEN "closed" ELSE fd[c]
  BY DEF Closed
<1>5. twice' = {}
  BY <1>2, <1>3 DEF ClosedTwice, Owned
<1>6. QueuesShort'
  <2> SUFFICES ASSUME NEW k \in Kid, NEW c \in Conn, NEW i \in Nat, At(k, i, c)'
               PROVE  i \in 1..WQueueMax
    BY DEF QueuesShort
  <2> DEFINE m == n[k]
  <2>1. i # 0 /\ At(k, m + i, c) /\ m + i \in Nat
    BY <1>1
  <2>2. m + i \in 1..WQueueMax
    BY <2>1 DEF Owned, QueuesShort
  <2>3. m \in Nat
    OBVIOUS
  <2> HIDE DEF m
  <2>4. QED
    BY <2>1, <2>2, <2>3, SocketAssumption
<1>7. QueuedOnce'
  <2> SUFFICES ASSUME NEW k \in Kid, NEW j \in Kid, NEW c \in Conn,
                      NEW i \in Nat, NEW h \in Nat, At(k, i, c)', At(j, h, c)'
               PROVE  k = j /\ i = h
    BY DEF QueuedOnce
  <2>1. /\ At(k, n[k] + i, c) /\ At(j, n[j] + h, c)
        /\ n[k] + i \in Nat /\ n[j] + h \in Nat
    BY <1>1
  <2>2. k = j /\ n[k] + i = n[j] + h
    BY <2>1 DEF Owned, QueuedOnce
  <2> DEFINE m == n[k]
  <2>3. m \in Nat /\ m + i = m + h
    BY <2>2
  <2> HIDE DEF m
  <2>4. i = h
    BY <2>3
  <2>5. QED
    BY <2>2, <2>4
<1>8. \A k \in Kid, d \in D : \A i \in Nat : ~At(k, i, d)'
  <2> SUFFICES ASSUME NEW k \in Kid, NEW d \in D, NEW i \in Nat, At(k, i, d)'
               PROVE  FALSE
    OBVIOUS
  <2>1. PICK j \in Kid : \E h \in 1..n[j] : At(j, h, d)
    OBVIOUS
  <2> PICK h \in 1..n[j] : At(j, h, d)
    BY <2>1
  <2>2. h \in Nat /\ h <= n[j] /\ n[k] + i \in Nat /\ i # 0 /\ At(k, n[k] + i, d)
    BY <1>1
  <2>3. j = k /\ h = n[k] + i
    BY <2>1, <2>2 DEF Owned, QueuedOnce
  <2> DEFINE m == n[k]
  <2>4. m \in Nat /\ h <= m /\ h = m + i /\ i # 0
    BY <2>2, <2>3
  <2> HIDE DEF m
  <2>5. QED
    BY <2>4
<1>9. QueuedOpen'
  <2> SUFFICES ASSUME NEW k \in Kid, NEW c \in Conn, NEW i \in Nat, At(k, i, c)'
               PROVE  fd'[c] = "open" /\ ~Held(c)'
    BY DEF QueuedOpen
  <2>1. At(k, n[k] + i, c) /\ n[k] + i \in Nat
    BY <1>1
  <2>2. fd[c] = "open" /\ ~Held(c)
    BY <2>1 DEF Owned, QueuedOpen
  <2>3. c \notin D /\ c \notin S
    BY <1>3, <1>8, <2>2
  <2>4. QED
    BY <1>4, <2>2, <2>3
<1>10. HeldOpen'
  <2> SUFFICES ASSUME NEW c \in Conn, Held(c)'
               PROVE  fd'[c] = "open"
    BY DEF HeldOpen
  <2>1. c \notin S /\ Held(c)
    BY <1>3
  <2>2. c \notin D
    BY <1>2, <2>1
  <2>3. QED
    BY <1>4, <2>1, <2>2 DEF Owned, HeldOpen
<1>11. OpenOwned'
  <2> SUFFICES ASSUME NEW c \in Conn \ swallowed, fd'[c] = "open"
               PROVE  Held(c)' \/ \E k \in Kid : \E i \in Nat : At(k, i, c)'
    BY DEF OpenOwned
  <2>1. c \notin S /\ c \notin D /\ fd[c] = "open"
    BY <1>4
  <2>2. CASE Held(c)
    BY <2>1, <2>2
  <2>3. ASSUME NEW k \in Kid, NEW i \in Nat, At(k, i, c)
        PROVE  \E h \in Nat : At(k, h, c)'
    <3> DEFINE m == n[k]
    <3>1. i \in 1..WQueueMax /\ i \notin 1..m /\ m \in Nat
      BY <2>1, <2>3 DEF Owned, QueuesShort
    <3>2. \A h \in Nat : h # 0 /\ m + h = i => At(k, h, c)'
      BY <2>3
    <3> HIDE DEF m
    <3>3. i - m \in Nat /\ i - m # 0 /\ m + (i - m) = i
      BY <3>1, SocketAssumption
    <3>4. QED
      BY <3>2, <3>3
  <2>4. QED
    BY <2>1, <2>2, <2>3 DEF Owned, OpenOwned
<1>12. Fresh'
  <2> SUFFICES ASSUME NEW c \in Conn, reg'[c] = "open" \/ fd'[c] = "none"
               PROVE  managed[c]
    BY DEF Fresh
  <2>1. reg[c] = "open" \/ fd[c] = "none"
    BY <1>4
  <2>2. QED
    BY <2>1 DEF Owned, Fresh
<1> QED
  BY <1>5, <1>6, <1>7, <1>9, <1>10, <1>11, <1>12 DEF Owned
-----------------------------------------------------------------------------
(* What happens to the places in a queue                                   *)

LEMMA PlacesAppend ==
    ASSUME NEW M, NEW q \in Seq(M), NEW x \in M, NEW d \in M, NEW i \in Nat
    PROVE  (i \in DOMAIN Append(q, x) /\ Append(q, x)[i] = d)
             <=> (i \in DOMAIN q /\ q[i] = d) \/ (i = Len(q) + 1 /\ d = x)
OBVIOUS

LEMMA PlacesSubSeq ==
    ASSUME NEW M, NEW q \in Seq(M), NEW n \in 0..Len(q), NEW d \in M, NEW i \in Nat
    PROVE  LET r == SubSeq(q, n + 1, Len(q))
           IN  (i \in DOMAIN r /\ r[i] = d)
                 <=> (i # 0 /\ n + i \in DOMAIN q /\ q[n + i] = d)
<1> DEFINE r == SubSeq(q, n + 1, Len(q))
<1>1. /\ Len(q) \in Nat /\ n \in Nat /\ n <= Len(q)
      /\ DOMAIN q = 1..Len(q) /\ DOMAIN r = 1..(Len(q) - n)
      /\ \A h \in 1..(Len(q) - n) : r[h] = q[n + h]
  OBVIOUS
<1> HIDE DEF r
<1>2. i \in DOMAIN r <=> i # 0 /\ n + i \in DOMAIN q
  BY <1>1
<1>3. i \in DOMAIN r => r[i] = q[n + i]
  BY <1>1
<1>4. QED
  BY <1>2, <1>3 DEF r

LEMMA PlacesEmpty ==
    ASSUME NEW k \in Kid, pipe[k].wq = << >>, NEW i, NEW c
    PROVE  ~At(k, i, c)
BY DEF At

LEMMA PlacesSame ==
    ASSUME \A k \in Kid : pipe'[k].wq = pipe[k].wq
    PROVE  \A k \in Kid, c \in Conn : \A i \in Nat : At(k, i, c)' <=> At(k, i, c)
BY DEF At
-----------------------------------------------------------------------------
(* The steps                                                               *)

\* A descriptor is sent to a queue, swallowed by a dead pipe, or stays with its
\* socket.
LEMMA SendFdOwns ==
    ASSUME Inv, Owned, NEW c \in Conn, NEW k \in Kid, NEW p \in SocketType(Conn),
           reg[c] = "open", reg' = [reg EXCEPT ![c] = "deleted"],
           UNCHANGED <<fd, twice>>, SendFd(c, k, p),
           p.wq = pipe[k].wq
    PROVE  Owned'
<1> DEFINE q == SocketWrite(p, c)
           n == Len(p.wq) + 1
<1>1. /\ q.wq = IF p.reg = "dead" THEN p.wq ELSE Append(p.wq, c)
  BY SocketWriteLemma
<1>2. /\ pipe' = [pipe EXCEPT ![k] = q] /\ ~WriteFails(p)
      /\ swallowed' = IF p.reg = "dead" THEN swallowed \cup {c} ELSE swallowed
      /\ managed' = [managed EXCEPT ![c] = FALSE]
  BY DEF SendFd
<1> HIDE DEF q
<1>3. p.wq \in Seq(Conn)
  BY DEF SocketType
<1>4. \A j \in Kid : pipe'[j] = IF j = k THEN q ELSE pipe[j]
  BY <1>2 DEF Inv, TypeOK
<1>5. CASE p.reg = "dead"
  <2>1. \A j \in Kid : pipe'[j].wq = pipe[j].wq
    BY <1>1, <1>4, <1>5
  <2>2. swallowed' = swallowed \cup {c}
    BY <1>2, <1>5
  <2>3. 1 \in 1..WQueueMax
    BY SocketAssumption
  <2>4. QED
    BY <1>2, <2>1, <2>2, <2>3, PlacesSame, SendOwns
<1>6. CASE p.reg # "dead"
  <2>1. n \in 1..WQueueMax
    BY <1>2, <1>3, <1>6, SocketAssumption DEF WriteFails
  <2>2. pipe'[k].wq = Append(p.wq, c) /\ swallowed' = swallowed
    BY <1>1, <1>2, <1>4, <1>6
  <2>3. \A d \in Conn : \A i \in Nat : At(k, i, d)' <=> At(k, i, d) \/ (i = n /\ d = c)
    BY <1>3, <2>2, PlacesAppend DEF At
  <2>4. \A j \in Kid \ {k}, d \in Conn : \A i \in Nat : At(j, i, d)' <=> At(j, i, d)
    BY <1>4 DEF At
  <2> HIDE DEF n
  <2>5. \A j \in Kid, d \in Conn : \A i \in Nat :
           At(j, i, d)' <=> At(j, i, d) \/ (j = k /\ i = n /\ d = c)
    BY <2>3, <2>4
  <2>6. QED
    BY <1>2, <2>1, <2>2, <2>5, SendOwns
<1> QED
  BY <1>5, <1>6

LEMMA HandsOverOwns ==
    ASSUME Inv, Owned, NEW c \in Conn, NEW l \in Login \cup {NoLogin}, HandsOver(c, l)
    PROVE  Owned'
<1>1. /\ reg[c] = "open" /\ reg' = [reg EXCEPT ![c] = "deleted"]
      /\ UNCHANGED <<fd, twice>>
  BY NotPassedOn DEF HandsOver, HandOver, Take
<1>2. \A d \in Conn : /\ reg'[d] = "none" <=> reg[d] = "none"
                      /\ reg'[d] = "open" => reg[d] = "open"
  BY <1>1 DEF Inv, TypeOK
<1>3. ASSUME NEW k \in Kid, SendFd(c, k, pipe[k])
      PROVE  Owned'
  BY <1>1, <1>3, QueuedType, SendFdOwns
<1>4. ASSUME NEW k \in Kid, SendFails(k, pipe[k])
      PROVE  Owned'
  <2>1. /\ \A j \in Kid : pipe'[j].wq = pipe[j].wq
        /\ UNCHANGED <<swallowed, managed>>
    BY <1>4 DEF SendFails, Inv, TypeOK
  <2>2. QED
    BY <1>1, <1>2, <2>1, PlacesSame, SameOwners
<1>5. ASSUME NEW k \in Unstarted, SendFd(c, k, NewSocket(FALSE))
      PROVE  Owned'
  <2>1. k \in Kid /\ pipe[k].wq = << >>
    BY DEF Unstarted, Inv, FreedIsEmpty
  <2>2. NewSocket(FALSE) \in SocketType(Conn) /\ NewSocket(FALSE).wq = pipe[k].wq
    BY <2>1, NewSocketLemma
  <2>3. QED
    BY <1>1, <1>5, <2>1, <2>2, SendFdOwns
<1>6. CASE UNCHANGED <<pipe, swallowed, managed>>
  BY <1>1, <1>2, <1>6, PlacesSame, SameOwners
<1>7. l \in users /\ pid[l] # NoKid => pid[l] \in Kid
  BY DEF Inv, TypeOK
<1> QED
  BY <1>3, <1>4, <1>5, <1>6, <1>7 DEF HandsOver, HandOver

LEMMA CallbackOwns ==
    ASSUME Inv, Owned, NEW c \in Conn, Callback(c)
    PROVE  Owned'
<1>1. CASE OnConnEnd(c)
  <2>1. \A d \in Conn : /\ reg'[d] = "none" <=> reg[d] = "none"
                        /\ reg'[d] = "open" => reg[d] = "open"
    BY <1>1, NotPassedOn DEF OnConnEnd, Take, Inv, TypeOK
  <2>2. UNCHANGED <<pipe, managed, fd, swallowed, twice>>
    BY <1>1 DEF OnConnEnd, pipes, hist
  <2>3. QED
    BY <2>1, <2>2, PlacesSame, SameOwners
<1>2. CASE OnHeadersSent(c)
  <2>1. wants' = [wants EXCEPT ![c] = wants[c]] /\ wants[c] \in Login \cup {NoLogin}
    BY <1>2 DEF OnHeadersSent, Inv, TypeOK
  <2>2. QED
    BY <1>2, <2>1, HandsOverOwns DEF OnHeadersSent, HandsOver
<1>3. CASE UNCHANGED <<pipes, reg, fd, managed, hist>>
  BY <1>3, PlacesSame, SameOwners DEF pipes, hist
<1>4. ASSUME NEW l \in Login, OnUser(c, l)
      PROVE  Owned'
  <2>1. CASE l \in users
    BY <1>4, <2>1, HandsOverOwns DEF OnUser, HandsOver
  <2>2. CASE l \notin users
    BY <1>3, <1>4, <2>2 DEF OnUser, Refuse
  <2>3. QED
    BY <2>1, <2>2
<1>5. ASSUME NEW l \in Login, OnHandshake(c, l)
      PROVE  Owned'
  BY <1>3, <1>5 DEF OnHandshake, Refuse
<1>6. QED
  BY <1>1, <1>2, <1>4, <1>5 DEF Callback

LEMMA OnPipeWriteOwns ==
    ASSUME Inv, Owned, NEW k \in Kid, OnPipeWrite(k)
    PROVE  Owned'
<1> DEFINE wq == pipe[k].wq
<1>1. PICK m \in 0..Len(wq), stop \in WriteStop :
         /\ pipe' = [pipe EXCEPT ![k] = SocketProcessWqueue(@, m, stop)]
         /\ fd' = Closed({SubSeq(wq, 1, m)[i] : i \in 1..m})
         /\ twice' = ClosedTwice({SubSeq(wq, 1, m)[i] : i \in 1..m})
  BY DEF OnPipeWrite
<1>2. wq \in Seq(Conn) /\ pipe[k] \in SocketType(Conn)
  BY QueuedType
<1>3. SocketProcessWqueue(pipe[k], m, stop).wq = SubSeq(wq, m + 1, Len(wq))
  <2> DEFINE s == pipe[k]
  <2>1. s \in SocketType(Conn) /\ m \in 0..Len(s.wq)
    BY <1>2
  <2> HIDE DEF s
  <2>2. SocketProcessWqueue(s, m, stop).wq = SubSeq(s.wq, m + 1, Len(s.wq))
    BY <2>1, SocketProcessWqueueLemma
  <2>3. QED
    BY <2>2 DEF s
<1>4. /\ pipe'[k].wq = SubSeq(wq, m + 1, Len(wq))
      /\ \A j \in Kid \ {k} : pipe'[j] = pipe[j]
  BY <1>1, <1>3 DEF Inv, TypeOK
<1> DEFINE n == [j \in Kid |-> IF j = k THEN m ELSE 0]
           D == {SubSeq(wq, 1, m)[i] : i \in 1..m}
<1>5. m \in Nat /\ n \in [Kid -> Nat] /\ n[k] = m /\ \A j \in Kid \ {k} : n[j] = 0
  OBVIOUS
<1>6. /\ \A i \in 1..m : i \in DOMAIN wq /\ SubSeq(wq, 1, m)[i] = wq[i] /\ wq[i] \in Conn
  BY <1>2
<1>7. \A i \in 1..m, d \in Conn : At(k, i, d) <=> d = SubSeq(wq, 1, m)[i]
  BY <1>6 DEF At
<1>8. D \in SUBSET Conn
  BY <1>6
<1> HIDE DEF n
<1>9. \A d \in Conn : d \in D <=> \E j \in Kid : \E i \in 1..n[j] : At(j, i, d)
  <2>1. \A d \in Conn : d \in D <=> \E i \in 1..m : At(k, i, d)
    BY <1>7
  <2>2. \A j \in Kid : \A i \in 1..n[j] : j = k
    BY <1>5
  <2>3. QED
    BY <1>5, <2>1, <2>2
<1> HIDE DEF D
<1>10. \A j \in Kid, d \in Conn : \A i \in Nat :
          At(j, i, d)' <=> i # 0 /\ At(j, n[j] + i, d)
  <2> DEFINE rest == SubSeq(wq, m + 1, Len(wq))
  <2>1. ASSUME NEW d \in Conn, NEW i \in Nat
        PROVE  At(k, i, d)' <=> i # 0 /\ At(k, m + i, d)
    <3>1. (i \in DOMAIN rest /\ rest[i] = d)
            <=> (i # 0 /\ m + i \in DOMAIN wq /\ wq[m + i] = d)
      <4> HIDE DEF wq
      <4> QED
        BY <1>2, PlacesSubSeq
    <3>2. pipe'[k].wq = rest
      BY <1>4
    <3> HIDE DEF rest
    <3>3. QED
      BY <3>1, <3>2 DEF At
  <2>2. ASSUME NEW j \in Kid \ {k}, NEW d \in Conn, NEW i \in Nat
        PROVE  At(j, i, d)' <=> i # 0 /\ At(j, 0 + i, d)
    <3>1. At(j, i, d)' <=> At(j, i, d)
      BY <1>4 DEF At
    <3>2. At(j, i, d) => i # 0
      BY DEF Owned, QueuesShort
    <3>3. QED
      BY <3>1, <3>2
  <2>3. QED
    BY <1>5, <2>1, <2>2
<1>11. UNCHANGED <<reg, managed, swallowed>>
  BY DEF OnPipeWrite
<1> DEFINE S == {}
<1>12. /\ S \in SUBSET Conn /\ \A c \in S : Held(c) /\ reg'[c] = "none"
       /\ fd' = Closed(S \cup D) /\ twice' = ClosedTwice(S \cup D)
  BY <1>1 DEF D
<1> HIDE DEF S
<1>13. \A c \in Conn : /\ c \notin S => (Held(c)' <=> Held(c))
                       /\ reg'[c] = "open" => reg[c] = "open"
  BY <1>11 DEF Held
<1> QED
  BY <1>5, <1>8, <1>9, <1>10, <1>11, <1>12, <1>13, CloseOwns

\* The pipes in K are freed with what is in their queues, and the managed
\* sockets in S.
LEMMA FreedOwns ==
    ASSUME Inv, Owned, NEW K \in SUBSET Kid, NEW S \in SUBSET Conn,
           \A k \in Kid : pipe'[k].wq = IF k \in K THEN << >> ELSE pipe[k].wq,
           \A c \in S : Held(c) /\ reg'[c] = "none",
           \A c \in Conn : /\ c \notin S => (Held(c)' <=> Held(c))
                           /\ reg'[c] = "open" => reg[c] = "open",
           UNCHANGED <<managed, swallowed>>,
           fd' = Closed(S \cup Freed(K)), twice' = ClosedTwice(S \cup Freed(K))
    PROVE  Owned'
<1> DEFINE n == [k \in Kid |-> IF k \in K THEN Len(pipe[k].wq) ELSE 0]
           D == Freed(K)
<1>1. \A k \in Kid : pipe[k].wq \in Seq(Conn) /\ Queued(k) \subseteq Conn
  BY QueuedType
<1>2. /\ n \in [Kid -> Nat]
      /\ \A k \in K : n[k] = Len(pipe[k].wq)
      /\ \A k \in Kid \ K : n[k] = 0
  BY <1>1
<1> HIDE DEF n
<1>3. D \in SUBSET Conn
  BY <1>1 DEF Freed
<1>4. \A d \in Conn : d \in D <=> \E k \in Kid : \E i \in 1..n[k] : At(k, i, d)
  <2>1. \A k \in K, d \in Conn : d \in Queued(k) <=> \E i \in 1..n[k] : At(k, i, d)
    BY <1>1, <1>2 DEF Queued, At
  <2>2. \A d \in Conn : d \in D <=> \E k \in K : d \in Queued(k)
    BY DEF Freed
  <2>3. \A k \in Kid \ K : ~\E i \in 1..n[k] : TRUE
    BY <1>2
  <2> HIDE DEF D
  <2>4. QED
    BY <2>1, <2>2, <2>3
<1> HIDE DEF D
<1>5. \A k \in Kid, d \in Conn : \A i \in Nat :
         At(k, i, d)' <=> i # 0 /\ At(k, n[k] + i, d)
  <2>1. ASSUME NEW k \in K, NEW d \in Conn, NEW i \in Nat
        PROVE  ~At(k, i, d)' /\ (i # 0 => ~At(k, n[k] + i, d))
    <3>1. ~At(k, i, d)'
      BY DEF At
    <3>2. Len(pipe[k].wq) \in Nat /\ DOMAIN pipe[k].wq = 1..Len(pipe[k].wq)
      BY <1>1
    <3>3. i # 0 => n[k] + i \notin DOMAIN pipe[k].wq
      BY <1>2, <3>2
    <3>4. QED
      BY <3>1, <3>3 DEF At
  <2>2. ASSUME NEW k \in Kid \ K, NEW d \in Conn, NEW i \in Nat
        PROVE  At(k, i, d)' <=> i # 0 /\ At(k, n[k] + i, d)
    <3>1. At(k, i, d)' <=> At(k, i, d)
      BY DEF At
    <3>2. At(k, i, d) => i # 0
      BY DEF Owned, QueuesShort
    <3>3. n[k] + i = i
      BY <1>2
    <3>4. QED
      BY <3>1, <3>2, <3>3
  <2>3. QED
    BY <2>1, <2>2
<1> QED
  BY <1>2, <1>3, <1>4, <1>5, CloseOwns DEF D

LEMMA OnChildOwns ==
    ASSUME Inv, Owned, OnChild
    PROVE  Owned'
<1> DEFINE zombies == {k \in Kid : kid[k] = "zombie"}
           known == {pid[l] : l \in Records} \cap zombies
           last == {k \in known : refs[k] = 1}
<1>1. /\ pipe' = [k \in Kid |-> IF k \in last THEN NoPipe
                                ELSE IF k \in known THEN SocketDel(pipe[k])
                                ELSE pipe[k]]
      /\ fd' = Closed(Freed(last)) /\ twice' = ClosedTwice(Freed(last))
      /\ UNCHANGED <<reg, managed, swallowed>>
  BY DEF OnChild
<1>2. last \in SUBSET Kid
  OBVIOUS
<1> HIDE DEF last, known
<1>3. \A k \in Kid : pipe'[k].wq = IF k \in last THEN << >> ELSE pipe[k].wq
  <2>1. \A k \in Kid : pipe'[k] = IF k \in last THEN NoPipe
                                  ELSE IF k \in known THEN SocketDel(pipe[k])
                                  ELSE pipe[k]
    BY <1>1
  <2>2. QED
    BY <2>1, NoPipeLemma, SocketDelLemma, QueuedType
<1> DEFINE S == {}
<1>4. /\ S \in SUBSET Conn /\ \A c \in S : Held(c) /\ reg'[c] = "none"
      /\ fd' = Closed(S \cup Freed(last)) /\ twice' = ClosedTwice(S \cup Freed(last))
  BY <1>1
<1> HIDE DEF S
<1>5. \A c \in Conn : /\ c \notin S => (Held(c)' <=> Held(c))
                      /\ reg'[c] = "open" => reg[c] = "open"
  BY <1>1 DEF Held
<1> QED
  BY <1>1, <1>2, <1>3, <1>4, <1>5, FreedOwns

LEMMA ReleaseOwns ==
    ASSUME Inv, Owned, Release
    PROVE  Owned'
<1> DEFINE gone == {c \in Conn : reg[c] = "deleted"}
           dead == {k \in Kid : pipe[k].reg = "deleted"}
           last == {k \in dead : refs[k] = 1}
           S == {c \in gone : managed[c]}
<1>1. /\ reg' = [c \in Conn |-> IF c \in gone THEN "none" ELSE reg[c]]
      /\ pipe' = [k \in Kid |->
                    IF k \in last THEN NoPipe
                    ELSE IF k \in dead THEN [pipe[k] EXCEPT !.reg = "dead"]
                    ELSE pipe[k]]
      /\ fd' = Closed(S \cup Freed(last)) /\ twice' = ClosedTwice(S \cup Freed(last))
      /\ UNCHANGED <<managed, swallowed>>
  BY DEF Release
<1>2. last \in SUBSET Kid /\ S \in SUBSET Conn
  OBVIOUS
<1>3. \A c \in S : Held(c) /\ reg'[c] = "none"
  BY <1>1 DEF Held
<1>4. \A c \in Conn : /\ c \notin S => (Held(c)' <=> Held(c))
                      /\ reg'[c] = "open" => reg[c] = "open"
  BY <1>1 DEF Held
<1>5. \A k \in Kid : pipe'[k].wq = IF k \in last THEN << >> ELSE pipe[k].wq
  BY <1>1, NoPipeLemma, ReleasedPipe, QueuedType
<1> HIDE DEF last, S
<1> QED
  BY <1>1, <1>2, <1>3, <1>4, <1>5, FreedOwns

LEMMA OnPipeErrorOwns ==
    ASSUME Inv, Owned, NEW k \in Kid, OnPipeError(k)
    PROVE  Owned'
<1>1. \A j \in Kid : pipe'[j].wq = pipe[j].wq
  <2>1. \A j \in Kid : pipe'[j] = IF j = k THEN SocketDel(pipe[j]) ELSE pipe[j]
    BY DEF OnPipeError, Inv, TypeOK
  <2>2. QED
    BY <2>1, SocketDelLemma, QueuedType
<1>2. UNCHANGED <<reg, managed, fd, swallowed, twice>>
  BY DEF OnPipeError, conns, hist
<1> QED
  BY <1>1, <1>2, PlacesSame, SameOwners

LEMMA InitOwned == Init => Owned
<1> SUFFICES ASSUME Init PROVE Owned
  OBVIOUS
<1>1. \A k \in Kid : pipe[k].wq = << >>
  BY NoPipeLemma DEF Init
<1>2. \A k \in Kid, c \in Conn : \A i \in Nat : ~At(k, i, c)
  BY <1>1, PlacesEmpty
<1>3. QueuesShort /\ QueuedOnce /\ QueuedOpen
  BY <1>2 DEF QueuesShort, QueuedOnce, QueuedOpen
<1>4. HeldOpen /\ OpenOwned /\ Fresh /\ twice = {}
  BY DEF Init, HeldOpen, OpenOwned, Fresh, Held
<1> QED
  BY <1>3, <1>4 DEF Owned

LEMMA NextOwned == Inv /\ Owned /\ [Next]_vars => Owned'
<1> SUFFICES ASSUME Inv, Owned, [Next]_vars PROVE Owned'
  OBVIOUS
<1>1. CASE UNCHANGED <<pipe, reg, managed, fd, swallowed, twice>>
  BY <1>1, PlacesSame, SameOwners
<1>2. CASE World
  <2>1. ASSUME NEW k \in Kid, Receive(k) \/ CloseKid(k) \/ EndKid(k)
        PROVE  Owned'
    BY <1>1, <2>1 DEF Receive, CloseKid, EndKid, pipes, conns, hist
  <2>2. CASE Edit
    BY <1>1, <2>2 DEF Edit, pipes, conns, hist
  <2>3. QED
    BY <1>2, <2>1, <2>2, AcceptOwns DEF World
<1>3. CASE Loop
  <2>1. CASE EpollWait \/ OnHangup
    BY <1>1, <2>1 DEF EpollWait, OnHangup, pipes, conns, hist
  <2>2. QED
    BY <1>3, <2>1, ReleaseOwns, OnChildOwns, OnPipeErrorOwns, OnPipeWriteOwns,
       CallbackOwns DEF Loop
<1>4. CASE UNCHANGED vars
  BY <1>1, <1>4 DEF vars, pipes, conns, hist
<1>5. QED
  BY <1>2, <1>3, <1>4 DEF Next
-----------------------------------------------------------------------------
(* Counting the owners                                                     *)

\* The socket counts one if it will close the fd, and each place in a queue.
LEMMA CountOwners ==
    ASSUME Inv, Owned, NEW c \in Conn \ swallowed
    PROVE  Owners(c) = IF fd[c] = "open" THEN 1 ELSE 0
<1> DEFINE A == {i \in {0} : reg[c] # "none" /\ managed[c]}
           B == {q \in Kid \X (1..WQueueMax) :
                   q[2] \in DOMAIN pipe[q[1]].wq /\ pipe[q[1]].wq[q[2]] = c}
<1>1. Owners(c) = Cardinality(A) + Cardinality(B)
  BY DEF Owners
<1>2. A = IF Held(c) THEN {0} ELSE {}
  BY DEF Held
<1>3. \A k \in Kid : \A i \in 1..WQueueMax : <<k, i>> \in B <=> At(k, i, c)
  BY DEF At
<1>4. \A q \in B : q \in Kid \X (1..WQueueMax)
  OBVIOUS
<1>5. Cardinality({}) = 0 /\ \A x : Cardinality({x}) = 1
  BY FS_EmptySet, FS_Singleton
<1> HIDE DEF A, B
<1>6. CASE \E k \in Kid : \E i \in Nat : At(k, i, c)
  <2>1. PICK k \in Kid : \E i \in Nat : At(k, i, c)
    BY <1>6
  <2>2. PICK i \in Nat : At(k, i, c)
    BY <2>1
  <2>3. fd[c] = "open" /\ ~Held(c) /\ i \in 1..WQueueMax
    BY <2>2 DEF Owned, QueuedOpen, QueuesShort
  <2>4. ASSUME NEW j \in Kid, NEW h \in 1..WQueueMax
        PROVE  <<j, h>> \in B <=> j = k /\ h = i
    <3>1. At(j, h, c) => j = k /\ h = i
      BY <2>2 DEF Owned, QueuedOnce
    <3>2. QED
      BY <1>3, <2>2, <3>1
  <2>5. B = {<<k, i>>}
    BY <1>4, <2>3, <2>4
  <2>6. A = {}
    BY <1>2, <2>3
  <2>7. Cardinality(A) = 0 /\ Cardinality(B) = 1
    BY <1>5, <2>5, <2>6
  <2>8. QED
    BY <1>1, <2>3, <2>7
<1>7. CASE ~\E k \in Kid : \E i \in Nat : At(k, i, c)
  <2>1. B = {}
    BY <1>3, <1>4, <1>7
  <2>2. Held(c) <=> fd[c] = "open"
    BY <1>7 DEF Owned, HeldOpen, OpenOwned
  <2>3. Cardinality(B) = 0 /\ Cardinality(A) = IF fd[c] = "open" THEN 1 ELSE 0
    BY <1>2, <1>5, <2>1, <2>2
  <2>4. QED
    BY <1>1, <2>3
<1> QED
  BY <1>6, <1>7

\* The fd of a connection has exactly one owner while it is open, its socket or
\* one place in the queue of one pipe, none afterwards, and it is never closed
\* twice: with any number of children and connections, whatever order their
\* ends, refusals and full queues come in.
THEOREM Owner == Spec => []OneOwner
<1>1. Inv /\ Owned => OneOwner
  BY CountOwners DEF OneOwner, Owned
<1>2. QED
  BY <1>1, Invariance, InitOwned, NextOwned, PTL DEF Spec
=============================================================================
