# A TLA+ model of mazec

mazec is the server of a programming contest: contestants' programs connect over TCP, log in, pick a
level by its code and walk a maze with one-line commands, while a browser shows the maze over a
websocket. This directory holds TLA+ modules that model the server, TLC configurations that check
them, and TLAPS proofs of the most important properties. Paths below are relative to `src/`.

Contents: [inventory](#inventory), [modules](#modules), [runs](#runs), [fairness](#fairness),
[proofs](#proofs), [findings](#findings), [other divergences](#other-divergences),
[not modelled](#what-is-not-modelled), [plan](#plan).

## How the system works

There is one **master** process and one **child** process per login that plays. Each is a single thread
in `event_loop` (`server/event.c`): `epoll_wait` collects a *batch* of events, the callbacks run one by
one, and what one callback deletes, pauses or re-arms is not taken out of the batch. Deleted descriptors
stay on a list and are released (destructor, `close`, `free`) before the next `epoll_wait`. Almost
everything that is hard to test here comes from this: the order of the callbacks of a batch is the
kernel's, and most of them see state that was different when their event was collected.

The master accepts connections of programs (`USER login`) and of browsers (a websocket handshake whose
path is the login), looks the login up in the db file it read, starts a child if there is none, and
passes the descriptor over a socketpair (`SCM_RIGHTS`). The child expects `LEVL code`; the first one
loads the level and starts its clock. From then on commands are answered with `DONE`, `DATA`, `NOPE`
or, once and finally, `OVER`. `WAIT` holds the level until the user of the browser presses START: all
sockets and level timers are paused and the remaining time is put aside. A child ends when a player
leaves, when nobody is left, when KILL is pressed, or when nobody came.

## Inventory

| component | state | operations | talks to | hard behaviour | what makes it correct |
|---|---|---|---|---|---|
| event loop, `server/event.c` | interest of every fd, batch, deleted fds, signals, quit | add, change, pause, delete an fd; dispatch; release | everyone, by callbacks | stale events, deletion in a batch, reused descriptor numbers | no freed object is called; each event reaches the object it was for |
| timers, `server/event.c` | timerfd, armed, paused, backlog, time to resume with | new, arm, pause, resume, delete, `timer_cb` | level, rate limit, idle, redraw | expiry racing with a hold or a deletion | never early, never twice, never lost |
| sockets, `server/socket.c` | write queue (20 messages), rate limit, write-done callback, references | write, read, stop reading, pause, flush and delete | epoll, the kernel's buffers | partial writes, a full queue, throttling, dead sockets | order kept, nothing stranded, descriptors closed once |
| protocol, `server/proto.c` | a parser and a stage per connection, counters, hold | `USER` (master), `LEVL` and commands (child), errors, OVER | sockets, levels, browser | several programs in one level, errors in the middle of a batch | counters true, one reply per command, OVER last |
| level clock, `server/proto.c`, `server/time.c` | deadline, pause deadline, time put aside | start, check, hold, resume, show | protocol, drawing | two representations of the time left, one of them rounded; 0 has two meanings | limit enforced and no sooner, but for the rounding of holds; display agrees |
| user database, `server/db.c` | active and inactive records, a pid and a pipe each | reload on SIGHUP, start and end a process | spawn, signals, pipes | reload while children run; child ended and not reaped | one child per login, right child |
| descriptor passing, `server/ipc.c`, `server/spawn.c` | pipes, idle timer | send, receive, spawn | database, protocol, websocket | full or dead pipe, response before the hand-over | one owner per descriptor |
| handshake, `server/websocket_http.c` | tokenizer, headers seen | read headers, respond, hand over | master, base64/sha1 | input cut anywhere, header order, folding | every request gets the verdict it deserves (one without a key does not, [finding 7](#findings)) |
| frames, `server/websocket_data.c` | header fields, mask, reassembly, list of browsers | read, write, ping/pong, close, broadcast | app, drawing | control frames between fragments, long lengths | messages whole and in order |
| drawing, `server/draw.c`, `server/app.c` | tiles, sprites, buttons, time, changed | set, clear, commit | levels, browsers | nothing is sent when nothing changed; packing | every browser sees the level as it is |
| levels, `server/levels/` | maze, players, screen | get and free data, move, what, maze, redraw | protocol, drawing | players hide what they stand on, array edges | answers agree with each other |
| levels in Python, `server/pybindings.c` | list of objects, timer objects | the same by methods of a class; timers | protocol, timers | Python frees objects at any moment, a list that only grows | no dead object is called; drawing gets the players |
| report of a win, `server/proto.c`, `server/spawn.c` | a process, its output | run, read, report | an external program, SIGCHLD | output in pieces, longer than the buffer | the winner is told what the report says |
| hash of the handshake, `server/sha1.c`, `server/base64.c` | digest, a block, a count of bits | update, final, encode | handshake | ends of blocks | the answer browsers expect |
| generator, `server/levels/generator.c` | array, stack | generate | levels | depth of the walk | connected, stack never overflows |
| clients, `lib/` | receive buffer | send a command, read the reply | server | numbers cut by the buffer's end | exactly the numbers that were sent |
| browser, `frontend/script.js` | picture | decode, buttons | child | packed formats | see drawing |

`PROJECT.json` lists these with their status, and under "hazards" the places where each can go wrong.

## Modules

| module | models | extends | run by |
|---|---|---|---|
| `LevelClock` | the clock of a level | `TimeArith` | `MCLoop` |
| `Socket` | one socket with its fd data, as a record | | (`Child`, `Master`) |
| `Game` | what a child promises, abstractly | | (refined by `Child`) |
| `Child` | the child process | `Socket` | `MCChild` |
| `Master` | the master process | `Socket` | `MCMaster` |
| `Timers` | timers and their descriptors | | itself, `MCLoop` |
| `FdTable` | hash of descriptors, list of deleted ones, destructors | | `MCLoop` |
| `TimeArith` | seconds and nanoseconds | | (`LevelClock`, `RateLimit`) |
| `RateLimit` | the token bucket of a socket | `TimeArith` | itself, `MCLoop` |
| `DbFile` | the file of logins and the two lists of users | | `MCLoop` |
| `Spawn` | the program that is run for a winner | | `MCLoop` |
| `PyLevel` | a level in Python: objects, timers, exceptions | | `MCLoop` |
| `MsgParser` | the byte parser of commands | | `MCParts` |
| `WsHttp` | tokenizer and headers of the handshake | | `MCParts` |
| `AcceptKey` | SHA-1 and base64 of the handshake | | `MCParts` |
| `WsFrames` | frames in both directions | | `MCParts` |
| `Draw` | drawing, broadcast, decoding in the browser | | `MCParts` |
| `SimpleLevel` | grid.c, simple.c and centered.c | | `MCParts` |
| `Generator` | generator.c | | `MCParts` |
| `MazeLib` | receive buffer and calls of the C client library | | `MCClient`, `MCParts` |
| `SocketProofs` | lemmas about `Socket` | `Socket`, `TLAPS` | |
| `ChildProofs`, `MasterProofs` | proofs about `Child` and `Master` | their module, `SocketProofs` | |
| `EventProofs` | proofs about `Timers` and `FdTable` | those two, `TLAPS` | |
| `ListProofs` | proofs about `PyLevel` and `DbFile` | those two, `TLAPS` | |
| `LoopProofs` | proofs about `Spawn`, `RateLimit` and `MsgParser` | those three, `TLAPS` | |
| `LevelProofs` | proofs about `LevelClock`, `Generator`, `SimpleLevel`, `MazeLib` | those four, `TLAPS` | |
| `WebProofs` | proofs about `WsHttp`, `WsFrames` and `Draw` | those three, `TLAPS` | |

### LevelClock

`now` is `time_now()`, in nanoseconds, and only `Tick` moves it. `pEndSet`, `pEnd`, `canPauseUntil`,
`waiting`, `pausedTime` are `p_end_set`, `p_end`, `p_can_pause_until`, `p_waiting`, `p_paused_time`;
`stage` is `pd->process` and `closing` the connections that only flush. `pEnd` and `canPauseUntil` are
records of seconds and nanoseconds; `TimeFromNow`, `TimeAfter` and `TimeLeft` are the functions of `time.c`,
by the operators of `TimeArith`. `p_paused_time` is in whole milliseconds, and `time_diff` rounds a
difference of nanoseconds towards zero, so that a WAIT that comes between two milliseconds puts aside up to
almost one more or one less than is left. Actions are `Level`
(`process_level` with `start_level`), `Serve`, `Refuse`, `Wait` (`process_cmd`), `Resume`
(`proto_resume`), `Draw` (`p_draw`), `Over` and `Close`. Three history variables: `run`, the time the level
ran without a hold, which is what the properties are about and has no counter in the code; `slack`, one
nanosecond less than a millisecond for each hold that was rounded; and `last`, how the last step answered a
command or what it showed. A command that is
processed although its socket is paused (see the finding on WAIT) is possible here: `Serve` and `Refuse`
have no guard on the hold.

### Socket

A socket is a record; every function of `socket.c` that matters is an operator from a record to a record:
`EventChange` (`event_change_fd`, `_add`, `_remove`, which all tell epoll the full interest, so that they
undo a pause), `SocketPause`, `SocketDel`, `SocketFlushAndDel`, `SocketWrite` with `WriteFails`,
`SocketProcessWqueue` with the three ways it ends, `RateTimer`. The token bucket and the kernel's buffer
are choices (`CanStop`): a round may stop after any number of messages. `reg` has "deleted" (on the list
of deleted fds) apart from "dead" (released, references left), because `socket_write` fails on the one
and silently swallows the message on the other.

### Child and Game

`place`, `inbox`, `gone` are the connection as the client and the kernel have it; `sock`, `stage` are its
`struct proto_data`; `count`, `boundCount`, `boundMax`, `loaded`, `waiting` are `p_count`,
`p_bound_count`, `p_bound_max`, `p_code`/`p_level`, `p_waiting`. `EpollWait` takes everything that is
certainly pending and any part of what depends on the clock or on buffers; the callbacks `OnRead`,
`OnError`, `OnWrite`, `OnRate`, `OnPipeConn`, `OnPipeBrowser`, `OnIdle`, `OnButton`, `OnLeft` take events
out of the batch in any order, except that the parts of one `socket_cb` follow each other (`cur`) in the
order the function has. `Release` is `release_deleted` with `p_free`, `ws_free` and `proto_cond_close`.
`OnRead` is the whole of `p_read` with the handler of the command in it. Commands are LEVL, WAIT and
everything else that has one answer; what ends a connection is the same code for all reasons, and here is
a LEVL in the wrong place, a command before LEVL, a second command before the first was answered, or a
full queue. `awaiting` is the only history variable: it counts what a client that waits for its answers
is owed.

`Game` has members, players, the size of the level and its end. `PlaysTheGame` says that `Child`
implements it with members = the connections in the child, players = those with a level, over = the
process does not run any more. What it adds to the invariants is on steps: a place in the level is only
freed by ending the game, several members may leave in one release, nobody plays who is not a member, and
the size is set once.

### Master

`users` and `inactive` are the two lists of `db.c`, `pid` the field of each record (its pipe is the pipe
of that child), `pipe`/`refs` the master's sockets to children with `socket_ref`/`socket_unref`,
`channel` what is in the kernel's pipe, `reg`/`stage`/`managed`/`fd` a connection, its stage and who
closes it. A child is what the master sees: it receives descriptors, closes everything (`CloseKid`),
becomes a zombie (`EndKid`) and is reaped (`OnChild`). These are three different moments and connections
for its login may come between any two. `OnUser`, `OnHandshake`, `OnHeadersSent` end in `HandOver`
(`ipc_send_socket`) with its outcomes: the pipe took it, the queue was full, the pipe is dead, a child
was started, none could be. `OnHangup` is `db_reload`. `served`, `swallowed`, `twice` and `wants` are
history variables.

### Timers

`td` is `struct timer_data` with its fd data, `clock` the kernel's timerfd behind each descriptor number;
numbers are reused lowest first. `TimerCb` reads the descriptor, so that it also empties one that meanwhile
belongs to another timer. `Pause`/`Resume` are `timer_pause`/`timer_resume` for all level timers, as
`proto_pause`/`proto_resume` call them. `wish` (what the program asked for and how long the timer ran),
`early` and `lost` are history variables.

### FdTable

`fdd` is `struct fd_data` of each entry, `chain` the hash, `doomed` the list `deleted` with its first
element first, `opened` the descriptors the kernel has open, `polled` what epoll has for each number. A
socket with a rate limit owns a timer, and its destructor `socket_kill` calls `timer_del`, that is
`event_del_fd` from within `release_deleted`: `Release` is one round of that loop with what the destructor
puts in front of the entry that is being released. `HandOver` deletes a socket without closing it, whose
number the pipe closes at any later moment (`PipeTakes`). `leaks` is a history variable.

### RateLimit and TimeArith

`TimeArith` is `time.c` on records of seconds and nanoseconds, with the division of C, for seconds of any
number of milliseconds and milliseconds of any number of nanoseconds. `RateLimit` uses it for
`socket_get_bucket` and `socket_set_bucket`, which keep the bucket as an instant. `real` is the clock of the
kernel, `cached` that of the program; `RateTick` moves the one at any moment, also in the middle of a
batch: the batch's clock is that of the first callback that asks for it, whichever that is. `ProcessWqueue`
sends `n` whole messages and ends in one of the three ways of the loop. `ideal` holds two token buckets that
know no rounding (history): a strict one and one that forgives each message the rounding of its two
conversions. They fill by the clock of the program (`ideal.at` is when they last did): in real time a batch
that takes long lets out more, see [other divergences](#other-divergences). `fair` says whether the timer
that lets a message pass was armed for that message.

### Around the processes

* `DbFile`: `db_reload` piece by piece as `fgets` returns them (`TakeNext` is one call of it, `TakeAll` the loops), `db_start_process`, `db_end_process`.
  `Master` uses the lists as sets; here is how the file becomes the lists. `spawned` is a history variable.
* `Spawn`: `exec_wait` reads the output of a program in pieces of any length while the loop stands still;
  `sig_handler` meets the zombie later. Words stand for what `p_report_win` tells apart.
* `PyLevel`: `data_list` of `pybindings.c` and the array `timers` of `proto.c`; every method may create, arm,
  disarm and free a timer (`PythonCode`) and raise an exception: the level's own ones end a player's game,
  any other ends the process (`Fatal`). One step of Python code does at most one thing to the timers. One
  event may bring a command and the end of its connection: `socket_cb` calls `cb_read` and then deletes the
  socket (`IsThen`). `gone` (who was deleted when the batch began) and `called` are history variables.

`MCLoop` runs these, `LevelClock` and `Timers` one at a time from initial states of their own: they share
no variable. What they share in the code is the loop, of which each has the part that it depends on.

### The parts that work alone

* `MsgParser`: `process_msg_chunk` and `check_msg_complete`, any bytes in any pieces. Letters, blanks, CR,
  LF, NUL stand for their classes. Properties compare the parser with a grammar of whole messages.
* `WsHttp`: tokenizer with its futures (what the next character may be), `process_header_*`; the properties
  compare the result with what the request as a whole deserves.
* `WsFrames`: `process_chunk`, reassembly, the reaction to every opcode, `ws_write`. Payload bytes are
  bits, so that the mask is an exclusive or of bits; lengths are real, up to 130, so that both forms of a
  length occur.
* `Draw`: `draw_item` (tile or sprite), the run-length packing, the redraw functions, the commit rule, and
  on the other side the decoder of `frontend/script.js`.
* `SimpleLevel`: players, moves in both styles, WHAT and MAZE, `update_viewport`; the answers and the redraw
  of a level whose screen is centered on its player.
* `AcceptKey`: `construct_accept_key` with `SHA1Update`, one step for each of the 80 rounds, `SHA1Final` and
  `base64_encode`. Words of 32 bits are pairs of halves, since integers of TLC have 32 bits with a sign.
* `Generator`: the random walk with its stack, holes, for any outcome of the shuffles.
* `MazeLib`: the buffer of `libmaze.c` with its reads of any length, and what its calls return or throw.

`MCParts` runs these eight one at a time from one initial state each: they share no state in the code
either, and one run explores them all.

## Runs

| run | module, configuration | what it shows |
|---|---|---|
| `child_polite` | `MCChild`, `ChildPolite.cfg` | two programs that wait for their answers and a browser: counters true, one reply each, no pause survives START, an empty child quits, the promise of `Game` is kept |
| `child_alone` | `MCChild`, `ChildAlone.cfg` | one program that waits or sends ahead: OVER last, nothing stranded in the queue, `check()` never fails; under fairness the client is answered |
| `child_wait_ack` | `MCChild`, `ChildWaitAck.cfg` | violation: the reply to WAIT may be sent during the hold |
| `child_free_data` | `MCChild`, `ChildFreeData.cfg` | violation: `free_data` is given NULL |
| `master_safe` | `MCMaster`, `MasterSafe.cfg` | logins, reloads, children and full pipes in every order: one child per login, right child, no freed pipe, one owner per descriptor |
| `master_lets_go` | `MCMaster`, `MasterLetsGo.cfg` | under fairness every connection is passed on or closed |
| `master_fd_owned` | `MCMaster`, `MasterFdOwned.cfg` | violation: a descriptor written to a dead pipe belongs to nobody |
| `loop` | `MCLoop`, `Loop.cfg` | clock: the limit of unheld play is kept and the display true, but for less than a millisecond of each hold, and holds never give more than `CAN_PAUSE_INTERVAL` in all. Timers: no freed timer is called, no call reports more expirations than there were, none comes in a hold but to a timer armed in it; a call that reports none comes only by a stale event after arming or resuming; an expiration is lost only by the known races. Descriptors: a number finds what epoll reports for it, and nothing leaks but what the destructor of a limited socket leaves. Rate: the bucket holds but for rounding and stale wakeups, nobody waits forever. Users, winner, Python: see [around the processes](#around-the-processes) |
| `timers_fire` | `Timers`, `TimersFire.cfg` | violation: a hold may lose an expiration |
| `rate_held` | `RateLimit`, `RateHeld.cfg` | violation: rounding gives small messages back what they cost |
| `parts` | `MCParts`, `Parts.cfg` | the eight parts above against their reference definitions; for the handshake this includes the one request that is not answered, [finding 7](#findings) |
| `client_maze` | `MCClient`, `ClientMaze.cfg` | violation: `maze_maze` fails on some mazes |

`CHECK_DEADLOCK FALSE` stands where the system may really stop: a child that ended, a clock at its
horizon, a master whose clients are all served, a part that has read all its input.

### Bounds, and why they are enough

* **Child**: two programs, because every shared thing (counters, hold, batch) is shared by a pair; levels
  for one and for two players, so that `P_MSG_CONN_TOO_MANY` and a full level both happen. Queues of 2 or
  3 messages for 20: full, nearly full and empty queues occur with DONE, the reply and OVER.
  `InboxMax` 2 in `child_alone` lets a client send ahead, which is the only way to fill a queue with
  replies and to be impatient. One browser with at most one unread button press. Clients log in again
  after they were released, so that runs are of unbounded length and only the state is bounded.
* **LevelClock**: a second of 2 ms of 2 ns, a limit of 2 seconds that may be held in its first 2 ms, 14 ns
  in all. The longest interesting story is: play, hold before the pause deadline
  between two milliseconds, resume, hold again, run out, be refused; it fits. A level may begin between
  two milliseconds or seconds, so that differences of nanoseconds of either sign, which are rounded up and
  down, occur. The proofs cover every value.
* **Master**: two logins, two children, a program and a browser, two reloads (leave and come back), pipes
  of 1 message: full after the first hand-over. `Kid` is a pool of processes; a reaped one is reused.
* **Timers**: a level timer and one of the program, one delay, at most 2 unread expirations. Two
  timers are what is needed for a descriptor number to go from one to the other within a batch.
* **FdTable**: 3 objects over 3 descriptors in 2 chains. A limited socket takes two of each, so that one
  more object can be in its chain, before or after it, and can get its number.
* **RateLimit**: a second of 2 ms of 2 ns, 2 bytes a second, a bucket of 5 bytes, messages of 1 and 5
  bytes (`Largest` is 5 too), queues of 2, 9 instants in steps of 2 and 3, so that a millisecond may be cut anywhere. The small message is what a millisecond brings, where the rounding is a
  whole message (as in `rate_held`); the large one is far more than rounding forgives and needs the timer.
  The bucket may be full, part full and empty, and time enough to nearly fill it once more may pass.
* **DbFile**: logins of 2 characters, six files with lines that are shorter, equal and longer, repeated,
  empty and without an end, any sequence of reloads; two processes.
* **Spawn**: a buffer of 4 words, outputs shorter, as long and longer, three wins.
* **PyLevel**: two players, two timer objects, room for two of each, as many descriptors as needed: the
  last place, a full level and a freed object with its event in the batch all occur.
* **Parts**: commands of 2 letters and values of 2 (full, overfull), lines of 7 bytes read in pieces up to
  3; frames with the lengths 0, 5, 126 and 129, up to three frames, so that a control frame comes between two fragments, any cut; a picture of 3
  by 3 places including what sticks out at each edge, runs up to 9 with a longest run of 4 in place
  of 258; a level of 6 by 5 on a screen of 4 by 3; mazes of up to 12 odd places with all walks; a client
  buffer of 14 bytes with three answers of up to 16. The text that is hashed: keys of lengths around
  the ends of blocks, up to 92 bytes, and pieces of up to 200; the known answers are the example of the
  standard of websockets and those in `sha1.c:6-10`.

## Fairness

Safety runs use `Spec`, without fairness. The liveness runs use `FairSpec`:

* `WF(Loop)` in `Child` and `Master`: the thread keeps calling callbacks and `epoll_wait`. Callbacks of
  the C code do not block (all descriptors are non-blocking).
* `SF(Wakes(e))`: epoll is level-triggered, so that an event that is there again and again is reported in
  some batch: writability of a socket watched for EV_WRITE, an armed rate-limit timer. Strong, because
  other callbacks (a hold) can take the interest away in between.
* `SF(Sends(c))`: a client that stays connected reads its socket, so that a writable socket takes
  messages. This is an assumption about clients; one that never reads keeps its queue (and is
  disconnected when it is full).
* `WF(OnPipeConn(c))` in `Child`: the order of descriptors in the pipe is that of their arrival, so that
  none is overtaken forever.
* `WF(Receive)`, `WF(EndKid)` in `Master`: children read their pipe, and a process that closed its
  descriptors becomes a zombie. The kernel delivers SIGCHLD.
* In `Master`, `SF(Wakes(<<c, "conn">>))` also says that a client sends something or leaves. The code has
  no timeout for a client that connects and stays silent; `LetsGo` says nothing about such a client.

`Answered` excludes what really can take forever or void the answer: a hold that nobody ends, a
connection that the client gave up, the end of the process.

## Proofs

TLAPS proves, for all values of the constants that satisfy the named assumptions:

| module | theorem | says |
|---|---|---|
| `LevelProofs` | `TypeCorrect`, `LimitIsEnforced`, `RefusalIsLate`, `DisplayIsTrue`, `HoldsAreEarly` | the safety properties of the clock, those of the run `loop`, which allow for the rounding of each hold, and `HoldIsEarly` (holds begin only early in a level), for any limit, second, millisecond, pause interval, horizon and set of connections |
| `LevelProofs` | `GeneratorInvariant`, `StackSuffices`, `Connected` | the generator's stack never overflows, and every odd place of the finished maze is open and connected, for all sizes, holes and outcomes of the shuffles |
| `LevelProofs` | `Told` | `MovesAsTold`: MOVE, WHAT, MAZE and the centered window agree, for every level and any number of players |
| `LevelProofs` | `KeepsUp` | `LonePlayerSeen`: the screen keeps up with a player who is alone, for every level, screen and border |
| `LevelProofs` | `AnswersRead` | `AnswersArrive`: a call of the C library gets its own answer, whole, for any buffer, mazes and pieces |
| `SocketProofs` | `SocketWriteLemma`, `SocketProcessWqueueLemma` and helpers | the write queue is first in, first out; no operation revives a deleted socket |
| `MasterProofs` | `TypeCorrect`, `OneChild`, `CurrentChild`, `Routing`, `PipeLives`, `Owner` | all safety properties of `master_safe`, for any logins, connections, children, reloads and queue length |
| `ChildProofs` | `Invariant`, `ChildCounts`, `ChildReplies`, `ChildOver`, `ChildWrites`, `ChildFlushes`, `ChildResumes`, `ChildChecks`, `ChildEnds` | all safety properties of `child_polite` and `child_alone`, for any set of connections, sizes of levels and length of queues |
| `ChildProofs` | `ChildPlays`, `ChildPlaysTheGame` | `Child` implements `Game`: until a level crashes it, and always when `free_data` does not use its argument |
| `EventProofs` | `TimersInvariant`, `NoneFreed`, `NoneEarly`, `Promised` | the safety properties of timers, for any timers and delays; `NoneEarly` confines the early call with a count of 0 to stale events of timers that were armed or resumed since, it does not exclude it |
| `EventProofs` | `FdTableInvariant`, `LooksUp`, `Leaks` | the hash, the list of deleted entries and epoll agree; exactly the known objects leak, for any hash and number of descriptors |
| `ListProofs` | `PyInvariant`, `RedrawnPlayers`, `LivingSelf` | drawing gets all players and nobody who left before the batch, and `self` is never a freed object, whatever Python code does to its timers |
| `ListProofs` | `Users` | the lists of users are true to the file and forget no child, for any files, reloads and length of a login |
| `LoopProofs` | `Winner` | a winner is told the report, for any output in any pieces |
| `LoopProofs` | `Waits`, `Rates` | a held back message is not forgotten; the rate holds but for rounding and stale wakeups, for any rate, bucket, messages and passing of time |
| `WebProofs` | `RequestAnswered` | `RequestVerdict`: a handshake gets the answer its first mistake deserves, however it is cut, for any buffer and known paths, unless it lacks nothing but the key, which ends the master |
| `WebProofs` | `FramesAnswered` | `EveryFrameAnswered`: messages whole and in order, every ping answered, the end at the first bad frame, for any number of frames, lengths of 16 bits, limit and cuts |
| `WebProofs` | `NobodyLeft` | `NobodyIsLeft`, the half of `EverybodySees` about time: nobody connected is left with an old picture, for any scenes and sizes |
| `LoopProofs` | `Judged` | the parser accepts exactly the messages of the grammar, however they are cut, for any lengths of command and value |

The assumptions are those the modules name: `SocketAssumption` (a queue has room for one message),
`ChildAssumption` (levels are for one player or more, "no connection" is none of the connections),
`MasterAssumption` (browsers are connections, the two null values are none of theirs), `ClockAssumption`
(natural numbers), `TimersAssumption` (there are finitely many timers, which `kill_level`
needs to stop; delays are not 0, since 0 disarms), `FdTableAssumption` (the hash has a chain),
`PyLevelAssumption` (names differ), `DbAssumption` (a login has a character, the files are texts, no process
has the number 0), `SpawnAssumption` (the buffer has room for a character),
`TimeAssumption` and `RateAssumption` (units and the rate are not 0, messages have a byte or more),
`MsgParserAssumption` (commands have a letter, values room for one), `GeneratorAssumption` (sides of 5 or
more: for 3 the C code divides by zero) and `SimpleLevelAssumption` (the ground has the size of the grid,
players start on an empty place, the screen is at least 3 places wide and high, its border is not negative
and fits twice), `MazeLibAssumption` (the buffer has room for the word of an answer, an answer has a number and
every number a digit), `WsHttpAssumption` (the longest header that is accepted fits the buffer; a path
holds no blank and no end of a line).

**LevelClock.** None of the properties is inductive: that a served command was in time depends on `pEnd`
being right, which depends on what `Resume` put back. `IInv` adds `Sync` (whichever of `p_end` and
`p_paused_time` is in force says what is left, to within `slack`), `Loaded` (there is a deadline exactly if a
level with a limit was loaded, and only its players give commands), `NoStaleHold` (without a deadline nothing
is put aside) and `Elapsed` (the level has not run longer than since it was loaded, which turns
`p_can_pause_until` into a bound on `run`). That holds never give more than `CAN_PAUSE_INTERVAL` in all needs
no counting: what is left was never more than the whole limit, which is a number of milliseconds, so that
rounding does not lead beyond it (`LeftIs`), and when a hold begins no more than `CAN_PAUSE_INTERVAL` has been
used. `QuotBounds` to `LeftIs` say what the functions of `time.c` do to instants: `time_from_now` is exact,
`time_after` compares instants, `time_left` is off by less than a millisecond in either direction. There is
one lemma per action or kind of action (`PauseKeeps` is the one that matters); `NextIInv` puts them together.

**Master.** `Inv` adds to the properties `RefsCounted` (a reference of the event loop while the pipe is
not released, one of the record while it knows the child), `FreedIsEmpty`, `EndedIsEmpty` (what is freed
or ended has nothing queued, so that a reused child starts with nothing of its predecessor),
`BatchIsOpen` (what has an event left in the batch was not released), `OpenHasFd` and `PassedOn` (a
connection on its way is not registered any more, so that it cannot ask for another login). `Routing`
needs them together: a connection keeps its login only because it is never called back once queued, and
the queue keeps its child only because the record kept the reference. There is one lemma per action;
`HandOver` is split by its outcome. `SocketProofs` supplies what happens to queues.

`OneOwner` needs an invariant of its own, `Owned`: a connection is in at most one place of one queue
(`QueuedOnce`), what is queued is open and not its socket's any more (`QueuedOpen`), what a socket is going
to close is open (`HeldOpen`), and what is open has one of these owners unless it was written to a dead
pipe, finding 3 (`OpenOwned`). `Fresh` says that a connection that was not handed over closes its own
descriptor, and that a closed one never comes back.

**Child.** What a socket can get into is described by properties of one record: `WritesOn` (something
queued is written some day), `Flushes`, `Masked` (a paused socket's interest is a part of what it wants),
`LastOver` (nothing is behind OVER); the four are `Sound`, which every operation of `Socket` preserves.
`Inv` adds that a connection outside of the child has no socket and no place in the level (`Placed`), that
what is read was not deleted earlier in the batch (`BatchIsOpen`), and that a polite client waits for at most
one answer (`OneAtATime`). `CountsAreTrue` is about cardinalities of sets that change by one element in the
callbacks and by any number in `Release`. What every handler of `OnRead` leaves alone is one lemma
(`ReadKeeps`), so that each handler only adds what it does.
The refinement maps a release of several connections to one step of `Game`. A child that crashes in
`free_data` (finding 2) leaves the game without the end it promises: the theorem has `FreeDataGetsData` as
its hypothesis or `~FreeUsesData`, and is wrong without.

**Timers.** `OnTime` relates a timerfd to the wish of the program: what the timer ran, with what it still has to
run, is a delay for each expiration that is unread and one more. `Armed` says this of every armed timer, of
its descriptor or, when it is paused, of the time put aside, and that the wish was fulfilled, is to come or is
lost. `Held`: only a hold pauses, and it pauses all level timers but those that were armed in it.
`OneTimerPerFd` and `HasFd` keep the descriptors apart; `Batched`: what a batch refers to is not freed, and
has its expirations unless it was set since. `NoFreedTimer` follows from `Batched`, `NeverEarly` from `Armed`.

**FdTable.** `Chained`: the entries of a chain are exactly those that hash to it, each once. `Doomed`: what is
deleted is on the list, once. `Numbers`: epoll watches what is hashed, and what is deleted keeps a number of
its own that it will close. `Limits`: the timer of a rate limit is hashed as long as its socket is not
released. `OnlyLimitsLeak` is about a loop whose body changes the list it walks: each round of
`release_deleted` keeps `Doomed` with what the destructor put in front.

**PyLevel.** `Given`: the list of objects has each connection once. `Began`: who was gone when the batch
began is not in it and does not come back, so that a redraw gets the players and some that left in the same
batch, in an event of their own or in that of their command. `Timed`: the array of descriptors and the timer objects that live correspond
one to one.

**DbFile.** What a round of `db_reload` reads ends at the first end of a line, with the buffer or with the file
(`FgetsStops`). `LoginOfLine`: what is read from where a line begins is that line cut to `LOGIN_LEN`, though
the code never sees a line as a whole; `LinesAreRead` says so of all lines, as `LinesOf` counts them. `Reads`
is what holds between two rounds: the users are those of the lines that began before, none is in the lists
twice, and together they have the children they had. `ListsOK` and `ChildrenOK` say it of the lists between
the calls, and that a number is of one child only, without which `db_end_process` could clear another's.

**Spawn.** `Heard`: the buffer and what is unread are the report cut in two.

**RateLimit.** `Polled` (a message waits only for epoll or the timer) is enough for `Waits`. `Rates` compares
the bucket that the code keeps as an instant with the lenient one. `Covered`: what has passed since
`last_xmit`, at the rate, is in the lenient bucket. `Bucket` may say up to 1 ms of the rate more than that
(`BucketBound`), and the timer may be armed for up to 1 ms too little (`DelayEnough`), which is what the 2 ms
per message forgive. `Enough`: when the timer that was armed for the message in front has expired, the
lenient bucket has enough for it. `Held` is all this within the loop of `socket_process_wqueue`, `Believed`
and `Armed` between callbacks; they have to distinguish the clock of the kernel, by which the timer expires,
from that of the batch, by which the message is sent.
The loop is a recursive function of how many messages were sent; an invariant of it is shown by the lowest
number of messages for which it would fail (`LowestNumber`), as are all facts about recursive functions here.

**MsgParser.** `Follows` says for each prefix of a line in which phase the parser is, by what the prefix is
(`Early`, `Open`, `Half`, `Lone`, `Both`); the reference grammar of whole lines is taken apart in the same way
(`LinesAre`).

**Generator.** `Trail`: the stack is a way of visited places without a repetition. `Explored`: a visited place
that is not on it has no neighbour left to visit. `Walls`: a wall is open only between two visited places.
`LinkedIn` is connectedness without paths: no part of the open places that holds the first one is closed
under neighbourhood but all of them. `Counted`: there is one open wall less than visited places, so that
there is one way only. `StackFits` follows from `Trail` and the number of odd places.

**SimpleLevel.** `PlayersOK`: players stand on empty places. `ToldTrue`: the last answer was what could be known
before; for the window of a centered level it needs a screen of at least 3 places, so that the neighbours
of a player are on it. `Followed`: the screen is where the first player begins until he comes, and where he is
as long as he is alone. `ViewportFollows` is the reason: a step leads at most one place off the screen
(`AheadIsClose`), then one direction gains a player and no other does (`GainFollows`), and the end of the level
cannot be in the way; on the screen nothing is gained, and what makes room at the border does not lose him
(`ComfortKeeps`). More players may leave each other's screen, and it need not be on any of them when all
but one have left: by then the child is about to end.

**MazeLib.** `Awaited`: what the program has still to read, in the buffer behind `ptr` and in the stream, is the
text of the answer to its last call, from the number on that is due (`Coming`); a program that waits for nothing
has nothing to read. `Ends` are the places of the delimiters in that text, which the recursion of `Numbers` puts
there (`NumbersAre`); no read (`ReadKeeps`) and no move of the buffer (`MovedKeeps`) changes what is to be read, so
that the first delimiter in the buffer is that of the next number, at its place.

**WsHttp.** `HttpInv` says where the reading of all that was sent will stop, so that it does not matter where it was
cut: reading a text is reading its two parts one after the other (`ReadsBoth`). Between two lines the tokenizer waits
for the next character to know whether the line goes on (`AtLine`); what the line leads to if it does not is `Line`,
ready for the next name with what the headers so far amount to (`Ready`, `Data`), or the error. `RequestLineRead`,
`HeaderRead` and `BadLineRead` lead from one such place to the next, `LastLine` to the end. `ValueKept` is why
it matters how a value is folded and padded: what is left of it is what the browser meant.

**WsFrames.** `FrameInv`: between two readings the first `i` frames are answered and `k` bytes of the next one are read
(`At`), with what the child knows of its header (`Got`) and of the message it belongs to (`KeptParts`); or the close
frame came behind the answers to what precedes the first bad frame (`Closed`). A reading is followed round by round
(`ChunkInduction`): a round reads a byte of a header (`HeaderByteIs`), some bytes of a payload (`PayloadIsRead`), or the
end of a frame, with one case for each opcode (`FrameEnds`, `FragmentJoined`). `WholeGrows` and `ContinuesNext` say how
the message and the question whether one is open change with a frame; `BytesAre` is the layout of a frame. The bound that
at most two frames are on their way belongs to the browser of the model, here as in the run.

**Draw.** `DrawInv`: unless a redraw is due the canvas shows the scene, and unless something on it has changed everybody
who is connected has its message. `RedrawAlike`: what drawing a level leaves on the canvas depends on the level
only, time and buttons stay what they are; so a redraw that was skipped because nobody was there can be made later, and
one more would change nothing.

**Only model-checked**: all of liveness, since fairness and `ENABLED` are out of the prover's reach.
`KnownAnswers` (`Bitwise`), and of `EverybodySees` that a browser understands the message of a canvas
(`Right`): the packing of tiles and sprites. `KnownAnswers` cannot be stated where theorems are, since
the digest is computed with `Bitwise`. `Right` is not out of reach in the same way, but no proof of it
exists: the packer and the unpacker are two recursive functions over sequences of different lengths, and
that one undoes the other needs a relation between every round of the one and of the other. TLC checks
it on every scene of the `Parts` run.

## Findings

1. **The reply to WAIT can be sent during the hold** (`child_wait_ack`). Two WAITs in one batch: the first
   pauses both sockets, the reply to the second tells epoll the full interest of its socket again
   (`event.c:240-248`) and `proto_pause` returns early. `proto.c:380-381` says the response "won't be send
   until the socket is enabled".
2. **`free_data` is called with NULL** (`child_free_data`) when a connection that never sent LEVL is
   released while others play (`proto.c:530`); `grid_free_data` dereferences it. `level.h:29`: "Frees
   private data allocated by the 'get_data' callback."
3. **A descriptor is lost** (`master_fd_owned`): `socket_write_ancil` returns 0 on the dead pipe of a child
   that is not reaped yet and forgets the descriptor; `ipc_send_socket` makes the connection unmanaged.
   `socket.h:24-25`: "The caller is responsible for closing the fd."
4. **Small messages are not limited** (`rate_held`): `time_diff` divides a negative difference of
   nanoseconds towards zero (`time.c:59`), so that the bucket, which is kept as an instant, gets up to 1 ms
   back as soon as the clock has moved at all. `socket.c:44-46`: "RATE 12000 /* in bytes per second */".
5. **A timer that expired is not called after a hold** (`timers_fire`): `timerfd_settime` in `timer_pause`
   resets the count that was not read yet. `event.h:55-56`: "it will be fired right after resume".
6. **`maze_maze` gives up on mazes** (`client_maze`) whose numbers fill the buffer of the C library
   exactly: `maze_raw_recv_int` empties its buffer only if something unread is left in it
   (`libmaze.c:126`).
7. **A handshake without a key ends the master** (`parts`, `RequestVerdict`). `HANDSHAKE_OK` does not
   include the key, so that `ws_headers_processed` hands NULL to `construct_accept_key`, which calls
   `strlen` on it (`websocket_http.c:323`, `343`); `websocket_http.c:277` has 400 for "misformatted or missing
   headers". `RequestVerdict` says exactly which requests these are: all headers but the key, nothing
   wrong, a known path; every other one gets its answer. The run reaches them (`outcome` is "crash").
   In `Master` handshakes have a key.

## Other divergences

Met while modelling, not made into runs of their own. The models follow the code.

* `level.h:18-19` says that after `max_time` all connections are terminated; `proto.c:303` refuses the next
  command, and a connection that is silent stays.
* `ws_error` closes with 1008 whatever the reason: its `case` labels are positive, the errors negative
  (`websocket_data.c:271-287`).
* A frame length with a byte of 128 or more is refused (the bytes are signed), and 127 announces 4 bytes
  of length where the protocol has 8. Frames that arrive after an error are still parsed until the close
  frame has been flushed.
* A header value that stands on a continuation line only keeps the blank in front of it, and a blank
  before a comma in `Connection` hides the value. A handshake without a key is finding 7.
* Draw: coordinates have 9 bits and wrap, seconds wrap above 1022; `websocket.txt:24` has the offsets of x
  and y in the other order, and `script.js:148` takes both from the lower half because of the precedence
  of `>>` and `&`. The number of sprites is not bounded by `MSG_MAX_LEN`.
* `update_viewport` does not keep its border along an edge where one direction is clamped, and counts a
  player's row whether or not its column is on the screen; `simple_ensure_visible` may scroll the point out again
  (`simple.h:63`; nothing calls it). `LonePlayerSeen` holds all the same. The redraw of `centered.c`
  assumes that there is a player.
* The generator divides by zero for a width or height of 3 with holes, and leaves the border open for even
  sizes. `genmaze.py` prints with the loops over width and height exchanged.
* `release_deleted` frees the wrong entry without its destructor when a destructor deletes another
  descriptor (`event.c:265-275`): each connection with a rate limit leaves its `fd_data` and the `timer_data`
  of its timer (`OnlyLimitsLeak`). In real time the rate limit lets out more than `RateHeldButStale` says: a
  batch sends by the clock of its first callback, `last_xmit` is set to that, and the time that the batch
  took is credited once more by the next one. The timer of the rate limit is not disarmed when its message was sent
  without it, so that a later one passes unlimited (`RateHeldButStale`). A timer that is re-armed in a batch that still has its event is called
  early, with a count of 0.
* `WHAT` outside of the level is answered with `NOPE`, where `protokol.txt:41` has `OVER`; `maze_what` of
  the C library ends the program at a `NOPE`, as does `maze_maze`. `WHAT` with one number or none is
  accepted: the numbers are those of an earlier command or 0 (`proto.c:279-297`), in spite of
  `P_MSG_2INT_EXPECTED`.
* `mazec.py:56` says that redraw gets "all current connections"; the list of objects never shrinks, so
  that a redraw in the batch in which a player left gets that one too, even one whose LEVL and leaving came
  in one event of that batch (`RedrawGetsPlayers`). An exception in
  one player's method that is none of the level's ends the game of all.
* Two wins in one batch overwrite `ignored_pid`; the first program is then logged as an unknown process,
  and nothing else happens.
* The C library loops forever when the server closes in `maze_raw_recv`, gives up when the first piece of
  a maze has fewer than 5 bytes, and copies overlapping memory in `maze_raw_recv_int`.

## What is not modelled

* Text: log messages, the wording of answers, option parsing. Failed allocations end the process.
* `SHA1` and `base64_decode` (nothing calls them), `simple_ensure_visible` (the same), the two moves with things
  that a level handles itself.
* Inherited descriptors across `fork` and the shutdown of the master: a child that was forked later keeps
  the other end of earlier pipes open. The idle timer that expires in the batch in which the pipe brings
  the first connection is an order of callbacks of `Child`, about which no property is stated.
* Of `PyLevel`: reference counts, conversions of strings, loading of the file of a level, the interactive
  mode.
* Client libraries other than the C one: they read lines through the buffers of their own runtimes. Of the
  C one, a maze that is abandoned with numbers unread (`maze_raw_recv_flush` has nothing to do otherwise) and
  a line longer than the buffer.
* Sprites and reconnection in the browser, build scripts, tools.
* Level data is one level; `Child` does not know what a level answers, only that it answers once.
* Parts are composed where they share state. `MCLoop` and `MCParts` run theirs side by side; `Child` and
  `Master` meet in what each assumes of the other end of the pipe (`Kid` in `Master`, arrivals in `Child`).

## Plan

Done, in this order: `LevelClock` and its proofs; `Socket`; `Child` with `Game`; `Master` and its proofs;
`Timers`; the parser, handshake, frames and drawing; client buffer, level, generator; then time arithmetic
and the token bucket, the table of descriptors, the file of users, the report of a win, levels in Python,
the hash of the handshake, centered levels, the calls of the C library.

Then the proofs: all safety properties of `Child` with the refinement of `Game`, `OneOwner`, `Timers`, `FdTable`,
`PyLevel`, `DbFile`, `Spawn`, `RateLimit`, `MsgParser`, `Generator`, `SimpleLevel`, `MazeLib`, `WsHttp`, `WsFrames` and `NobodyIsLeft` of `Draw`.

Next, proofs: the packing of a picture, the rest of `EverybodySees`.

Next, modelling: the idle timer against the pipe with master and child composed, for the life of a
descriptor from `accept` to the child's `close`.
