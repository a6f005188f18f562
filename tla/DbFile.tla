------------------------------- MODULE DbFile -------------------------------
(***************************************************************************)
(* The file of logins and the two lists of users that server/db.c keeps:   *)
(* the current ones and those that left the file while the server was      *)
(* running.  Characters are members of a set; lines end with nl.  Module   *)
(* Master uses the lists as a set of users; here they are read from the    *)
(* file.                                                                   *)
(***************************************************************************)
EXTENDS Naturals, Sequences, SequencesExt

CONSTANTS
    LoginLen,   \* LOGIN_LEN
    Char,       \* characters
    Files,      \* contents the file may have, sequences of characters
    nl,         \* the end of a line
    Default,    \* the line that stands for a file that cannot be opened
    Pids        \* process numbers

ASSUME DbAssumption ==
    /\ LoginLen \in Nat \ {0} /\ 0 \notin Pids
    /\ Files \subseteq Seq(Char) /\ Default \in Seq(Char)

VARIABLES
    users,      \* the list users: login and pid, 0 without a process
    inactive,   \* the list inactive
    file,       \* the contents when it was last read
    spawned     \* history: the processes that run, with their logins

db == <<users, inactive, file, spawned>>

User(login, pid) == [login |-> login, pid |-> pid]

\* Where fgets stops that has a buffer of LOGIN_LEN + 1, after the first p characters.
FgetsEnd(text, p) ==
    Min({n \in p + 1..Len(text) : text[n] = nl \/ n = p + LoginLen \/ n = Len(text)})
Fgets(text, p) == SubSeq(text, p + 1, FgetsEnd(text, p))

EndsLine(chunk) == Last(chunk) = nl
StripNl(chunk) == IF EndsLine(chunk) THEN Front(chunk) ELSE chunk

\* find_login_ptr, find_pid: the first of a list with that value, 0 for none.
FindLogin(list, login) ==
    SelectInSeq(list, LAMBDA u : u.login = login)
FindPid(list, pid) == SelectInSeq(list, LAMBDA u : u.pid = pid)

\* Mutant: the rest of a line that is too long is a login of its own.
Take_Rest(r, chunk) ==
    LET i == FindLogin(r.inactive, StripNl(chunk))
    IN IF i > 0 THEN [r EXCEPT !.users = Append(@, r.inactive[i]),
                               !.inactive = RemoveAt(@, i)]
       ELSE IF FindLogin(r.users, StripNl(chunk)) > 0 THEN r
       ELSE [r EXCEPT !.users = Append(@, User(StripNl(chunk), 0))]

\* One round of the loop of db_reload: the rest of a line that is too long is
\* skipped, a known user is taken over, a duplicate ignored.
Take(r, chunk) ==
    LET i == FindLogin(r.inactive, StripNl(chunk))
        next == [r EXCEPT !.consume = ~EndsLine(chunk)]
    IN IF r.consume THEN next
       ELSE IF i > 0 THEN [next EXCEPT !.users = Append(@, r.inactive[i]),
                                       !.inactive = RemoveAt(@, i)]
       ELSE IF FindLogin(r.users, StripNl(chunk)) > 0 THEN next
       ELSE [next EXCEPT !.users = Append(@, User(StripNl(chunk), 0))]

\* The loops of db_reload, until fgets returns NULL: at most one round for each
\* character of the file.
TakeNext(text, r) ==
    IF r.at = Len(text) THEN r
    ELSE [Take(r, Fgets(text, r.at)) EXCEPT !.at = FgetsEnd(text, r.at)]
TakeAll(text, first) ==
    LET after[n \in 0..Len(text)] ==
            IF n = 0 THEN first ELSE TakeNext(text, after[n - 1])
    IN after[Len(text)]

\* All users become inactive before the file is read.
Before(list) == [users |-> << >>, inactive |-> list, consume |-> FALSE, at |-> 0]

Read(text) ==
    LET r == TakeAll(text, Before(inactive \o users))
    IN users' = r.users /\ inactive' = r.inactive

\* db_reload; a file that cannot be opened stands for the default user.
DbReload ==
    \E text \in Files \cup {Default} :
       /\ Read(text) /\ file' = text
       /\ UNCHANGED spawned

\* db_init
DbInit ==
    /\ file \in Files \cup {Default}
    /\ users = TakeAll(file, Before(<< >>)).users
    /\ inactive = << >> /\ spawned = {}

\* db_get_pipe of a user without a process, spawn and db_start_process.
StartProcess(pid) ==
    /\ \A a \in spawned : a.pid # pid
    /\ \E i \in DOMAIN users :
          /\ users[i].pid = 0
          /\ users' = [users EXCEPT ![i].pid = pid]
          /\ spawned' = spawned \cup {User(users[i].login, pid)}
    /\ UNCHANGED <<inactive, file>>

\* db_end_process
EndProcess(pid) ==
    LET u == FindPid(users, pid)
        v == FindPid(inactive, pid)
    IN /\ \E a \in spawned : a.pid = pid
       /\ spawned' = {a \in spawned : a.pid # pid}
       /\ users' = IF u > 0 THEN [users EXCEPT ![u].pid = 0] ELSE users
       /\ inactive' = IF u = 0 /\ v > 0 THEN [inactive EXCEPT ![v].pid = 0]
                      ELSE inactive
       /\ UNCHANGED file

DbNext == DbReload \/ \E pid \in Pids : StartProcess(pid) \/ EndProcess(pid)

DbSpec == DbInit /\ [][DbNext]_db
-----------------------------------------------------------------------------
\* What the file says, read as a whole: its lines, without their ends.
LinesOf(text) ==
    LET ends == ({p \in 1..Len(text) : text[p] = nl} \cup {Len(text)}) \ {0}
        begin(p) == LET before == {q \in ends : q < p}
                    IN IF before = {} THEN 0
                       ELSE CHOOSE q \in before : \A r \in before : r <= q
    IN {StripNl(SubSeq(text, begin(p) + 1, p)) : p \in ends}

Shortened(line) == SubSeq(line, 1, IF Len(line) < LoginLen THEN Len(line) ELSE LoginLen)

\* After any history of reloads the current users are the lines of the file,
\* cut to LOGIN_LEN, whatever their lengths, repetitions and the end of the last
\* one; no login is in a list twice or in both (db.c:112-152).
LoginsOfFile ==
    LET all == users \o inactive
    IN /\ {users[i].login : i \in DOMAIN users} = {Shortened(l) : l \in LinesOf(file)}
       /\ \A i, j \in DOMAIN all : all[i].login = all[j].login => i = j

\* A process that runs is found by its number under the login it was started
\* for, however often that login left the file and came back; a number of no
\* process is not found (db.c:201-219).
ProcessesFound ==
    LET all == users \o inactive
    IN /\ \A a \in spawned : \E i \in DOMAIN all : all[i] = a
       /\ \A i \in DOMAIN all : all[i].pid # 0 => all[i] \in spawned

\* Both together: what a reload makes of the lists is true to the file and
\* forgets no child (db.c:112-152, 201-219).
UsersKept == LoginsOfFile /\ ProcessesFound
=============================================================================
