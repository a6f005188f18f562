\* All parts: two connections share a level of 2 * 2 ms that may be held for its
\* first 2 ms; a level timer and one of the program, one-shot and repeating; 3
\* fd_data over 3 descriptors in 2 chains; a bucket of 5 bytes that fills by 1
\* per ms of 2 ns, with messages of what 1 ms and what 5 ms bring; logins of 2
\* letters and 2 children; 3 wins whose output has a buffer of 4 words; two
\* players and two timers of a level in Python that may have two of each.
SPECIFICATION LoopSpec
CONSTANTS
    Conn = {c1, c2}
    MaxConn = 2
    MaxTime = 2
    CanPause = 2
    Horizon = 14
    Timer = {t1, s1}
    System = {s1}
    Delays = {2}
    LateMax = 2
    Entry = {e1, e2, e3}
    FdMax = 2
    HashSize = 2
    Sec = 2
    Sub = 2
    Rate = 2
    BucketSize = 5
    Sizes = {1, 5}
    Largest = 5
    QueueMax = 2
    Steps = {2, 3}
    LastInstant = 9
    LoginLen = 2
    Char = {"a", "b", "c", "t", "nl"}
    Files <- MCFiles
    nl = "nl"
    Default <- MCDefault
    Pids = {1, 2}
    OutMax = 4
    Outputs <- MCOutputs
    WinsMax = 3
    Player = {q1, q2}
    PyTimer = {1, 2}
    drawTimer = drawTimer
    TimersMax = 2
    ConnMax = 2
SYMMETRY Symmetry
INVARIANTS LimitEnforced NoEarlyRefusal DisplayTruth NoFreedTimer NeverEarly FiresUnlessLost
           FoundByNumber OnlyLimitsLeak RateHeldButStale LimitedWaits UsersKept WinnerIsTold
           RedrawGetsPlayers NoDeadSelf
CHECK_DEADLOCK FALSE
