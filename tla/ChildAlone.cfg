\* One program, which waits for its answers or sends ahead and reaches the
\* limit of its write queue, and a browser that may hold, resume and kill.
SPECIFICATION FairSpec
CONSTANTS
    NoConn = NoConn
    Conn = {c1}
    Polites = {{}, {c1}}
    MaxConns = {1}
    WQueueMax = 2
    InboxMax = 2
    FreeUsesData = FALSE
    Buttons = {"start", "kill"}
INVARIANTS OverIsLast NoLostWrite FlushPending NoFailedCheck
PROPERTY Answered
CHECK_DEADLOCK FALSE
