\* Two programs that wait for their answers share a level of two players
\* or compete for one of one player.
SPECIFICATION Spec
CONSTANTS
    NoConn = NoConn
    Conn = {c1, c2}
    Polites = {{c1, c2}}
    MaxConns = {1, 2}
    WQueueMax = 3
    InboxMax = 1
    FreeUsesData = FALSE
    Buttons = {"start", "kill"}
SYMMETRY Symmetry
INVARIANTS CountsAreTrue OneReplyEach NoStalePause NoLingering
PROPERTY PlaysTheGame
CHECK_DEADLOCK FALSE
