\* Two programs that wait for their answers may both send WAIT.
SPECIFICATION Spec
CONSTANTS
    NoConn = NoConn
    Conn = {c1, c2}
    Polites = {{c1, c2}}
    MaxConns = {2}
    WQueueMax = 2
    InboxMax = 1
    FreeUsesData = FALSE
    Buttons = {"start"}
PROPERTY WaitAckHeld
CHECK_DEADLOCK FALSE
