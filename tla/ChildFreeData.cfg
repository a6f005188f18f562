\* A program plays; another one leaves before it sent LEVL.
SPECIFICATION Spec
CONSTANTS
    NoConn = NoConn
    Conn = {c1, c2}
    Polites = {{c1, c2}}
    MaxConns = {2}
    WQueueMax = 2
    InboxMax = 1
    FreeUsesData = TRUE
    Buttons = {"start"}
INVARIANT FreeDataGetsData
CHECK_DEADLOCK FALSE
