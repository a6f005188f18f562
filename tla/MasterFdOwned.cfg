\* A login that comes when its child has just ended.
SPECIFICATION Spec
CONSTANTS
    NoKid = NoKid
    NoLogin = NoLogin
    Conn = {c1, c2}
    Web = {}
    Login = {l1}
    Kid = {k1}
    ReloadMax = 0
    WQueueMax = 1
SYMMETRY Symmetry
INVARIANT FdIsOwned
CHECK_DEADLOCK FALSE
