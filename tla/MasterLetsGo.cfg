\* Liveness: a program and a browser, one login.
SPECIFICATION FairSpec
CONSTANTS
    NoKid = NoKid
    NoLogin = NoLogin
    Conn = {c1, w1}
    Web = {w1}
    Login = {l1}
    Kid = {k1}
    ReloadMax = 1
    WQueueMax = 1
PROPERTY LetsGo
CHECK_DEADLOCK FALSE
