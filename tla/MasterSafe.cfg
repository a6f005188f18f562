\* A program and a browser, two logins, two children, two changes of the db
\* file, and pipes that are full with 1 message.
SPECIFICATION Spec
CONSTANTS
    NoKid = NoKid
    NoLogin = NoLogin
    Conn = {c1, w1}
    Web = {w1}
    Login = {l1, l2}
    Kid = {k1, k2}
    ReloadMax = 2
    WQueueMax = 1
SYMMETRY Symmetry
INVARIANTS OneChildPerLogin ChildIsCurrent RightChild NoFreedPipe OneOwner
CHECK_DEADLOCK FALSE
