\* One level timer: does it fire after a hold?
SPECIFICATION TimersSpec
CONSTANTS
    Timer = {t1}
    System = {}
    Delays = {1}
    LateMax = 1
INVARIANT Fires
