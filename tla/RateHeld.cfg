\* A bucket of 2 ms and messages as large as what 1 ms of 4 ns brings.
SPECIFICATION RateSpec
CONSTANTS
    Sec = 2
    Sub = 4
    Rate = 4
    BucketSize = 4
    Sizes = {2}
    Largest = 2
    QueueMax = 1
    Steps = {1}
    LastInstant = 12
INVARIANT RateHeld
CHECK_DEADLOCK FALSE
