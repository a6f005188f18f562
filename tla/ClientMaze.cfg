\* maze_maze asks for the width, 2 digits, and then for the maze; every answer
\* has arrived as a whole when it is read.
SPECIFICATION ClientSpec
CONSTANTS
    LibBuf = 256
    Widths <- LongMaze
    LineWidths = {2}
    AllArrived = TRUE
    AnswersMax = 2
INVARIANT MazeIsReturned
CHECK_DEADLOCK FALSE
