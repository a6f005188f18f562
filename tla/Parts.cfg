\* All parts; commands of 2 letters with values of 2, frames up to 130 bytes,
\* pictures of 2 by 2 tiles and what sticks out at the edges,
\* 3 answers of up to 16 bytes in a buffer of 14, a level larger than its screen,
\* mazes of up to 12 places; keys of up to 92 bytes and texts of up to 200.
SPECIFICATION PartsSpec
CONSTANTS
    CmdLen = 2
    ValLen = 2
    ReadMax = 3
    LineMax = 7
    MaxPayload = 130
    ShortLengths = {0, 5}
    LongLengths = {126, 129}
    FramesMax = 3
    BufSize = 9
    Known = {"/l"}
    Mod = 15
    Width = 30
    Height = 30
    RunMax = 4
    Scenes <- MCScenes
    Left <- MCLeft
    Browser = {b1, b2}
    LibBuf = 14
    Widths <- ShortMazes
    LineWidths = {1, 2}
    AllArrived = FALSE
    AnswersMax = 3
    GridWidth = 6
    GridHeight = 5
    Ground <- MCGround
    Start <- MCStart
    ScreenWidth = 4
    ScreenHeight = 3
    Border = 1
    PlayersMax = 2
    Sizes <- MCSizes
    Keys <- MCKeys
    Vectors <- MCVectors
    KnownTexts <- MCKnownTexts
INVARIANTS Verdict EveryFrameAnswered RequestVerdict KnownAnswers EverybodySees AnswersArrive
           MovesAsTold LonePlayerSeen EverythingConnected StackFits
CHECK_DEADLOCK FALSE
