\* Two players and up to two games over two runs; only fairness of the program's own
\* steps is assumed, and Ctrl-C may come anywhere.
SPECIFICATION SelfPlaySpec
CONSTANTS
    SeatCount = 2
    Flag = 1
    ParamSpecs <- SomeSpecs
    MovesPerGame = 2
    Recording = TRUE
    MaxGames = 2
    MaxRuns = 2
    NoFile = NoFile
PROPERTIES CtrlCQuits
CHECK_DEADLOCK FALSE
