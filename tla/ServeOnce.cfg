\* ServeOnce with two connections.
SPECIFICATION Spec
CONSTANTS
    PartsRun = {"server"}
    Modes = {"ServeOnce"}
    SeatCount = 2
    Flag = 1
    ParamSpecs <- SomeSpecs
    MovesPerGame = 2
    Recording = TRUE
    MaxGames = 2
    MaxRuns = 2
    NoFile = NoFile
    b1 = b1
    b2 = b2
    Browsers = {b1, b2}
    Kinds = {"GET", "POST", "endless"}
    HeaderPieces = 2
    TooLarge = 3
    Nobody0 = Nobody0
    DrawnSizes <- Small
    ListedSizes <- Large
    Battles <- SomeBattles
    TableSize = 2
    One <- SixToTheTenth
    Grain <- OfDice
INVARIANT StopsAfterServing
CHECK_DEADLOCK FALSE
