\* Each part by itself: two runs of the self-play program with two games of two
\* moves, two connections to the server, placements of up to four armies on four
\* territories, and eight battles.
SPECIFICATION Spec
CONSTANTS
    PartsRun = {"self-play", "server", "placements", "battle", "board"}
    Modes = {"Serve", "ServeOnce"}
    SeatCount = 2
    Flag = 1
    ParamSpecs <- SomeSpecs
    MovesPerGame = 2
    Recording = TRUE
    MaxGames = 2
    MaxRuns = 2
    NoFile = NoFile
    b1 = b1
    b2 = b2
    Browsers = {b1, b2}
    Kinds = {"GET", "POST", "endless"}
    HeaderPieces = 2
    TooLarge = 3
    Nobody0 = Nobody0
    DrawnSizes <- Small
    ListedSizes <- Large
    Battles <- SomeBattles
    TableSize = 2
    One <- SixToTheTenth
    Grain <- OfDice
INVARIANTS
    FilesAreWhole
    FilesTellTheirGame
    StatsMatchGames
    AnswersAreDue
    EachPlacementOnce
    ListIsRanksBackwards
    ExpectationIsOfTheDice
    NobodyLeavesEmpty
    BoardIsAMap
PROPERTIES
    EveryRequestEnds

CHECK_DEADLOCK FALSE
