\* Three threads play the three games of an accepted config file, or main turns a
\* bad file away.
SPECIFICATION ProgramSpec
CONSTANTS
    NumPolicies = 2
    GamesPerPair = 3
    Tasks <- BuildRoundRobin
    NumThreads = 3
    MaxMoves = 2
    Games <- SomeGames
    Configs <- SomeConfigs
    Recording = TRUE
INVARIANTS
    SeatsShared
    StandingsAddUp
    TaskState
    RecordingsMatch
PROPERTIES
    Exits
    PromisedSafety
CHECK_DEADLOCK FALSE
