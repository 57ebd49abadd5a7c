\* The same matches, asked what the header says of a refused move.
SPECIFICATION MatchSpec
CONSTANTS
    t1 = t1
    t2 = t2
    t3 = t3
    None = None
    NumPlayers = 3
    Territories = {t1, t2, t3}
    Neighbors <- Path3
    Continents <- Pair
    Bonus <- BonusOne
    InitialReserve = 1
    MaxUnits = 3
    DieFaces = 2
    ConquestMoves = {9}
    FortifyUnits = {0}
    MaxTurns = 2
    MaxRounds = 1
    Matches <- SomeMatches
    Retreats = {0, 2}
INVARIANTS RefusedChangesNothing
CHECK_DEADLOCK FALSE
