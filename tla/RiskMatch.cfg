\* Three seatings on a path of three territories, one round under the cap and the
\* calls after it; the person marches two armies or none, so some are refused.
SPECIFICATION MatchSpec
CONSTANTS
    t1 = t1
    t2 = t2
    t3 = t3
    None = None
    NumPlayers = 3
    Territories = {t1, t2, t3}
    Neighbors <- Path3
    Continents <- Pair
    Bonus <- BonusOne
    InitialReserve = 1
    MaxUnits = 3
    DieFaces = 2
    ConquestMoves = {9}
    FortifyUnits = {0}
    MaxTurns = 2
    MaxRounds = 1
    Matches <- SomeMatches
    Retreats = {0, 2}
INVARIANTS NeverAskedToDefend RefusedAtMostPlaces
PROPERTIES KeepsTurns CallsReturn
CHECK_DEADLOCK FALSE
