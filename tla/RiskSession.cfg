\* Three seats on a path of three territories: two armies each to place, then a
\* round of turns under a cap of one round and a turn past it, eliminations and
\* the seat wrap included.
SPECIFICATION SessionSpec
CONSTANTS
    t1 = t1
    t2 = t2
    t3 = t3
    None = None
    Unknown = Unknown
    NumPlayers = 3
    Territories = {t1, t2, t3}
    Neighbors <- Path3
    Continents <- Pair
    Bonus <- BonusOne
    InitialReserve = 2
    MaxUnits = 100
    DieFaces = 2
    ConquestMoves = {0, 9}
    MoveAll = 9
    FortifyUnits = {1, 2}
    MaxTurns = 3
    MaxRounds = 1
INVARIANTS
    BattleConsistent
    MoverOnBoard
    NeverStuck
    PlacementFair
    ProposalsAreLegal
    SupportIsExact
    RoundsAreFullRounds
    EliminatedExactly
    OutcomeRanksSeats
PROPERTIES
    ConquestIsBloodless
    ArmiesAccounted
    CapCutsBetweenRounds
CHECK_DEADLOCK FALSE
