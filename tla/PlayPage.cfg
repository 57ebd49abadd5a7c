\* Every seating, with and without a draft; at most five moves are made and the
\* person has up to three awaits under way.
SPECIFICATION Spec
CONSTANTS
    NumPlayers = 3
    MaxMoves = 5
    MaxAwaits = 3
INVARIANTS ShowsTruth NeverLockedUp
PROPERTIES TurnComesBack EndIsShown
CHECK_DEADLOCK FALSE
