\* The outside seat's decisions against the clicks and keys of the person.
SPECIFICATION Spec
CONSTANTS
    NumPlayers = 3
    MaxMoves = 6
    MaxAwaits = 3
PROPERTIES DecidedOnPosition
CHECK_DEADLOCK FALSE
