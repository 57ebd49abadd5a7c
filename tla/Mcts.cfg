\* A game in which nobody is ever forced to hand over the win.
SPECIFICATION Spec
CONSTANTS
    Players = {0, 1}
    Positions <- GamePositions
    Start = "s0"
    Legal <- GameLegal
    Apply <- GameEdges
    Mover <- GameMover
    Result <- GameResult
    Sampled = {"s1"}
    SquaredC = 3
    MaxPath = 6
    MaxIterations = 7
INVARIANTS TreeShape Conserved
PROPERTIES SelectionDecides AllIterationsComplete
CHECK_DEADLOCK FALSE
