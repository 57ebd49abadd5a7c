\* A game in which one position forces its mover to hand over the win.
SPECIFICATION Spec
CONSTANTS
    Players = {0, 1}
    Positions <- LossPositions
    Start = "s0"
    Legal <- LossLegal
    Apply <- LossEdges
    Mover <- LossMover
    Result <- LossResult
    Sampled = {}
    SquaredC = 4
    MaxPath = 10
    MaxIterations = 5
INVARIANTS RootCountsIterations
CHECK_DEADLOCK FALSE
