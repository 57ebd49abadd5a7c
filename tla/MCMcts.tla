------------------------------- MODULE MCMcts -------------------------------
EXTENDS Mcts

\* A small game with everything the search tells apart: s0 may draw, lose or go
\* to s1, whose mover may win outright, or to the dice of s2; the mover of s3 may
\* draw or hand the win to the other.
GamePositions == {"s0", "s1", "s2", "s3", "won0", "won1", "drawn"}
GameMover == [s \in GamePositions |->
    CASE s = "s1" -> 1 [] s = "s2" -> Chance [] OTHER -> 0]
GameResult == [s \in GamePositions |->
    CASE s = "won0" -> 0 [] s = "won1" -> 1 [] s = "drawn" -> Draw [] OTHER -> Ongoing]
GameEdges == [s \in GamePositions |->
    CASE s = "s0" -> [a |-> "s1", b |-> "s2", c |-> "drawn", d |-> "won1"]
      [] s = "s1" -> [a |-> "won1", b |-> "s3"]
      [] s = "s2" -> [a |-> "won0", b |-> "s3"]
      [] s = "s3" -> [a |-> "drawn", b |-> "won1"]
      [] OTHER    -> <<>>]
GameLegal == [s \in GamePositions |-> DOMAIN GameEdges[s]]

\* A game with a forced loss: after the dice of s1 the mover of s2 can only hand
\* the win to the other, while s3 goes on.
LossPositions == {"s0", "s1", "s2", "s3", "won1", "drawn"}
LossMover == [s \in LossPositions |-> IF s = "s1" THEN Chance ELSE 0]
LossResult == [s \in LossPositions |->
    CASE s = "won1" -> 1 [] s = "drawn" -> Draw [] OTHER -> Ongoing]
LossEdges == [s \in LossPositions |->
    CASE s = "s0" -> [a |-> "s1"]
      [] s = "s1" -> [a |-> "s2", b |-> "s3"]
      [] s = "s2" -> [a |-> "won1"]
      [] s = "s3" -> [a |-> "drawn"]
      [] OTHER    -> <<>>]
LossLegal == [s \in LossPositions |-> DOMAIN LossEdges[s]]
=============================================================================
