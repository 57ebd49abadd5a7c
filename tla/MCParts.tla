-------------------------------- MODULE MCParts --------------------------------
(* The parts on small instances. *)
EXTENDS Parts, MCSelfPlay

CONSTANTS b1, b2

Small == (0..2) \X (1..3)
Large == (0..4) \X (1..4)

SomeBattles ==
    {<<1, 1>>, <<2, 1>>, <<3, 1>>, <<1, 2>>, <<2, 2>>, <<3, 2>>, <<1, 3>>, <<2, 3>>}

(* The dice that may be rolled from <<a, d>> on, as a number of outcomes. *)
SixToTheTenth == 6^10
OfDice[x \in (0..3) \X (0..3)] ==
    IF x[1] = 0 \/ x[2] = 0 THEN 1
    ELSE Max({p.of * OfDice[<<x[1] - p.a, x[2] - p.d>>] : p \in get_probs(x[1], x[2])})
=============================================================================
