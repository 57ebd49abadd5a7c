------------------------------ MODULE MCSelfPlay ------------------------------
(* Command lines of the self-play program. *)
EXTENDS SelfPlay

Param(k, n, g) == [key |-> k, number |-> n, good |-> g]

\* nothing given; a zero and an empty last segment; an unknown key; too many segments
SomeSpecs ==
    {<< <<>> >>,
     << <<Param("iterations", 0, TRUE), Param("rollout", 0, TRUE)>>, <<>> >>,
     << <<Param("seed", 0, TRUE)>> >>,
     << <<>>, <<>>, <<Param("rollout", 0, TRUE)>> >>}
=============================================================================
