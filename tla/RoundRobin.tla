------------------------------ MODULE RoundRobin ------------------------------
(***************************************************************************)
(* The schedule BuildRoundRobin makes for RunTournament, and what          *)
(* PrintStandings counts from the records it returns.                      *)
(***************************************************************************)
EXTENDS Tournament, FiniteSets, FiniteSetsExt, SequencesExt

CONSTANTS NumPolicies, GamesPerPair

ASSUME RoundRobinAssumption == NumPolicies \in Nat /\ GamesPerPair \in Nat

Policies == 0 .. NumPolicies - 1

\* A game of the schedule: its two policies, the lower first, and which of their
\* games it is.  mutant: the lower policy keeps seat 0
Meetings == {m \in Policies \X Policies \X (0 .. GamesPerPair - 1) : m[1] < m[2]}
Seats_Fixed(m) == [a |-> m[1], b |-> m[2]]
Seats(m) == IF m[3] % 2 = 0 THEN [a |-> m[1], b |-> m[2]] ELSE [a |-> m[2], b |-> m[1]]

\* The order in which three nested loops come to them.
Earlier(m, n) ==
    \/ m[1] < n[1]
    \/ m[1] = n[1] /\ (m[2] < n[2] \/ (m[2] = n[2] /\ m[3] < n[3]))
InOrder ==
    CHOOSE order \in [1 .. Cardinality(Meetings) -> Meetings] :
        \A i, j \in DOMAIN order : i < j => Earlier(order[i], order[j])
BuildRoundRobin == LET order == InOrder IN [i \in DOMAIN order |-> Seats(order[i])]

\* The W, D and L columns.  mutant: a draw is credited to one side only
RecordsWith(Test(_)) == Cardinality({i \in TaskIds : Test(records[i])})
Draws_OneSide(p) == RecordsWith(LAMBDA r : r.score = 1 /\ r.policy_a = p)
Wins(p) ==
    RecordsWith(LAMBDA r : (r.score = 2 /\ r.policy_a = p) \/ (r.score = 0 /\ r.policy_b = p))
Losses(p) ==
    RecordsWith(LAMBDA r : (r.score = 2 /\ r.policy_b = p) \/ (r.score = 0 /\ r.policy_a = p))
Draws(p) == RecordsWith(LAMBDA r : r.score = 1 /\ p \in {r.policy_a, r.policy_b})

-----------------------------------------------------------------------------
\* Two policies meet as often as was asked for, and neither has the first seat
\* more than once more than the other.
Met(p, q) == RecordsWith(LAMBDA r : r.policy_a = p /\ r.policy_b = q)
SeatsShared ==
    pc[Main] = "returned" => \A p, q \in Policies : p < q =>
        Met(p, q) + Met(q, p) = GamesPerPair /\ Met(p, q) - Met(q, p) \in {0, 1}

\* The standings of a tournament account for every game of every policy, and
\* what one side wins the other loses.
StandingsAddUp ==
    pc[Main] = "returned" =>
        /\ \A p \in Policies : Wins(p) + Draws(p) + Losses(p) = (NumPolicies - 1) * GamesPerPair
        /\ LET wins == [p \in Policies |-> Wins(p)]
               losses == [p \in Policies |-> Losses(p)]
           IN  MapThenSumSet(LAMBDA p : wins[p], Policies) =
                   MapThenSumSet(LAMBDA p : losses[p], Policies)
=============================================================================
