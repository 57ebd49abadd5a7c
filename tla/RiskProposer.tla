---------------------------- MODULE RiskProposer ----------------------------
(***************************************************************************)
(* RiskProposer of strategies/risk_proposer.h: which of a player's legal   *)
(* actions the tree search and the playouts ever get to consider.  What    *)
(* sample() may return is the set Proposals; support_size() is the number  *)
(* by which the sampler of a tree node knows that it has handed out every  *)
(* one of them, and it is computed by a second copy of the branches of     *)
(* sample().  Neither is checked against is_valid_action: the search plays *)
(* on copies of the game, where nothing refuses an action.                 *)
(*                                                                         *)
(* The two template flags are the parameters border (BORDER_REINFORCE) and *)
(* favorable (ATTACK_FAVORABLE).                                           *)
(***************************************************************************)
EXTENDS RiskGame

CONSTANTS
    MoveAll,         \* QueueAttackAction::kMoveAll
    Unknown          \* mcts::kUnknownSupport

ASSUME ProposerAssumption == MoveAll \in ConquestMoves /\ Unknown \notin Nat

\* OwnershipMasks of the player to move.  Strong is what has armies to spare.
Mine == OwnedBy(owner, current_player)
Strong == {t \in Territories : units[t] > 1}
Foes(t) == Neighbors[t] \ Mine
Border == {t \in Mine : Foes(t) # {}}

\* A placement claims until the map is full and reinforces from then on.
WantedOwner ==
    IF num_initial_placements >= Cardinality(Territories) THEN current_player ELSE Nobody
Claimable == OwnedBy(owner, WantedOwner)

\* The edges an attack may go along, and those whose source outnumbers the target.
Edges == {e \in (Mine \cap Strong) \X Territories : e[2] \in Foes(e[1])}
Favorable == {e \in Edges : units[e[1]] - 1 > units[e[2]]}

MustReinforce == first_attack_of_turn /\ reserves[current_player] > 0

\* support_size.  mutant: the filter of sample() is not mirrored
SupportSize_AllEdges(favorable) ==
    IF initial_placement THEN Cardinality(Claimable)
    ELSE IF queued_attack # None THEN 1
    ELSE IF MustReinforce THEN Unknown
    ELSE Cardinality(Edges) + 1

SupportSize(favorable) ==
    IF initial_placement THEN Cardinality(Claimable)
    ELSE IF queued_attack # None THEN 1
    ELSE IF MustReinforce THEN Unknown
    ELSE Cardinality(IF favorable THEN Favorable ELSE Edges) + 1

-----------------------------------------------------------------------------
(* sample                                                                  *)

\* Every reserve lands on some territory of the pool.
Pool(border) == IF border /\ Border # {} THEN Border ELSE Mine
Scatters(border) ==
    {place \in Placements :
        /\ \A t \in Territories : place[t] > 0 => t \in Pool(border)
        /\ Placed(place) = reserves[current_player]}

\* The most dice the source can throw; a conquest moves in all it may.
AttackAlong(e) ==
    [source |-> e[1], target |-> e[2], dice |-> Min2(3, units[e[1]] - 1), move |-> MoveAll]

\* The attacks drawn from: with a reinforcement in hand the turn may not end, so
\* an attack against the odds is better than none.
Drawn(favorable) ==
    IF favorable /\ ~(Favorable = {} /\ MustReinforce) THEN Favorable ELSE Edges

\* The closing move goes from the territory that faces the fewest foes to the
\* one that faces the most, by armies where they are level; of equal ones
\* std::max keeps the first it saw.
Facing(t) == MapThenSumSet(LAMBDA foe : units[foe], Foes(t))
Safer(s, t) == Facing(s) < Facing(t) \/ (Facing(s) = Facing(t) /\ units[s] > units[t])
Weaker(s, t) == Facing(s) > Facing(t) \/ (Facing(s) = Facing(t) /\ units[s] < units[t])
\* mutant: the default candidate, no territory yet, stands for few foes, and
\* wins over every real one that faces more
Safest_FiniteDefault ==
    IF \A t \in Mine : Facing(t) > 2 THEN CHOOSE t \in Territories : TRUE
    ELSE CHOOSE s \in Mine : \A t \in Mine : ~Safer(t, s)
Safest == CHOOSE s \in Mine : \A t \in Mine : ~Safer(t, s)
Weakest == CHOOSE s \in Mine : \A t \in Mine : ~Weaker(t, s)

PlacementProposals == {[kind |-> "place", territory |-> t] : t \in Claimable}
DefenseProposals == {[kind |-> "defend", dice |-> Min2(2, units[queued_attack.target])]}
TurnProposals(border, favorable) ==
    [kind : {"turn"},
     place : IF MustReinforce THEN Scatters(border) ELSE {NoReinforcement},
     attack : IF MustReinforce /\ Drawn(favorable) = {} THEN {None}
              ELSE {AttackAlong(e) : e \in Drawn(favorable)}]
FortifyProposals ==
    IF MustReinforce THEN {}
    ELSE {[kind |-> "fortify", source |-> Safest, target |-> Weakest, num |-> units[Safest] - 1]}

Proposals(border, favorable) ==
    IF initial_placement THEN PlacementProposals
    ELSE IF queued_attack # None THEN DefenseProposals
    ELSE TurnProposals(border, favorable) \cup FortifyProposals

\* is_valid_action, of the actions of this policy.
Accepts(action) ==
    CASE action.kind = "place"   -> ValidInitialPlace(action.territory)
      [] action.kind = "defend"  -> ValidDefense(action.dice)
      [] action.kind = "turn"    -> ValidPlayerAction(action.place, action.attack)
      [] action.kind = "fortify" -> PlayerToMove /\ ValidFortify(action.source, action.target, action.num)

-----------------------------------------------------------------------------
(* Properties                                                              *)

\* Wherever a decision is due the policy, in each of its four variants, has
\* something to propose, the rules accept all of it although nobody asks them,
\* and no proposal ends the turn while the turn's reserves are still in hand.
ProposalsAreLegal ==
    current_player # Nobody =>
        \A border, favorable \in BOOLEAN :
            LET proposals == Proposals(border, favorable)
            IN  /\ proposals # {}
                /\ \A a \in proposals :
                      /\ Accepts(a)
                      /\ a.kind = "fortify" /\ first_attack_of_turn => reserves[current_player] = 0

\* support_size() keeps in step with sample(): where it names a number, exactly
\* so many different actions can be drawn.  Fewer and the search never tries
\* some of them; more and the sampler of the node draws forever.
SupportIsExact ==
    current_player # Nobody =>
        \A border, favorable \in BOOLEAN :
            SupportSize(favorable) # Unknown =>
                SupportSize(favorable) = Cardinality(Proposals(border, favorable))
=============================================================================
