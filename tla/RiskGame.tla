------------------------------ MODULE RiskGame ------------------------------
(***************************************************************************)
(* The rules of Risk as the state machine RiskState<NUM_PLAYERS> of        *)
(* game_mcts/games/risk/risk_game.h: the placement phase, turns made of a  *)
(* reinforcement, battles and a closing fortification, and the battle      *)
(* itself, which is split over three actions of three different actors:    *)
(* the attacker queues an attack, the defender queues a defence, chance    *)
(* rolls the dice.                                                         *)
(*                                                                         *)
(* The engine applies actions without checking them and leaves the check   *)
(* to is_valid_action.  Every caller that takes an action from outside     *)
(* (the referee, the sessions, the web match) asks it first, so an action  *)
(* here is "is_valid_action, then apply_action_in_place".                  *)
(***************************************************************************)
EXTENDS Integers, FiniteSets, FiniteSetsExt

CONSTANTS
    NumPlayers,      \* NUM_PLAYERS, 2 to 6 in the code
    Territories,     \* the ids of kBoard, 42 in the code
    Neighbors,       \* kNeighborMasks: the territories each one borders
    Continents,      \* kContinentMasks: the sets of territories with a bonus
    Bonus,           \* bonus_reinforcements_ of each continent
    InitialReserve,  \* what InitialReserves() gives every seat
    MaxUnits,        \* the largest uint16_t, where unit counts saturate
    DieFaces,        \* 6
    ConquestMoves,   \* the values of num_move_on_conquest_ a player asks for
    FortifyUnits,    \* the values of FortifyAction::num_units a player asks for
    None,            \* std::nullopt in queued_attack_
    MaxTurns         \* bound of the model: no turn ends once this is reached

Players == 0 .. NumPlayers - 1
Nobody == -1         \* owner of an unclaimed territory; the player at a chance node
NoDefense == 0       \* std::nullopt in queued_defense_

\* QueueAttackAction with its dice count in range: is_valid_action refuses the
\* rest whatever the state, so the model does not enumerate it.
QueueAttackActions ==
    [source : Territories, target : Territories, dice : 1 .. 3, move : ConquestMoves]

Max2(x, y) == IF x >= y THEN x ELSE y
Min2(x, y) == IF x <= y THEN x ELSE y

OwnedBy(o, p) == {t \in Territories : o[t] = p}
ContinentBonus(held) ==
    MapThenSumSet(LAMBDA c : Bonus[c], {c \in Continents : c \subseteq held})

ASSUME SeatsAssumption ==
    /\ NumPlayers \in Nat /\ NumPlayers >= 2
    /\ InitialReserve \in Nat \ {0}
    /\ MaxTurns \in Nat

ASSUME MapAssumption ==
    /\ IsFiniteSet(Territories)
    /\ Neighbors \in [Territories -> SUBSET Territories]
    /\ \A t \in Territories : t \notin Neighbors[t]

\* The armies dealt out cover the map and every seat claims a territory: 42
\* territories, and from 2 * 40 to 6 * 20 armies.
ASSUME CoverAssumption ==
    /\ NumPlayers <= Cardinality(Territories)
    /\ Cardinality(Territories) <= NumPlayers * InitialReserve

ASSUME BonusAssumption ==
    \A held \in SUBSET Territories : ContinentBonus(held) \in Nat

ASSUME NumbersAssumption ==
    /\ MaxUnits \in Nat /\ MaxUnits >= InitialReserve
    /\ DieFaces \in Nat \ {0}
    /\ ConquestMoves \subseteq Nat
    /\ FortifyUnits \subseteq Int
    /\ None \notin QueueAttackActions

VARIABLES
    owner,                  \* map_[t].owner
    units,                  \* map_[t].units
    reserves,               \* reserves_
    initial_placement,      \* initial_placement_
    num_initial_placements, \* num_initial_placements_
    first_attack_of_turn,   \* first_attack_of_turn_
    current_player,         \* current_player_
    turn_count,             \* turn_count_
    queued_attack,          \* queued_attack_
    queued_defense          \* queued_defense_: the dice, NoDefense for none

board == <<owner, units>>
battle == <<queued_attack, queued_defense>>
placement == <<initial_placement, num_initial_placements>>
turn == <<first_attack_of_turn, current_player, turn_count>>
vars == <<board, reserves, placement, turn, battle>>

Init ==
    /\ owner = [t \in Territories |-> Nobody]
    /\ units = [t \in Territories |-> 0]
    /\ reserves = [p \in Players |-> InitialReserve]
    /\ initial_placement = TRUE
    /\ num_initial_placements = 0
    /\ first_attack_of_turn = TRUE
    /\ current_player = 0
    /\ turn_count = 0
    /\ queued_attack = None
    /\ queued_defense = NoDefense

-----------------------------------------------------------------------------
(* Helpers of the actions.                                                 *)

SaturatingAddUnits(u, add) == Min2(MaxUnits, u + add)

Owns(o, p) == OwnedBy(o, p) # {}

\* AddTurnStartReinforcements: the allowance replaces what was left over.
TurnStartReinforcements(o, p) ==
    Max2(3, Cardinality(OwnedBy(o, p)) \div 3) + ContinentBonus(OwnedBy(o, p))

SeatAfter(p) == IF p = NumPlayers - 1 THEN 0 ELSE p + 1

\* The loop of NextPlayer(): the next seat in cyclic order that owns anything.
Earliest(seats) == CHOOSE p \in seats : \A q \in seats : p <= q
LaterOwners(o, p) == {q \in Players : q > p /\ Owns(o, q)}
NextOwner_NoSkip(o, p) == SeatAfter(p)  \* mutant: an eliminated seat is not skipped
NextOwner(o, p) ==
    IF LaterOwners(o, p) # {} THEN Earliest(LaterOwners(o, p))
                              ELSE Earliest({q \in Players : Owns(o, q)})

\* mutant: a round ends when the turn comes to the first seat, not past the last
NextPlayer_FirstSeat(o) ==
    LET next == NextOwner(o, current_player)
    IN  /\ current_player' = next
        /\ turn_count' = IF next = 0 THEN turn_count + 1 ELSE turn_count
        /\ reserves' = [reserves EXCEPT ![next] = TurnStartReinforcements(o, next)]
        /\ first_attack_of_turn' = TRUE

NextPlayer(o) ==
    LET next == NextOwner(o, current_player)
    IN  /\ current_player' = next
        /\ turn_count' = IF next <= current_player THEN turn_count + 1 ELSE turn_count
        /\ reserves' = [reserves EXCEPT ![next] = TurnStartReinforcements(o, next)]
        /\ first_attack_of_turn' = TRUE

\* A player, not chance, is to act, and no battle is under way.
PlayerToMove ==
    /\ ~initial_placement
    /\ queued_attack = None
    /\ current_player \in Players

-----------------------------------------------------------------------------
(* InitialPlaceAction                                                      *)

\* mutant: the claiming phase lasts one placement too long
ValidInitialPlace_OffByOne(t) ==
    /\ initial_placement
    /\ IF num_initial_placements <= Cardinality(Territories)
       THEN owner[t] = Nobody
       ELSE owner[t] = current_player
    /\ reserves[current_player] > 0

ValidInitialPlace(t) ==
    /\ initial_placement
    /\ IF num_initial_placements < Cardinality(Territories)
       THEN owner[t] = Nobody
       ELSE owner[t] = current_player
    /\ reserves[current_player] > 0

\* mutant: placement ends when the seat that just placed has run out, not when
\* the round is complete
InitialPlace_EndsEarly(t) ==
    /\ ValidInitialPlace(t)
    /\ owner' = [owner EXCEPT ![t] = current_player]
    /\ units' = [units EXCEPT ![t] = SaturatingAddUnits(@, 1)]
    /\ num_initial_placements' = num_initial_placements + 1
    /\ current_player' = SeatAfter(current_player)
    /\ reserves' = [reserves EXCEPT ![current_player] = @ - 1]
    /\ turn_count' = IF current_player' = 0 THEN turn_count + 1 ELSE turn_count
    /\ initial_placement' = (reserves'[current_player] # 0)
    /\ UNCHANGED <<first_attack_of_turn, battle>>

InitialPlace(t) ==
    /\ ValidInitialPlace(t)
    /\ owner' = [owner EXCEPT ![t] = current_player]
    /\ units' = [units EXCEPT ![t] = SaturatingAddUnits(@, 1)]
    /\ num_initial_placements' = num_initial_placements + 1
    /\ current_player' = SeatAfter(current_player)
    /\ LET left    == [reserves EXCEPT ![current_player] = @ - 1]
           wrapped == current_player' = 0
           over    == wrapped /\ left[0] = 0
       IN  /\ turn_count' = IF wrapped THEN turn_count + 1 ELSE turn_count
           /\ initial_placement' = ~over
           /\ reserves' = IF over
                          THEN [left EXCEPT ![0] = TurnStartReinforcements(owner', 0)]
                          ELSE left
    /\ UNCHANGED <<first_attack_of_turn, battle>>

-----------------------------------------------------------------------------
(* PlayerAction: an optional reinforcement, then an optional attack.  The  *)
(* reinforcement is the armies placed on each territory; no armies at all  *)
(* is the absent one, since a present one places reserves, and some exist. *)

Placements == [Territories -> 0 .. Max2(0, reserves[current_player])]
NoReinforcement == [t \in Territories |-> 0]
Placed(place) == MapThenSumSet(LAMBDA t : place[t], Territories)

ValidReinforcement(place) ==
    /\ reserves[current_player] > 0
    /\ first_attack_of_turn
    /\ \A t \in Territories : place[t] > 0 => owner[t] = current_player
    /\ Placed(place) = reserves[current_player]

\* mutant: the source may attack with everything it has
ValidAttack_NobodyStays(attack) ==
    /\ owner[attack.source] = current_player
    /\ attack.target \in Neighbors[attack.source]
    /\ owner[attack.target] # current_player
    /\ units[attack.source] >= attack.dice

ValidAttack(attack) ==
    /\ owner[attack.source] = current_player
    /\ attack.target \in Neighbors[attack.source]
    /\ owner[attack.target] # current_player
    /\ units[attack.source] > attack.dice

ReinforceWithReserves(place) ==
    /\ units' = [t \in Territories |-> SaturatingAddUnits(units[t], place[t])]
    /\ reserves' = [reserves EXCEPT ![current_player] = @ - Placed(place)]

Attack(attack) ==
    /\ queued_attack' = attack
    /\ current_player' = owner[attack.target]
    /\ first_attack_of_turn' = FALSE

ValidPlayerAction(place, attack) ==
    /\ PlayerToMove
    /\ place # NoReinforcement \/ attack # None
    /\ place # NoReinforcement => ValidReinforcement(place)
    /\ attack # None => ValidAttack(attack)

PlayerAction(place, attack) ==
    /\ ValidPlayerAction(place, attack)
    /\ IF place # NoReinforcement THEN ReinforceWithReserves(place)
                                  ELSE UNCHANGED <<units, reserves>>
    /\ IF attack # None THEN Attack(attack)
                        ELSE UNCHANGED <<queued_attack, current_player, first_attack_of_turn>>
    /\ UNCHANGED <<owner, placement, turn_count, queued_defense>>

-----------------------------------------------------------------------------
(* QueueDefenseAction                                                      *)

\* mutant: the defender's dice are not checked against its armies
QueueDefense_Unchecked(dice) ==
    /\ queued_attack # None
    /\ queued_defense = NoDefense
    /\ current_player = owner[queued_attack.target]
    /\ queued_defense' = dice
    /\ current_player' = Nobody
    /\ UNCHANGED <<board, reserves, placement, first_attack_of_turn, turn_count, queued_attack>>

ValidDefense(dice) ==
    /\ queued_attack # None
    /\ queued_defense = NoDefense
    /\ current_player = owner[queued_attack.target]
    /\ dice <= units[queued_attack.target]

QueueDefense(dice) ==
    /\ ValidDefense(dice)
    /\ queued_defense' = dice
    /\ current_player' = Nobody
    /\ UNCHANGED <<board, reserves, placement, first_attack_of_turn, turn_count, queued_attack>>

-----------------------------------------------------------------------------
(* RollDiceAction: the dice are compared highest with highest and second   *)
(* with second; a slot that no die was rolled for holds 0 and sorts last.  *)

Rolls(slots) == [1 .. slots -> 0 .. DieFaces]

ValidRolls(rolls, slots, dice) ==
    \A i \in 1 .. slots : IF i <= dice THEN rolls[i] >= 1 ELSE rolls[i] = 0

\* The two highest of three dice, and of two, in descending order.
TopOfThree(r) ==
    << Max2(Max2(r[1], r[2]), r[3]),
       Max2(Min2(r[1], r[2]), Min2(Max2(r[1], r[2]), r[3])) >>
SortedPair(r) == << Max2(r[1], r[2]), Min2(r[1], r[2]) >>

\* What a pair of dice costs each side: ties cost the attacker.
\* mutant: a slot without a die is compared like a die showing 0
DefenderLoses_EmptySlot(a, d) == IF a > d THEN 1 ELSE 0
DefenderLoses(a, d) == IF a # 0 /\ d # 0 /\ a > d THEN 1 ELSE 0
AttackerLoses(a, d) == IF a # 0 /\ d # 0 /\ a <= d THEN 1 ELSE 0

\* The armies that move in on a conquest, of the `left` in the source: at
\* least the dice rolled, at most all but one.
ConquestMove(attack, left) ==
    LET most  == left - 1
        least == Min2(attack.dice, most)
        asked == IF attack.move = 0 THEN least ELSE attack.move
    IN  Min2(Max2(asked, least), most)

ResolveAttackRolls(attacker_rolls, defender_rolls) ==
    LET a    == TopOfThree(attacker_rolls)
        d    == SortedPair(defender_rolls)
        src  == queued_attack.source
        tgt  == queued_attack.target
        left == units[src] - AttackerLoses(a[1], d[1]) - AttackerLoses(a[2], d[2])
        held == units[tgt] - DefenderLoses(a[1], d[1]) - DefenderLoses(a[2], d[2])
        move == ConquestMove(queued_attack, left)
    IN  /\ IF held = 0
           THEN /\ units' = [units EXCEPT ![src] = left - move,
                                          ![tgt] = SaturatingAddUnits(0, move)]
                /\ owner' = [owner EXCEPT ![tgt] = owner[src]]
           ELSE /\ units' = [units EXCEPT ![src] = left, ![tgt] = held]
                /\ UNCHANGED owner
        /\ current_player' = owner'[src]
        /\ queued_attack' = None
        /\ queued_defense' = NoDefense

RollDice(attacker_rolls, defender_rolls) ==
    /\ queued_attack # None
    /\ queued_defense # NoDefense
    /\ ValidRolls(attacker_rolls, 3, queued_attack.dice)
    /\ ValidRolls(defender_rolls, 2, queued_defense)
    /\ ResolveAttackRolls(attacker_rolls, defender_rolls)
    /\ UNCHANGED <<reserves, placement, first_attack_of_turn, turn_count>>

-----------------------------------------------------------------------------
(* FortifyAction: moves armies and ends the turn; one army or none only    *)
(* ends it, and then the territories named do not matter.                  *)

ValidFortify(source, target, num) ==
    \/ num <= 1
    \/ /\ owner[source] = current_player
       /\ owner[target] = current_player
       /\ IF source = target THEN units[source] >= num
                             ELSE units[source] >= num + 1

\* mutant: both sides of the move are computed from the old counts, which makes
\* armies out of nothing when source and target are the same territory
FortifyToMoveUnits_OldCounts(source, target, num) ==
    /\ units' = IF num <= 1 THEN units
                ELSE [units EXCEPT ![source] = units[source] - num,
                                   ![target] = SaturatingAddUnits(units[target], num)]
    /\ NextPlayer(owner)

FortifyToMoveUnits(source, target, num) ==
    /\ LET taken == [units EXCEPT ![source] = @ - num]
       IN  units' = IF num <= 1 THEN units
                    ELSE [taken EXCEPT ![target] = SaturatingAddUnits(@, num)]
    /\ NextPlayer(owner)

Fortify(source, target, num) ==
    /\ PlayerToMove
    /\ queued_defense = NoDefense
    /\ ValidFortify(source, target, num)
    /\ turn_count < MaxTurns
    /\ FortifyToMoveUnits(source, target, num)
    /\ UNCHANGED <<owner, placement, battle>>

-----------------------------------------------------------------------------
\* Reinforcements and attacks are drawn from the legal ones, as the action sets
\* of risk_game_state_sampling.h list them.
Next ==
    \/ \E t \in Territories : InitialPlace(t)
    \/ /\ PlayerToMove
       /\ \E place \in {NoReinforcement} \cup {p \in Placements : ValidReinforcement(p)},
             attack \in {None} \cup {a \in QueueAttackActions : ValidAttack(a)} :
             PlayerAction(place, attack)
    \/ \E dice \in 1 .. 2 : QueueDefense(dice)
    \/ /\ queued_defense # NoDefense
       /\ \E a \in Rolls(3), d \in Rolls(2) : RollDice(a, d)
    \/ \E source, target \in Territories, num \in FortifyUnits : Fortify(source, target, num)

Spec == Init /\ [][Next]_vars
-----------------------------------------------------------------------------
(* Properties                                                              *)

ActionRecord == QueueAttackActions \cup {None}

TypeOK ==
    /\ owner \in [Territories -> Players \cup {Nobody}]
    /\ units \in [Territories -> 0 .. MaxUnits]
    /\ reserves \in [Players -> Nat]
    /\ initial_placement \in BOOLEAN
    /\ num_initial_placements \in Nat
    /\ first_attack_of_turn \in BOOLEAN
    /\ current_player \in Players \cup {Nobody}
    /\ turn_count \in Nat
    /\ queued_attack \in ActionRecord
    /\ queued_defense \in 0 .. 2

\* No fight, move or rule ever empties a territory or mans an unclaimed one.
\* A battle is three actions of three actors: the dice checked when the attack
\* is queued must still be covered by armies when they are rolled.
Garrisoned == \A t \in Territories : owner[t] = Nobody <=> units[t] = 0

\* While a battle is queued its two territories stay what they were when the
\* attack was checked, the defender is the one to act until it has answered,
\* and chance is the one to act exactly from then on.
BattleConsistent ==
    /\ queued_attack # None =>
          /\ ~initial_placement
          /\ ~first_attack_of_turn
          /\ owner[queued_attack.source] \in Players
          /\ owner[queued_attack.target] \in Players \ {owner[queued_attack.source]}
          /\ queued_attack.target \in Neighbors[queued_attack.source]
          /\ units[queued_attack.source] > queued_attack.dice
          /\ queued_defense = NoDefense => current_player = owner[queued_attack.target]
          /\ queued_defense <= units[queued_attack.target]
    /\ queued_defense # NoDefense => queued_attack # None
    /\ current_player = Nobody <=> queued_defense # NoDefense

\* After the placement phase whoever is to act holds a territory: NextPlayer()
\* skips the eliminated seats, and no conquest eliminates the seat it hands the
\* turn back to.
MoverOnBoard ==
    ~initial_placement /\ current_player # Nobody => Owns(owner, current_player)

\* The placement phase deals fairly and ends exactly when it should.  The
\* wrap-around count of rounds and the count of placements agree (risk_view.h
\* divides one by the other to number the rounds of play), every seat has
\* placed one army per round, so a uint16_t reserve never wraps below zero,
\* nobody doubles up before the map is full, and nothing is left unclaimed
\* when play starts.
PlacementFair ==
    /\ initial_placement =>
          /\ num_initial_placements = NumPlayers * turn_count + current_player
          /\ turn_count < InitialReserve
          /\ \A p \in Players :
                /\ reserves[p] = InitialReserve - turn_count - (IF p < current_player THEN 1 ELSE 0)
                /\ reserves[p] < InitialReserve => Owns(owner, p)
          /\ Cardinality({t \in Territories : owner[t] # Nobody}) =
                Min2(num_initial_placements, Cardinality(Territories))
    /\ ~initial_placement =>
          /\ num_initial_placements = NumPlayers * InitialReserve
          /\ turn_count >= InitialReserve
          /\ \A t \in Territories : owner[t] # Nobody

\* Whatever happened, is_valid_action accepts something: a placement, ending
\* the turn, a defence, or the dice.  The proposers assert a sample exists.
NeverStuck ==
    \/ \E t \in Territories : ValidInitialPlace(t)
    \/ PlayerToMove /\ queued_defense = NoDefense
    \/ /\ queued_attack # None
       /\ queued_defense = NoDefense
       /\ current_player = owner[queued_attack.target]
       /\ units[queued_attack.target] >= 1
    \/ queued_attack # None /\ queued_defense # NoDefense

\* A conquest costs the attacker no army, moves in at least the dice rolled and
\* leaves one behind: the lower bound of the clamp in ResolveAttackRolls never
\* gives way to the upper one.  It rests on the dice checks of two earlier
\* actions, the attack and the defence.
BloodlessConquest ==
    ~initial_placement /\ owner' # owner =>
        LET src == queued_attack.source
            tgt == queued_attack.target
        IN  /\ queued_defense # NoDefense
            /\ units'[src] + units'[tgt] = units[src]
            /\ units'[tgt] >= queued_attack.dice
            /\ units'[src] >= 1
            /\ owner' = [owner EXCEPT ![tgt] = owner[src]]
ConquestIsBloodless == [][BloodlessConquest]_vars

ArmiesOf(o, u, p) == MapThenSumSet(LAMBDA t : u[t], OwnedBy(o, p))
Armies(u) == MapThenSumSet(LAMBDA t : u[t], Territories)

\* Armies come only from reserves and go only by dice: a roll removes exactly
\* one army per pair of dice, whether or not the target falls; any other action
\* leaves the other seats' armies alone and adds to the mover's exactly what its
\* reserves give up (nothing when it moves armies and ends its turn).
ArmiesStep ==
    /\ queued_defense # NoDefense =>
          Armies(units') = Armies(units) - Min2(queued_attack.dice, queued_defense)
    /\ queued_defense = NoDefense =>
          \A p \in Players :
              LET gain == ArmiesOf(owner', units', p) - ArmiesOf(owner, units, p)
              IN  IF p # current_player THEN gain = 0
                  ELSE IF initial_placement THEN gain = 1
                  ELSE gain = 0 \/ (gain = reserves[p] /\ reserves'[p] = 0)
ArmiesAccounted == [][ArmiesStep]_vars

\* Once play has started a seat loses its last territory only to the dice of a
\* battle it is defending, and never holds one again: elimination, and with it
\* the win of the last seat standing, is final whatever is played after it.
EliminationStep ==
    ~initial_placement => \A p \in Players :
        /\ ~Owns(owner, p) => ~Owns(owner', p)
        /\ Owns(owner, p) /\ ~Owns(owner', p) =>
               queued_defense # NoDefense /\ p = owner[queued_attack.target]
EliminationIsFinal == [][EliminationStep]_vars
=============================================================================
