-------------------------- MODULE RiskSessionProofs --------------------------
(***************************************************************************)
(* Risk for every number of seats, every map, every size of the starting   *)
(* reserves and of the dice, and every round cap.  First the engine, then  *)
(* the refereed game: the engine's invariants hold of it, the number of the*)
(* round counts the turns every survivor has had, and the cap cuts between *)
(* rounds.  And what RiskProposer proposes to the search in any position of*)
(* a game is legal, and counted right.                                     *)
(***************************************************************************)
EXTENDS RiskSession, RiskProposer, FiniteLemmas

-----------------------------------------------------------------------------
(* The engine.                                                             *)

\* The inductive invariant.  None of its parts is inductive alone: that a fight
\* leaves an army behind rests on the battle still being the one that was
\* checked, that the mover is on the board rests on the fight leaving its
\* source manned, and that play starts with a full map on the placement count.
IInv ==
    /\ TypeOK
    /\ Garrisoned
    /\ BattleConsistent
    /\ MoverOnBoard
    /\ PlacementFair

-----------------------------------------------------------------------------
(* Lemmas about the helpers.                                               *)

\* A non-empty set of seats has an earliest one.
LEMMA EarliestExists ==
    ASSUME NEW seats \in SUBSET Players, seats # {}
    PROVE  /\ Earliest(seats) \in seats
           /\ \A q \in seats : Earliest(seats) <= q
<1>1. seats \subseteq Nat
  BY SeatsAssumption DEF Players
<1> DEFINE less == {ss \in Nat \X Nat : ss[1] < ss[2]}
<1>2. IsWellFoundedOn(less, Nat)
  BY NatLessThanWellFounded DEF OpToRel
<1>3. \E p \in seats : \A q \in seats : ~(<<q, p>> \in less)
  <2> HIDE DEF less
  <2> QED  BY <1>1, <1>2, WFMin
<1>4. \E p \in seats : \A q \in seats : p <= q
  <2>1. PICK p \in seats : \A q \in seats : ~(<<q, p>> \in less)
    BY <1>3
  <2>2. ASSUME NEW q \in seats
        PROVE  p <= q
    <3>1. p \in Nat /\ q \in Nat
      BY <1>1
    <3>2. ~(q < p)
      BY <2>1, <3>1
    <3> QED  BY <3>1, <3>2
  <2> QED  BY <2>2
<1> QED  BY <1>4 DEF Earliest

\* The turn passes to a seat that owns something: NextPlayer() finds one.
LEMMA NextOwnerOwns ==
    ASSUME NEW o, NEW p \in Players, Owns(o, p)
    PROVE  /\ NextOwner(o, p) \in Players
           /\ Owns(o, NextOwner(o, p))
<1> DEFINE owners == {q \in Players : Owns(o, q)}
<1>1. p \in owners
  OBVIOUS
<1>2. LaterOwners(o, p) \subseteq owners
  BY DEF LaterOwners
<1>3. CASE LaterOwners(o, p) # {}
  <2>1. Earliest(LaterOwners(o, p)) \in LaterOwners(o, p)
    BY <1>2, <1>3, EarliestExists
  <2> QED  BY <1>2, <1>3, <2>1 DEF NextOwner
<1>4. CASE LaterOwners(o, p) = {}
  <2>1. Earliest(owners) \in owners
    BY <1>1, EarliestExists
  <2> QED  BY <1>4, <2>1 DEF NextOwner
<1> QED  BY <1>3, <1>4

LEMMA OwnedFinite ==
    ASSUME NEW o, NEW p
    PROVE  /\ IsFiniteSet(OwnedBy(o, p))
           /\ Cardinality(OwnedBy(o, p)) \in Nat
  BY MapAssumption, FS_Subset, FS_CardinalityType DEF OwnedBy

LEMMA ReinforcementsType ==
    ASSUME NEW o, NEW p
    PROVE  TurnStartReinforcements(o, p) \in Nat
<1>1. Cardinality(OwnedBy(o, p)) \in Nat
  BY OwnedFinite
<1>2. Cardinality(OwnedBy(o, p)) \div 3 \in Nat
  BY <1>1
<1>3. Max2(3, Cardinality(OwnedBy(o, p)) \div 3) \in Nat
  BY <1>2 DEF Max2
<1>4. ContinentBonus(OwnedBy(o, p)) \in Nat
  BY BonusAssumption DEF OwnedBy
<1> QED  BY <1>3, <1>4 DEF TurnStartReinforcements

\* What a roll costs: one army per pair of dice, and neither side more than
\* the dice it rolled.
LEMMA RollCosts ==
    ASSUME NEW r \in Rolls(3), NEW s \in Rolls(2),
           NEW m \in 1 .. 3, NEW n \in 1 .. 2,
           ValidRolls(r, 3, m), ValidRolls(s, 2, n)
    PROVE  LET a  == TopOfThree(r)
               d  == SortedPair(s)
               al == AttackerLoses(a[1], d[1]) + AttackerLoses(a[2], d[2])
               dl == DefenderLoses(a[1], d[1]) + DefenderLoses(a[2], d[2])
           IN  /\ al \in 0 .. m
               /\ dl \in 0 .. n
               /\ al + dl = Min2(m, n)
<1>1. /\ r[1] \in Nat /\ r[2] \in Nat /\ r[3] \in Nat
      /\ s[1] \in Nat /\ s[2] \in Nat
  BY NumbersAssumption DEF Rolls
<1>2. /\ r[1] >= 1 /\ s[1] >= 1
      /\ IF m >= 2 THEN r[2] >= 1 ELSE r[2] = 0
      /\ IF m >= 3 THEN r[3] >= 1 ELSE r[3] = 0
      /\ IF n >= 2 THEN s[2] >= 1 ELSE s[2] = 0
  BY DEF ValidRolls
<1> QED
  BY <1>1, <1>2 DEF TopOfThree, SortedPair, AttackerLoses, DefenderLoses, Max2, Min2

LEMMA SaturatingType ==
    ASSUME NEW u \in Nat, NEW k \in Nat
    PROVE  /\ SaturatingAddUnits(u, k) \in 0 .. MaxUnits
           /\ u + k > 0 => SaturatingAddUnits(u, k) > 0
  BY NumbersAssumption, SeatsAssumption DEF SaturatingAddUnits, Min2

-----------------------------------------------------------------------------
(* The initial state and the five actions.                                 *)

LEMMA InitIInv == Init => IInv
<1> SUFFICES ASSUME Init  PROVE IInv
  OBVIOUS
<1>1. TypeOK
  BY SeatsAssumption, NumbersAssumption
  DEF Init, TypeOK, ActionRecord, Players, Nobody, NoDefense
<1>2. Garrisoned
  BY DEF Init, Garrisoned
<1>3. BattleConsistent /\ MoverOnBoard
  BY DEF Init, BattleConsistent, MoverOnBoard, Nobody
<1>4. PlacementFair
  <2>1. {t \in Territories : owner[t] # Nobody} = {}
    BY DEF Init
  <2>2. Cardinality({t \in Territories : owner[t] # Nobody}) = 0
    BY <2>1, FS_EmptySet
  <2>3. Cardinality(Territories) \in Nat
    BY MapAssumption, FS_CardinalityType
  <2> QED
    BY <2>2, <2>3, SeatsAssumption DEF Init, PlacementFair, Players, Min2
<1> QED  BY <1>1, <1>2, <1>3, <1>4 DEF IInv

\* A placement keeps the count of claimed territories, and the last one of the
\* phase leaves none unclaimed.
LEMMA InitialPlaceIInv ==
    ASSUME IInv, NEW t \in Territories, InitialPlace(t)
    PROVE  IInv'
<1> DEFINE p == current_player
           claimed == {u \in Territories : owner[u] # Nobody}
           last == p = NumPlayers - 1
           over == last /\ turn_count + 1 = InitialReserve
<1>1. /\ NumPlayers \in Nat /\ NumPlayers >= 2
      /\ InitialReserve \in Nat /\ InitialReserve >= 1
      /\ Cardinality(Territories) \in Nat
  BY SeatsAssumption, MapAssumption, FS_CardinalityType
<1>2. initial_placement /\ TypeOK /\ PlacementFair
  BY DEF InitialPlace, ValidInitialPlace, IInv
<1>3. queued_attack = None /\ queued_defense = NoDefense
  BY <1>2 DEF IInv, BattleConsistent
<1>4. p \in Players
  BY <1>2, <1>3 DEF IInv, BattleConsistent, TypeOK
<1>5. /\ owner' = [owner EXCEPT ![t] = p]
      /\ units' = [units EXCEPT ![t] = SaturatingAddUnits(@, 1)]
      /\ num_initial_placements' = num_initial_placements + 1
      /\ current_player' = IF last THEN 0 ELSE p + 1
      /\ queued_attack' = None /\ queued_defense' = NoDefense
      /\ first_attack_of_turn' = first_attack_of_turn
  BY <1>3 DEF InitialPlace, SeatAfter, battle
<1>6. reserves[p] = InitialReserve - turn_count
  <2>1. ~(p < p)
    BY <1>1, <1>4 DEF Players
  <2>2. reserves[p] = InitialReserve - turn_count - 0
    BY <2>1, <1>2, <1>4 DEF PlacementFair
  <2> QED  BY <2>2, <1>1, <1>2 DEF TypeOK
<1>7. /\ turn_count' = IF last THEN turn_count + 1 ELSE turn_count
      /\ initial_placement' = ~over
      /\ \A q \in Players : q # 0 \/ ~over =>
            reserves'[q] = IF q = p THEN reserves[q] - 1 ELSE reserves[q]
      /\ over => reserves'[0] = TurnStartReinforcements(owner', 0)
      /\ reserves' \in [Players -> Nat]
  <2> DEFINE left == [reserves EXCEPT ![p] = @ - 1]
  <2>1. left \in [Players -> Nat]
    BY <1>1, <1>2, <1>4, <1>6 DEF TypeOK, PlacementFair
  <2>2. (current_player' = 0) <=> last
    BY <1>1, <1>4, <1>5 DEF Players
  <2>3. last => left[0] = InitialReserve - turn_count - 1
    <3> SUFFICES ASSUME last  PROVE left[0] = InitialReserve - turn_count - 1
      OBVIOUS
    <3>1. 0 \in Players /\ 0 < p /\ 0 # p
      BY <1>1 DEF Players
    <3>2. reserves[0] = InitialReserve - turn_count - 1
      BY <3>1, <1>2 DEF PlacementFair
    <3>3. left[0] = reserves[0]
      BY <3>1, <1>2 DEF TypeOK
    <3> QED  BY <3>2, <3>3
  <2>4. (current_player' = 0 /\ left[0] = 0) <=> over
    BY <1>1, <1>2, <2>2, <2>3 DEF TypeOK
  <2>5. TurnStartReinforcements(owner', 0) \in Nat
    BY ReinforcementsType
  <2>6. /\ turn_count' = IF last THEN turn_count + 1 ELSE turn_count
        /\ initial_placement' = ~over
        /\ reserves' = IF over THEN [left EXCEPT ![0] = TurnStartReinforcements(owner', 0)]
                               ELSE left
    BY <2>2, <2>4 DEF InitialPlace
  <2>7. 0 \in Players
    BY <1>1 DEF Players
  <2> QED  BY <2>1, <2>5, <2>6, <2>7, <1>2, <1>4 DEF TypeOK
<1>8. TypeOK'
  <2>1. current_player' \in Players
    BY <1>1, <1>4, <1>5 DEF Players
  <2>2. units' \in [Territories -> 0 .. MaxUnits]
    <3>1. units[t] \in Nat
      BY <1>2, NumbersAssumption DEF TypeOK
    <3> QED  BY <3>1, <1>2, <1>5, SaturatingType DEF TypeOK
  <2>3. owner' \in [Territories -> Players \cup {Nobody}]
    BY <1>2, <1>4, <1>5 DEF TypeOK
  <2> QED
    BY <1>2, <1>5, <1>7, <2>1, <2>2, <2>3 DEF TypeOK, ActionRecord, NoDefense
<1>9. Garrisoned'
  <2>1. units[t] \in Nat
    BY <1>2, NumbersAssumption DEF TypeOK
  <2>2. units'[t] > 0
    BY <2>1, <1>2, <1>5, SaturatingType DEF TypeOK
  <2>3. owner'[t] # Nobody
    BY <1>1, <1>2, <1>4, <1>5 DEF TypeOK, Players, Nobody
  <2> QED  BY <2>2, <2>3, <1>2, <1>5 DEF IInv, Garrisoned, TypeOK
<1>10. \A q \in Players : Owns(owner, q) => (initial_placement => Owns(owner', q) \/ owner[t] = q)
  BY <1>2, <1>5 DEF Owns, OwnedBy, TypeOK
<1>11. owner[t] = Nobody \/ owner[t] = p
  BY DEF InitialPlace, ValidInitialPlace
<1>12. \A q \in Players : Owns(owner, q) \/ q = p => Owns(owner', q)
  BY <1>1, <1>2, <1>4, <1>5, <1>10, <1>11 DEF Owns, OwnedBy, TypeOK, Players, Nobody
<1>13. claimed' = claimed \cup {t}
  BY <1>1, <1>2, <1>4, <1>5 DEF TypeOK, Players, Nobody
<1>14. Cardinality(claimed') = Min2(num_initial_placements', Cardinality(Territories))
  <2>1. claimed \in SUBSET Territories /\ claimed' \in SUBSET Territories
    BY <1>13
  <2>2. IsFiniteSet(claimed) /\ Cardinality(claimed) \in Nat
    BY <2>1, MapAssumption, FS_Subset, FS_CardinalityType
  <2>3. Cardinality(claimed) = Min2(num_initial_placements, Cardinality(Territories))
    BY <1>2 DEF PlacementFair
  <2>4. CASE num_initial_placements < Cardinality(Territories)
    <3>1. t \notin claimed
      BY <2>4 DEF InitialPlace, ValidInitialPlace
    <3>2. Cardinality(claimed') = Cardinality(claimed) + 1
      BY <2>2, <3>1, <1>13, FS_AddElement
    <3>3. Cardinality(claimed) = num_initial_placements
      BY <2>3, <2>4, <1>1, <1>2 DEF Min2, TypeOK
    <3>4. Min2(num_initial_placements + 1, Cardinality(Territories)) = num_initial_placements + 1
      BY <2>4, <1>1, <1>2 DEF Min2, TypeOK
    <3> QED  BY <3>2, <3>3, <3>4, <1>5
  <2>5. CASE num_initial_placements >= Cardinality(Territories)
    <3>1. owner[t] = p
      BY <2>5, <1>1, <1>2 DEF InitialPlace, ValidInitialPlace, TypeOK
    <3>2. claimed' = claimed
      BY <3>1, <1>1, <1>4, <1>13 DEF Players, Nobody
    <3>3. Cardinality(claimed) = Cardinality(Territories)
      BY <2>3, <2>5, <1>1, <1>2 DEF Min2, TypeOK
    <3>4. Min2(num_initial_placements + 1, Cardinality(Territories)) = Cardinality(Territories)
      BY <2>5, <1>1, <1>2 DEF Min2, TypeOK
    <3> QED  BY <3>2, <3>3, <3>4, <1>5
  <2> QED  BY <2>4, <2>5, <1>1, <1>2 DEF TypeOK
<1>15. num_initial_placements' = NumPlayers * turn_count' + current_player'
  <2>1. num_initial_placements' = NumPlayers * turn_count + p + 1
    BY <1>1, <1>2, <1>4, <1>5 DEF PlacementFair, TypeOK, Players
  <2>2. NumPlayers * (turn_count + 1) = NumPlayers * turn_count + NumPlayers
    BY <1>1, <1>2 DEF TypeOK
  <2> QED  BY <2>1, <2>2, <1>1, <1>2, <1>4, <1>5, <1>7 DEF TypeOK, Players
<1>16. PlacementFair'
  <2>1. CASE ~over
    <3>1. turn_count' < InitialReserve
      BY <2>1, <1>1, <1>2, <1>7 DEF PlacementFair, TypeOK
    <3>2. ASSUME NEW q \in Players
          PROVE  /\ reserves'[q] = InitialReserve - turn_count' - (IF q < current_player' THEN 1 ELSE 0)
                 /\ reserves'[q] < InitialReserve => Owns(owner', q)
      <4>1. reserves'[q] = IF q = p THEN reserves[q] - 1 ELSE reserves[q]
        BY <2>1, <1>7
      <4>2. /\ reserves[q] = InitialReserve - turn_count - (IF q < p THEN 1 ELSE 0)
            /\ reserves[q] < InitialReserve => Owns(owner, q)
        BY <1>2 DEF PlacementFair
      <4>3. reserves'[q] = InitialReserve - turn_count' - (IF q < current_player' THEN 1 ELSE 0)
        <5>1. CASE last
          <6>1. q # p => q < p
            BY <5>1, <1>1 DEF Players
          <6>2. ~(q < 0) /\ ~(p < p)
            BY <1>1, <1>4 DEF Players
          <6> QED  BY <5>1, <6>1, <6>2, <4>1, <4>2, <1>1, <1>2, <1>5, <1>7 DEF TypeOK
        <5>2. CASE ~last
          <6>1. (q < p + 1) <=> (q < p \/ q = p)
            BY <1>1, <1>4 DEF Players
          <6>2. ~(p < p)
            BY <1>1, <1>4 DEF Players
          <6> QED  BY <5>2, <6>1, <6>2, <4>1, <4>2, <1>1, <1>2, <1>5, <1>7 DEF TypeOK
        <5> QED  BY <5>1, <5>2
      <4>4. reserves'[q] < InitialReserve => Owns(owner', q)
        BY <4>1, <4>2, <1>12
      <4> QED  BY <4>3, <4>4
    <3> QED  BY <2>1, <3>1, <3>2, <1>7, <1>14, <1>15 DEF PlacementFair
  <2>2. CASE over
    <3>1. num_initial_placements' = NumPlayers * InitialReserve
      <4>1. turn_count' = InitialReserve /\ current_player' = 0
        BY <2>2, <1>5, <1>7
      <4>2. NumPlayers * InitialReserve \in Nat
        BY <1>1
      <4> QED  BY <4>1, <4>2, <1>15
    <3>2. Cardinality(claimed') = Cardinality(Territories)
      BY <3>1, <1>1, <1>14, CoverAssumption DEF Min2
    <3>3. claimed' = Territories
      BY <3>2, MapAssumption, FS_Subset
    <3>4. turn_count' >= InitialReserve
      BY <2>2, <1>1, <1>2, <1>7 DEF TypeOK
    <3>5. \A u \in Territories : owner'[u] # Nobody
      BY <3>3
    <3>6. ~initial_placement'
      BY <2>2, <1>7
    <3> QED  BY <3>1, <3>4, <3>5, <3>6 DEF PlacementFair
  <2> QED  BY <2>1, <2>2
<1>17. BattleConsistent'
  BY <1>1, <1>4, <1>5, <1>8 DEF BattleConsistent, TypeOK, Players, Nobody, NoDefense
<1>18. MoverOnBoard'
  <2> SUFFICES ASSUME over  PROVE Owns(owner', 0)
    BY <1>5, <1>7 DEF MoverOnBoard
  <2>1. 0 \in Players /\ 0 # p
    BY <1>1 DEF Players
  <2>2. Owns(owner, 0)
    BY <2>1, <1>1, <1>2, <1>4 DEF PlacementFair, Players, TypeOK
  <2> QED  BY <2>1, <2>2, <1>12
<1> QED  BY <1>8, <1>9, <1>16, <1>17, <1>18 DEF IInv

\* Reinforcing and attacking move no territory to another seat; an attack that
\* is queued has been checked against the armies before the reinforcement, and
\* those only grow.
LEMMA PlayerActionIInv ==
    ASSUME IInv,
           NEW place \in {NoReinforcement} \cup Placements,
           NEW attack \in {None} \cup QueueAttackActions,
           PlayerAction(place, attack)
    PROVE  IInv'
<1> DEFINE p == current_player
<1>1. /\ ~initial_placement /\ queued_attack = None /\ p \in Players
      /\ TypeOK /\ Garrisoned /\ BattleConsistent /\ PlacementFair
      /\ queued_defense = NoDefense
  BY DEF PlayerAction, ValidPlayerAction, PlayerToMove, IInv, BattleConsistent
<1>2. /\ owner' = owner /\ queued_defense' = queued_defense /\ turn_count' = turn_count
      /\ initial_placement' = initial_placement
      /\ num_initial_placements' = num_initial_placements
  BY DEF PlayerAction, ValidPlayerAction, placement
<1>3. p # Nobody /\ Nobody \notin Players
  BY <1>1, SeatsAssumption DEF Players, Nobody
<1>4. \A t \in Territories : place[t] \in Nat
  <2>1. reserves[p] \in Nat
    BY <1>1 DEF TypeOK
  <2> QED  BY <2>1 DEF Placements, NoReinforcement, Max2
<1>5. /\ units' \in [Territories -> 0 .. MaxUnits]
      /\ \A t \in Territories : units'[t] >= units[t]
      /\ \A t \in Territories : units'[t] > units[t] => owner[t] = p
  <2>1. CASE place = NoReinforcement
    BY <2>1, <1>1, NumbersAssumption DEF PlayerAction, ValidPlayerAction, TypeOK
  <2>2. CASE place # NoReinforcement
    <3>1. units' = [t \in Territories |-> SaturatingAddUnits(units[t], place[t])]
      BY <2>2 DEF PlayerAction, ValidPlayerAction, ReinforceWithReserves
    <3>2. ASSUME NEW t \in Territories
          PROVE  /\ SaturatingAddUnits(units[t], place[t]) \in 0 .. MaxUnits
                 /\ SaturatingAddUnits(units[t], place[t]) >= units[t]
                 /\ place[t] = 0 => SaturatingAddUnits(units[t], place[t]) = units[t]
      BY <1>1, <1>4, NumbersAssumption DEF TypeOK, SaturatingAddUnits, Min2
    <3>3. \A t \in Territories : place[t] > 0 => owner[t] = p
      BY <2>2 DEF PlayerAction, ValidPlayerAction, ValidReinforcement
    <3>4. \A t \in Territories : units'[t] > units[t] => place[t] > 0
      BY <3>1, <3>2, <1>1, <1>4, NumbersAssumption DEF TypeOK
    <3> QED  BY <3>1, <3>2, <3>3, <3>4
  <2> QED  BY <2>1, <2>2
<1>6. reserves' \in [Players -> Nat]
  <2>1. CASE place = NoReinforcement
    BY <2>1, <1>1 DEF PlayerAction, ValidPlayerAction, TypeOK
  <2>2. CASE place # NoReinforcement
    <3>1. Placed(place) = reserves[p]
      BY <2>2 DEF PlayerAction, ValidPlayerAction, ValidReinforcement
    <3>2. reserves' = [reserves EXCEPT ![p] = reserves[p] - reserves[p]]
      BY <2>2, <3>1 DEF PlayerAction, ValidPlayerAction, ReinforceWithReserves
    <3>3. reserves[p] - reserves[p] = 0
      BY <1>1 DEF TypeOK
    <3> QED  BY <3>2, <3>3, <1>1 DEF TypeOK
  <2> QED  BY <2>1, <2>2
<1>7. Garrisoned'
  BY <1>1, <1>2, <1>3, <1>5, NumbersAssumption DEF Garrisoned, TypeOK
<1>8. PlacementFair'
  BY <1>1, <1>2 DEF PlacementFair
<1>9. CASE attack = None
  <2>1. /\ queued_attack' = queued_attack /\ current_player' = current_player
        /\ first_attack_of_turn' = first_attack_of_turn
    BY <1>9 DEF PlayerAction, ValidPlayerAction
  <2>2. TypeOK'
    BY <2>1, <1>1, <1>2, <1>5, <1>6 DEF TypeOK
  <2>3. BattleConsistent' /\ MoverOnBoard'
    BY <2>1, <1>1, <1>2, <1>3 DEF BattleConsistent, MoverOnBoard, IInv
  <2> QED  BY <2>2, <2>3, <1>7, <1>8 DEF IInv
<1>10. CASE attack # None
  <2>1. /\ queued_attack' = attack /\ current_player' = owner[attack.target]
        /\ first_attack_of_turn' = FALSE
        /\ ValidAttack(attack)
    BY <1>10 DEF PlayerAction, ValidPlayerAction, Attack
  <2>2. /\ attack \in QueueAttackActions
        /\ attack.source \in Territories /\ attack.target \in Territories
        /\ attack.dice \in 1 .. 3
    BY <1>10 DEF QueueAttackActions
  <2>3. owner[attack.target] \in Players
    BY <2>2, <1>1 DEF PlacementFair, TypeOK
  <2>4. TypeOK'
    BY <2>1, <2>2, <2>3, <1>1, <1>2, <1>5, <1>6 DEF TypeOK, ActionRecord
  <2>5. units'[attack.source] > attack.dice
    BY <2>1, <2>2, <1>1, <1>5, NumbersAssumption DEF ValidAttack, TypeOK
  <2>6. 0 <= units'[attack.target]
    BY <2>2, <1>5
  <2>7. attack # None
    BY <1>10
  <2>8. BattleConsistent'
    BY <2>1, <2>2, <2>3, <2>5, <2>6, <2>7, <1>1, <1>2, <1>3
    DEF BattleConsistent, ValidAttack, NoDefense
  <2>9. MoverOnBoard'
    BY <2>1, <2>2, <1>2 DEF MoverOnBoard, Owns, OwnedBy
  <2> QED  BY <2>4, <2>8, <2>9, <1>7, <1>8 DEF IInv
<1> QED  BY <1>9, <1>10

LEMMA QueueDefenseIInv ==
    ASSUME IInv, NEW dice \in 1 .. 2, QueueDefense(dice)
    PROVE  IInv'
<1>1. /\ queued_attack # None /\ queued_attack' = queued_attack
      /\ queued_defense' = dice /\ current_player' = Nobody
      /\ dice <= units[queued_attack.target]
      /\ owner' = owner /\ units' = units /\ reserves' = reserves
      /\ initial_placement' = initial_placement
      /\ num_initial_placements' = num_initial_placements
      /\ first_attack_of_turn' = first_attack_of_turn /\ turn_count' = turn_count
  BY DEF QueueDefense, ValidDefense, board, placement
<1>2. dice # NoDefense
  BY DEF NoDefense
<1>3. TypeOK'
  BY <1>1 DEF IInv, TypeOK
<1>4. ~initial_placement
  BY <1>1 DEF IInv, BattleConsistent
<1>5. Garrisoned' /\ MoverOnBoard'
  BY <1>1 DEF IInv, Garrisoned, MoverOnBoard
<1>6. PlacementFair'
  BY <1>1, <1>4 DEF IInv, PlacementFair
<1>7. BattleConsistent'
  BY <1>1, <1>2 DEF IInv, BattleConsistent
<1> QED  BY <1>3, <1>5, <1>6, <1>7 DEF IInv

\* The roll: what is left of either side, and what moves in on a conquest.
LEMMA RollOutcome ==
    ASSUME IInv, NEW r \in Rolls(3), NEW s \in Rolls(2), RollDice(r, s)
    PROVE  LET src == queued_attack.source
               tgt == queued_attack.target
               m   == queued_attack.dice
               n   == queued_defense
           IN  /\ queued_attack \in QueueAttackActions
               /\ src \in Territories /\ tgt \in Territories /\ src # tgt
               /\ m \in 1 .. 3 /\ n \in 1 .. 2
               /\ units[src] > m /\ n <= units[tgt]
               /\ \E al \in 0 .. m, dl \in 0 .. n :
                     /\ al + dl = Min2(m, n)
                     /\ units[tgt] - dl # 0 =>
                           /\ owner' = owner
                           /\ units' = [units EXCEPT ![src] = units[src] - al,
                                                     ![tgt] = units[tgt] - dl]
                     /\ units[tgt] - dl = 0 =>
                           /\ al = 0
                           /\ owner' = [owner EXCEPT ![tgt] = owner[src]]
                           /\ \E k \in m .. units[src] - 1 :
                                 units' = [units EXCEPT ![src] = units[src] - k, ![tgt] = k]
<1> DEFINE src == queued_attack.source
           tgt == queued_attack.target
           m   == queued_attack.dice
           n   == queued_defense
           a   == TopOfThree(r)
           d   == SortedPair(s)
           al  == AttackerLoses(a[1], d[1]) + AttackerLoses(a[2], d[2])
           dl  == DefenderLoses(a[1], d[1]) + DefenderLoses(a[2], d[2])
           left == units[src] - AttackerLoses(a[1], d[1]) - AttackerLoses(a[2], d[2])
           held == units[tgt] - DefenderLoses(a[1], d[1]) - DefenderLoses(a[2], d[2])
<1>1. /\ TypeOK /\ BattleConsistent
      /\ queued_attack # None /\ queued_defense # NoDefense
      /\ ValidRolls(r, 3, m) /\ ValidRolls(s, 2, n)
  BY DEF IInv, RollDice
<1>2. queued_attack \in QueueAttackActions
  BY <1>1 DEF TypeOK, ActionRecord
<1>3. /\ src \in Territories /\ tgt \in Territories
      /\ m \in 1 .. 3 /\ queued_attack.move \in Nat
  BY <1>2, NumbersAssumption DEF QueueAttackActions
<1>4. src # tgt
  BY <1>1, <1>3 DEF BattleConsistent
<1>5. n \in 1 .. 2
  BY <1>1 DEF TypeOK, NoDefense
<1>6. units[src] > m /\ n <= units[tgt]
  BY <1>1 DEF BattleConsistent
<1>7. units[src] \in 0 .. MaxUnits /\ units[tgt] \in 0 .. MaxUnits
  BY <1>1, <1>3 DEF TypeOK
<1>8. al \in 0 .. m /\ dl \in 0 .. n /\ al + dl = Min2(m, n)
  BY <1>1, <1>3, <1>5, RollCosts
<1>9. left = units[src] - al /\ held = units[tgt] - dl
  <2>1. \A x, y : AttackerLoses(x, y) \in {0, 1} /\ DefenderLoses(x, y) \in {0, 1}
    BY DEF AttackerLoses, DefenderLoses
  <2>2. \A u \in Nat, x, y \in {0, 1} : u - x - y = u - (x + y)
    OBVIOUS
  <2> HIDE DEF a, d
  <2> QED  BY <2>1, <2>2, <1>7, NumbersAssumption
<1>10. ASSUME held # 0
       PROVE  /\ owner' = owner
              /\ units' = [units EXCEPT ![src] = units[src] - al, ![tgt] = units[tgt] - dl]
  <2>1. /\ units' = [units EXCEPT ![src] = left, ![tgt] = held]
        /\ owner' = owner
    BY <1>10 DEF RollDice, ResolveAttackRolls
  <2> HIDE DEF left, held, al, dl
  <2> QED  BY <2>1, <1>9
<1>11. ASSUME held = 0
       PROVE  /\ al = 0
              /\ owner' = [owner EXCEPT ![tgt] = owner[src]]
              /\ \E k \in m .. units[src] - 1 :
                    units' = [units EXCEPT ![src] = units[src] - k, ![tgt] = k]
  <2> DEFINE move == ConquestMove(queued_attack, left)
  <2>1. /\ units' = [units EXCEPT ![src] = left - move, ![tgt] = SaturatingAddUnits(0, move)]
        /\ owner' = [owner EXCEPT ![tgt] = owner[src]]
    BY <1>11 DEF RollDice, ResolveAttackRolls
  <2> HIDE DEF left, held, al, dl
  <2>2. dl = n /\ al = 0
    BY <1>3, <1>5, <1>6, <1>7, <1>8, <1>9, <1>11, NumbersAssumption DEF Min2
  <2>3. left = units[src]
    BY <2>2, <1>7, <1>9, NumbersAssumption
  <2>4. move \in m .. units[src] - 1
    BY <2>3, <1>3, <1>6, <1>7, NumbersAssumption DEF ConquestMove, Min2, Max2
  <2>5. SaturatingAddUnits(0, move) = move
    BY <2>4, <1>3, <1>7, NumbersAssumption DEF SaturatingAddUnits, Min2
  <2> QED  BY <2>1, <2>2, <2>3, <2>4, <2>5
<1>12. /\ units[tgt] - dl # 0 =>
             /\ owner' = owner
             /\ units' = [units EXCEPT ![src] = units[src] - al, ![tgt] = units[tgt] - dl]
       /\ units[tgt] - dl = 0 =>
             /\ al = 0
             /\ owner' = [owner EXCEPT ![tgt] = owner[src]]
             /\ \E k \in m .. units[src] - 1 :
                   units' = [units EXCEPT ![src] = units[src] - k, ![tgt] = k]
  <2> HIDE DEF held, al, dl
  <2> QED  BY <1>9, <1>10, <1>11
<1> HIDE DEF al, dl, left, held
<1> QED  BY <1>2, <1>3, <1>4, <1>5, <1>6, <1>8, <1>12

\* Two points of a function set at once.
LEMMA TwoPoints ==
    ASSUME NEW S, NEW T, NEW f \in [S -> T], NEW a \in S, NEW b \in S, a # b,
           NEW x \in T, NEW y \in T,
           NEW g, g = [f EXCEPT ![a] = x, ![b] = y]
    PROVE  /\ g \in [S -> T]
           /\ g[a] = x /\ g[b] = y
           /\ \A t \in S \ {a, b} : g[t] = f[t]
  OBVIOUS

LEMMA RollDiceIInv ==
    ASSUME IInv, NEW r \in Rolls(3), NEW s \in Rolls(2), RollDice(r, s)
    PROVE  IInv'
<1> DEFINE src == queued_attack.source
           tgt == queued_attack.target
           m   == queued_attack.dice
           n   == queued_defense
<1>1. /\ src \in Territories /\ tgt \in Territories /\ src # tgt
      /\ m \in 1 .. 3 /\ n \in 1 .. 2
      /\ units[src] > m /\ n <= units[tgt]
  BY RollOutcome
<1>2. PICK al \in 0 .. m, dl \in 0 .. n :
         /\ al + dl = Min2(m, n)
         /\ units[tgt] - dl # 0 =>
               /\ owner' = owner
               /\ units' = [units EXCEPT ![src] = units[src] - al, ![tgt] = units[tgt] - dl]
         /\ units[tgt] - dl = 0 =>
               /\ al = 0
               /\ owner' = [owner EXCEPT ![tgt] = owner[src]]
               /\ \E k \in m .. units[src] - 1 :
                     units' = [units EXCEPT ![src] = units[src] - k, ![tgt] = k]
  BY RollOutcome
<1>3. /\ TypeOK /\ Garrisoned /\ BattleConsistent /\ PlacementFair
      /\ queued_attack # None /\ queued_defense # NoDefense
      /\ ~initial_placement
  BY DEF IInv, RollDice, BattleConsistent
<1>4. /\ queued_attack' = None /\ queued_defense' = NoDefense
      /\ current_player' = owner'[src]
      /\ reserves' = reserves /\ initial_placement' = initial_placement
      /\ num_initial_placements' = num_initial_placements
      /\ first_attack_of_turn' = first_attack_of_turn /\ turn_count' = turn_count
  BY DEF RollDice, ResolveAttackRolls, placement
<1>5. owner[src] \in Players /\ Nobody \notin Players
  BY <1>3, SeatsAssumption DEF BattleConsistent, Players, Nobody
<1>6. units[src] \in 0 .. MaxUnits /\ units[tgt] \in 0 .. MaxUnits
  BY <1>1, <1>3 DEF TypeOK
<1>7. owner' \in [Territories -> Players \cup {Nobody}] /\ owner'[src] = owner[src]
  BY <1>1, <1>2, <1>3, <1>5 DEF TypeOK
<1>8. /\ units' \in [Territories -> 0 .. MaxUnits]
      /\ units'[src] > 0 /\ units'[tgt] > 0
      /\ \A t \in Territories \ {src, tgt} : units'[t] = units[t] /\ owner'[t] = owner[t]
  <2>1. CASE units[tgt] - dl # 0
    <3>1. units[src] - al \in 1 .. MaxUnits /\ units[tgt] - dl \in 1 .. MaxUnits
      BY <2>1, <1>1, <1>2, <1>6, NumbersAssumption
    <3>2. /\ owner' = owner
          /\ units' = [units EXCEPT ![src] = units[src] - al, ![tgt] = units[tgt] - dl]
      BY <2>1, <1>2
    <3>3. /\ units[src] - al \in 0 .. MaxUnits /\ units[tgt] - dl \in 0 .. MaxUnits
          /\ units \in [Territories -> 0 .. MaxUnits]
      BY <3>1, <1>3 DEF TypeOK
    <3>4. /\ units' \in [Territories -> 0 .. MaxUnits]
          /\ units'[src] = units[src] - al /\ units'[tgt] = units[tgt] - dl
          /\ \A t \in Territories \ {src, tgt} : units'[t] = units[t]
      BY <3>2, <3>3, <1>1, TwoPoints
    <3> QED  BY <3>1, <3>2, <3>4, NumbersAssumption
  <2>2. CASE units[tgt] - dl = 0
    <3>1. PICK k \in m .. units[src] - 1 :
             units' = [units EXCEPT ![src] = units[src] - k, ![tgt] = k]
      BY <2>2, <1>2
    <3>2. k \in 1 .. MaxUnits /\ units[src] - k \in 1 .. MaxUnits
      BY <1>1, <1>6, NumbersAssumption
    <3>3. owner' = [owner EXCEPT ![tgt] = owner[src]]
      BY <2>2, <1>2
    <3>4. /\ units[src] - k \in 0 .. MaxUnits /\ k \in 0 .. MaxUnits
          /\ units \in [Territories -> 0 .. MaxUnits]
      BY <3>2, <1>3 DEF TypeOK
    <3>5. /\ units' \in [Territories -> 0 .. MaxUnits]
          /\ units'[src] = units[src] - k /\ units'[tgt] = k
          /\ \A t \in Territories \ {src, tgt} : units'[t] = units[t]
      BY <3>1, <3>4, <1>1, TwoPoints
    <3>6. \A t \in Territories \ {src, tgt} : owner'[t] = owner[t]
      BY <3>3, <1>3 DEF TypeOK
    <3> QED  BY <3>2, <3>5, <3>6, NumbersAssumption
  <2> QED  BY <2>1, <2>2
<1>9. \A t \in Territories : owner[t] \in Players /\ owner'[t] \in Players
  <2>1. \A t \in Territories : owner[t] \in Players
    BY <1>3 DEF PlacementFair, TypeOK
  <2> QED  BY <2>1, <1>1, <1>2, <1>3 DEF TypeOK
<1>10. TypeOK'
  BY <1>1, <1>3, <1>4, <1>7, <1>8, <1>9 DEF TypeOK, ActionRecord, NoDefense
<1>11. Garrisoned'
  BY <1>1, <1>3, <1>5, <1>8, <1>9 DEF Garrisoned
<1>12. BattleConsistent'
  BY <1>1, <1>4, <1>5, <1>9 DEF BattleConsistent
<1>13. MoverOnBoard'
  BY <1>1, <1>4 DEF MoverOnBoard, Owns, OwnedBy
<1>14. PlacementFair'
  BY <1>3, <1>4, <1>5, <1>9 DEF PlacementFair
<1> QED  BY <1>10, <1>11, <1>12, <1>13, <1>14 DEF IInv

\* A move that ends the turn: one army at least stays in the source, and the
\* seat the turn passes to owns something because the mover itself does.
LEMMA FortifyIInv ==
    ASSUME IInv, NEW source \in Territories, NEW target \in Territories,
           NEW num \in Int, Fortify(source, target, num)
    PROVE  IInv'
<1> DEFINE p == current_player
           next == NextOwner(owner, p)
<1>1. /\ ~initial_placement /\ queued_attack = None /\ queued_defense = NoDefense
      /\ p \in Players /\ p # Nobody
      /\ TypeOK /\ Garrisoned /\ MoverOnBoard /\ PlacementFair
  BY SeatsAssumption DEF Fortify, PlayerToMove, IInv, Players, Nobody
<1>2. /\ owner' = owner /\ queued_attack' = queued_attack
      /\ queued_defense' = queued_defense
      /\ initial_placement' = initial_placement
      /\ num_initial_placements' = num_initial_placements
      /\ current_player' = next /\ first_attack_of_turn' = TRUE
      /\ turn_count' = IF next <= p THEN turn_count + 1 ELSE turn_count
      /\ reserves' = [reserves EXCEPT ![next] = TurnStartReinforcements(owner, next)]
  BY DEF Fortify, FortifyToMoveUnits, NextPlayer, placement, battle
<1>3. next \in Players /\ Owns(owner, next)
  BY <1>1, NextOwnerOwns DEF MoverOnBoard
<1>4. reserves' \in [Players -> Nat]
  BY <1>1, <1>2, <1>3, ReinforcementsType DEF TypeOK
<1>5. /\ units' \in [Territories -> 0 .. MaxUnits]
      /\ \A t \in Territories : units'[t] = 0 <=> units[t] = 0
  <2>1. CASE num <= 1
    BY <2>1, <1>1 DEF Fortify, FortifyToMoveUnits, TypeOK
  <2>2. CASE ~(num <= 1)
    <3> DEFINE taken == [units EXCEPT ![source] = units[source] - num]
    <3>1. /\ units' = [taken EXCEPT ![target] = SaturatingAddUnits(taken[target], num)]
          /\ IF source = target THEN units[source] >= num ELSE units[source] >= num + 1
      BY <2>2 DEF Fortify, FortifyToMoveUnits, ValidFortify
    <3>2. /\ units[source] \in 0 .. MaxUnits /\ units[target] \in 0 .. MaxUnits
          /\ units \in [Territories -> 0 .. MaxUnits]
          /\ owner[target] = p
      BY <1>1, <2>2 DEF TypeOK, Fortify, ValidFortify
    <3>3. num \in Nat /\ num >= 2
      BY <2>2, NumbersAssumption
    <3>4. CASE source = target
      <4>1. SaturatingAddUnits(units[source] - num, num) = units[source]
        BY <3>1, <3>2, <3>3, <3>4, NumbersAssumption DEF SaturatingAddUnits, Min2
      <4> QED  BY <4>1, <3>1, <3>2, <3>4
    <3>5. CASE source # target
      <4>1. units' = [units EXCEPT ![source] = units[source] - num,
                                   ![target] = SaturatingAddUnits(units[target], num)]
        BY <3>1, <3>2, <3>5
      <4>2. units[source] - num \in 1 .. MaxUnits /\ units[source] > 0
        BY <3>1, <3>2, <3>3, <3>5, NumbersAssumption
      <4>3. SaturatingAddUnits(units[target], num) \in 1 .. MaxUnits
        <5>1. units[target] \in Nat
          BY <3>2
        <5>2. units[target] + num > 0
          BY <5>1, <3>3
        <5>3. /\ SaturatingAddUnits(units[target], num) \in 0 .. MaxUnits
              /\ SaturatingAddUnits(units[target], num) > 0
          BY <5>1, <5>2, <3>3, SaturatingType
        <5> QED  BY <5>3, NumbersAssumption
      <4>4. units[target] # 0
        BY <3>2, <1>1 DEF Garrisoned
      <4>5. units[source] - num \in 0 .. MaxUnits
            /\ SaturatingAddUnits(units[target], num) \in 0 .. MaxUnits
        BY <4>2, <4>3
      <4>6. /\ units' \in [Territories -> 0 .. MaxUnits]
            /\ units'[source] = units[source] - num
            /\ units'[target] = SaturatingAddUnits(units[target], num)
            /\ \A t \in Territories \ {source, target} : units'[t] = units[t]
        BY <4>1, <4>5, <3>2, <3>5, TwoPoints
      <4> QED  BY <4>2, <4>3, <4>4, <4>6
    <3> QED  BY <3>4, <3>5
  <2> QED  BY <2>1, <2>2
<1>6. turn_count' \in Nat /\ turn_count' >= turn_count
  BY <1>1, <1>2 DEF TypeOK
<1>7. TypeOK'
  BY <1>1, <1>2, <1>3, <1>4, <1>5, <1>6 DEF TypeOK
<1>8. Garrisoned'
  BY <1>1, <1>2, <1>5 DEF Garrisoned
<1>9. BattleConsistent'
  BY <1>1, <1>2, <1>3, SeatsAssumption DEF BattleConsistent, Players, Nobody
<1>10. MoverOnBoard'
  BY <1>2, <1>3 DEF MoverOnBoard, Owns, OwnedBy
<1>11. PlacementFair'
  BY <1>1, <1>2, <1>6, SeatsAssumption DEF PlacementFair, TypeOK
<1> QED  BY <1>7, <1>8, <1>9, <1>10, <1>11 DEF IInv

\* The rules whatever number of armies a player asks to march.
Play ==
    \/ \E t \in Territories : InitialPlace(t)
    \/ \E place \in {NoReinforcement} \cup {p \in Placements : ValidReinforcement(p)},
          attack \in {None} \cup {a \in QueueAttackActions : ValidAttack(a)} :
          PlayerAction(place, attack)
    \/ \E dice \in 1 .. 2 : QueueDefense(dice)
    \/ \E a \in Rolls(3), d \in Rolls(2) : RollDice(a, d)
    \/ \E source, target \in Territories, num \in Int : Fortify(source, target, num)

LEMMA NextIsPlay == Next => Play
  BY NumbersAssumption DEF Next, Play

LEMMA PlayIInv == IInv /\ Play => IInv'
<1> SUFFICES ASSUME IInv, Play  PROVE IInv'
  OBVIOUS
<1>1. ASSUME NEW t \in Territories, InitialPlace(t)  PROVE IInv'
  BY <1>1, InitialPlaceIInv
<1>2. ASSUME NEW place \in {NoReinforcement} \cup {x \in Placements : ValidReinforcement(x)},
             NEW attack \in {None} \cup {a \in QueueAttackActions : ValidAttack(a)},
             PlayerAction(place, attack)
      PROVE  IInv'
  BY <1>2, PlayerActionIInv
<1>3. ASSUME NEW dice \in 1 .. 2, QueueDefense(dice)  PROVE IInv'
  BY <1>3, QueueDefenseIInv
<1>4. ASSUME NEW a \in Rolls(3), NEW d \in Rolls(2), RollDice(a, d)  PROVE IInv'
  BY <1>4, RollDiceIInv
<1>5. ASSUME NEW source \in Territories, NEW target \in Territories,
             NEW num \in Int, Fortify(source, target, num)
      PROVE  IInv'
  BY <1>5, FortifyIInv
<1> QED  BY <1>1, <1>2, <1>3, <1>4, <1>5 DEF Play

LEMMA NextIInv == IInv /\ [Next]_vars => IInv'
<1> SUFFICES ASSUME IInv, [Next]_vars  PROVE IInv'
  OBVIOUS
<1>1. CASE Next
  BY <1>1, NextIsPlay, PlayIInv
<1>2. CASE UNCHANGED vars
  BY <1>2 DEF vars, board, placement, turn, battle, IInv, TypeOK, Garrisoned,
              BattleConsistent, MoverOnBoard, Owns, OwnedBy, PlacementFair
<1> QED  BY <1>1, <1>2

-----------------------------------------------------------------------------
(* The theorems.                                                           *)

\* The inductive invariant holds in every reachable state.
THEOREM SpecIInv == Spec => []IInv
<1>1. Init => IInv
  BY InitIInv
<1>2. IInv /\ [Next]_vars => IInv'
  BY NextIInv
<1> QED  BY <1>1, <1>2, PTL DEF Spec

\* Every field keeps its type; no unit count wraps around.
THEOREM TypeCorrect == Spec => []TypeOK
<1>1. IInv => TypeOK
  BY DEF IInv
<1> QED  BY <1>1, SpecIInv, PTL

\* A territory is manned exactly when somebody owns it, whatever the dice.
THEOREM AlwaysGarrisoned == Spec => []Garrisoned
<1>1. IInv => Garrisoned
  BY DEF IInv
<1> QED  BY <1>1, SpecIInv, PTL

\* A queued battle stays the battle that was checked until its dice are rolled.
THEOREM BattlesConsistent == Spec => []BattleConsistent
<1>1. IInv => BattleConsistent
  BY DEF IInv
<1> QED  BY <1>1, SpecIInv, PTL

\* Nobody who has lost every territory is ever asked to move.
THEOREM MoverAlwaysOnBoard == Spec => []MoverOnBoard
<1>1. IInv => MoverOnBoard
  BY DEF IInv
<1> QED  BY <1>1, SpecIInv, PTL

\* The placement phase is fair and its two counters agree.
THEOREM PlacementAlwaysFair == Spec => []PlacementFair
<1>1. IInv => PlacementFair
  BY DEF IInv
<1> QED  BY <1>1, SpecIInv, PTL

\* The invariant leaves the actor a legal action: during placement either the
\* map has an unclaimed territory, or a full round has gone by and the seat to
\* place already owns one.
LEMMA IInvNeverStuck == IInv => NeverStuck
<1> SUFFICES ASSUME IInv  PROVE NeverStuck
  OBVIOUS
<1>1. TypeOK /\ Garrisoned /\ BattleConsistent /\ MoverOnBoard /\ PlacementFair
  BY DEF IInv
<1>2. CASE initial_placement
  <2> DEFINE p == current_player
             claimed == {t \in Territories : owner[t] # Nobody}
  <2>1. p \in Players /\ p \in Nat /\ p < NumPlayers
    <3>1. queued_defense = NoDefense
      BY <1>1, <1>2 DEF BattleConsistent
    <3> QED  BY <3>1, <1>1, SeatsAssumption DEF BattleConsistent, TypeOK, Players
  <2>2. turn_count \in Nat /\ InitialReserve \in Nat /\ turn_count < InitialReserve
    BY <1>1, <1>2, SeatsAssumption DEF TypeOK, PlacementFair
  <2>3. reserves[p] = InitialReserve - turn_count
    BY <1>1, <1>2, <2>1, <2>2 DEF PlacementFair
  <2>4. reserves[p] > 0
    BY <2>2, <2>3
  <2>5. CASE num_initial_placements < Cardinality(Territories)
    <3>1. Cardinality(claimed) # Cardinality(Territories)
      <4>1. Cardinality(claimed) = Min2(num_initial_placements, Cardinality(Territories))
        BY <1>1, <1>2 DEF PlacementFair
      <4>2. num_initial_placements \in Nat /\ Cardinality(Territories) \in Nat
        BY <1>1, MapAssumption, FS_CardinalityType DEF TypeOK
      <4> QED  BY <4>1, <4>2, <2>5 DEF Min2
    <3>2. PICK t \in Territories : owner[t] = Nobody
      <4>1. claimed # Territories
        BY <3>1
      <4> QED  BY <4>1
    <3> QED  BY <3>2, <2>4, <2>5, <1>2 DEF NeverStuck, ValidInitialPlace
  <2>6. CASE ~(num_initial_placements < Cardinality(Territories))
    <3>1. turn_count # 0
      <4>1. num_initial_placements = NumPlayers * turn_count + p
        BY <1>1, <1>2 DEF PlacementFair
      <4>2. Cardinality(Territories) \in Nat
        BY MapAssumption, FS_CardinalityType
      <4>3. num_initial_placements >= NumPlayers
        BY <2>6, <4>2, <1>1, CoverAssumption, SeatsAssumption DEF TypeOK
      <4> QED  BY <4>1, <4>3, <2>1, SeatsAssumption
    <3>2. reserves[p] < InitialReserve
      BY <2>2, <2>3, <3>1
    <3>3. Owns(owner, p)
      BY <3>2, <2>1, <1>1, <1>2 DEF PlacementFair
    <3>4. PICK t \in Territories : owner[t] = p
      BY <3>3 DEF Owns, OwnedBy
    <3> QED  BY <3>4, <2>4, <2>6, <1>2 DEF NeverStuck, ValidInitialPlace
  <2> QED  BY <2>5, <2>6
<1>3. CASE ~initial_placement /\ queued_attack = None
  BY <1>1, <1>3 DEF NeverStuck, PlayerToMove, BattleConsistent, TypeOK
<1>4. CASE ~initial_placement /\ queued_attack # None
  <2>1. queued_attack \in QueueAttackActions
    BY <1>1, <1>4 DEF TypeOK, ActionRecord
  <2>2. queued_attack.target \in Territories
    BY <2>1 DEF QueueAttackActions
  <2>3. owner[queued_attack.target] \in Players /\ Nobody \notin Players
    BY <1>1, <1>4, SeatsAssumption DEF BattleConsistent, Players, Nobody
  <2>4. units[queued_attack.target] \in Nat /\ units[queued_attack.target] # 0
    BY <1>1, <2>2, <2>3 DEF Garrisoned, TypeOK
  <2>5. units[queued_attack.target] >= 1
    BY <2>4
  <2> QED  BY <2>5, <1>1, <1>4 DEF NeverStuck, BattleConsistent
<1> QED  BY <1>2, <1>3, <1>4

\* Whoever is to act has a legal action, in every reachable state.
THEOREM AlwaysUnstuck == Spec => []NeverStuck
  BY SpecIInv, IInvNeverStuck, PTL

-----------------------------------------------------------------------------
(* What a step may do to the map.                                          *)

\* Only a placement and a roll change who owns what.
LEMMA OnlyDiceConquer ==
    ASSUME IInv, Play, ~initial_placement, owner' # owner
    PROVE  \E r \in Rolls(3), s \in Rolls(2) : RollDice(r, s)
  BY DEF Play, InitialPlace, ValidInitialPlace, PlayerAction, ValidPlayerAction, QueueDefense,
    ValidDefense, board, Fortify

\* A conquest costs the attacker nothing and moves in at least the dice rolled.
THEOREM ConquestsAreBloodless == Spec => ConquestIsBloodless
<1>1. ASSUME IInv, Next  PROVE BloodlessConquest
  <2> SUFFICES ASSUME ~initial_placement, owner' # owner
               PROVE  LET src == queued_attack.source
                          tgt == queued_attack.target
                      IN  /\ queued_defense # NoDefense
                          /\ units'[src] + units'[tgt] = units[src]
                          /\ units'[tgt] >= queued_attack.dice
                          /\ units'[src] >= 1
                          /\ owner' = [owner EXCEPT ![tgt] = owner[src]]
    BY DEF BloodlessConquest
  <2> DEFINE src == queued_attack.source
             tgt == queued_attack.target
             m   == queued_attack.dice
  <2>1. PICK r \in Rolls(3), s \in Rolls(2) : RollDice(r, s)
    BY <1>1, NextIsPlay, OnlyDiceConquer
  <2>2. /\ src \in Territories /\ tgt \in Territories /\ src # tgt /\ m \in 1 .. 3
        /\ owner' = [owner EXCEPT ![tgt] = owner[src]]
        /\ \E k \in m .. units[src] - 1 :
              units' = [units EXCEPT ![src] = units[src] - k, ![tgt] = k]
    BY <2>1, <1>1, RollOutcome
  <2>3. PICK k \in m .. units[src] - 1 :
           units' = [units EXCEPT ![src] = units[src] - k, ![tgt] = k]
    BY <2>2
  <2>4. units \in [Territories -> 0 .. MaxUnits]
    BY <1>1 DEF IInv, TypeOK
  <2>5. units'[src] = units[src] - k /\ units'[tgt] = k
    BY <2>2, <2>3, <2>4
  <2>6. units[src] \in Nat
    BY <2>2, <2>4, NumbersAssumption
  <2>7. queued_defense # NoDefense
    BY <2>1 DEF RollDice
  <2> HIDE DEF m
  <2> QED  BY <2>2, <2>3, <2>5, <2>6, <2>7 DEF m
<1>2. IInv /\ [Next]_vars => [BloodlessConquest]_vars
  BY <1>1
<1> QED  BY <1>2, SpecIInv, PTL DEF Spec, ConquestIsBloodless

\* A seat is eliminated only as the defender of a battle, and for good.
LEMMA PlayEliminates == IInv /\ Play => EliminationStep
<1> SUFFICES ASSUME IInv, Play, ~initial_placement, NEW p \in Players
             PROVE  /\ ~Owns(owner, p) => ~Owns(owner', p)
                    /\ Owns(owner, p) /\ ~Owns(owner', p) =>
                           queued_defense # NoDefense /\ p = owner[queued_attack.target]
  BY DEF EliminationStep
<1>1. CASE owner' = owner
  BY <1>1
<1>2. CASE owner' # owner
  <2> DEFINE src == queued_attack.source
             tgt == queued_attack.target
  <2>1. PICK r \in Rolls(3), s \in Rolls(2) : RollDice(r, s)
    BY <1>2, OnlyDiceConquer
  <2>2. /\ src \in Territories /\ tgt \in Territories
        /\ owner' = [owner EXCEPT ![tgt] = owner[src]]
    BY <2>1, <1>2, RollOutcome
  <2>3. queued_defense # NoDefense
    BY <2>1 DEF RollDice
  <2>4. owner \in [Territories -> Players \cup {Nobody}]
    BY DEF IInv, TypeOK
  <2>5. ASSUME Owns(owner', p)  PROVE Owns(owner, p)
    BY <2>2, <2>4, <2>5 DEF Owns, OwnedBy
  <2>6. ASSUME Owns(owner, p), ~Owns(owner', p)  PROVE p = owner[tgt]
    BY <2>2, <2>4, <2>6 DEF Owns, OwnedBy
  <2> QED  BY <2>3, <2>5, <2>6
<1> QED  BY <1>1, <1>2

\* Elimination is final, in every game.
THEOREM EliminationsAreFinal == Spec => EliminationIsFinal
<1>1. IInv /\ [Next]_vars => [EliminationStep]_vars
  BY NextIsPlay, PlayEliminates
<1> QED  BY <1>1, SpecIInv, PTL DEF Spec, EliminationIsFinal

-----------------------------------------------------------------------------
(* Where armies come from and where they go.                               *)

\* No count is about to saturate: a uint16_t holds every army there is, with
\* the reserves of the seat to move.  The rules bound neither.
CountsFit == current_player \in Players => Armies(units) + reserves[current_player] <= MaxUnits

LEMMA ArmiesAreSums ==
    ASSUME NEW o, NEW u, NEW p
    PROVE  Armies(u) = SumOver(u, Territories) /\ ArmiesOf(o, u, p) = SumOver(u, OwnedBy(o, p))
  BY Zenon DEF Armies, ArmiesOf, SumOver

\* A seat whose territories are as they were has as many armies as before.
LEMMA ArmiesUntouched ==
    ASSUME NEW o, NEW q, NEW u, NEW v, NEW p, OwnedBy(q, p) = OwnedBy(o, p),
           \A t \in OwnedBy(o, p) : u[t] \in Int /\ v[t] = u[t]
    PROVE  ArmiesOf(q, v, p) - ArmiesOf(o, u, p) = 0
<1>1. IsFiniteSet(OwnedBy(o, p))
  BY OwnedFinite
<1>2. SumOver(u, OwnedBy(o, p)) = SumOver(v, OwnedBy(o, p))
  BY <1>1, SumSame
<1>3. SumOver(u, OwnedBy(o, p)) \in Int
  BY <1>1, SumType
<1> QED  BY <1>2, <1>3, ArmiesAreSums

\* The counts as integers, and what they cannot exceed.
LEMMA CountsBounded ==
    ASSUME TypeOK, CountsFit, current_player \in Players
    PROVE  /\ \A t \in Territories : units[t] \in Nat /\ units[t] + reserves[current_player] <= MaxUnits
           /\ \A s, t \in Territories : s # t => units[s] + units[t] <= MaxUnits
<1>1. \A t \in Territories : units[t] \in Nat
  BY NumbersAssumption DEF TypeOK
<1>2. reserves[current_player] \in Nat /\ MaxUnits \in Nat
  BY NumbersAssumption DEF TypeOK
<1>3. SumOver(units, Territories) + reserves[current_player] <= MaxUnits
  BY ArmiesAreSums DEF CountsFit
<1>4. SumOver(units, Territories) \in Nat
  BY <1>1, MapAssumption, SumNatural
<1>5. \A t \in Territories : units[t] <= SumOver(units, Territories)
  BY <1>1, MapAssumption, SumBounds
<1>6. \A s \in Territories : \A t \in Territories \ {s} : units[s] + units[t] <= SumOver(units, Territories)
  BY <1>1, MapAssumption, SumBounds
<1>7. ASSUME NEW t \in Territories  PROVE units[t] + reserves[current_player] <= MaxUnits
  BY <1>1, <1>2, <1>3, <1>4, <1>5
<1>8. ASSUME NEW s \in Territories, NEW t \in Territories, s # t  PROVE units[s] + units[t] <= MaxUnits
  <2>1. units[s] + units[t] <= SumOver(units, Territories)
    BY <1>6, <1>8
  <2> QED  BY <2>1, <1>1, <1>2, <1>3, <1>4
<1> QED  BY <1>1, <1>7, <1>8

LEMMA InitialPlaceArmies ==
    ASSUME IInv, CountsFit, NEW t \in Territories, InitialPlace(t)
    PROVE  ArmiesStep
<1> DEFINE c == current_player
<1>1. /\ TypeOK /\ Garrisoned /\ initial_placement /\ queued_defense = NoDefense /\ c \in Players
  BY DEF IInv, InitialPlace, ValidInitialPlace, BattleConsistent, TypeOK, Nobody
<1>2. /\ owner \in [Territories -> Players \cup {Nobody}]
      /\ units \in [Territories -> 0 .. MaxUnits]
      /\ owner' = [owner EXCEPT ![t] = c]
      /\ units' = [units EXCEPT ![t] = SaturatingAddUnits(units[t], 1)]
  BY <1>1 DEF TypeOK, InitialPlace
<1>3. reserves[c] \in Nat /\ reserves[c] > 0 /\ MaxUnits \in Nat
  BY <1>1, NumbersAssumption DEF TypeOK, InitialPlace, ValidInitialPlace
<1>4. \A s \in Territories : units[s] \in Nat /\ units[s] + reserves[c] <= MaxUnits
  BY <1>1, CountsBounded
<1>5. units'[t] = units[t] + 1 /\ \A s \in Territories \ {t} : units'[s] = units[s]
  <2>1. units[t] + 1 <= MaxUnits
    BY <1>3, <1>4
  <2>2. SaturatingAddUnits(units[t], 1) = units[t] + 1
    BY <2>1, <1>3, <1>4 DEF SaturatingAddUnits, Min2
  <2> QED  BY <2>2, <1>2
<1>6. owner[t] = Nobody \/ owner[t] = c
  BY DEF InitialPlace, ValidInitialPlace
<1>7. Nobody \notin Players
  BY SeatsAssumption DEF Players, Nobody
<1>8. ASSUME NEW p \in Players, p # c
      PROVE  ArmiesOf(owner', units', p) - ArmiesOf(owner, units, p) = 0
  <2>1. OwnedBy(owner', p) = OwnedBy(owner, p)
    BY <1>2, <1>6, <1>7, <1>8 DEF OwnedBy
  <2>2. \A s \in OwnedBy(owner, p) : units[s] \in Int /\ units'[s] = units[s]
    BY <1>4, <1>5, <1>6, <1>7, <1>8 DEF OwnedBy
  <2> QED  BY <2>1, <2>2, ArmiesUntouched
<1>9. ArmiesOf(owner', units', c) - ArmiesOf(owner, units, c) = 1
  <2> DEFINE mine == OwnedBy(owner, c)
             ours == OwnedBy(owner', c)
  <2>1. ours = mine \cup {t} /\ t \in ours
    BY <1>2 DEF OwnedBy
  <2>2. IsFiniteSet(mine) /\ IsFiniteSet(ours) /\ mine \subseteq Territories /\ ours \subseteq Territories
    BY OwnedFinite DEF OwnedBy
  <2>3. \A s \in Territories : units[s] \in Int /\ units'[s] \in Int
    BY <1>4, <1>5
  <2>4. SumOver(units', ours) = SumOver(units, ours) - units[t] + units'[t]
    <3>1. \A s \in ours \ {t} : units[s] = units'[s]
      BY <1>5, <2>2
    <3> HIDE DEF ours
    <3> QED  BY <2>1, <2>2, <2>3, <3>1, SumChange
  <2>5. SumOver(units, ours) = SumOver(units, mine)
    <3>1. \A s \in ours \ mine : units[s] = 0
      BY <1>1, <1>6, <2>1 DEF OwnedBy, Garrisoned
    <3> HIDE DEF ours, mine
    <3> QED  BY <2>1, <2>2, <2>3, <3>1, SumWider
  <2>6. SumOver(units, mine) \in Int
    <3> HIDE DEF mine
    <3> QED  BY <2>2, <2>3, SumType
  <2>7. /\ ArmiesOf(owner', units', c) = SumOver(units', ours)
        /\ ArmiesOf(owner, units, c) = SumOver(units, mine)
    BY ArmiesAreSums
  <2> HIDE DEF ours, mine, c
  <2> QED  BY <1>4, <1>5, <2>4, <2>5, <2>6, <2>7
<1> QED  BY <1>1, <1>8, <1>9 DEF ArmiesStep

\* What a reinforcement adds to the mover's armies is what its reserves held.
LEMMA ReinforcedArmies ==
    ASSUME TypeOK, CountsFit, current_player \in Players,
           NEW place \in Placements, ValidReinforcement(place), ReinforceWithReserves(place),
           owner' = owner, NEW p \in Players
    PROVE  LET gain == ArmiesOf(owner', units', p) - ArmiesOf(owner, units, p)
           IN  IF p # current_player THEN gain = 0
               ELSE gain = reserves[p] /\ reserves'[p] = 0
<1> DEFINE r == reserves[current_player]
           held == OwnedBy(owner, p)
<1>1. r \in Nat /\ MaxUnits \in Nat /\ reserves \in [Players -> Nat]
  BY NumbersAssumption DEF TypeOK
<1>2. \A t \in Territories : place[t] \in Nat /\ place[t] <= r
  BY <1>1 DEF Placements, Max2
<1>3. \A t \in Territories : units[t] \in Nat /\ units[t] + r <= MaxUnits
  BY CountsBounded
<1>4. \A t \in Territories : units'[t] = units[t] + place[t]
  <2> TAKE t \in Territories
  <2>1. units'[t] = SaturatingAddUnits(units[t], place[t])
    BY DEF ReinforceWithReserves
  <2>2. place[t] \in Nat /\ place[t] <= r /\ units[t] \in Nat /\ units[t] + r <= MaxUnits
    BY <1>2, <1>3
  <2> HIDE DEF r
  <2> QED  BY <2>1, <2>2, <1>1 DEF SaturatingAddUnits, Min2
<1>5. IsFiniteSet(held) /\ held \subseteq Territories
  BY OwnedFinite DEF OwnedBy
<1>6. Placed(place) = r /\ \A t \in Territories : place[t] > 0 => owner[t] = current_player
  BY DEF ValidReinforcement
<1>7. CASE p # current_player
  <2>1. \A t \in held : place[t] = 0
    BY <1>2, <1>6, <1>7 DEF OwnedBy
  <2>2. \A t \in held : units[t] \in Int /\ units'[t] = units[t]
    BY <2>1, <1>3, <1>4, <1>5
  <2> QED  BY <2>2, <1>7, ArmiesUntouched
<1>8. CASE p = current_player
  <2>1. SumOver(units', held) = SumOver(units, held) + SumOver(place, held)
    <3>1. \A t \in held : units[t] \in Int /\ place[t] \in Int /\ units'[t] = units[t] + place[t]
      BY <1>2, <1>3, <1>4, <1>5
    <3> HIDE DEF held
    <3> QED  BY <1>5, <3>1, SumPlus
  <2>2. SumOver(place, held) = SumOver(place, Territories)
    <3>1. \A t \in Territories \ held : place[t] = 0
      BY <1>2, <1>6, <1>8 DEF OwnedBy
    <3>2. \A t \in Territories : place[t] \in Int
      BY <1>2
    <3> HIDE DEF held
    <3> QED  BY <1>5, <3>1, <3>2, MapAssumption, SumWider
  <2>3. SumOver(place, Territories) = r
    <3>1. Placed(place) = SumOver(place, Territories)
      BY Zenon DEF Placed, SumOver
    <3> QED  BY <3>1, <1>6
  <2>4. SumOver(units, held) \in Int
    <3>1. \A t \in held : units[t] \in Int
      BY <1>3, <1>5
    <3> HIDE DEF held
    <3> QED  BY <1>5, <3>1, SumType
  <2>5. /\ ArmiesOf(owner', units', p) = SumOver(units', held)
        /\ ArmiesOf(owner, units, p) = SumOver(units, held)
    BY ArmiesAreSums
  <2>6. reserves'[p] = 0
    BY <1>1, <1>6, <1>8 DEF ReinforceWithReserves
  <2>7. ArmiesOf(owner', units', p) - ArmiesOf(owner, units, p) = r
    <3> HIDE DEF held, r
    <3> QED  BY <1>1, <2>1, <2>2, <2>3, <2>4, <2>5
  <2> QED  BY <1>8, <2>6, <2>7
<1> QED  BY <1>7, <1>8

LEMMA PlayerActionArmies ==
    ASSUME IInv, CountsFit,
           NEW place \in {NoReinforcement} \cup {p \in Placements : ValidReinforcement(p)},
           NEW attack, PlayerAction(place, attack)
    PROVE  ArmiesStep
<1>1. /\ TypeOK /\ ~initial_placement /\ queued_defense = NoDefense /\ current_player \in Players
      /\ owner' = owner
  BY DEF IInv, PlayerAction, ValidPlayerAction, PlayerToMove, BattleConsistent
<1>2. CASE place # NoReinforcement
  <2>1. place \in Placements /\ ValidReinforcement(place) /\ ReinforceWithReserves(place)
    BY <1>2 DEF PlayerAction
  <2> QED  BY <1>1, <2>1, ReinforcedArmies DEF ArmiesStep
<1>3. CASE place = NoReinforcement
  <2>1. units' = units
    BY <1>3 DEF PlayerAction
  <2>2. \A t \in Territories : units[t] \in Int
    BY <1>1, NumbersAssumption DEF TypeOK
  <2>3. ASSUME NEW p \in Players
        PROVE  ArmiesOf(owner', units', p) - ArmiesOf(owner, units, p) = 0
    <3>1. \A t \in OwnedBy(owner, p) : units[t] \in Int /\ units'[t] = units[t]
      BY <2>1, <2>2 DEF OwnedBy
    <3> QED  BY <1>1, <3>1, ArmiesUntouched
  <2> QED  BY <1>1, <2>3 DEF ArmiesStep
<1> QED  BY <1>2, <1>3

\* A roll takes one army per pair of dice; a conquest only moves the rest.
LEMMA RollDiceArmies ==
    ASSUME IInv, NEW r \in Rolls(3), NEW s \in Rolls(2), RollDice(r, s)
    PROVE  ArmiesStep
<1> DEFINE src == queued_attack.source
           tgt == queued_attack.target
           m   == queued_attack.dice
           n   == queued_defense
<1>1. /\ src \in Territories /\ tgt \in Territories /\ src # tgt
      /\ m \in 1 .. 3 /\ n \in 1 .. 2
      /\ units[src] > m /\ n <= units[tgt]
      /\ \E al \in 0 .. m, dl \in 0 .. n :
            /\ al + dl = Min2(m, n)
            /\ units[tgt] - dl # 0 =>
                  units' = [units EXCEPT ![src] = units[src] - al, ![tgt] = units[tgt] - dl]
            /\ units[tgt] - dl = 0 =>
                  /\ al = 0
                  /\ \E k \in m .. units[src] - 1 :
                        units' = [units EXCEPT ![src] = units[src] - k, ![tgt] = k]
  BY RollOutcome
<1> HIDE DEF src, tgt, m, n
<1>2. /\ units \in [Territories -> 0 .. MaxUnits] /\ MaxUnits \in Nat
      /\ \A t \in Territories : units[t] \in Int
  BY NumbersAssumption DEF IInv, TypeOK
<1>3. PICK x \in Int, y \in Int :
         /\ units' = [units EXCEPT ![src] = x, ![tgt] = y]
         /\ x + y = units[src] + units[tgt] - Min2(m, n)
  <2>1. PICK al \in 0 .. m, dl \in 0 .. n :
            /\ al + dl = Min2(m, n)
            /\ units[tgt] - dl # 0 =>
                  units' = [units EXCEPT ![src] = units[src] - al, ![tgt] = units[tgt] - dl]
            /\ units[tgt] - dl = 0 =>
                  /\ al = 0
                  /\ \E k \in m .. units[src] - 1 :
                        units' = [units EXCEPT ![src] = units[src] - k, ![tgt] = k]
    BY <1>1
  <2>2. units[src] \in Int /\ units[tgt] \in Int /\ al \in Int /\ dl \in Int /\ m \in Int
    BY <1>1, <1>2, <2>1
  <2>3. CASE units[tgt] - dl # 0
    <3>1. /\ units[src] - al \in Int /\ units[tgt] - dl \in Int
          /\ (units[src] - al) + (units[tgt] - dl) = units[src] + units[tgt] - Min2(m, n)
      BY <2>1, <2>2
    <3> QED  BY <2>1, <2>3, <3>1
  <2>4. CASE units[tgt] - dl = 0
    <3>1. PICK k \in m .. units[src] - 1 :
              units' = [units EXCEPT ![src] = units[src] - k, ![tgt] = k]
      BY <2>1, <2>4
    <3>2. /\ units[src] - k \in Int /\ k \in Int
          /\ (units[src] - k) + k = units[src] + units[tgt] - Min2(m, n)
      BY <2>1, <2>2, <2>4, <3>1
    <3> QED  BY <3>1, <3>2
  <2> QED  BY <2>3, <2>4
<1> DEFINE mid == [units EXCEPT ![src] = x]
<1>4. /\ mid[src] = x /\ \A t \in Territories \ {src} : mid[t] = units[t]
      /\ units'[tgt] = y /\ \A t \in Territories \ {tgt} : units'[t] = mid[t]
  BY <1>1, <1>2, <1>3
<1>5. \A t \in Territories : mid[t] \in Int /\ units'[t] \in Int
  BY <1>1, <1>2, <1>3
<1>6. mid[tgt] = units[tgt]
  BY <1>1, <1>4
<1> HIDE DEF mid
<1>7. SumOver(mid, Territories) = SumOver(units, Territories) - units[src] + x
  <2>1. SumOver(mid, Territories) = SumOver(units, Territories) - units[src] + mid[src]
    BY <1>1, <1>2, <1>4, <1>5, MapAssumption, SumChange
  <2> QED  BY <2>1, <1>4
<1>8. SumOver(units', Territories) = SumOver(mid, Territories) - units[tgt] + y
  <2>1. \A t \in Territories \ {tgt} : mid[t] = units'[t]
    BY <1>4
  <2>2. SumOver(units', Territories) = SumOver(mid, Territories) - mid[tgt] + units'[tgt]
    BY <1>1, <1>5, <2>1, MapAssumption, SumChange
  <2> QED  BY <2>2, <1>4, <1>6
<1>9. SumOver(units, Territories) \in Int /\ units[src] \in Int /\ units[tgt] \in Int /\ Min2(m, n) \in Int
  BY <1>1, <1>2, MapAssumption, SumType DEF Min2
<1>10. SumOver(units', Territories) = SumOver(units, Territories) - Min2(m, n)
  BY <1>3, <1>7, <1>8, <1>9
<1>11. Armies(units') = Armies(units) - Min2(queued_attack.dice, queued_defense)
  BY <1>10, ArmiesAreSums DEF m, n
<1>12. queued_defense # NoDefense
  BY DEF RollDice
<1> QED  BY <1>11, <1>12 DEF ArmiesStep

\* A fortification moves armies within one seat, or from a place to itself.
LEMMA FortifyArmies ==
    ASSUME IInv, CountsFit, NEW source \in Territories, NEW target \in Territories,
           NEW num \in Int, Fortify(source, target, num)
    PROVE  ArmiesStep
<1> DEFINE c == current_player
           taken == [units EXCEPT ![source] = units[source] - num]
<1>1. /\ TypeOK /\ ~initial_placement /\ queued_defense = NoDefense /\ c \in Players
      /\ owner' = owner /\ ValidFortify(source, target, num)
      /\ units' = IF num <= 1 THEN units
                  ELSE [taken EXCEPT ![target] = SaturatingAddUnits(taken[target], num)]
  BY DEF IInv, Fortify, FortifyToMoveUnits, PlayerToMove
<1>2. /\ units \in [Territories -> 0 .. MaxUnits] /\ MaxUnits \in Nat
      /\ \A t \in Territories : units[t] \in Nat /\ units[t] <= MaxUnits
  BY <1>1, NumbersAssumption DEF TypeOK
<1>3. ASSUME NEW p \in Players
      PROVE  ArmiesOf(owner', units', p) - ArmiesOf(owner, units, p) = 0
  <2> DEFINE held == OwnedBy(owner, p)
  <2>1. IsFiniteSet(held) /\ held \subseteq Territories
    BY OwnedFinite DEF OwnedBy
  <2>2. CASE units' = units
    <3>1. \A t \in held : units[t] \in Int /\ units'[t] = units[t]
      BY <2>1, <2>2, <1>2
    <3> QED  BY <1>1, <3>1, ArmiesUntouched
  <2>3. CASE num > 1
    <3>1. /\ owner[source] = c /\ owner[target] = c
          /\ IF source = target THEN units[source] >= num ELSE units[source] >= num + 1
          /\ units' = [taken EXCEPT ![target] = SaturatingAddUnits(taken[target], num)]
      BY <1>1, <2>3 DEF ValidFortify
    <3>2. CASE source = target
      <4>1. taken[target] = units[source] - num
        BY <1>2, <3>2
      <4>2. SaturatingAddUnits(taken[target], num) = units[source]
        BY <4>1, <1>2, <3>1, <3>2, <2>3 DEF SaturatingAddUnits, Min2
      <4>3. units' = units
        BY <4>2, <3>1, <3>2, <1>2
      <4> QED  BY <4>3, <2>2
    <3>3. CASE source # target
      <4>1. taken[target] = units[target]
        BY <1>2, <3>3
      <4>2. units[source] + units[target] <= MaxUnits
        BY <1>1, <3>3, CountsBounded
      <4>3. units[target] + num <= MaxUnits
        BY <4>2, <1>2, <2>3, <3>1, <3>3
      <4>4. SaturatingAddUnits(taken[target], num) = units[target] + num
        BY <4>1, <4>3, <1>2, <2>3 DEF SaturatingAddUnits, Min2
      <4>5. /\ taken[source] = units[source] - num
            /\ \A t \in Territories \ {source} : taken[t] = units[t]
            /\ units'[target] = units[target] + num
            /\ \A t \in Territories \ {target} : units'[t] = taken[t]
        BY <4>4, <3>1, <1>2
      <4>6. \A t \in Territories : taken[t] \in Int /\ units'[t] \in Int /\ units[t] \in Int
        BY <4>5, <1>2
      <4> HIDE DEF taken
      <4>7. CASE p # c
        <5>1. \A t \in held : t # source /\ t # target
          BY <3>1, <4>7 DEF OwnedBy
        <5>2. \A t \in held : units[t] \in Int /\ units'[t] = units[t]
          BY <5>1, <4>5, <4>6, <2>1
        <5> QED  BY <1>1, <5>2, ArmiesUntouched
      <4>8. CASE p = c
        <5>1. source \in held /\ target \in held
          BY <3>1, <4>8 DEF OwnedBy
        <5> HIDE DEF held
        <5>2. SumOver(taken, held) = SumOver(units, held) - units[source] + taken[source]
          <6>1. /\ \A t \in held : units[t] \in Int /\ taken[t] \in Int
                /\ \A t \in held \ {source} : units[t] = taken[t]
            BY <2>1, <4>5, <4>6
          <6> QED  BY <5>1, <6>1, <2>1, SumChange
        <5>3. SumOver(units', held) = SumOver(taken, held) - taken[target] + units'[target]
          <6>1. /\ \A t \in held : taken[t] \in Int /\ units'[t] \in Int
                /\ \A t \in held \ {target} : taken[t] = units'[t]
            BY <2>1, <4>5, <4>6
          <6> QED  BY <5>1, <6>1, <2>1, SumChange
        <5>4. SumOver(units, held) \in Int
          <6>1. \A t \in held : units[t] \in Int
            BY <2>1, <4>6
          <6> QED  BY <6>1, <2>1, SumType
        <5>5. SumOver(units', held) - SumOver(units, held) = 0
          BY <5>2, <5>3, <5>4, <4>1, <4>5, <4>6
        <5>6. /\ ArmiesOf(owner', units', p) = SumOver(units', held)
              /\ ArmiesOf(owner, units, p) = SumOver(units, held)
          BY <1>1, ArmiesAreSums DEF held
        <5> QED  BY <5>5, <5>6
      <4> QED  BY <4>7, <4>8
    <3> QED  BY <3>2, <3>3
  <2> QED  BY <1>1, <2>2, <2>3
<1> QED  BY <1>1, <1>3 DEF ArmiesStep

LEMMA UntouchedArmies ==
    ASSUME IInv, UNCHANGED board, queued_defense = NoDefense, ~initial_placement
    PROVE  ArmiesStep
<1>1. owner' = owner /\ units' = units
  BY DEF board
<1>2. ASSUME NEW p \in Players
      PROVE  ArmiesOf(owner', units', p) - ArmiesOf(owner, units, p) = 0
  <2>1. \A t \in OwnedBy(owner, p) : units[t] \in Int /\ units'[t] = units[t]
    BY <1>1, NumbersAssumption DEF OwnedBy, IInv, TypeOK
  <2> QED  BY <1>1, <2>1, ArmiesUntouched
<1> QED  BY <1>2 DEF ArmiesStep

\* While no count saturates, armies come only from reserves and go only by dice.
THEOREM ArmiesAlwaysAccounted == Spec /\ []CountsFit => ArmiesAccounted
<1>1. IInv /\ CountsFit /\ Next => ArmiesStep
  <2> SUFFICES ASSUME IInv, CountsFit, Next  PROVE ArmiesStep
    OBVIOUS
  <2>1. Play
    BY NextIsPlay
  <2>2. ASSUME NEW t \in Territories, InitialPlace(t)  PROVE ArmiesStep
    BY <2>2, InitialPlaceArmies
  <2>3. ASSUME NEW place \in {NoReinforcement} \cup {p \in Placements : ValidReinforcement(p)},
               NEW attack \in {None} \cup {a \in QueueAttackActions : ValidAttack(a)},
               PlayerAction(place, attack)
        PROVE  ArmiesStep
    BY <2>3, PlayerActionArmies
  <2>4. ASSUME NEW dice \in 1 .. 2, QueueDefense(dice)  PROVE ArmiesStep
    <3>1. UNCHANGED board /\ queued_defense = NoDefense /\ ~initial_placement
      BY <2>4 DEF QueueDefense, ValidDefense, IInv, BattleConsistent
    <3> QED  BY <3>1, UntouchedArmies
  <2>5. ASSUME NEW a \in Rolls(3), NEW d \in Rolls(2), RollDice(a, d)  PROVE ArmiesStep
    BY <2>5, RollDiceArmies
  <2>6. ASSUME NEW source \in Territories, NEW target \in Territories, NEW num \in Int,
               Fortify(source, target, num)
        PROVE  ArmiesStep
    BY <2>6, FortifyArmies
  <2> QED  BY <2>1, <2>2, <2>3, <2>4, <2>5, <2>6 DEF Play
<1>2. IInv /\ CountsFit /\ [Next]_vars => [ArmiesStep]_vars
  BY <1>1
<1> QED  BY <1>2, SpecIInv, PTL DEF Spec, ArmiesAccounted

-----------------------------------------------------------------------------
(* The refereed game.                                                      *)

LEMMA InitOfEngine == SessionInit => Init
  BY DEF SessionInit, RoundsInit

LEMMA StepOfEngine == [SessionNext]_sessionVars => [Next]_vars
  BY DEF SessionNext, RoundsNext, sessionVars, roundVars

\* By construction: a step of the session is one of the rules and more.  It
\* carries what is proved of the rules over to the session.
LEMMA SessionPlaysRisk == SessionSpec => Spec
  BY InitOfEngine, StepOfEngine, PTL DEF SessionSpec, Spec

-----------------------------------------------------------------------------
(* The turns the seats have taken.  RoundsAreFullRounds is about the play  *)
(* phase; that it starts at none is known only from the placements before. *)

TurnsInv ==
    /\ turns_taken \in [Players -> Nat]
    /\ initial_placement => \A p \in Players : turns_taken[p] = 0
    /\ RoundsAreFullRounds

LEMMA WholeRounds == \A n, k \in Nat : n > 0 => (n * k) \div n = k
  OBVIOUS

LEMMA InitTurns == SessionInit => TurnsInv
  BY DEF SessionInit, RoundsInit, Init, TurnsInv, RoundsAreFullRounds

\* Whatever does not end a turn leaves the counts alone; it keeps the invariant
\* if it keeps the phase, the counter and whose turn it is, and brings nobody
\* back on the board.
LEMMA MidTurnKeeps ==
    ASSUME IInv, TurnsInv, CountTurn, ~TurnEnds,
           UNCHANGED <<placement, turn_count>>, TurnOwner' = TurnOwner,
           \A p \in Players : ~initial_placement /\ Owns(owner', p) => Owns(owner, p)
    PROVE  TurnsInv'
  BY DEF TurnsInv, CountTurn, RoundsAreFullRounds, Rounds, placement

\* The placements are whole rounds, and the rounds of play start at none.
LEMMA PlacementRounds ==
    ASSUME IInv, IInv', NEW t \in Territories, InitialPlace(t)
    PROVE  /\ initial_placement /\ queued_attack' = None /\ Rounds' = 0
           /\ ~initial_placement' => current_player' = 0
<1>1. initial_placement
  BY DEF InitialPlace, ValidInitialPlace
<1>2. queued_attack' = None
  BY <1>1 DEF InitialPlace, IInv, BattleConsistent, battle
<1>3. CASE initial_placement'
  BY <1>1, <1>2, <1>3 DEF Rounds
<1>4. CASE ~initial_placement'
  <2>1. current_player' = 0
    BY <1>4 DEF InitialPlace
  <2>2. num_initial_placements' = NumPlayers * InitialReserve
    BY <1>4 DEF IInv, PlacementFair
  <2>3. current_player = NumPlayers - 1
    <3>1. current_player \in Players
      BY <1>1 DEF IInv, TypeOK, BattleConsistent
    <3> QED
      BY <3>1, <2>1, SeatsAssumption DEF InitialPlace, SeatAfter, Players
  <2>4. turn_count' = turn_count + 1 /\ [reserves EXCEPT ![current_player] = @ - 1][0] = 0
    BY <1>4, <2>1, <2>3 DEF InitialPlace
  <2>5. reserves[0] = InitialReserve - turn_count - 1 /\ reserves[0] = 0
    BY <1>1, <2>3, <2>4, SeatsAssumption DEF IInv, TypeOK, PlacementFair, Players
  <2>6. turn_count' = InitialReserve
    BY <2>4, <2>5, SeatsAssumption DEF IInv, TypeOK
  <2>7. Rounds' = 0
    BY <1>4, <2>2, <2>6, WholeRounds, SeatsAssumption DEF Rounds
  <2> QED
    BY <1>1, <1>2, <2>1, <2>7
<1> QED
  BY <1>3, <1>4

LEMMA InitialPlaceTurns ==
    ASSUME IInv, IInv', TurnsInv, NEW t \in Territories, InitialPlace(t), CountTurn
    PROVE  TurnsInv'
<1>1. /\ initial_placement /\ queued_attack' = None /\ Rounds' = 0
      /\ ~initial_placement' => current_player' = 0
  BY PlacementRounds
<1>2. turns_taken' = turns_taken
  BY <1>1 DEF TurnEnds, PlayerToMove, CountTurn
<1> QED
  BY <1>1, <1>2, SeatsAssumption DEF TurnsInv, RoundsAreFullRounds, TurnOwner, Players

LEMMA PlayerActionTurns ==
    ASSUME IInv, IInv', TurnsInv, CountTurn,
           NEW place, NEW attack \in {None} \cup {a \in QueueAttackActions : ValidAttack(a)},
           PlayerAction(place, attack)
    PROVE  TurnsInv'
<1>1. UNCHANGED <<placement, turn_count, owner>> /\ queued_attack = None
  BY DEF PlayerAction, ValidPlayerAction, PlayerToMove
<1>2. CASE attack = None
  <2>1. UNCHANGED <<queued_attack, current_player>>
    BY <1>2 DEF PlayerAction, ValidPlayerAction
  <2> QED
    BY <1>1, <2>1, MidTurnKeeps DEF TurnEnds, TurnOwner
<1>3. CASE attack # None
  <2>1. queued_attack' = attack /\ owner[attack.source] = current_player
    BY <1>3, NumbersAssumption DEF PlayerAction, ValidPlayerAction, Attack, ValidAttack
  <2> QED
    BY <1>1, <1>3, <2>1, MidTurnKeeps DEF TurnEnds, TurnOwner
<1> QED
  BY <1>2, <1>3

LEMMA QueueDefenseTurns ==
    ASSUME IInv, IInv', TurnsInv, CountTurn, NEW dice \in 1 .. 2, QueueDefense(dice)
    PROVE  TurnsInv'
<1>1. UNCHANGED <<placement, turn_count, owner, queued_attack>> /\ queued_attack # None
  BY DEF QueueDefense, ValidDefense, board
<1> QED
  BY <1>1, MidTurnKeeps DEF TurnEnds, PlayerToMove, TurnOwner

\* The attacker keeps the source it fought from, and the turn.
LEMMA RollDiceTurns ==
    ASSUME IInv, IInv', TurnsInv, CountTurn,
           NEW r \in Rolls(3), NEW s \in Rolls(2), RollDice(r, s)
    PROVE  TurnsInv'
<1>1. /\ UNCHANGED <<placement, turn_count>> /\ queued_attack # None /\ queued_attack' = None
      /\ current_player' = owner'[queued_attack.source]
  BY DEF RollDice, ResolveAttackRolls
<1>2. /\ queued_attack \in QueueAttackActions
      /\ owner' = owner \/ owner' = [owner EXCEPT ![queued_attack.target] = owner[queued_attack.source]]
      /\ owner[queued_attack.source] # owner[queued_attack.target]
  BY <1>1 DEF RollDice, ResolveAttackRolls, IInv, TypeOK, ActionRecord, BattleConsistent
<1>3. owner'[queued_attack.source] = owner[queued_attack.source]
  BY <1>2 DEF IInv, TypeOK, QueueAttackActions
<1>4. \A p \in Players : Owns(owner', p) => Owns(owner, p)
  BY <1>2 DEF IInv, TypeOK, Owns, OwnedBy, QueueAttackActions
<1> QED
  BY <1>1, <1>3, <1>4, MidTurnKeeps DEF TurnEnds, PlayerToMove, TurnOwner

\* Who is next: the first of the seats after the mover, if one is left there,
\* and otherwise the first of all, behind whom the counter ticks.
LEMMA NextInCyclicOrder ==
    ASSUME NEW o, NEW p \in Players, Owns(o, p)
    PROVE  LET next == NextOwner(o, p)
           IN  \/ next > p /\ \A q \in Players : Owns(o, q) /\ q > p => next <= q
               \/ next <= p /\ \A q \in Players : Owns(o, q) => next <= q /\ q <= p
<1> DEFINE later  == LaterOwners(o, p)
           owners == {q \in Players : Owns(o, q)}
<1>1. CASE later # {}
  <2>1. Earliest(later) \in later /\ \A q \in later : Earliest(later) <= q
    BY <1>1, EarliestExists DEF LaterOwners
  <2> QED
    BY <1>1, <2>1 DEF NextOwner, LaterOwners
<1>2. CASE later = {}
  <2>1. p \in owners /\ owners \subseteq Players
    OBVIOUS
  <2>2. Earliest(owners) \in owners /\ \A q \in owners : Earliest(owners) <= q
    <3> HIDE DEF owners
    <3> QED
      BY <2>1, EarliestExists
  <2>3. \A q \in owners : q <= p
    BY <1>2, SeatsAssumption DEF LaterOwners, Players
  <2>4. NextOwner(o, p) = Earliest(owners)
    BY <1>2 DEF NextOwner
  <2> QED
    BY <2>1, <2>2, <2>3, <2>4
<1> QED
  BY <1>1, <1>2

LEMMA RoundsType == IInv => Rounds \in Int /\ num_initial_placements \div NumPlayers \in Int
  BY SeatsAssumption DEF Rounds, IInv, TypeOK

\* The end of a turn: the counter ticks exactly when nobody is left behind the
\* mover, and then the next seat is the first of all that are left.
LEMMA TurnPasses ==
    ASSUME IInv, NEW source, NEW target, NEW num, Fortify(source, target, num)
    PROVE  /\ ~initial_placement /\ current_player \in Players /\ TurnEnds
           /\ owner' = owner /\ UNCHANGED placement /\ queued_attack' = None
           /\ TurnOwner = current_player /\ TurnOwner' \in Players
           /\ \/ /\ Rounds' = Rounds /\ TurnOwner' > TurnOwner
                 /\ \A q \in Players : Owns(owner, q) /\ q > TurnOwner => TurnOwner' <= q
              \/ /\ Rounds' = Rounds + 1 /\ TurnOwner' <= TurnOwner
                 /\ \A q \in Players : Owns(owner, q) => TurnOwner' <= q /\ q <= TurnOwner
<1> DEFINE p == current_player
           next == NextOwner(owner, p)
<1>1. /\ ~initial_placement /\ p \in Players
      /\ queued_attack = None /\ queued_attack' = None
      /\ owner' = owner /\ UNCHANGED placement
  BY DEF Fortify, PlayerToMove, battle
<1>2. current_player' = next /\ turn_count' = IF next <= p THEN turn_count + 1 ELSE turn_count
  BY DEF Fortify, FortifyToMoveUnits, NextPlayer
<1>3. Owns(owner, p)
  BY <1>1, SeatsAssumption DEF IInv, MoverOnBoard, Players, Nobody
<1>4. next \in Players
  BY <1>1, <1>3, NextOwnerOwns
<1>5. \/ next > p /\ \A q \in Players : Owns(owner, q) /\ q > p => next <= q
      \/ next <= p /\ \A q \in Players : Owns(owner, q) => next <= q /\ q <= p
  BY <1>1, <1>3, NextInCyclicOrder
<1> HIDE DEF next
<1>6. turn_count \in Nat
  BY DEF IInv, TypeOK
<1>7. TurnEnds
  BY <1>1, <1>2, <1>4, <1>6, SeatsAssumption DEF TurnEnds, PlayerToMove, Players
<1>8. Rounds' = Rounds + (IF next <= p THEN 1 ELSE 0)
  BY <1>1, <1>2, <1>6, RoundsType DEF Rounds, placement
<1>9. TurnOwner = p /\ TurnOwner' = next
  BY <1>1, <1>2 DEF TurnOwner
<1> QED
  BY <1>1, <1>4, <1>5, <1>7, <1>8, <1>9, RoundsType, SeatsAssumption DEF Players

LEMMA FortifyTurns ==
    ASSUME IInv, TurnsInv, CountTurn,
           NEW source, NEW target, NEW num, Fortify(source, target, num)
    PROVE  TurnsInv'
<1>1. /\ ~initial_placement /\ current_player \in Players /\ TurnEnds
      /\ owner' = owner /\ UNCHANGED placement
      /\ TurnOwner = current_player /\ TurnOwner' \in Players
      /\ \/ /\ Rounds' = Rounds /\ TurnOwner' > TurnOwner
            /\ \A q \in Players : Owns(owner, q) /\ q > TurnOwner => TurnOwner' <= q
         \/ /\ Rounds' = Rounds + 1 /\ TurnOwner' <= TurnOwner
            /\ \A q \in Players : Owns(owner, q) => TurnOwner' <= q /\ q <= TurnOwner
  BY TurnPasses
<1>2. /\ turns_taken' \in [Players -> Nat]
      /\ \A q \in Players : turns_taken'[q] = turns_taken[q] + (IF q = TurnOwner THEN 1 ELSE 0)
  BY <1>1 DEF CountTurn, TurnsInv
<1>3. RoundsAreFullRounds'
  <2> SUFFICES ASSUME NEW q \in Players, Owns(owner, q)
               PROVE  turns_taken'[q] = Rounds' + (IF q < TurnOwner' THEN 1 ELSE 0)
    BY <1>1 DEF RoundsAreFullRounds
  <2>1. turns_taken[q] = Rounds + (IF q < TurnOwner THEN 1 ELSE 0)
    BY <1>1 DEF TurnsInv, RoundsAreFullRounds
  <2> QED
    BY <2>1, <1>1, <1>2, RoundsType, SeatsAssumption DEF Players
<1> QED
  BY <1>1, <1>2, <1>3 DEF TurnsInv, placement

LEMMA PlayTurns == IInv /\ IInv' /\ TurnsInv /\ Play /\ CountTurn => TurnsInv'
  BY InitialPlaceTurns, PlayerActionTurns, QueueDefenseTurns, RollDiceTurns, FortifyTurns DEF Play

LEMMA TurnsRest == TurnsInv /\ UNCHANGED roundVars => TurnsInv'
  BY DEF roundVars, vars, board, placement, turn, battle, TurnsInv, RoundsAreFullRounds, Rounds,
         TurnOwner, Owns, OwnedBy

LEMMA NextTurns == IInv /\ IInv' /\ TurnsInv /\ [SessionNext]_sessionVars => TurnsInv'
  BY NextIsPlay, PlayTurns, TurnsRest DEF SessionNext, RoundsNext, sessionVars

\* "Full rounds (every player one turn)": whoever drops out, and wherever in a
\* round, no survivor misses a turn or takes two.
THEOREM EveryoneHasTheirTurns == SessionSpec => []RoundsAreFullRounds
<1>1. SessionSpec => []IInv
  BY SessionPlaysRisk, SpecIInv, PTL
<1>2. TurnsInv => RoundsAreFullRounds
  BY DEF TurnsInv
<1> QED
  BY <1>1, <1>2, InitTurns, NextTurns, PTL DEF SessionSpec

\* The cap acts at the end of a turn that ends a round, when no battle is open
\* and every survivor has had as many turns as there were rounds.
THEOREM CapIsFair == SessionSpec => CapCutsBetweenRounds
<1> DEFINE Cut == ~IsOver /\ IsOver' /\ (\A p \in Players : ~Won(owner', p)) =>
                      /\ queued_attack' = None
                      /\ \A p \in Players : Owns(owner', p) => turns_taken'[p] = MaxRounds
<1>1. ASSUME IInv, IInv', TurnsInv, TurnsInv', SessionNext PROVE Cut
  <2> SUFFICES ASSUME ~IsOver, IsOver', \A p \in Players : ~Won(owner', p)
               PROVE  /\ queued_attack' = None
                      /\ \A p \in Players : Owns(owner', p) => turns_taken'[p] = MaxRounds
    OBVIOUS
  <2>1. MaxRounds > 0 /\ Rounds < MaxRounds /\ Rounds' >= MaxRounds
    BY <1>1, RoundsType, MaxRoundsAssumption DEF IsOver
  <2>2. Rounds' # Rounds /\ Rounds' # 0
    BY <1>1, <2>1, RoundsType, MaxRoundsAssumption
  <2>3. Next
    BY <1>1 DEF SessionNext, RoundsNext
  <2>4. PICK source \in Territories, target \in Territories, num \in FortifyUnits :
            Fortify(source, target, num)
    <3>1. ASSUME NEW t \in Territories, InitialPlace(t) PROVE FALSE
      BY <1>1, <2>2, <3>1, PlacementRounds
    <3>2. ASSUME UNCHANGED <<placement, turn_count>> PROVE FALSE
      BY <2>2, <3>2 DEF Rounds, placement
    <3> QED
      BY <2>3, <3>1, <3>2 DEF Next, PlayerAction, ValidPlayerAction, QueueDefense,
        ValidDefense, RollDice
  <2>5. /\ queued_attack' = None /\ ~initial_placement /\ UNCHANGED placement /\ owner' = owner
        /\ Rounds' = Rounds + 1 /\ TurnOwner' \in Players
        /\ \A q \in Players : Owns(owner, q) => TurnOwner' <= q
    BY <1>1, <2>2, <2>4, TurnPasses
  <2>6. \A q \in Players : Owns(owner', q) => turns_taken'[q] = Rounds'
    BY <1>1, <2>5, RoundsType, SeatsAssumption
    DEF TurnsInv, RoundsAreFullRounds, placement, Players
  <2> QED
    BY <2>1, <2>5, <2>6, <1>1, RoundsType, MaxRoundsAssumption
<1>2. IInv /\ IInv' /\ TurnsInv /\ TurnsInv' /\ [SessionNext]_sessionVars => [Cut]_sessionVars
  BY <1>1
<1>3. SessionSpec => []IInv
  BY SessionPlaysRisk, SpecIInv, PTL
<1> QED
  BY <1>2, <1>3, InitTurns, NextTurns, PTL DEF SessionSpec, CapCutsBetweenRounds

-----------------------------------------------------------------------------
(* Who is out.                                                             *)

ElimInv == eliminated \in Seq(Players) /\ EliminatedExactly

\* No step knocks out more than one seat, so the order of a step is no matter.
LEMMA OneInSeatOrder == \A p : InSeatOrder({p}) = <<p>>
<1> SUFFICES ASSUME NEW p PROVE InSeatOrder({p}) = <<p>>
  OBVIOUS
<1>1. Cardinality({p}) = 1
  BY FS_Singleton
<1>2. \A s \in [1 .. 1 -> {p}] : s = <<p>> /\ \A i, j \in DOMAIN s : ~(i < j)
  OBVIOUS
<1>3. <<p>> \in [1 .. 1 -> {p}]
  OBVIOUS
<1> QED
  BY <1>1, <1>2, <1>3 DEF InSeatOrder

LEMMA NoneInSeatOrder == InSeatOrder({}) = <<>>
<1>1. Cardinality({}) = 0
  BY FS_EmptySet
<1>2. \A s \in [1 .. 0 -> {}] : s = <<>> /\ \A i, j \in DOMAIN s : ~(i < j)
  OBVIOUS
<1>3. <<>> \in [1 .. 0 -> {}]
  OBVIOUS
<1> QED
  BY <1>1, <1>2, <1>3 DEF InSeatOrder

\* When play begins every seat has claimed a territory.
LEMMA AllStart ==
    ASSUME IInv, IInv', NEW t \in Territories, InitialPlace(t), ~initial_placement'
    PROVE  \A p \in Players : Owns(owner', p)
<1> SUFFICES ASSUME NEW p \in Players PROVE Owns(owner', p)
  OBVIOUS
<1>1. initial_placement /\ current_player \in Players /\ owner[t] \in {Nobody, current_player}
      /\ owner' = [owner EXCEPT ![t] = current_player]
  BY DEF InitialPlace, ValidInitialPlace, IInv, TypeOK, BattleConsistent
<1>2. current_player = NumPlayers - 1
  <2>1. current_player' = 0 /\ current_player' = SeatAfter(current_player)
    BY DEF InitialPlace
  <2> QED
    BY <1>1, <2>1, SeatsAssumption DEF SeatAfter, Players
<1>3. CASE p = current_player
  BY <1>1, <1>3 DEF Owns, OwnedBy, IInv, TypeOK
<1>4. CASE p # current_player
  <2>1. reserves[p] = InitialReserve - turn_count - 1 /\ turn_count \in Nat
    BY <1>1, <1>2, <1>4, SeatsAssumption DEF IInv, TypeOK, PlacementFair, Players
  <2>2. Owns(owner, p)
    BY <1>1, <2>1, SeatsAssumption DEF IInv, PlacementFair
  <2>3. p # Nobody
    BY SeatsAssumption DEF Players, Nobody
  <2> QED
    BY <1>1, <1>4, <2>2, <2>3 DEF Owns, OwnedBy, IInv, TypeOK
<1> QED
  BY <1>3, <1>4

\* A placement takes no seat's last territory.
LEMMA NobodyOutWhilePlacing ==
    ASSUME IInv, NEW t \in Territories, InitialPlace(t)
    PROVE  KnockedOut = {}
<1>1. current_player \in Players /\ owner[t] \in {Nobody, current_player}
      /\ owner' = [owner EXCEPT ![t] = current_player]
  BY DEF InitialPlace, ValidInitialPlace, IInv, TypeOK, BattleConsistent
<1>2. Nobody \notin Players
  BY SeatsAssumption DEF Players, Nobody
<1> QED
  BY <1>1, <1>2 DEF KnockedOut, Owns, OwnedBy, IInv, TypeOK

LEMMA PlayEliminated == IInv /\ IInv' /\ ElimInv /\ Play /\ OnStep => ElimInv'
<1> SUFFICES ASSUME IInv, IInv', ElimInv, Play, OnStep PROVE ElimInv'
  OBVIOUS
<1>1. CASE initial_placement
  <2>1. PICK t \in Territories : InitialPlace(t)
    BY <1>1 DEF Play, PlayerAction, ValidPlayerAction, PlayerToMove, QueueDefense,
                ValidDefense, RollDice, Fortify, IInv, BattleConsistent
  <2>2. eliminated' = eliminated \o <<>>
    BY <2>1, NobodyOutWhilePlacing, NoneInSeatOrder DEF OnStep
  <2>3. eliminated' = eliminated
    BY <2>2 DEF ElimInv
  <2>4. ~initial_placement' => {p \in Players : ~Owns(owner', p)} = {}
    BY <2>1, AllStart
  <2> QED
    BY <1>1, <2>3, <2>4 DEF ElimInv, EliminatedExactly
<1>2. CASE ~initial_placement
  <2> DEFINE out == {p \in Players : ~Owns(owner, p)}
             gone == owner[queued_attack.target]
  <2>1. /\ ~initial_placement'
        /\ {p \in Players : ~Owns(owner', p)} = out \cup KnockedOut
        /\ KnockedOut \cap out = {}
        /\ KnockedOut \subseteq {gone}
    <3>1. ~initial_placement'
      BY <1>2 DEF Play, InitialPlace, ValidInitialPlace, PlayerAction, ValidPlayerAction,
                  QueueDefense, ValidDefense, RollDice, Fortify, placement
    <3>2. \A p \in Players : /\ ~Owns(owner, p) => ~Owns(owner', p)
                             /\ Owns(owner, p) /\ ~Owns(owner', p) => p = gone
      BY <1>2, PlayEliminates DEF EliminationStep
    <3> QED
      BY <3>1, <3>2 DEF KnockedOut
  <2>2. eliminated \in Seq(Players) /\ IsInjective(eliminated) /\ Range(eliminated) = out
    BY <1>2 DEF ElimInv, EliminatedExactly
  <2>3. CASE KnockedOut = {}
    <3>1. eliminated' = eliminated \o <<>>
      BY <2>3, NoneInSeatOrder DEF OnStep
    <3>2. eliminated' = eliminated
      BY <3>1, <2>2
    <3> QED
      BY <2>1, <2>2, <2>3, <3>2 DEF ElimInv, EliminatedExactly
  <2>4. CASE KnockedOut # {}
    <3>1. KnockedOut = {gone} /\ gone \in Players
      BY <2>1, <2>4 DEF KnockedOut
    <3>2. eliminated' = eliminated \o <<gone>>
      BY <3>1, OneInSeatOrder DEF OnStep
    <3> HIDE DEF gone
    <3>3. eliminated' = Append(eliminated, gone) /\ gone \notin Range(eliminated)
      BY <2>1, <2>2, <3>1, <3>2
    <3>4. /\ eliminated' \in Seq(Players) /\ DOMAIN eliminated' = 1 .. Len(eliminated) + 1
          /\ \A i \in 1 .. Len(eliminated) : eliminated'[i] = eliminated[i]
          /\ eliminated'[Len(eliminated) + 1] = gone
          /\ DOMAIN eliminated = 1 .. Len(eliminated) /\ Len(eliminated) \in Nat
      BY <2>2, <3>1, <3>3
    <3>5. IsInjective(eliminated')
      BY <2>2, <3>3, <3>4 DEF IsInjective, Range
    <3>6. Range(eliminated') = Range(eliminated) \cup {gone}
      BY <3>4 DEF Range
    <3> QED
      BY <2>1, <2>2, <3>1, <3>4, <3>5, <3>6 DEF ElimInv, EliminatedExactly
  <2> QED
    BY <2>3, <2>4
<1> QED
  BY <1>1, <1>2

LEMMA NextEliminated == IInv /\ IInv' /\ ElimInv /\ [SessionNext]_sessionVars => ElimInv'
<1>1. IInv /\ IInv' /\ ElimInv /\ SessionNext => ElimInv'
  BY NextIsPlay, PlayEliminated DEF SessionNext, RoundsNext
<1>2. ElimInv /\ UNCHANGED sessionVars => ElimInv'
  BY DEF sessionVars, roundVars, vars, board, placement, ElimInv, EliminatedExactly, Owns, OwnedBy
<1> QED
  BY <1>1, <1>2

LEMMA InitEliminated == SessionInit => ElimInv
  BY DEF SessionInit, RoundsInit, Init, ElimInv, EliminatedExactly, IsInjective, Range

\* The order of elimination lists the seats off the board, each once.
THEOREM EliminatedAlwaysExact == SessionSpec => []EliminatedExactly
<1>1. SessionSpec => []IInv
  BY SessionPlaysRisk, SpecIInv, PTL
<1>2. ElimInv => EliminatedExactly
  BY DEF ElimInv
<1> QED
  BY <1>1, <1>2, InitEliminated, NextEliminated, PTL DEF SessionSpec

-----------------------------------------------------------------------------
(* The places.                                                             *)

\* Ranks are triples of numbers, compared from the left.
Ranks == Int \X Int \X Int
LEMMA BeforeIsLexical ==
    ASSUME NEW r \in Ranks, NEW s \in Ranks
    PROVE  Before(r, s) <=> \/ r[1] < s[1]
                            \/ r[1] = s[1] /\ r[2] < s[2]
                            \/ r[1] = s[1] /\ r[2] = s[2] /\ r[3] < s[3]
<1>1. 1 .. 3 = {1, 2, 3} /\ 1 .. 0 = {} /\ 1 .. 1 = {1} /\ 1 .. 2 = {1, 2}
  OBVIOUS
<1>2. 1 - 1 = 0 /\ 2 - 1 = 1 /\ 3 - 1 = 2
  OBVIOUS
<1> QED
  BY <1>1, <1>2 DEF Before

LEMMA RanksInOrder ==
    /\ \A r \in Ranks : ~Before(r, r)
    /\ \A r, s \in Ranks : r # s => (Before(r, s) <=> ~Before(s, r))
    /\ \A r, s, t \in Ranks : Before(r, s) /\ Before(s, t) => Before(r, t)
<1>1. \A r \in Ranks : r[1] \in Int /\ r[2] \in Int /\ r[3] \in Int /\ r = <<r[1], r[2], r[3]>>
  BY DEF Ranks
<1>2. \A r, s \in Ranks : r[1] = s[1] /\ r[2] = s[2] /\ r[3] = s[3] => r = s
  BY <1>1
<1>3. \A r \in Ranks : ~Before(r, r)
  BY <1>1, BeforeIsLexical
<1>4. \A r, s \in Ranks : r # s => (Before(r, s) <=> ~Before(s, r))
  BY <1>1, <1>2, BeforeIsLexical
<1>5. ASSUME NEW r \in Ranks, NEW s \in Ranks, NEW t \in Ranks, Before(r, s), Before(s, t)
      PROVE  Before(r, t)
  BY <1>1, <1>5, BeforeIsLexical
<1> QED
  BY <1>3, <1>4, <1>5

\* rank is in order along the sorted seats.
Rising(rank, order) ==
    \A i, j \in DOMAIN order :
        i < j => Before(rank[order[i]], rank[order[j]]) \/ rank[order[i]] = rank[order[j]]

\* The run the loop walks back over from n; the seats up to n level with it;
\* the seats that rank before a.
Run(rank, order, n) == {j \in 1 .. n : \A k \in j + 1 .. n : rank[order[k]] = rank[order[k - 1]]}
Level(rank, order, n) == {j \in 1 .. n : rank[order[j]] = rank[order[n]]}
RankBefore(rank, S, a) == {q \in S : Before(rank[q], rank[a])}

\* The run that the place loop walks back over is the seats up to n level with n.
LEMMA RunsAreLevel ==
    ASSUME NEW S, NEW rank \in [S -> Ranks], NEW N \in Nat, NEW order \in [1 .. N -> S],
           Rising(rank, order), NEW n \in 1 .. N
    PROVE  Run(rank, order, n) = Level(rank, order, n)
<1> DEFINE r == [i \in 1 .. N |-> rank[order[i]]]
<1>1. r \in [1 .. N -> Ranks]
  OBVIOUS
<1>2. \A i, j \in 1 .. N : i < j => Before(r[i], r[j]) \/ r[i] = r[j]
  BY DEF Rising
<1>3. \A i \in 1 .. N : rank[order[i]] = r[i]
  OBVIOUS
<1> HIDE DEF r
<1>4. ASSUME NEW j \in 1 .. n, \A k \in j + 1 .. n : r[k] = r[k - 1]
      PROVE  r[j] = r[n]
  <2> DEFINE other == {k \in j .. n : r[k] # r[j]}
  <2> SUFFICES ASSUME other # {}  PROVE FALSE
    OBVIOUS
  <2>1. other \in SUBSET Nat /\ \A k \in other : k \in j .. n /\ r[k] # r[j]
    OBVIOUS
  <2>2. PICK m \in other : \A k \in other : m <= k
    <3> HIDE DEF other
    <3> QED  BY <2>1, MinIsIn
  <2>3. m \in j + 1 .. n /\ m - 1 \in j .. n /\ m - 1 < m
    BY <2>1
  <2>4. r[m - 1] = r[j]
    BY <2>2, <2>3
  <2> QED  BY <1>4, <2>1, <2>3, <2>4
<1>5. ASSUME NEW j \in 1 .. n, r[j] = r[n], NEW k \in j + 1 .. n
      PROVE  r[k] = r[k - 1]
  <2>1. j \in 1 .. N /\ k \in 1 .. N /\ k - 1 \in 1 .. N /\ j <= k - 1 /\ k - 1 < k /\ k <= n
    OBVIOUS
  <2>2. r[j] \in Ranks /\ r[k] \in Ranks /\ r[k - 1] \in Ranks /\ r[n] \in Ranks
    BY <1>1, <2>1
  <2>3. r[j] = r[k - 1] \/ Before(r[j], r[k - 1])
    BY <1>2, <2>1
  <2>4. r[k] = r[n] \/ Before(r[k], r[n])
    BY <1>2, <2>1
  <2>5. r[k - 1] = r[k] \/ Before(r[k - 1], r[k])
    BY <1>2, <2>1
  <2>6. ~Before(r[j], r[n])
    BY <1>5, <2>2, RanksInOrder
  <2> QED  BY <2>2, <2>3, <2>4, <2>5, <2>6, RanksInOrder
<1>6. \A j \in 1 .. n : (\A k \in j + 1 .. n : r[k] = r[k - 1]) <=> r[j] = r[n]
  BY <1>4, <1>5
<1>7. \A j \in 1 .. n : \A k \in j + 1 .. n : k \in 1 .. N /\ k - 1 \in 1 .. N
  OBVIOUS
<1> QED  BY <1>3, <1>6, <1>7 DEF Run, Level

\* The first place of a run counts the seats that rank before the run.
LEMMA PlaceCountsBetter ==
    ASSUME NEW rank \in [Players -> Ranks], NEW N \in Nat, NEW order \in [1 .. N -> Players],
           Rising(rank, order), IsInjective(order),
           \A p \in Players : \E i \in 1 .. N : order[i] = p
    PROVE  \A n \in 1 .. N :
              Min(Level(rank, order, n)) - 1 = Cardinality(RankBefore(rank, Players, order[n]))
<1> SUFFICES ASSUME NEW n \in 1 .. N
             PROVE  Min(Level(rank, order, n)) - 1 = Cardinality(RankBefore(rank, Players, order[n]))
  OBVIOUS
<1> DEFINE run == {j \in 1 .. n : rank[order[j]] = rank[order[n]]}
           better == {q \in Players : Before(rank[q], rank[order[n]])}
           m == Min(run)
           f == [i \in 1 .. m - 1 |-> order[i]]
<1>1. run \in SUBSET Nat /\ n \in run
  OBVIOUS
<1>2. m \in run /\ \A j \in run : m <= j
  <2> HIDE DEF run
  <2> QED  BY <1>1, MinIsIn
<1>3. m \in 1 .. n /\ rank[order[m]] = rank[order[n]]
  BY <1>2
<1> HIDE DEF m
<1>4. \A i \in 1 .. N : rank[order[i]] \in Ranks
  OBVIOUS
<1>5. ASSUME NEW i \in 1 .. m - 1  PROVE i \in 1 .. N /\ order[i] \in better
  <2>1. i \in 1 .. n /\ i \in 1 .. N /\ i < m /\ m \in 1 .. N
    BY <1>3
  <2>2. rank[order[i]] # rank[order[n]]
    BY <1>2, <2>1
  <2> QED  BY <1>3, <2>1, <2>2 DEF Rising
<1>6. ASSUME NEW q \in better  PROVE \E i \in 1 .. m - 1 : order[i] = q
  <2>1. PICK i \in 1 .. N : order[i] = q
    OBVIOUS
  <2>2. ~(m < i)
    <3> SUFFICES ASSUME m < i  PROVE FALSE
      OBVIOUS
    <3>1. Before(rank[order[m]], rank[order[i]]) \/ rank[order[m]] = rank[order[i]]
      BY <1>3 DEF Rising
    <3> QED  BY <1>3, <1>4, <2>1, <3>1, RanksInOrder
  <2>3. i # m
    BY <1>3, <1>4, <2>1, RanksInOrder
  <2> QED  BY <1>3, <2>1, <2>2, <2>3
<1>7. f \in Bijection(1 .. m - 1, better)
  <2> DEFINE first == 1 .. m - 1
  <2>1. f \in [first -> better]
    BY <1>5
  <2>2. \A i, j \in first : f[i] = f[j] => i = j
    BY <1>5 DEF IsInjective
  <2>3. \A q \in better : \E i \in first : f[i] = q
    BY <1>6
  <2>4. f \in Bijection(first, better)
    <3> HIDE DEF f, better, first
    <3> QED  BY <2>1, <2>2, <2>3 DEF Bijection, Injection, IsInjective, Surjection
  <2> QED  BY <2>4
<1>8. IsFiniteSet(1 .. m - 1) /\ Cardinality(1 .. m - 1) = m - 1
  <2>1. 1 \in Int /\ m - 1 \in Int /\ (1 > m - 1 => m - 1 = 0) /\ m - 1 - 1 + 1 = m - 1
    BY <1>3
  <2> QED  BY <2>1, FS_Interval
<1>9. Cardinality(better) = m - 1
  <2> HIDE DEF f, better
  <2> QED  BY <1>7, <1>8, FS_Bijection DEF ExistsBijection
<1> QED  BY <1>9 DEF m, Level, RankBefore

\* Fewer seats rank before the better one of two.
LEMMA BetterCountsFewer ==
    ASSUME NEW S, IsFiniteSet(S), NEW rank \in [S -> Ranks],
           NEW p \in S, NEW q \in S
    PROVE  Cardinality(RankBefore(rank, S, p)) < Cardinality(RankBefore(rank, S, q))
               <=> Before(rank[p], rank[q])
<1> DEFINE before(s) == {x \in S : Before(rank[x], rank[s])}
<1>1. ASSUME NEW a \in S, NEW b \in S, Before(rank[a], rank[b])
      PROVE  Cardinality(before(a)) < Cardinality(before(b))
  <2>1. before(a) \subseteq before(b)
    BY <1>1, RanksInOrder
  <2>2. a \in before(b) /\ a \notin before(a)
    BY <1>1, RanksInOrder
  <2>3. IsFiniteSet(before(b))
    BY FS_Subset
  <2> HIDE DEF before
  <2>4. /\ Cardinality(before(a)) <= Cardinality(before(b))
        /\ Cardinality(before(a)) # Cardinality(before(b))
        /\ IsFiniteSet(before(a))
    BY <2>1, <2>2, <2>3, FS_Subset
  <2> QED  BY <2>3, <2>4, FS_CardinalityType
<1>2. CASE Before(rank[p], rank[q])
  BY <1>1, <1>2 DEF RankBefore
<1>3. ASSUME ~Before(rank[p], rank[q])
      PROVE  ~(Cardinality(before(p)) < Cardinality(before(q)))
  <2>1. IsFiniteSet(before(q)) /\ IsFiniteSet(before(p))
    BY FS_Subset
  <2>2. Cardinality(before(q)) \in Nat /\ Cardinality(before(p)) \in Nat
    <3> HIDE DEF before
    <3> QED  BY <2>1, FS_CardinalityType
  <2>3. CASE rank[p] = rank[q]
    <3>1. before(p) = before(q)
      BY <2>3
    <3> HIDE DEF before
    <3> QED  BY <2>2, <3>1
  <2>4. CASE rank[p] # rank[q]
    <3>1. Cardinality(before(q)) < Cardinality(before(p))
      BY <1>1, <1>3, <2>4, RanksInOrder
    <3> HIDE DEF before
    <3> QED  BY <2>2, <3>1
  <2> QED  BY <2>3, <2>4
<1> QED  BY <1>2, <1>3 DEF RankBefore

\* Where a seat stands in the order of elimination.
LEMMA OutIndexIs ==
    ASSUME eliminated \in Seq(Players), NEW p
    PROVE  \/ OutIndex(p) = 0 /\ p \notin Range(eliminated)
           \/ OutIndex(p) \in DOMAIN eliminated /\ eliminated[OutIndex(p)] = p
<1> DEFINE I == {i \in 1 .. Len(eliminated) : eliminated[i] = p}
<1>1. OutIndex(p) = IF I # {} THEN Min(I) ELSE 0
  BY DEF OutIndex, SelectInSeq
<1>2. DOMAIN eliminated = 1 .. Len(eliminated) /\ Len(eliminated) \in Nat
  OBVIOUS
<1>3. CASE I # {}
  <2>1. I \in SUBSET Nat
    BY <1>2
  <2>2. Min(I) \in I
    <3> HIDE DEF I
    <3> QED  BY <1>3, <2>1, MinIsIn
  <2> QED  BY <1>1, <1>2, <1>3, <2>2
<1>4. CASE I = {}
  BY <1>1, <1>2, <1>4 DEF Range
<1> QED  BY <1>3, <1>4

LEMMA OutRankIs ==
    ASSUME ElimInv
    PROVE  /\ \A p \in Players : OutRank(p) \in Nat
           /\ \A p \in Players : p \notin Range(eliminated) => OutRank(p) = 0
           /\ \A p \in Players : p \in Range(eliminated) => OutRank(p) > 0
           /\ \A i \in DOMAIN eliminated : OutRank(eliminated[i]) = Len(eliminated) - i + 1
<1>1. /\ eliminated \in Seq(Players) /\ IsInjective(eliminated)
      /\ DOMAIN eliminated = 1 .. Len(eliminated) /\ Len(eliminated) \in Nat
  BY DEF ElimInv, EliminatedExactly
<1>2. \A p : \/ OutIndex(p) = 0 /\ p \notin Range(eliminated)
             \/ OutIndex(p) \in DOMAIN eliminated /\ eliminated[OutIndex(p)] = p
  BY <1>1, OutIndexIs
<1>3. \A i \in DOMAIN eliminated : eliminated[i] \in Range(eliminated)
  BY DEF Range
<1>4. \A i \in DOMAIN eliminated : OutIndex(eliminated[i]) = i
  BY <1>1, <1>2, <1>3 DEF IsInjective
<1>5. \A p : OutRank(p) = IF OutIndex(p) = 0 THEN 0 ELSE Len(eliminated) - OutIndex(p) + 1
  BY DEF OutRank
<1>6. ASSUME NEW p, OutIndex(p) \in DOMAIN eliminated
      PROVE  OutRank(p) \in Nat /\ OutRank(p) > 0 /\ OutRank(p) = Len(eliminated) - OutIndex(p) + 1
  <2>1. OutIndex(p) \in Nat /\ OutIndex(p) > 0 /\ OutIndex(p) <= Len(eliminated)
    BY <1>1, <1>6
  <2>2. OutRank(p) = Len(eliminated) - OutIndex(p) + 1
    BY <1>5, <2>1
  <2> QED  BY <1>1, <2>1, <2>2
<1>7. \A p : OutIndex(p) \in DOMAIN eliminated => p \in Range(eliminated)
  <2>1. 0 \notin DOMAIN eliminated
    BY <1>1
  <2> QED  BY <1>2, <1>3, <2>1
<1>8. \A p : p \in Range(eliminated) => OutIndex(p) \in DOMAIN eliminated
  BY <1>2
<1>9. \A p : p \notin Range(eliminated) => OutRank(p) = 0
  BY <1>2, <1>5, <1>7
<1> QED  BY <1>3, <1>4, <1>6, <1>8, <1>9

LEMMA RankType ==
    ASSUME IInv, ElimInv, NEW p \in Players
    PROVE  /\ Rank(p) \in Ranks
           /\ OutRank(p) \in Nat /\ HeldBy(p) \in Nat /\ ArmiesOf(owner, units, p) \in Int
           /\ HeldBy(p) = 0 <=> ~Owns(owner, p)
<1>1. IsFiniteSet(OwnedBy(owner, p)) /\ OwnedBy(owner, p) \subseteq Territories
  BY OwnedFinite DEF OwnedBy
<1>2. HeldBy(p) \in Nat /\ (HeldBy(p) = 0 <=> OwnedBy(owner, p) = {})
  BY <1>1, FS_CardinalityType, FS_EmptySet DEF HeldBy
<1>3. \A t \in OwnedBy(owner, p) : units[t] \in Int
  BY <1>1, NumbersAssumption DEF IInv, TypeOK
<1>4. ArmiesOf(owner, units, p) \in Int
  BY <1>1, <1>3, SumType, ArmiesAreSums
<1>5. OutRank(p) \in Nat
  BY OutRankIs
<1> QED  BY <1>2, <1>4, <1>5 DEF Rank, Ranks, Owns

\* The stable sort puts every seat in its place, and the sort is found.
LEMMA OrderSorts ==
    ASSUME \A p \in Players : Rank(p) \in Ranks
    PROVE  /\ Order \in [1 .. NumPlayers -> Players]
           /\ \A i, j \in 1 .. NumPlayers : i < j => Ahead(Order[i], Order[j])
<1> DEFINE ahead == {pq \in Players \X Players : Ahead(pq[1], pq[2])}
<1>1. IsFiniteSet(Players) /\ Cardinality(Players) = NumPlayers
  <2>1. 0 \in Int /\ NumPlayers - 1 \in Int /\ ~(0 > NumPlayers - 1) /\ NumPlayers - 1 - 0 + 1 = NumPlayers
    BY SeatsAssumption
  <2> QED  BY <2>1, FS_Interval DEF Players
<1>2. \A p, q \in Players : <<p, q>> \in ahead <=> Ahead(p, q)
  OBVIOUS
<1>3. \A p \in Players : p \in Int
  BY SeatsAssumption DEF Players
<1>4. ASSUME NEW p \in Players, NEW q \in Players, p # q
      PROVE  Ahead(p, q) <=> ~Ahead(q, p)
  <2>1. CASE Rank(p) = Rank(q)
    <3>1. ~Before(Rank(p), Rank(q)) /\ ~Before(Rank(q), Rank(p))
      BY <2>1, RanksInOrder
    <3> QED  BY <1>3, <1>4, <2>1, <3>1 DEF Ahead
  <2>2. CASE Rank(p) # Rank(q)
    BY <2>2, RanksInOrder DEF Ahead
  <2> QED  BY <2>1, <2>2
<1>5. ASSUME NEW p \in Players, NEW q \in Players, NEW s \in Players, Ahead(p, q), Ahead(q, s)
      PROVE  Ahead(p, s)
  <2>1. p < q /\ q < s => p < s
    BY <1>3
  <2>2. Before(Rank(p), Rank(q)) /\ Before(Rank(q), Rank(s)) => Before(Rank(p), Rank(s))
    BY RanksInOrder
  <2> QED  BY <1>5, <2>1, <2>2 DEF Ahead
<1>6. Strict(ahead, Players)
  <2> HIDE DEF ahead
  <2> QED  BY <1>2, <1>4, <1>5 DEF Strict
<1>7. PICK s \in [1 .. NumPlayers -> Players] : Sorted(s, ahead)
  <2> HIDE DEF ahead
  <2> QED  BY <1>1, <1>6, SortExists
<1>8. \A i, j \in 1 .. NumPlayers : i < j => Ahead(s[i], s[j])
  BY <1>7 DEF Sorted
<1> QED  BY <1>8 DEF Order

\* A place is the number of the seats that rank better.
LEMMA PlacesCount ==
    ASSUME \A p \in Players : Rank(p) \in Ranks
    PROVE  \A p \in Players : Places[p] = Cardinality({q \in Players : Before(Rank(q), Rank(p))})
<1> DEFINE rank == [p \in Players |-> Rank(p)]
           N == NumPlayers
           order == Order
<1>1. rank \in [Players -> Ranks] /\ N \in Nat /\ \A p \in Players : rank[p] = Rank(p) /\ p \in Int
  BY SeatsAssumption DEF Players
<1>2. order \in [1 .. N -> Players] /\ \A i, j \in 1 .. N : i < j => Ahead(order[i], order[j])
  BY OrderSorts
<1> HIDE DEF rank, order, N
<1>3. Rising(rank, order)
  BY <1>1, <1>2 DEF Rising, Ahead
<1>4. IsInjective(order)
  <2>1. ASSUME NEW i \in 1 .. N, NEW j \in 1 .. N, i < j, order[i] = order[j]  PROVE FALSE
    <3>1. Ahead(order[i], order[i]) /\ order[i] \in Players
      BY <1>2, <2>1
    <3> QED  BY <1>1, <3>1, RanksInOrder DEF Ahead
  <2>2. \A i, j \in 1 .. N : i # j => i < j \/ j < i
    BY <1>1
  <2> QED  BY <1>2, <2>1, <2>2 DEF IsInjective
<1>5. \A p \in Players : \E i \in 1 .. N : order[i] = p
  <2>1. IsFiniteSet(Players) /\ Cardinality(Players) = N
    <3>1. 0 \in Int /\ N - 1 \in Int /\ ~(0 > N - 1) /\ N - 1 - 0 + 1 = N
      BY SeatsAssumption DEF N
    <3> QED  BY <3>1, FS_Interval DEF Players, N
  <2>2. IsFiniteSet(1 .. N) /\ Cardinality(1 .. N) = N
    <3>1. 1 \in Int /\ N \in Int /\ ~(1 > N) /\ N - 1 + 1 = N
      BY SeatsAssumption DEF N
    <3> QED  BY <3>1, FS_Interval
  <2> DEFINE first == 1 .. N
  <2>3. order \in Injection(first, Players)
    <3>1. order \in [first -> Players] /\ \A i, j \in first : order[i] = order[j] => i = j
      BY <1>2, <1>4 DEF IsInjective
    <3> HIDE DEF first
    <3> QED  BY <3>1 DEF Injection, IsInjective
  <2>4. order \in Surjection(first, Players)
    <3>1. Cardinality(first) = Cardinality(Players)
      BY <2>1, <2>2
    <3> HIDE DEF first
    <3> QED  BY <2>1, <2>3, <3>1, FS_Injection
  <2> HIDE DEF first
  <2>5. \A p \in Players : \E i \in first : order[i] = p
    BY <2>4 DEF Surjection
  <2> QED  BY <2>5 DEF first
<1>6. ASSUME NEW p \in Players, NEW n \in 1 .. N, n = CHOOSE i \in 1 .. N : order[i] = p
      PROVE  Places[p] = Min(Run(rank, order, n)) - 1
  <2>1. Places[p] = Min({j \in 1 .. n : \A k \in j + 1 .. n : Rank(order[k]) = Rank(order[k - 1])}) - 1
    BY <1>6 DEF Places, order, N
  <2>2. \A j \in 1 .. n : \A k \in j + 1 .. n : k \in 1 .. N /\ k - 1 \in 1 .. N
    BY <1>1
  <2>3. \A k \in 1 .. N : rank[order[k]] = Rank(order[k])
    BY <1>1, <1>2
  <2>4. \A j \in 1 .. n : \A k \in j + 1 .. n :
            rank[order[k]] = rank[order[k - 1]] <=> Rank(order[k]) = Rank(order[k - 1])
    BY <2>2, <2>3
  <2>5. Run(rank, order, n) = {j \in 1 .. n : \A k \in j + 1 .. n : Rank(order[k]) = Rank(order[k - 1])}
    BY <2>4 DEF Run
  <2> QED  BY <2>1, <2>5
<1>7. ASSUME NEW p \in Players
      PROVE  Places[p] = Cardinality({q \in Players : Before(Rank(q), Rank(p))})
  <2>1. PICK n \in 1 .. N : n = (CHOOSE i \in 1 .. N : order[i] = p) /\ order[n] = p
    BY <1>5
  <2>2. Places[p] = Min(Run(rank, order, n)) - 1
    BY <1>6, <2>1
  <2>3. Run(rank, order, n) = Level(rank, order, n)
    BY <1>1, <1>2, <1>3, RunsAreLevel
  <2>4. Min(Level(rank, order, n)) - 1 = Cardinality(RankBefore(rank, Players, order[n]))
    <3>1. rank \in [Players -> Ranks] /\ N \in Nat /\ order \in [1 .. N -> Players]
      BY <1>1, <1>2
    <3> QED  BY <3>1, <1>3, <1>4, <1>5, PlaceCountsBetter
  <2>5. RankBefore(rank, Players, order[n]) = {q \in Players : Before(Rank(q), Rank(p))}
    BY <1>1, <2>1 DEF RankBefore
  <2> QED  BY <2>2, <2>3, <2>4, <2>5
<1> QED  BY <1>7

LEMMA PlacesByRank ==
    ASSUME \A p \in Players : Rank(p) \in Ranks
    PROVE  /\ \A p, q \in Players : Places[p] < Places[q] <=> Before(Rank(p), Rank(q))
           /\ \A p \in Players : Places[p] = Cardinality({q \in Players : Places[q] < Places[p]})
<1> DEFINE rank == [p \in Players |-> Rank(p)]
           before(s) == RankBefore(rank, Players, s)
<1>1. rank \in [Players -> Ranks] /\ \A p \in Players : rank[p] = Rank(p)
  OBVIOUS
<1>2. IsFiniteSet(Players)
  BY SeatsAssumption, FS_Interval DEF Players
<1> HIDE DEF rank
<1>3. \A p \in Players : Places[p] = Cardinality(before(p))
  <2> TAKE p \in Players
  <2>1. before(p) = {q \in Players : Before(Rank(q), Rank(p))}
    BY <1>1 DEF RankBefore
  <2> HIDE DEF before
  <2> QED  BY <2>1, PlacesCount
<1>4. \A p, q \in Players :
          Cardinality(before(p)) < Cardinality(before(q)) <=> Before(rank[p], rank[q])
  BY <1>1, <1>2, BetterCountsFewer
<1>5. \A p, q \in Players : Places[p] < Places[q] <=> Before(Rank(p), Rank(q))
  <2> HIDE DEF before
  <2> QED  BY <1>1, <1>3, <1>4
<1>6. ASSUME NEW p \in Players
      PROVE  Places[p] = Cardinality({q \in Players : Places[q] < Places[p]})
  <2>1. {q \in Players : Places[q] < Places[p]} = {q \in Players : Before(Rank(q), Rank(p))}
    BY <1>5
  <2> QED  BY <2>1, PlacesCount
<1> QED  BY <1>5, <1>6

\* Rank compares the seats as the rules do.
LEMMA RankCompares ==
    ASSUME IInv, ElimInv, NEW p \in Players, NEW q \in Players
    PROVE  Before(Rank(p), Rank(q)) <=>
               \/ OutRank(p) < OutRank(q)
               \/ OutRank(p) = OutRank(q) /\ HeldBy(p) > HeldBy(q)
               \/ /\ OutRank(p) = OutRank(q) /\ HeldBy(p) = HeldBy(q)
                  /\ ArmiesOf(owner, units, p) > ArmiesOf(owner, units, q)
<1>1. Rank(p) \in Ranks /\ Rank(q) \in Ranks
  BY RankType
<1>2. /\ Rank(p)[1] = OutRank(p) /\ Rank(p)[2] = -HeldBy(p) /\ Rank(p)[3] = -ArmiesOf(owner, units, p)
      /\ Rank(q)[1] = OutRank(q) /\ Rank(q)[2] = -HeldBy(q) /\ Rank(q)[3] = -ArmiesOf(owner, units, q)
  BY DEF Rank
<1>3. /\ HeldBy(p) \in Int /\ ArmiesOf(owner, units, p) \in Int
      /\ HeldBy(q) \in Int /\ ArmiesOf(owner, units, q) \in Int
  BY RankType
<1> QED  BY <1>1, <1>2, <1>3, BeforeIsLexical

LEMMA PlacesRank == IInv /\ ElimInv => OutcomeRanksSeats
<1> SUFFICES ASSUME IInv, ElimInv  PROVE OutcomeRanksSeats
  OBVIOUS
<1> DEFINE armies(p) == ArmiesOf(owner, units, p)
           better(p, q) == \/ HeldBy(p) > HeldBy(q)
                           \/ HeldBy(p) = HeldBy(q) /\ armies(p) > armies(q)
<1>1. \A p \in Players :
          /\ Rank(p) \in Ranks /\ OutRank(p) \in Nat /\ HeldBy(p) \in Nat /\ armies(p) \in Int
          /\ HeldBy(p) = 0 <=> ~Owns(owner, p)
  BY RankType
<1>2. \A p, q \in Players : Places[p] < Places[q] <=> Before(Rank(p), Rank(q))
  BY <1>1, PlacesByRank
<1>3. \A p, q \in Players :
          Places[p] < Places[q] <=>
              OutRank(p) < OutRank(q) \/ (OutRank(p) = OutRank(q) /\ better(p, q))
  <2> TAKE p, q \in Players
  <2> QED  BY <1>2, RankCompares
<1>4. /\ eliminated \in Seq(Players)
      /\ Range(eliminated) = IF initial_placement THEN {} ELSE {p \in Players : ~Owns(owner, p)}
  BY DEF ElimInv, EliminatedExactly
<1>5. \A p \in Players : Owns(owner, p) => OutRank(p) = 0
  BY <1>4, OutRankIs
<1>6. ASSUME NEW p \in Players, NEW q \in Players, Owns(owner, p), ~Owns(owner, q)
      PROVE  Places[p] < Places[q]
  <2>1. OutRank(p) = 0 /\ HeldBy(q) = 0 /\ HeldBy(p) > 0
    BY <1>1, <1>5, <1>6
  <2>2. OutRank(p) < OutRank(q) \/ OutRank(q) = 0
    BY <1>1, <2>1
  <2> QED  BY <1>3, <2>1, <2>2
<1>7. \A p, q \in Players :
          Owns(owner, p) /\ Owns(owner, q) => (Places[p] < Places[q] <=> better(p, q))
  BY <1>3, <1>5
<1>8. ASSUME NEW i \in DOMAIN eliminated, NEW j \in DOMAIN eliminated, i < j
      PROVE  Places[eliminated[j]] < Places[eliminated[i]]
  <2>1. /\ eliminated[i] \in Players /\ eliminated[j] \in Players
        /\ i \in Nat /\ j \in Nat /\ Len(eliminated) \in Nat
    BY <1>4
  <2>2. /\ OutRank(eliminated[i]) = Len(eliminated) - i + 1
        /\ OutRank(eliminated[j]) = Len(eliminated) - j + 1
    BY OutRankIs
  <2>3. OutRank(eliminated[j]) < OutRank(eliminated[i])
    BY <1>8, <2>1, <2>2
  <2> QED  BY <1>3, <2>1, <2>3
<1>9. ASSUME NEW p \in Players, Won(owner, p)
      PROVE  Places[p] = 0
  <2>1. Territories # {}
    BY SeatsAssumption, CoverAssumption, FS_EmptySet
  <2>2. Owns(owner, p) /\ \A q \in Players \ {p} : ~Owns(owner, q)
    BY <1>9, <2>1 DEF Won, Owns, OwnedBy
  <2>3. ASSUME NEW q \in Players  PROVE ~(Places[q] < Places[p])
    <3>1. CASE q = p
      BY <1>1, <1>2, <3>1, RanksInOrder
    <3>2. CASE q # p
      <4>1. Places[p] < Places[q]
        BY <1>6, <2>2, <3>2
      <4>2. Before(Rank(p), Rank(q))
        BY <1>2, <4>1
      <4>3. ~Before(Rank(q), Rank(p))
        BY <1>1, <4>2, RanksInOrder
      <4> QED  BY <1>2, <4>3
    <3> QED  BY <3>1, <3>2
  <2>4. {q \in Players : Places[q] < Places[p]} = {}
    BY <2>3
  <2>5. Places[p] = Cardinality({q \in Players : Places[q] < Places[p]})
    BY <1>1, PlacesByRank
  <2> QED  BY <2>4, <2>5, FS_EmptySet
<1>10. \A p \in Players : Places[p] = Cardinality({q \in Players : Places[q] < Places[p]})
  BY <1>1, PlacesByRank
<1>11. \A places \in Outcome \cup {Standing} : places = Places
  BY DEF Outcome, Standing
<1> HIDE DEF better
<1> QED
  BY <1>6, <1>7, <1>8, <1>9, <1>10, <1>11 DEF OutcomeRanksSeats, better

\* However many seats, whatever the map and whenever the referee asks: the
\* sort and the loop that shares places rank the seats as the rules say.
THEOREM PlacesRankSeats == SessionSpec => []OutcomeRanksSeats
<1>1. SessionSpec => []IInv
  BY SessionPlaysRisk, SpecIInv, PTL
<1>2. SessionSpec => []ElimInv
  BY <1>1, InitEliminated, NextEliminated, PTL DEF SessionSpec
<1> QED
  BY <1>1, <1>2, PlacesRank, PTL

-----------------------------------------------------------------------------
(* What the policy proposes.                                               *)

LEMMA FiniteEdges ==
    /\ IsFiniteSet(Claimable) /\ IsFiniteSet(Edges) /\ IsFiniteSet(Favorable)
<1>1. IsFiniteSet(Claimable)
  BY OwnedFinite DEF Claimable
<1>2. IsFiniteSet(Territories \X Territories)
  BY MapAssumption, FS_Product
<1>3. Edges \subseteq Territories \X Territories /\ Favorable \subseteq Edges
  BY DEF Edges, Favorable, Mine, OwnedBy
<1>4. IsFiniteSet(Edges)
  BY <1>2, <1>3, FS_Subset
<1> QED  BY <1>1, <1>3, <1>4, FS_Subset

\* Each territory to place on is one proposal.
LEMMA PlacementsCounted == Cardinality(PlacementProposals) = Cardinality(Claimable)
<1> DEFINE f == [t \in Claimable |-> [kind |-> "place", territory |-> t]]
<1>1. f \in Bijection(Claimable, PlacementProposals)
  BY DEF Bijection, Injection, IsInjective, Surjection, PlacementProposals
<1> HIDE DEF f
<1> QED  BY <1>1, FiniteEdges, FS_Bijection DEF ExistsBijection

\* Each edge drawn from is one proposal, where no reinforcement is due.
LEMMA TurnsCounted ==
    ASSUME NEW border \in BOOLEAN, NEW favorable \in BOOLEAN, ~MustReinforce
    PROVE  /\ IsFiniteSet(TurnProposals(border, favorable))
           /\ Cardinality(TurnProposals(border, favorable)) =
                  Cardinality(IF favorable THEN Favorable ELSE Edges)
<1> DEFINE drawn == IF favorable THEN Favorable ELSE Edges
           f == [e \in drawn |->
                    [kind |-> "turn", place |-> NoReinforcement, attack |-> AttackAlong(e)]]
<1>1. IsFiniteSet(drawn)
  BY FiniteEdges
<1>2. Drawn(favorable) = drawn
  BY DEF Drawn
<1>3. TurnProposals(border, favorable) =
          [kind : {"turn"}, place : {NoReinforcement}, attack : {AttackAlong(e) : e \in drawn}]
  BY <1>2 DEF TurnProposals
<1>4. \A e \in drawn : e = <<e[1], e[2]>>
  BY DEF Edges, Favorable
<1>5. f \in [drawn -> TurnProposals(border, favorable)]
  <2> HIDE DEF drawn
  <2> QED  BY <1>3
<1>6. \A a, b \in drawn : f[a] = f[b] => a = b
  <2> HIDE DEF drawn
  <2> TAKE a, b \in drawn
  <2> HAVE f[a] = f[b]
  <2>1. f[a].attack = AttackAlong(a) /\ f[b].attack = AttackAlong(b)
    OBVIOUS
  <2>2. AttackAlong(a) = AttackAlong(b)
    BY <2>1
  <2>3. a[1] = b[1] /\ a[2] = b[2]
    BY <2>2 DEF AttackAlong
  <2> QED  BY <1>4, <2>3
<1>7. \A x \in TurnProposals(border, favorable) : \E e \in drawn : f[e] = x
  <2> HIDE DEF drawn
  <2> QED  BY <1>3
<1>8. f \in Bijection(drawn, TurnProposals(border, favorable))
  <2> HIDE DEF drawn, f
  <2> QED  BY <1>5, <1>6, <1>7 DEF Bijection, Injection, IsInjective, Surjection
<1> HIDE DEF f
<1> QED  BY <1>1, <1>8, FS_Bijection DEF ExistsBijection

\* The two copies of the branches agree, on every board and for every variant.
LEMMA SupportAlwaysExact == SupportIsExact
<1> SUFFICES ASSUME current_player # Nobody,
                    NEW border \in BOOLEAN, NEW favorable \in BOOLEAN,
                    SupportSize(favorable) # Unknown
             PROVE  SupportSize(favorable) = Cardinality(Proposals(border, favorable))
  BY DEF SupportIsExact
<1>1. CASE initial_placement
  BY <1>1, PlacementsCounted DEF SupportSize, Proposals
<1>2. CASE ~initial_placement /\ queued_attack # None
  BY <1>2, FS_Singleton DEF SupportSize, Proposals, DefenseProposals
<1>3. CASE ~initial_placement /\ queued_attack = None
  <2> DEFINE fortify == [kind |-> "fortify", source |-> Safest, target |-> Weakest, num |-> units[Safest] - 1]
             turns == TurnProposals(border, favorable)
  <2>1. ~MustReinforce
    BY <1>3 DEF SupportSize
  <2>2. Proposals(border, favorable) = turns \cup {fortify}
    BY <1>3, <2>1 DEF Proposals, FortifyProposals
  <2>3. fortify \notin turns
    <3>1. \A x \in turns : x.kind = "turn"
      BY DEF TurnProposals
    <3>2. fortify.kind = "fortify"
      OBVIOUS
    <3> HIDE DEF fortify, turns
    <3> QED  BY <3>1, <3>2
  <2>4. /\ IsFiniteSet(turns)
        /\ Cardinality(turns) = Cardinality(IF favorable THEN Favorable ELSE Edges)
    BY <2>1, TurnsCounted
  <2>5. Cardinality(turns \cup {fortify}) = Cardinality(turns) + 1
    <3> HIDE DEF fortify, turns
    <3> QED  BY <2>3, <2>4, FS_AddElement
  <2>6. SupportSize(favorable) = Cardinality(IF favorable THEN Favorable ELSE Edges) + 1
    BY <1>3, <2>1 DEF SupportSize
  <2> QED  BY <2>2, <2>4, <2>5, <2>6
<1> QED  BY <1>1, <1>2, <1>3

LEMMA FacingType ==
    ASSUME TypeOK, NEW t \in Territories
    PROVE  Facing(t) \in Int
<1>1. Foes(t) \subseteq Territories
  BY MapAssumption DEF Foes
<1>2. IsFiniteSet(Foes(t))
  BY <1>1, MapAssumption, FS_Subset
<1>3. \A foe \in Foes(t) : units[foe] \in Int
  BY <1>1, NumbersAssumption DEF TypeOK
<1>4. Facing(t) = SumOver(units, Foes(t))
  BY Zenon DEF Facing, SumOver
<1> QED  BY <1>2, <1>3, <1>4, SumType

\* The closing move has a source and a target among the player's own.
LEMMA ClosingMoveFound ==
    ASSUME TypeOK, Mine # {}
    PROVE  Safest \in Mine /\ Weakest \in Mine
<1>1. Mine \subseteq Territories /\ IsFiniteSet(Mine)
  BY MapAssumption, FS_Subset DEF Mine, OwnedBy
<1>2. \A t \in Mine : Facing(t) \in Int /\ units[t] \in Int
  BY <1>1, FacingType, NumbersAssumption DEF TypeOK
<1>3. \E s \in Mine : \A t \in Mine : ~Safer(t, s)
  <2> DEFINE f == [t \in Mine |-> -Facing(t)]
  <2>1. \A t \in Mine : f[t] \in Int
    BY <1>2
  <2>2. PICK m \in Mine : \A t \in Mine : f[t] <= f[m]
    <3> HIDE DEF f
    <3> QED  BY <1>1, <2>1, GreatestExists
  <2>3. \A t \in Mine : Facing(m) <= Facing(t)
    BY <2>2, <1>2
  <2> DEFINE level == {t \in Mine : Facing(t) = Facing(m)}
  <2>4. IsFiniteSet(level) /\ level # {} /\ \A t \in level : units[t] \in Int
    BY <1>1, <1>2, FS_Subset
  <2>5. PICK s \in level : \A t \in level : units[t] <= units[s]
    <3> HIDE DEF level
    <3> QED  BY <2>4, GreatestExists
  <2>6. \A t \in Mine : ~Safer(t, s)
    <3> TAKE t \in Mine
    <3>1. Facing(s) = Facing(m) /\ Facing(m) <= Facing(t)
      BY <2>3
    <3>2. Facing(t) = Facing(s) => units[t] <= units[s]
      BY <2>5
    <3> QED  BY <1>2, <3>1, <3>2 DEF Safer
  <2> QED  BY <2>6
<1>4. \E s \in Mine : \A t \in Mine : ~Weaker(t, s)
  <2> DEFINE f == [t \in Mine |-> Facing(t)]
  <2>1. \A t \in Mine : f[t] \in Int
    BY <1>2
  <2>2. PICK m \in Mine : \A t \in Mine : f[t] <= f[m]
    <3> HIDE DEF f
    <3> QED  BY <1>1, <2>1, GreatestExists
  <2>3. \A t \in Mine : Facing(t) <= Facing(m)
    BY <2>2, <1>2
  <2> DEFINE level == {t \in Mine : Facing(t) = Facing(m)}
             g == [t \in level |-> -units[t]]
  <2>4. IsFiniteSet(level) /\ level # {} /\ \A t \in level : g[t] \in Int
    BY <1>1, <1>2, FS_Subset
  <2>5. PICK s \in level : \A t \in level : g[t] <= g[s]
    <3> HIDE DEF level, g
    <3> QED  BY <2>4, GreatestExists
  <2>6. \A t \in Mine : ~Weaker(t, s)
    <3> TAKE t \in Mine
    <3>1. Facing(s) = Facing(m) /\ Facing(t) <= Facing(m)
      BY <2>3
    <3>2. Facing(t) = Facing(s) => units[s] <= units[t]
      BY <2>5, <1>2
    <3> QED  BY <1>2, <3>1, <3>2 DEF Weaker
  <2> QED  BY <2>6
<1> QED  BY <1>3, <1>4 DEF Safest, Weakest

\* The reserves can be laid out on the pool, and wherever they are laid out
\* they are armies placed.
LEMMA ReservesScatter ==
    ASSUME TypeOK, current_player \in Players, reserves[current_player] > 0, Mine # {},
           NEW border \in BOOLEAN
    PROVE  /\ Scatters(border) # {}
           /\ \A place \in Scatters(border) : place # NoReinforcement
<1> DEFINE r == reserves[current_player]
<1>1. r \in Nat /\ r > 0
  BY DEF TypeOK
<1>2. PICK t \in Pool(border) : t \in Territories
  BY DEF Pool, Border, Mine, OwnedBy
<1> DEFINE heap == [s \in Territories |-> IF s = t THEN r ELSE 0]
<1>3. heap \in Placements
  BY <1>1 DEF Placements, Max2
<1>4. Placed(heap) = r
  <2>1. Placed(heap) = SumOver(heap, Territories)
    <3> HIDE DEF heap
    <3> QED  BY Zenon DEF Placed, SumOver
  <2>2. heap[t] = r /\ \A s \in Territories \ {t} : heap[s] = 0
    BY <1>2
  <2>3. heap[t] \in Int
    BY <2>2, <1>1
  <2> HIDE DEF heap, r
  <2>4. SumOver(heap, Territories) = heap[t]
    BY <1>2, <2>2, <2>3, MapAssumption, SumOfOne
  <2> QED  BY <2>1, <2>2, <2>4
<1>5. \A s \in Territories : heap[s] > 0 => s \in Pool(border)
  BY <1>2
<1>6. heap \in Scatters(border)
  <2> HIDE DEF heap
  <2> QED  BY <1>3, <1>4, <1>5 DEF Scatters
<1>7. Placed(NoReinforcement) = 0
  <2>1. Placed(NoReinforcement) = SumOver(NoReinforcement, Territories)
    BY Zenon DEF Placed, SumOver
  <2>2. \A s \in Territories : NoReinforcement[s] = 0
    BY DEF NoReinforcement
  <2> QED  BY <2>1, <2>2, MapAssumption, SumOfZeros
<1>8. \A place \in Scatters(border) : Placed(place) = r
  BY DEF Scatters
<1> HIDE DEF heap
<1> QED  BY <1>1, <1>6, <1>7, <1>8

\* The check that each kind of action is given.
LEMMA AcceptsByKind ==
    ASSUME NEW a
    PROVE  /\ a.kind = "place" /\ ValidInitialPlace(a.territory) => Accepts(a)
           /\ a.kind = "defend" /\ ValidDefense(a.dice) => Accepts(a)
           /\ a.kind = "turn" /\ ValidPlayerAction(a.place, a.attack) => Accepts(a)
           /\ a.kind = "fortify" /\ PlayerToMove /\ ValidFortify(a.source, a.target, a.num) => Accepts(a)
  BY DEF Accepts

\* A claim is proposed while the map has room, and a territory of one's own after.
LEMMA ClaimsLegal ==
    ASSUME IInv, initial_placement
    PROVE  /\ PlacementProposals # {}
           /\ \A a \in PlacementProposals : Accepts(a) /\ a.kind = "place"
<1>1. PICK t \in Territories : ValidInitialPlace(t)
  BY IInvNeverStuck DEF NeverStuck, PlayerToMove, IInv, BattleConsistent
<1>2. num_initial_placements \in Nat /\ Cardinality(Territories) \in Nat
  BY MapAssumption, FS_CardinalityType DEF IInv, TypeOK
<1>3. \A s \in Territories : s \in Claimable <=> ValidInitialPlace(s)
  BY <1>1, <1>2 DEF Claimable, OwnedBy, WantedOwner, ValidInitialPlace
<1>4. Claimable \subseteq Territories
  BY DEF Claimable, OwnedBy
<1>5. ASSUME NEW a \in PlacementProposals  PROVE Accepts(a) /\ a.kind = "place"
  <2>1. a.kind = "place" /\ a.territory \in Claimable
    BY DEF PlacementProposals
  <2>2. ValidInitialPlace(a.territory)
    BY <2>1, <1>3, <1>4
  <2> QED  BY <2>1, <2>2, AcceptsByKind
<1>6. PlacementProposals # {}
  BY <1>1, <1>3 DEF PlacementProposals
<1> QED  BY <1>5, <1>6

\* The defender throws two dice, or one if it has one army.
LEMMA DefencesLegal ==
    ASSUME IInv, queued_attack # None, current_player # Nobody
    PROVE  \A a \in DefenseProposals : Accepts(a) /\ a.kind = "defend"
<1>1. queued_defense = NoDefense /\ current_player = owner[queued_attack.target]
  BY DEF IInv, BattleConsistent
<1>2. queued_attack.target \in Territories
  BY DEF IInv, TypeOK, ActionRecord, QueueAttackActions
<1>3. units[queued_attack.target] \in Int
  BY <1>2, NumbersAssumption DEF IInv, TypeOK
<1>4. Min2(2, units[queued_attack.target]) <= units[queued_attack.target]
  BY <1>3 DEF Min2
<1> QED  BY <1>1, <1>4, AcceptsByKind DEF DefenseProposals, ValidDefense

\* The attack along an edge is one the rules accept.
LEMMA AttacksLegal ==
    ASSUME TypeOK, NEW e \in Edges
    PROVE  AttackAlong(e) # None /\ ValidAttack(AttackAlong(e))
<1>1. /\ e[1] \in Territories /\ e[2] \in Territories
      /\ owner[e[1]] = current_player /\ owner[e[2]] # current_player
      /\ e[2] \in Neighbors[e[1]] /\ units[e[1]] > 1
  BY DEF Edges, Mine, Strong, Foes, OwnedBy
<1>2. units[e[1]] \in Int
  BY <1>1, NumbersAssumption DEF TypeOK
<1>3. Min2(3, units[e[1]] - 1) \in 1 .. 3 /\ units[e[1]] > Min2(3, units[e[1]] - 1)
  BY <1>1, <1>2 DEF Min2
<1>4. AttackAlong(e) \in QueueAttackActions
  BY <1>1, <1>3, ProposerAssumption DEF AttackAlong, QueueAttackActions
<1> QED  BY <1>1, <1>3, <1>4, NumbersAssumption DEF ValidAttack, AttackAlong

\* A turn's reinforcement and attack are accepted, and so is a closing move.
LEMMA TurnsLegal ==
    ASSUME IInv, ~initial_placement, queued_attack = None, current_player # Nobody,
           NEW border \in BOOLEAN, NEW favorable \in BOOLEAN
    PROVE  LET proposals == TurnProposals(border, favorable) \cup FortifyProposals
           IN  /\ proposals # {}
               /\ \A a \in proposals :
                     /\ Accepts(a)
                     /\ a.kind = "fortify" => ~MustReinforce
<1>1. TypeOK /\ current_player \in Players /\ PlayerToMove
  BY DEF IInv, TypeOK, PlayerToMove
<1>2. Mine # {}
  BY DEF IInv, MoverOnBoard, Owns, Mine
<1>3. Safest \in Mine /\ Weakest \in Mine
  BY <1>1, <1>2, ClosingMoveFound
<1>4. \A a \in FortifyProposals : Accepts(a) /\ ~MustReinforce /\ a.kind = "fortify"
  <2>1. /\ Safest \in Territories /\ owner[Safest] = current_player
        /\ owner[Weakest] = current_player
    BY <1>3 DEF Mine, OwnedBy
  <2>2. units[Safest] \in Int
    BY <1>1, <2>1, NumbersAssumption DEF TypeOK
  <2>3. ValidFortify(Safest, Weakest, units[Safest] - 1)
    BY <2>1, <2>2 DEF ValidFortify
  <2> QED  BY <1>1, <2>3, AcceptsByKind DEF FortifyProposals
<1>5. \A a \in TurnProposals(border, favorable) : Accepts(a) /\ a.kind = "turn"
  <2> TAKE a \in TurnProposals(border, favorable)
  <2>1. Drawn(favorable) \subseteq Edges
    BY DEF Drawn, Favorable
  <2>2. a.kind = "turn"
    BY DEF TurnProposals
  <2>3. a.place # NoReinforcement => MustReinforce /\ a.place \in Scatters(border)
    BY DEF TurnProposals
  <2>4. a.place # NoReinforcement => ValidReinforcement(a.place)
    <3> HAVE a.place # NoReinforcement
    <3>1. reserves[current_player] > 0 /\ first_attack_of_turn
      BY <2>3 DEF MustReinforce
    <3>2. Pool(border) \subseteq Mine
      BY DEF Pool, Border
    <3> QED  BY <2>3, <3>1, <3>2 DEF ValidReinforcement, Scatters, Mine, OwnedBy
  <2>5. a.attack # None => ValidAttack(a.attack)
    BY <1>1, <2>1, AttacksLegal DEF TurnProposals
  <2>6. a.place # NoReinforcement \/ a.attack # None
    <3>1. CASE MustReinforce
      <4>1. a.place \in Scatters(border)
        BY <3>1 DEF TurnProposals
      <4> QED  BY <4>1, <3>1, <1>1, <1>2, ReservesScatter DEF MustReinforce
    <3>2. CASE ~MustReinforce
      <4>1. PICK e \in Drawn(favorable) : a.attack = AttackAlong(e)
        BY <3>2 DEF TurnProposals
      <4> QED  BY <4>1, <2>1, <1>1, AttacksLegal
    <3> QED  BY <3>1, <3>2
  <2>7. ValidPlayerAction(a.place, a.attack)
    BY <1>1, <2>4, <2>5, <2>6 DEF ValidPlayerAction
  <2> QED  BY <2>2, <2>7, AcceptsByKind
<1>6. TurnProposals(border, favorable) \cup FortifyProposals # {}
  <2>1. CASE ~MustReinforce
    BY <2>1 DEF FortifyProposals
  <2>2. CASE MustReinforce
    <3>1. Scatters(border) # {}
      BY <2>2, <1>1, <1>2, ReservesScatter DEF MustReinforce
    <3>2. PICK place \in Scatters(border) : TRUE
      BY <3>1
    <3>3. PICK attack \in IF Drawn(favorable) = {} THEN {None}
                          ELSE {AttackAlong(e) : e \in Drawn(favorable)} : TRUE
      OBVIOUS
    <3>4. [kind |-> "turn", place |-> place, attack |-> attack] \in TurnProposals(border, favorable)
      BY <2>2, <3>3 DEF TurnProposals
    <3> QED  BY <3>4
  <2> QED  BY <2>1, <2>2
<1>7. \A a \in TurnProposals(border, favorable) : a.kind # "fortify"
  BY <1>5
<1> QED  BY <1>4, <1>5, <1>6, <1>7

LEMMA IInvProposals == IInv => ProposalsAreLegal
<1> SUFFICES ASSUME IInv, current_player # Nobody,
                    NEW border \in BOOLEAN, NEW favorable \in BOOLEAN
             PROVE  LET proposals == Proposals(border, favorable)
                    IN  /\ proposals # {}
                        /\ \A a \in proposals :
                              /\ Accepts(a)
                              /\ a.kind = "fortify" /\ first_attack_of_turn =>
                                    reserves[current_player] = 0
  BY DEF ProposalsAreLegal
<1>1. CASE initial_placement
  BY <1>1, ClaimsLegal DEF Proposals
<1>2. CASE ~initial_placement /\ queued_attack # None
  <2>1. Proposals(border, favorable) = DefenseProposals /\ DefenseProposals # {}
    BY <1>2 DEF Proposals, DefenseProposals
  <2> QED  BY <1>2, <2>1, DefencesLegal
<1>3. CASE ~initial_placement /\ queued_attack = None
  <2> DEFINE proposals == TurnProposals(border, favorable) \cup FortifyProposals
  <2>1. Proposals(border, favorable) = proposals
    BY <1>3 DEF Proposals
  <2>2. /\ proposals # {}
        /\ \A a \in proposals : Accepts(a) /\ (a.kind = "fortify" => ~MustReinforce)
    BY <1>3, TurnsLegal
  <2>3. reserves[current_player] \in Nat
    BY <1>3 DEF IInv, TypeOK
  <2>4. ~MustReinforce /\ first_attack_of_turn => reserves[current_player] = 0
    BY <2>3 DEF MustReinforce
  <2> HIDE DEF proposals
  <2> QED  BY <2>1, <2>2, <2>4
<1> QED  BY <1>1, <1>2, <1>3

\* In every position a game comes to, on every map and in all four variants of
\* the policy: there is something to propose, the rules accept whatever is
\* proposed, and no proposal ends a turn with its reserves still in hand.
THEOREM ProposalsAlwaysLegal == Spec => []ProposalsAreLegal
  BY SpecIInv, IInvProposals, PTL

\* support_size() names exactly the number of actions sample() may return.
THEOREM SupportsAlwaysExact == Spec => []SupportIsExact
  BY SupportAlwaysExact, PTL
=============================================================================
