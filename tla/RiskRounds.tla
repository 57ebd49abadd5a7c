----------------------------- MODULE RiskRounds -----------------------------
(***************************************************************************)
(* What risk_view.h makes of the engine's turn counter.  Rounds() numbers  *)
(* the rounds of play, and the round cap ends a game by it, so it decides  *)
(* placings.  The counter ticks where the seats wrap past the end, whoever *)
(* is left, and seats drop out in the middle of a round: this module keeps *)
(* a history of the turns each seat has really taken to say what the       *)
(* number means.                                                           *)
(***************************************************************************)
EXTENDS RiskGame

VARIABLE turns_taken     \* history: the turns each seat has begun and ended

\* mutant: the placements are not taken off, so play does not start at 0
Rounds_FromTheStart == IF initial_placement THEN 0 ELSE turn_count

Rounds == IF initial_placement THEN 0
          ELSE turn_count - (num_initial_placements \div NumPlayers)

\* Only FortifyToMoveUnits ends a turn.  Both players have been named by then:
\* the one that ends its turn, and the one NextPlayer() found.
TurnEnds ==
    /\ PlayerToMove
    /\ queued_attack' = None
    /\ <<current_player, turn_count>>' # <<current_player, turn_count>>

CountTurn ==
    turns_taken' = IF TurnEnds THEN [turns_taken EXCEPT ![current_player] = @ + 1]
                               ELSE turns_taken

roundVars == <<vars, turns_taken>>

RoundsInit == Init /\ turns_taken = [p \in Players |-> 0]
RoundsNext == Next /\ CountTurn
RoundsSpec == RoundsInit /\ [][RoundsNext]_roundVars

-----------------------------------------------------------------------------
\* Whose turn it is, the turns of others inside a battle aside.
TurnOwner == IF queued_attack # None THEN owner[queued_attack.source] ELSE current_player

\* "Full rounds (every player one turn) since initial placement ended": every
\* seat still on the board has taken as many turns as there are full rounds,
\* one more if its turn in the current round is over.  No elimination, not even
\* of the first or the last seat in the middle of a round, makes a survivor
\* miss a turn or take two.
RoundsAreFullRounds ==
    ~initial_placement =>
        \A p \in Players : Owns(owner, p) =>
            turns_taken[p] = Rounds + (IF p < TurnOwner THEN 1 ELSE 0)
=============================================================================
