---------------------------- MODULE RiskSession ----------------------------
(***************************************************************************)
(* A refereed game: problem/risk_session.h wraps the engine, and           *)
(* problem/risk_view.h turns what happened into placings.  Every applied   *)
(* action, a player's or the dice, is followed by StepRenderer::Render     *)
(* before the call returns, which notes who was knocked out by it; the     *)
(* placings are computed from that order and the board when asked.  The    *)
(* session itself does not refuse moves once the game is over.             *)
(***************************************************************************)
EXTENDS RiskRounds, SequencesExt

CONSTANT MaxRounds      \* the round cap; 0 for none

ASSUME MaxRoundsAssumption == MaxRounds \in Nat

VARIABLE eliminated     \* StepRenderer::eliminated_, in the order they went

sessionVars == <<roundVars, eliminated>>

-----------------------------------------------------------------------------
(* ResultOf                                                                *)

\* current_state(): the seat that owns the whole map.
Won(o, p) == \A t \in Territories : o[t] = p

IsOver ==
    \/ \E p \in Players : Won(owner, p)
    \/ MaxRounds > 0 /\ Rounds >= MaxRounds

HeldBy(p) == Cardinality(OwnedBy(owner, p))

\* eliminated.end() - find(eliminated, p): 0 for a survivor, more the earlier
\* the seat went.  mutant: the first seat to go ranks best of those that went
OutIndex(p) == SelectInSeq(eliminated, LAMBDA seat : seat = p)
OutRank_FirstBest(p) == OutIndex(p)
OutRank(p) == IF OutIndex(p) = 0 THEN 0 ELSE Len(eliminated) - OutIndex(p) + 1

Rank(p) == <<OutRank(p), -HeldBy(p), -ArmiesOf(owner, units, p)>>
Before(r, s) == \E i \in 1 .. 3 : r[i] < s[i] /\ \A j \in 1 .. i - 1 : r[j] = s[j]

\* The stable sort of the seats by rank, and the loop that lets a seat level
\* with the one before it share its place: the first place of its run.
Ahead(p, q) == Before(Rank(p), Rank(q)) \/ (Rank(p) = Rank(q) /\ p < q)
Order ==
    CHOOSE order \in [1 .. NumPlayers -> Players] :
        \A i, j \in 1 .. NumPlayers : i < j => Ahead(order[i], order[j])
Places ==
    LET order == Order
        level(i) == {j \in 1 .. i : \A k \in j + 1 .. i : Rank(order[k]) = Rank(order[k - 1])}
    IN  [p \in Players |-> Min(level(CHOOSE i \in 1 .. NumPlayers : order[i] = p)) - 1]

\* What the referee is told: nothing while the game goes on, the places once it
\* is over, and how the seats stand whenever it asks.
Outcome == IF IsOver THEN {Places} ELSE {}
Standing == Places

-----------------------------------------------------------------------------
(* The session                                                             *)

\* OnStep: the seats that owned something before the step and nothing after, in
\* the order of the loop over the seats.
InSeatOrder(seats) ==
    CHOOSE s \in [1 .. Cardinality(seats) -> seats] : \A i, j \in DOMAIN s : i < j => s[i] < s[j]
KnockedOut == {p \in Players : Owns(owner, p) /\ ~Owns(owner', p)}
\* mutant: whoever owns nothing after the step is listed, before it or not
OnStep_NotBefore == eliminated' = eliminated \o InSeatOrder({p \in Players : ~Owns(owner', p)})

OnStep == eliminated' = eliminated \o InSeatOrder(KnockedOut)

SessionInit == RoundsInit /\ eliminated = <<>>
SessionNext == RoundsNext /\ OnStep
SessionSpec == SessionInit /\ [][SessionNext]_sessionVars

-----------------------------------------------------------------------------
(* Properties                                                              *)

\* The order of elimination lists exactly the seats off the board, each once:
\* a seat that owns nothing because it has yet to claim its first territory is
\* not out.
EliminatedExactly ==
    /\ IsInjective(eliminated)
    /\ Range(eliminated) = IF initial_placement THEN {}
                           ELSE {p \in Players : ~Owns(owner, p)}

\* At any moment the standing, and so the outcome of a finished game, ranks the
\* seats as the rules of the tournament say: survivors above the knocked out, the last to go best;
\* survivors by territories, then armies, level on an exact tie only; tied
\* seats share the better place; the owner of the whole map is first.
OutcomeRanksSeats ==
    \A places \in Outcome \cup {Standing} :
        LET out(p) == ~Owns(owner, p)
            better(p, q) == \/ HeldBy(p) > HeldBy(q)
                            \/ /\ HeldBy(p) = HeldBy(q)
                               /\ ArmiesOf(owner, units, p) > ArmiesOf(owner, units, q)
        IN  /\ \A p, q \in Players :
                  /\ ~out(p) /\ out(q) => places[p] < places[q]
                  /\ ~out(p) /\ ~out(q) => (places[p] < places[q] <=> better(p, q))
            /\ \A i, j \in DOMAIN eliminated : i < j => places[eliminated[j]] < places[eliminated[i]]
            /\ \A p \in Players :
                  /\ places[p] = Cardinality({q \in Players : places[q] < places[p]})
                  /\ Won(owner, p) => places[p] = 0

\* The round cap cuts the game between rounds: at the step that reaches it no
\* battle is left open and every survivor has had exactly as many turns as
\* there were rounds.
CapCutsBetweenRounds ==
    [][ ~IsOver /\ IsOver' /\ (\A p \in Players : ~Won(owner', p)) =>
            /\ queued_attack' = None
            /\ \A p \in Players : Owns(owner', p) => turns_taken'[p] = MaxRounds ]_sessionVars

=============================================================================
