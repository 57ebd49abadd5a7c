----------------------------- MODULE BattleTable -----------------------------
(***************************************************************************)
(* What a whole battle is expected to leave (predict_battle_outcome.cpp),  *)
(* the table generated from it (predict_battle_outcome_gen.cpp), and the   *)
(* playouts' shortcut that resolves a battle with it in one step           *)
(* (risk_rollout_shortcuts.h).  Probabilities are exact: certainty is One, *)
(* a number that every product of dice odds met here divides.              *)
(***************************************************************************)
EXTENDS Integers, Sequences, FiniteSets, FiniteSetsExt, SequencesExt, TLC

CONSTANTS Battles,     \* the battles tried: <<attackers, defenders>>
          TableSize,   \* max_attackers and max_defenders of the table
          One,         \* certainty
          Grain        \* what divides the chance that a battle gets to <<a, d>>

VARIABLE battle      \* the battle being resolved, <<>> before there is one

(* get_probs: what each side may lose, at which odds. *)
get_probs(a, d) ==
    LET dice == <<Min({a, 3}), Min({d, 2})>>
        odds(of, outcomes) == {[a |-> o[1], d |-> o[2], chance |-> o[3], of |-> of] : o \in outcomes}
    IN  CASE dice = <<3, 2>> -> odds(7776, {<<0, 2, 2890>>, <<1, 1, 2611>>, <<2, 0, 2275>>})
          [] dice = <<2, 2>> -> odds(1296, {<<0, 2, 295>>, <<1, 1, 420>>, <<2, 0, 581>>})
          [] dice = <<1, 2>> -> odds(216, {<<0, 1, 55>>, <<1, 0, 161>>})
          [] dice = <<3, 1>> -> odds(1296, {<<0, 1, 855>>, <<1, 0, 441>>})
          [] dice = <<2, 1>> -> odds(216, {<<0, 1, 125>>, <<1, 0, 91>>})
          [] dice = <<1, 1>> -> odds(36, {<<0, 1, 15>>, <<1, 0, 21>>})

(* No chance of a battle of A against D is rounded. *)
Exact(A, D) ==
    /\ \A x \in (0..A) \X (0..D) : Grain[x] \in Nat \ {0} /\ One % Grain[x] = 0
    /\ \A a \in 1..A, d \in 1..D : \A p \in get_probs(a, d) :
          Grain[<<a, d>>] % (p.of * Grain[<<a - p.a, d - p.d>>]) = 0

ASSUME BattleTableAssumption ==
    /\ Battles \subseteq (Nat \ {0}) \X (Nat \ {0}) /\ TableSize \in Nat /\ One \in Nat \ {0}
    /\ \A b \in Battles : Exact(b[1], b[2]) /\ Exact(b[2], b[1])

BattleInit == battle = <<>>
BattleNext == battle = <<>> /\ battle' \in Battles

(***************************************************************************)
(* ComputeExpectedRemnants: dp holds three rows, row a in slot a % 3; each *)
(* row is worked through from its last column, and its slot is cleared.    *)
(***************************************************************************)
Spread(dp, a, d) ==
    LET share == [p \in get_probs(a, d) |-> (dp[a % 3][d] \div p.of) * p.chance]
        to(slot, column) == {p \in get_probs(a, d) : (a - p.a) % 3 = slot /\ d - p.d = column}
    IN  [slot \in 0..2 |-> [column \in DOMAIN dp[slot] |->
            dp[slot][column] + MapThenSumSet(LAMBDA p : share[p], to(slot, column))]]

Cell(state, a, d) ==
    LET here == state.dp[a % 3][d]
    IN  IF here = 0 THEN state
        ELSE IF a = 0 THEN [state EXCEPT !.d = @ + d * here]
        ELSE IF d = 0 THEN [state EXCEPT !.a = @ + a * here]
        ELSE [state EXCEPT !.dp = Spread(@, a, d)]

Cleared_Never(dp, a) == dp      \* mutant of Cleared
Cleared(dp, a) == [dp EXCEPT ![a % 3] = [d \in DOMAIN @ |-> 0]]

Row(state, a, last) ==
    LET after[i \in 0..last + 1] ==
            IF i = 0 THEN state ELSE Cell(after[i - 1], a, last + 1 - i)
    IN  [after[last + 1] EXCEPT !.dp = Cleared(@, a)]

Rounded_Down(x) == x \div One      \* mutant of Rounded
Rounded(x) == (2 * x + One) \div (2 * One)

Expectation(a, d) ==
    LET none == [column \in 0..d |-> 0]
        start == [slot \in 0..2 |-> IF slot = a % 3 THEN [none EXCEPT ![d] = One] ELSE none]
        after[i \in 0..a + 1] ==
            IF i = 0 THEN [dp |-> start, a |-> 0, d |-> 0] ELSE Row(after[i - 1], a + 1 - i, d)
    IN  after[a + 1]

ComputeExpectedRemnants(a, d) ==
    [a |-> Rounded(Expectation(a, d).a), d |-> Rounded(Expectation(a, d).d)]

(* The generated file: one inner array per number of defenders, indexed    *)
(* first by the attackers.                                                 *)
GeneratedTable ==
    [defenders \in 1..TableSize |->
        [attackers \in 1..TableSize |-> ComputeExpectedRemnants(attackers, defenders)]]

LookupExpectedRemnants(attackers, defenders) ==
    IF attackers \in 1..TableSize /\ defenders \in 1..TableSize
    THEN GeneratedTable[attackers][defenders]
    ELSE ComputeExpectedRemnants(attackers, defenders)

(* ResolveBattleWithExpectationInPlace: the two territories afterwards. *)
ResolveBattleWithExpectation(attackers, defenders) ==
    LET outcome == LookupExpectedRemnants(attackers, defenders)
    IN  IF outcome.a > outcome.d
        THEN [captured |-> TRUE, src |-> attackers + 1 - (attackers - outcome.a),
              tgt |-> outcome.a]
        ELSE [captured |-> FALSE, src |-> 1, tgt |-> outcome.d]

-----------------------------------------------------------------------------
(* The dice themselves: sorted rolls compared pairwise, ties to the        *)
(* defender, until one side has no army left.                              *)
Rolls(dice) == [1..dice -> 1..6]
DefenderLoses(r, s) ==
    LET best(roll) == SortSeq(roll, >)
    IN  Cardinality({i \in DOMAIN r \cap DOMAIN s : best(r)[i] > best(s)[i]})
Falls == [x \in (1..3) \X (1..2) |->
            [lost \in 0..2 |-> Cardinality({roll \in Rolls(x[1]) \X Rolls(x[2]) :
                                                DefenderLoses(roll[1], roll[2]) = lost})]]
Throws == [x \in (1..3) \X (1..2) |-> Cardinality(Rolls(x[1]) \X Rolls(x[2]))]

(* The odds that the code writes out are those of the dice: six finite     *)
(* counts.                                                                 *)
ASSUME DiceAssumption ==
    \A a \in 1..3, d \in 1..2 :
        get_probs(a, d) = {[a |-> Min({a, d}) - lost, d |-> lost, chance |-> Falls[<<a, d>>][lost],
                            of |-> Throws[<<a, d>>]] : lost \in 0..Min({a, d})}

(* What is left to a side on average, the attackers (1) or the defenders   *)
(* (2), in units of One.                                                   *)
Left(A, D, side) ==
    LET left[x \in (0..A) \X (0..D)] ==
            IF x[1] = 0 \/ x[2] = 0 THEN x[side] * One
            ELSE LET dice == <<Min({x[1], 3}), Min({x[2], 2})>>
                     pairs == Min({dice[1], dice[2]})
                     part == [lost \in 0..pairs |-> Falls[dice][lost] *
                                 (left[<<x[1] - (pairs - lost), x[2] - lost>>] \div Throws[dice])]
                 IN  MapThenSumSet(LAMBDA lost : part[lost], 0..pairs)
    IN  left[<<A, D>>]

(* The written-out odds and the three reused rows give exactly what        *)
(* rolling the dice to the end of the battle gives on average.             *)
ExpectationIsOfTheDice ==
    battle # <<>> =>
        LET e == Expectation(battle[1], battle[2])
        IN  e.a = Left(battle[1], battle[2], 1) /\ e.d = Left(battle[1], battle[2], 2)

(* Rounding never wipes out both sides: whichever way the shortcut resolves*)
(* a battle, both territories keep an army.                                *)
NobodyLeavesEmpty ==
    battle # <<>> =>
        LET after == ResolveBattleWithExpectation(battle[1], battle[2])
        IN  after.src >= 1 /\ after.tgt >= 1

(* "Expected remaining armies when fighting until one side is wiped out":  *)
(* the lookup returns what was computed for that battle.                   *)
TableIsComputed ==
    battle # <<>> =>
        LookupExpectedRemnants(battle[1], battle[2])
            = ComputeExpectedRemnants(battle[1], battle[2])
=============================================================================
