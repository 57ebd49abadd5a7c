--------------------------- MODULE RiskMatchProofs ---------------------------
(***************************************************************************)
(* The web match for every number of seats, every map, every person and    *)
(* outside seat and every order of calls: it implements MatchTurns, no     *)
(* person is left a battle to defend, and a refused call has at most       *)
(* placed the reserves.                                                    *)
(***************************************************************************)
EXTENDS RiskMatch, RiskSessionProofs

-----------------------------------------------------------------------------
(* What MatchTurns lets a call come to.                                    *)

\* Whether `now` and `error` are an outcome of cmd for one who was told t.
Due(t, cmd, now, error) ==
    \E effect \in Turns!Effects(t, cmd) : now = effect.to /\ error = (effect.outcome = "refused")

Made == {"place", "quick_setup", "attack", "fortify", "bot_step", "act"}
Refusable == {"place", "attack", "fortify", "act"}

LEMMA DueOver ==
    ASSUME NEW t, t.stage = "over", NEW cmd \in Made, NEW error \in BOOLEAN
    PROVE  Due(t, cmd, t, error)
<1>1. /\ [to |-> t, outcome |-> "refused"] \in Turns!Effects(t, cmd)
      /\ [to |-> t, outcome |-> "idle"] \in Turns!Effects(t, cmd)
  BY DEF Turns!Effects, Made
<1> QED
  BY <1>1 DEF Due

LEMMA DueRefused ==
    ASSUME NEW t, NEW cmd \in Refusable
    PROVE  Due(t, cmd, t, TRUE)
<1>1. [to |-> t, outcome |-> "refused"] \in Turns!Effects(t, cmd)
  BY DEF Turns!Effects, Refusable
<1> QED
  BY <1>1 DEF Due

LEMMA DueNothing ==
    ASSUME NEW t, NEW cmd, \/ cmd = "bot_step" /\ Turns!Phase(t) # "bot"
                           \/ cmd = "quick_setup" /\ t.stage = "playing"
    PROVE  Due(t, cmd, t, FALSE)
<1>1. [to |-> t, outcome |-> "idle"] \in Turns!Effects(t, cmd)
  BY DEF Turns!Effects
<1> QED
  BY <1>1 DEF Due

LEMMA DueSetup ==
    ASSUME NEW t, t.stage = "placing"
    PROVE  Due(t, "quick_setup", [seat |-> 0, stage |-> "playing"], FALSE)
<1>1. [to |-> [seat |-> 0, stage |-> "playing"], outcome |-> "played"]
          \in Turns!Effects(t, "quick_setup")
  BY DEF Turns!Effects
<1> QED
  BY <1>1 DEF Due

\* The seats a call may hand the turn to, and when it may be played at all.
HandsTo(cmd) ==
    CASE cmd = "place" -> {} [] cmd = "attack" -> {human} [] cmd = "fortify" -> Players \ {human}
      [] OTHER -> Players
PhaseOf(cmd) ==
    CASE cmd = "place" -> "place" [] cmd \in {"attack", "fortify"} -> "move"
      [] cmd = "act" -> "outside" [] OTHER -> "bot"

LEMMA DuePlayed ==
    ASSUME NEW t, NEW cmd \in {"place", "attack", "fortify", "act", "bot_step"},
           t.stage # "over", Turns!Phase(t) = PhaseOf(cmd), NEW u \in Turns!Moves(t, HandsTo(cmd))
    PROVE  Due(t, cmd, u, FALSE)
<1>1. Turns!Seats = Players
  BY DEF Turns!Seats, Players
<1>2. [to |-> u, outcome |-> "played"] \in Turns!Effects(t, cmd)
  BY <1>1 DEF Turns!Effects, HandsTo, PhaseOf
<1> QED
  BY <1>2 DEF Due

LEMMA AroundTheTable == \A p \in Players : SeatAfter(p) = (p + 1) % NumPlayers /\ SeatAfter(p) \in Players
<1> SUFFICES ASSUME NEW p \in Players
             PROVE  SeatAfter(p) = (p + 1) % NumPlayers /\ SeatAfter(p) \in Players
  OBVIOUS
<1>1. NumPlayers \in Nat /\ NumPlayers >= 2 /\ p \in 0 .. NumPlayers - 1
  BY SeatsAssumption DEF Players
<1>2. NumPlayers % NumPlayers = 0 /\ (p + 1 < NumPlayers => (p + 1) % NumPlayers = p + 1)
  BY <1>1
<1> QED
  BY <1>1, <1>2 DEF SeatAfter, Players

LEMMA PlacingMoves ==
    ASSUME NEW p \in Players, NEW seats, NEW stage \in {"placing", "playing"},
           stage = "playing" => p = NumPlayers - 1
    PROVE  [seat |-> SeatAfter(p), stage |-> stage]
              \in Turns!Moves([seat |-> p, stage |-> "placing"], seats)
  BY AroundTheTable DEF Turns!Moves

LEMMA PlayingMoves ==
    ASSUME NEW p, NEW seats
    PROVE  LET moves == Turns!Moves([seat |-> p, stage |-> "playing"], seats)
           IN  Turns!Over \in moves /\ \A q \in seats : [seat |-> q, stage |-> "playing"] \in moves
  BY DEF Turns!Moves

-----------------------------------------------------------------------------
(* What the rules do to whose turn it is, and to the end of the match.     *)

Stage == IF initial_placement THEN "placing" ELSE "playing"
Turn == [seat |-> current_player, stage |-> Stage]

LEMMA TurnNowIs == TurnNow = IF IsOver THEN Turns!Over ELSE Turn
  BY DEF TurnNow, Turn, Stage

LEMMA OverIsOver == /\ TurnNow.stage = "over" <=> IsOver
                    /\ TurnNow.stage = "playing" <=> ~IsOver /\ ~initial_placement
                    /\ TurnNow.stage = "placing" <=> ~IsOver /\ initial_placement
  BY DEF TurnNow, Turns!Over

\* Nobody wins while armies are still being dealt out.
LEMMA OverInPlay == IInv /\ IsOver => ~initial_placement
<1> SUFFICES ASSUME IInv, initial_placement PROVE ~IsOver
  OBVIOUS
<1>1. Rounds = 0
  BY DEF Rounds
<1>2. ASSUME NEW p \in Players, Won(owner, p) PROVE FALSE
  <2>1. {t \in Territories : owner[t] # Nobody} = Territories
    BY <1>2, SeatsAssumption DEF Won, Players, Nobody
  <2>2. NumPlayers <= num_initial_placements
    <3>1. Cardinality(Territories) = Min2(num_initial_placements, Cardinality(Territories))
      BY <2>1 DEF IInv, PlacementFair
    <3>2. Cardinality(Territories) \in Nat /\ num_initial_placements \in Nat
      BY MapAssumption, FS_CardinalityType DEF IInv, TypeOK
    <3> QED
      BY <3>1, <3>2, CoverAssumption, SeatsAssumption DEF Min2
  <2>3. turn_count # 0
    BY <2>2, SeatsAssumption DEF IInv, TypeOK, PlacementFair, Players, Nobody
  <2>4. \A q \in Players : Owns(owner, q)
    BY <2>3, SeatsAssumption DEF IInv, TypeOK, PlacementFair
  <2>5. PICK q \in Players : q # p
    BY SeatsAssumption DEF Players
  <2> QED
    BY <1>2, <2>4, <2>5 DEF Won, Owns, OwnedBy
<1> QED
  BY <1>1, <1>2, MaxRoundsAssumption DEF IsOver

\* A placement passes the turn on around the table, and does not end the match.
LEMMA PlacementPasses ==
    ASSUME IInv, IInv', NEW t \in Territories, InitialPlace(t)
    PROVE  /\ initial_placement /\ current_player \in Players
           /\ current_player' = SeatAfter(current_player)
           /\ queued_attack' = None /\ ~IsOver'
           /\ ~initial_placement' => current_player' = 0 /\ current_player = NumPlayers - 1
<1>1. /\ initial_placement /\ queued_attack' = None /\ Rounds' = 0
      /\ ~initial_placement' => current_player' = 0
  BY PlacementRounds
<1>2. current_player \in Players /\ current_player' = SeatAfter(current_player)
  BY <1>1 DEF IInv, TypeOK, BattleConsistent, InitialPlace
<1>3. current_player' = 0 => current_player = NumPlayers - 1
  BY <1>2, SeatsAssumption DEF SeatAfter, Players
<1>4. ~IsOver'
  <2>1. CASE initial_placement'
    <3>1. IInv' /\ IsOver' => ~initial_placement'
      BY OverInPlay, PTL
    <3> QED
      BY <2>1, <3>1
  <2>2. CASE ~initial_placement'
    <3>1. \A p \in Players : Owns(owner', p)
      BY <2>2, AllStart
    <3>2. \A p \in Players : \E q \in Players : q # p
      BY SeatsAssumption DEF Players
    <3>3. \A p \in Players : ~Won(owner', p)
      BY <3>1, <3>2 DEF Won, Owns, OwnedBy
    <3> QED
      BY <1>1, <3>3, MaxRoundsAssumption DEF IsOver
  <2> QED
    BY <2>1, <2>2
<1> QED
  BY <1>1, <1>2, <1>3, <1>4

LEMMA PlayStaysPlay == Play /\ ~initial_placement => ~initial_placement' /\ UNCHANGED placement
  BY DEF Play, InitialPlace, ValidInitialPlace, PlayerAction, ValidPlayerAction, QueueDefense,
         ValidDefense, RollDice, Fortify, placement

\* A match that is over stays over, whatever is played after it.
LEMMA OverStays == IInv /\ Play /\ IsOver => IsOver'
<1> SUFFICES ASSUME IInv, Play, IsOver PROVE IsOver'
  OBVIOUS
<1>1. ~initial_placement /\ ~initial_placement' /\ UNCHANGED placement
  BY OverInPlay, PlayStaysPlay
<1>2. ASSUME NEW p \in Players, Won(owner, p) PROVE Won(owner', p)
  <2>1. CASE owner' = owner
    BY <1>2, <2>1
  <2>2. CASE owner' # owner
    <3>1. PICK r \in Rolls(3), s \in Rolls(2) : RollDice(r, s)
      BY <1>1, <2>2, OnlyDiceConquer
    <3>2. /\ queued_attack \in QueueAttackActions
          /\ owner[queued_attack.source] # owner[queued_attack.target]
      BY <3>1 DEF RollDice, IInv, TypeOK, ActionRecord, BattleConsistent
    <3> QED
      BY <1>2, <3>2 DEF Won, QueueAttackActions
  <2> QED
    BY <2>1, <2>2
<1>3. Rounds' >= Rounds
  <2>1. turn_count' >= turn_count
    BY <1>1 DEF Play, InitialPlace, ValidInitialPlace, PlayerAction, ValidPlayerAction,
                QueueDefense, ValidDefense, RollDice, Fortify, FortifyToMoveUnits, NextPlayer, IInv, TypeOK
  <2>2. turn_count \in Nat /\ turn_count' \in Nat
    BY PlayIInv DEF IInv, TypeOK
  <2>3. num_initial_placements \div NumPlayers \in Int
    BY RoundsType
  <2> QED
    BY <1>1, <2>1, <2>2, <2>3 DEF Rounds, placement
<1>4. Rounds \in Int /\ Rounds' \in Int
  <2>1. IInv'
    BY PlayIInv
  <2>2. (num_initial_placements \div NumPlayers)' \in Int
    BY <2>1, SeatsAssumption DEF IInv, TypeOK
  <2>3. turn_count' \in Int
    BY <2>1 DEF IInv, TypeOK
  <2> QED
    BY <2>2, <2>3, RoundsType DEF Rounds
<1> QED
  BY <1>2, <1>3, <1>4, MaxRoundsAssumption DEF IsOver

-----------------------------------------------------------------------------
(* The invariant of the calls.                                             *)

MatchTypes ==
    /\ human \in Players /\ outside \in Players \cup {-1} /\ outside # human
    /\ call # None =>
          /\ call \in Calls /\ call.cmd \in Made
          /\ call.cmd \in {"attack", "fortify"} =>
                call.source \in Territories /\ call.target \in Territories
          /\ call.cmd = "attack" => call.move \in ConquestMoves
          /\ call.at # "start"
          /\ call.at = "setup" => call.cmd = "quick_setup"
          /\ call.at \in {"attack", "defend"} => call.cmd = "attack"
          /\ call.at = "fortify" => call.cmd = "fortify"

\* An answer said once that the match was over: it still is.
ToldTrue ==
    /\ told \in [seat : Players, stage : {"placing", "playing"}] \cup {Turns!Over}
    /\ told.stage = "over" => IsOver

\* Nobody waits for chance, and no defence for someone who need not be asked.
Quiet ==
    ~IsOver => current_player # Nobody /\ (queued_attack # None => ~DefendsItself)

\* The answer, were it given now, is one of those due.
AnswerDue == Due(told, call.cmd, TurnNow, call.error)

Ready == AnswerDue /\ Quiet /\ (call.error => call.applied # "more")

\* While the armies are dealt out for the person.
SetupHolds ==
    /\ ~call.error
    /\ told.stage # "placing" => TurnNow = told /\ Quiet
    /\ told.stage = "placing" /\ ~initial_placement =>
           TurnNow = [seat |-> 0, stage |-> "playing"] /\ Quiet

\* Before the attack or the march itself: a blitz that goes on cannot be refused.
MoveHolds ==
    /\ Quiet /\ ~call.error /\ TurnNow = told /\ ~initial_placement /\ current_player = human
    /\ call.applied = "more" =>
          /\ call.at = "attack" /\ queued_attack = None
          /\ owner[call.source] = human /\ owner[call.target] # human
          /\ call.target \in Neighbors[call.source]
          /\ units[call.source] > 1

\* The person's own battle, from the attack to the dice.
BattleHolds ==
    /\ ~call.error /\ ~initial_placement
    /\ owner[call.source] = human /\ call.target \in Neighbors[call.source]
    /\ told # Turns!Over => told = [seat |-> human, stage |-> "playing"]
    /\ queued_attack # None =>
          /\ queued_attack.source = call.source /\ queued_attack.target = call.target
          /\ call.at = "settle" /\ ~IsOver => queued_defense # NoDefense
    /\ queued_attack = None =>
          /\ call.at = "settle" /\ current_player = human
          /\ IsOver => owner[call.target] = human

\* A policy's own move, until nobody waits for the dice.
PolicyHolds ==
    /\ call.cmd \in {"bot_step", "act"} /\ ~call.error
    /\ told.stage = "playing" /\ ~initial_placement /\ Turns!Phase(told) = PhaseOf(call.cmd)

Progress ==
    /\ call = None => told = TurnNow /\ Quiet
    /\ call # None =>
          /\ call.at = "answer" => Ready
          /\ call.at = "setup" => SetupHolds
          /\ call.at \in {"attack", "fortify"} => MoveHolds
          /\ call.at = "defend" => BattleHolds /\ queued_attack # None
          /\ call.at = "settle" => IF call.cmd = "attack" THEN BattleHolds ELSE Ready \/ PolicyHolds

MatchInv == MatchTypes /\ ToldTrue /\ Progress

-----------------------------------------------------------------------------
(* Why an answer is one of those due.                                      *)

Reason ==
    /\ call.cmd \in Made /\ call.error \in BOOLEAN
    /\ \/ told.stage = "over" /\ TurnNow = told
       \/ call.cmd \in Refusable /\ call.error /\ TurnNow = told
       \/ /\ ~call.error /\ TurnNow = told
          /\ \/ call.cmd = "bot_step" /\ Turns!Phase(told) # "bot"
             \/ call.cmd = "quick_setup" /\ told.stage = "playing"
       \/ /\ ~call.error /\ call.cmd = "quick_setup" /\ told.stage = "placing"
          /\ TurnNow = [seat |-> 0, stage |-> "playing"]
       \/ /\ ~call.error /\ call.cmd # "quick_setup" /\ told.stage # "over"
          /\ Turns!Phase(told) = PhaseOf(call.cmd) /\ TurnNow \in Turns!Moves(told, HandsTo(call.cmd))

LEMMA ReasonIsDue == Reason => AnswerDue
<1> SUFFICES ASSUME Reason PROVE Due(told, call.cmd, TurnNow, call.error)
  BY DEF AnswerDue
<1> DEFINE now == TurnNow
           cmd == call.cmd
           error == call.error
<1>1. /\ cmd \in Made /\ error \in BOOLEAN
      /\ \/ told.stage = "over" /\ now = told
         \/ cmd \in Refusable /\ error = TRUE /\ now = told
         \/ /\ error = FALSE /\ now = told
            /\ \/ cmd = "bot_step" /\ Turns!Phase(told) # "bot"
               \/ cmd = "quick_setup" /\ told.stage = "playing"
         \/ /\ error = FALSE /\ cmd = "quick_setup" /\ told.stage = "placing"
            /\ now = [seat |-> 0, stage |-> "playing"]
         \/ /\ error = FALSE /\ cmd # "quick_setup" /\ told.stage # "over"
            /\ Turns!Phase(told) = PhaseOf(cmd) /\ now \in Turns!Moves(told, HandsTo(cmd))
  BY DEF Reason
<1> HIDE DEF now, cmd, error
<1>2. Due(told, cmd, now, error)
  <2>1. CASE told.stage = "over" /\ now = told
    BY <1>1, <2>1, DueOver
  <2>2. CASE cmd \in Refusable /\ error = TRUE /\ now = told
    BY <2>2, DueRefused
  <2>3. CASE /\ error = FALSE /\ now = told
             /\ \/ cmd = "bot_step" /\ Turns!Phase(told) # "bot"
                \/ cmd = "quick_setup" /\ told.stage = "playing"
    BY <2>3, DueNothing
  <2>4. CASE /\ error = FALSE /\ cmd = "quick_setup" /\ told.stage = "placing"
             /\ now = [seat |-> 0, stage |-> "playing"]
    BY <2>4, DueSetup
  <2>5. CASE /\ error = FALSE /\ cmd # "quick_setup" /\ told.stage # "over"
             /\ Turns!Phase(told) = PhaseOf(cmd) /\ now \in Turns!Moves(told, HandsTo(cmd))
    <3>1. cmd \in {"place", "attack", "fortify", "act", "bot_step"}
      BY <1>1, <2>5 DEF Made
    <3> QED
      BY <2>5, <3>1, DuePlayed
  <2> QED
    BY <1>1, <2>1, <2>2, <2>3, <2>4, <2>5
<1> QED
  BY <1>2 DEF now, cmd, error

LEMMA ReasonNext == Reason' => AnswerDue'
  BY ReasonIsDue, PTL

\* Where nothing is played, everything said of the match stays true.
LEMMA NothingMoves ==
    UNCHANGED <<sessionVars, settings>> =>
        TurnNow' = TurnNow /\ IsOver' = IsOver /\ Quiet' = Quiet
  BY DEF sessionVars, roundVars, vars, board, placement, turn, battle, settings, TurnNow, IsOver,
         Won, Rounds, Quiet, DefendsItself, Turns!Over

-----------------------------------------------------------------------------
(* The match only ever plays the rules.                                    *)

LEMMA FullDefensePlays == IInv /\ FullDefense => Play
<1> SUFFICES ASSUME IInv, FullDefense PROVE Play
  OBVIOUS
<1>1. queued_attack # None
  BY DEF FullDefense, QueueDefense, ValidDefense
<1>2. /\ queued_attack.target \in Territories
      /\ owner[queued_attack.target] # Nobody
  BY <1>1, SeatsAssumption
  DEF IInv, TypeOK, ActionRecord, QueueAttackActions, BattleConsistent, Players, Nobody
<1>3. units[queued_attack.target] \in Nat /\ units[queued_attack.target] # 0
  BY <1>2, NumbersAssumption DEF IInv, TypeOK, Garrisoned
<1>4. Min2(2, units[queued_attack.target]) \in 1 .. 2
  BY <1>3 DEF Min2
<1> QED
  BY <1>4 DEF FullDefense, Play

LEMMA BotPlays == IInv /\ BotAction => Play
  BY FullDefensePlays, NextIsPlay DEF BotAction

\* The attack of a call, when it is one the rules allow.
LEMMA AttackPlays ==
    ASSUME IInv, MatchTypes, call # None, call.cmd = "attack",
           NEW dice, dice = Min2(3, units[call.source] - 1), dice >= 1
    PROVE  [source |-> call.source, target |-> call.target, dice |-> dice, move |-> call.move]
              \in QueueAttackActions
<1>1. call.source \in Territories /\ call.target \in Territories /\ call.move \in ConquestMoves
  BY DEF MatchTypes
<1>2. units[call.source] \in Int
  BY <1>1, NumbersAssumption DEF IInv, TypeOK
<1>3. dice \in 1 .. 3
  BY <1>2 DEF Min2
<1> QED
  BY <1>1, <1>3 DEF QueueAttackActions

LEMMA AttackStepPlays ==
    IInv /\ MatchTypes /\ AttackStep => (Play /\ CountTurn /\ OnStep) \/ UNCHANGED sessionVars
<1> SUFFICES ASSUME IInv, MatchTypes, AttackStep, ~UNCHANGED sessionVars
             PROVE  Play /\ CountTurn /\ OnStep
  OBVIOUS
<1> DEFINE attack == [source |-> call.source, target |-> call.target,
                      dice |-> Min2(3, units[call.source] - 1), move |-> call.move]
<1>1. /\ call # None /\ call.at = "attack" /\ attack.dice >= 1 /\ ValidAttack(attack)
      /\ PlayerAction(NoReinforcement, attack) /\ CountTurn /\ OnStep
  BY DEF AttackStep, At, Apply, Refuse, NothingDone
<1>2. call.cmd = "attack"
  BY <1>1 DEF MatchTypes
<1>3. attack \in QueueAttackActions
  BY <1>1, <1>2, AttackPlays
<1> HIDE DEF attack
<1> QED
  BY <1>1, <1>3 DEF Play

LEMMA MatchPlays ==
    IInv /\ MatchTypes /\ MatchNext => (Play /\ CountTurn /\ OnStep) \/ UNCHANGED sessionVars
<1> SUFFICES ASSUME IInv, MatchTypes, MatchNext
             PROVE  (Play /\ CountTurn /\ OnStep) \/ UNCHANGED sessionVars
  OBVIOUS
<1>1. CASE NewCallMade
  <2>1. ASSUME NEW t \in Territories, Place(t)
        PROVE  (Play /\ CountTurn /\ OnStep) \/ UNCHANGED sessionVars
    BY <2>1 DEF Place, Apply, Refuse, NothingDone, Play
  <2>2. ASSUME NEW c, NEW place \in Offers, Move(c, place)
        PROVE  (Play /\ CountTurn /\ OnStep) \/ UNCHANGED sessionVars
    <3>1. place \in {NoReinforcement} \cup {p \in Placements : ValidReinforcement(p)}
      BY DEF Offers
    <3> QED
      BY <2>2, <3>1 DEF Move, Apply, Refuse, NothingDone, Play
  <2>3. CASE QuickSetup
    BY <2>3 DEF QuickSetup, NothingDone
  <2>4. CASE BotStep \/ Act
    BY <2>4, BotPlays, NextIsPlay DEF BotStep, Act, Apply, Refuse, NothingDone
  <2> QED
    BY <1>1, <2>1, <2>2, <2>3, <2>4 DEF NewCallMade
<1>2. CASE SetupStep
  BY <1>2 DEF SetupStep, Apply, GoOn, Play
<1>3. CASE AttackStep
  BY <1>3, AttackStepPlays
<1>4. CASE DefendStep
  BY <1>4, BotPlays DEF DefendStep, Apply, GoOn
<1>5. CASE FortifyStep
  <2>1. CASE /\ PlayerToMove /\ ValidFortify(call.source, call.target, call.num)
    <3>1. call # None /\ call.cmd = "fortify"
      BY <1>5 DEF FortifyStep, At, MatchTypes
    <3>2. call \in Calls /\ call.source \in Territories /\ call.target \in Territories
      BY <3>1 DEF MatchTypes
    <3>3. call.num = 0 \/ call.num \in Retreats
      BY <3>2 DEF Calls
    <3>4. call.num \in Int
      <4>1. Retreats \subseteq Int
        BY MatchAssumption
      <4>2. CASE call.num = 0
        BY <4>2
      <4>3. CASE call.num \in Retreats
        BY <4>1, <4>3
      <4> QED
        BY <3>3, <4>2, <4>3
    <3>5. Fortify(call.source, call.target, call.num) /\ CountTurn /\ OnStep
      BY <1>5, <2>1 DEF FortifyStep, Apply
    <3>6. PICK source \in Territories, target \in Territories, num \in Int :
             source = call.source /\ target = call.target /\ num = call.num
      BY <3>2, <3>4
    <3>7. Fortify(source, target, num)
      BY <3>5, <3>6 DEF Fortify, FortifyToMoveUnits, ValidFortify
    <3>8. Play
      BY <3>7 DEF Play
    <3> QED
      BY <3>5, <3>8
  <2> QED
    BY <1>5, <2>1 DEF FortifyStep, Refuse, NothingDone
<1>6. CASE SettleStep
  BY <1>6, FullDefensePlays DEF SettleStep, Apply, GoOn, Play
<1>7. CASE Answer
  BY <1>7 DEF Answer
<1> QED
  BY <1>1, <1>2, <1>3, <1>4, <1>5, <1>6, <1>7 DEF MatchNext, Step

LEMMA SettingsStay == MatchNext => UNCHANGED settings
  BY DEF MatchNext, NewCallMade, Step, Answer

LEMMA EngineKept == IInv /\ MatchTypes /\ MatchNext => IInv'
<1>1. IInv /\ UNCHANGED sessionVars => IInv'
  BY NextIInv DEF sessionVars, roundVars
<1> QED
  BY <1>1, MatchPlays, PlayIInv

\* Once the match is over it is over for good, whoever still calls.
LEMMA StaysOver == IInv /\ MatchTypes /\ MatchNext /\ IsOver => IsOver'
  BY MatchPlays, OverStays, NothingMoves, SettingsStay

\* A call of cmd, before it has done anything.
NewCallIs(cmd, c) ==
    /\ c \in Calls /\ c.cmd = cmd /\ cmd \in Made /\ c.error = FALSE /\ c.applied = "nothing"
    /\ cmd \in {"attack", "fortify"} => c.source \in Territories /\ c.target \in Territories
    /\ cmd = "attack" => c.move \in ConquestMoves

LEMMA NewCallTyped ==
    ASSUME NEW cmd \in {"place", "quick_setup", "bot_step", "act"}
    PROVE  NewCallIs(cmd, NewCall(cmd))
  BY DEF NewCall, NewCallIs, Calls, Made, Turns!Commands

\* Wherever the head of a call leaves it.
LEMMA NewCallMoves ==
    ASSUME MatchTypes, UNCHANGED settings, NEW c, NEW cmd, NewCallIs(cmd, c), cmd # "quick_setup",
           \/ Settles(c) \/ Refuse(c)
           \/ call' = [c EXCEPT !.at = "settle"]
           \/ call' = [c EXCEPT !.at = "settle", !.error = TRUE]
           \/ cmd \in {"attack", "fortify"} /\ call' = [c EXCEPT !.at = c.cmd]
           \/ cmd \in {"attack", "fortify"} /\ call' = [c EXCEPT !.at = c.cmd, !.applied = "reserves"]
    PROVE  MatchTypes'
<1>1. call' \in Calls /\ call'.cmd = cmd /\ call'.source = c.source /\ call'.target = c.target
      /\ call'.move = c.move /\ call'.at \in {"settle", "answer"} \cup ({cmd} \cap {"attack", "fortify"})
  BY DEF NewCallIs, Settles, Refuse, NothingDone, Calls
<1> QED
  BY <1>1 DEF NewCallIs, MatchTypes, settings

LEMMA CallTypes == MatchTypes /\ MatchNext => MatchTypes'
<1> SUFFICES ASSUME MatchTypes, MatchNext PROVE MatchTypes'
  OBVIOUS
<1>0. UNCHANGED settings
  BY SettingsStay
<1>1. CASE NewCallMade
  <2>2. ASSUME NEW t \in Territories, Place(t) PROVE MatchTypes'
    <3>1. NewCallIs("place", NewCall("place"))
      BY NewCallTyped
    <3> QED
      BY <1>0, <2>2, <3>1, NewCallMoves DEF Place
  <2>3. CASE QuickSetup
    <3>1. NewCallIs("quick_setup", NewCall("quick_setup"))
      BY NewCallTyped
    <3>2. call' = [NewCall("quick_setup") EXCEPT !.at = "setup"]
      BY <2>3 DEF QuickSetup, NothingDone
    <3> QED
      BY <1>0, <3>1, <3>2 DEF NewCallIs, MatchTypes, settings, Made, Calls
  <2>4. CASE BotStep
    <3>1. NewCallIs("bot_step", NewCall("bot_step"))
      BY NewCallTyped
    <3> QED
      BY <1>0, <2>4, <3>1, NewCallMoves DEF BotStep, NothingDone
  <2>5. CASE Act
    <3>1. NewCallIs("act", NewCall("act"))
      BY NewCallTyped
    <3> QED
      BY <1>0, <2>5, <3>1, NewCallMoves DEF Act, NothingDone
  <2>6. ASSUME NEW source \in Territories, NEW target \in Territories, NEW place, NEW blitz \in BOOLEAN,
               NEW move \in ConquestMoves,
               Move([NewCall("attack") EXCEPT !.source = source, !.target = target,
                                              !.blitz = blitz, !.move = move], place)
        PROVE  MatchTypes'
    <3> DEFINE c == [NewCall("attack") EXCEPT !.source = source, !.target = target,
                                              !.blitz = blitz, !.move = move]
    <3>1. /\ NewCallIs("attack", c) /\ c.move = move
          /\ c.source \in Territories /\ c.target \in Territories
      BY DEF NewCall, Calls, NewCallIs, Made, Turns!Commands
    <3>2. Move(c, place)
      BY <2>6
    <3> HIDE DEF c
    <3>3. \/ Refuse(c)
          \/ call' = [c EXCEPT !.at = c.cmd]
          \/ call' = [c EXCEPT !.at = c.cmd, !.applied = "reserves"]
      BY <3>2 DEF Move, NothingDone
    <3> QED
      BY <1>0, <3>1, <3>3, NewCallMoves
  <2>7. ASSUME NEW source \in Territories, NEW target \in Territories, NEW place, NEW num \in Retreats,
               Move([NewCall("fortify") EXCEPT !.source = source, !.target = target, !.num = num], place)
        PROVE  MatchTypes'
    <3> DEFINE c == [NewCall("fortify") EXCEPT !.source = source, !.target = target, !.num = num]
    <3>1. /\ NewCallIs("fortify", c)
          /\ c.source \in Territories /\ c.target \in Territories
      BY DEF NewCall, Calls, NewCallIs, Made, Turns!Commands
    <3>2. Move(c, place)
      BY <2>7
    <3> HIDE DEF c
    <3>3. \/ Refuse(c)
          \/ call' = [c EXCEPT !.at = c.cmd]
          \/ call' = [c EXCEPT !.at = c.cmd, !.applied = "reserves"]
      BY <3>2 DEF Move, NothingDone
    <3> QED
      BY <1>0, <3>1, <3>3, NewCallMoves
  <2> QED
    BY <1>1, <2>2, <2>3, <2>4, <2>5, <2>6, <2>7 DEF NewCallMade
<1>2. CASE SetupStep
  <2>1. call' = [call EXCEPT !.applied = "more"] \/ call' = [call EXCEPT !.at = "settle"]
    BY <1>2 DEF SetupStep, GoOn
  <2>2. call # None /\ call.at = "setup"
    BY <1>2 DEF SetupStep, At
  <2> QED
    BY <1>0, <2>1, <2>2 DEF MatchTypes, settings, Calls
<1>3. CASE AttackStep
  <2>1. \/ call' = [call EXCEPT !.at = "defend", !.applied = "more"]
        \/ call' = [call EXCEPT !.at = "answer", !.error = TRUE]
    BY <1>3 DEF AttackStep, Refuse, NothingDone
  <2>2. call # None /\ call.at = "attack"
    BY <1>3 DEF AttackStep, At
  <2> QED
    BY <1>0, <2>1, <2>2 DEF MatchTypes, settings, Calls
<1>4. CASE DefendStep
  <2>1. call' = call \/ call' = [call EXCEPT !.at = "settle"]
    BY <1>4 DEF DefendStep, GoOn
  <2>2. call # None
    BY <1>4 DEF DefendStep, At
  <2> QED
    BY <1>0, <2>1, <2>2 DEF MatchTypes, settings, Calls
<1>5. CASE FortifyStep
  <2>1. \/ call' = [call EXCEPT !.at = "settle", !.applied = "more"]
        \/ call' = [call EXCEPT !.at = "answer", !.error = TRUE]
    BY <1>5 DEF FortifyStep, Settles, Refuse, NothingDone
  <2>2. call # None
    BY <1>5 DEF FortifyStep, At
  <2> QED
    BY <1>0, <2>1, <2>2 DEF MatchTypes, settings, Calls
<1>6. CASE SettleStep
  <2>1. \/ UNCHANGED call
        \/ \E step \in {"attack", "answer"} :
              (step = "attack" => call.cmd = "attack") /\ call' = [call EXCEPT !.at = step]
    BY <1>6 DEF SettleStep, GoOn, BlitzGoesOn
  <2>2. call # None
    BY <1>6 DEF SettleStep, At
  <2>3. CASE UNCHANGED call
    BY <1>0, <2>3 DEF MatchTypes, settings
  <2>4. ASSUME NEW step \in {"attack", "answer"}, step = "attack" => call.cmd = "attack",
               call' = [call EXCEPT !.at = step]
        PROVE  MatchTypes'
    BY <1>0, <2>2, <2>4 DEF MatchTypes, settings, Calls
  <2> QED
    BY <2>1, <2>3, <2>4
<1>7. CASE Answer
  BY <1>0, <1>7 DEF Answer, MatchTypes, settings
<1> QED
  BY <1>1, <1>2, <1>3, <1>4, <1>5, <1>6, <1>7 DEF MatchNext, Step

LEMMA ToldStep == IInv /\ MatchInv /\ MatchNext => ToldTrue'
<1> SUFFICES ASSUME IInv, MatchInv, MatchNext PROVE ToldTrue'
  OBVIOUS
<1>1. CASE UNCHANGED told
  BY <1>1, StaysOver DEF MatchInv, ToldTrue
<1>2. CASE Answer
  <2>1. TurnNow \in [seat : Players, stage : {"placing", "playing"}] \cup {Turns!Over}
    <3>1. ~IsOver => current_player \in Players
      BY <1>2 DEF Answer, At, MatchInv, Progress, Ready, Quiet, IInv, TypeOK
    <3> QED
      BY <3>1 DEF TurnNow
  <2>2. told' = TurnNow /\ IsOver' = IsOver
    BY <1>2, NothingMoves DEF Answer
  <2> QED
    BY <2>1, <2>2, OverIsOver DEF ToldTrue
<1> QED
  BY <1>1, <1>2 DEF MatchNext, NewCallMade, Step, answers

-----------------------------------------------------------------------------
(* The end of a call.                                                      *)

LEMMA ReadyNext ==
    Reason' /\ Quiet' /\ (call'.error => call'.applied # "more") => Ready'
  BY ReasonNext DEF Ready

\* A call made of a match that was over has nothing to say.
ToldOver == MatchTypes /\ ToldTrue /\ call # None /\ told.stage = "over"

LEMMA OverReason == ToldOver => Reason /\ Quiet
<1> SUFFICES ASSUME MatchTypes, ToldTrue, call # None, told.stage = "over" PROVE Reason /\ Quiet
  BY DEF ToldOver
<1>1. told = Turns!Over /\ IsOver
  BY DEF ToldTrue
<1>2. call.cmd \in Made /\ call.error \in BOOLEAN
  BY DEF MatchTypes, Calls
<1> QED
  BY <1>1, <1>2 DEF Reason, Quiet, TurnNow

LEMMA OverReady ==
    MatchTypes' /\ ToldTrue' /\ call' # None /\ told'.stage = "over"
        /\ (call'.error => call'.applied # "more") => Ready'
<1>1. ToldOver' => Reason' /\ Quiet'
  BY OverReason, PTL
<1> QED
  BY <1>1, ReadyNext DEF ToldOver

\* A refused call leaves the turn where it was told to be.
LEMMA RefusedReady ==
    ASSUME MatchTypes', call' # None, call'.cmd \in Refusable, call'.error = TRUE,
           call'.applied # "more", TurnNow' = told', Quiet'
    PROVE  Ready'
<1>1. Reason'
  BY DEF Reason, Refusable, Made
<1> QED
  BY <1>1, ReadyNext

LEMMA PlayedReady ==
    ASSUME MatchTypes', call' # None, call'.cmd # "quick_setup", call'.error = FALSE,
           told'.stage # "over", Turns!Phase(told)' = PhaseOf(call.cmd)',
           TurnNow' \in Turns!Moves(told, HandsTo(call.cmd))', Quiet'
    PROVE  Ready'
<1>1. call'.cmd \in Made
  BY DEF MatchTypes
<1>2. Reason'
  BY <1>1 DEF Reason
<1> QED
  BY <1>2, ReadyNext

\* An army dealt out, by whoever's turn it was to place one.
LEMMA PlacedReady ==
    ASSUME IInv, IInv', MatchTypes, MatchTypes', UNCHANGED <<settings, told>>, told = TurnNow,
           NEW t \in Territories, InitialPlace(t), call' # None,
           call'.cmd # "quick_setup", call'.error = FALSE,
           Turns!Phase(told) = PhaseOf(call'.cmd)
    PROVE  Ready'
<1>1. /\ initial_placement /\ current_player \in Players
      /\ current_player' = SeatAfter(current_player)
      /\ queued_attack' = None /\ ~IsOver'
      /\ ~initial_placement' => current_player' = 0 /\ current_player = NumPlayers - 1
  BY PlacementPasses
<1>2. told = [seat |-> current_player, stage |-> "placing"]
  BY <1>1, OverInPlay DEF TurnNow
<1>3. TurnNow' = [seat |-> SeatAfter(current_player), stage |-> Stage']
  BY <1>1 DEF TurnNow, Stage
<1>4. Stage' \in {"placing", "playing"} /\ (Stage' = "playing" => current_player = NumPlayers - 1)
  BY <1>1 DEF Stage
<1>5. \A seats : TurnNow' \in Turns!Moves(told, seats)
  <2> DEFINE p == current_player
             stage == Stage'
  <2>1. p \in Players /\ stage \in {"placing", "playing"} /\ (stage = "playing" => p = NumPlayers - 1)
    BY <1>1, <1>4
  <2>2. /\ TurnNow' = [seat |-> SeatAfter(p), stage |-> stage]
        /\ told = [seat |-> p, stage |-> "placing"]
    BY <1>2, <1>3
  <2> HIDE DEF p, stage
  <2> QED
    BY <2>1, <2>2, PlacingMoves
<1>6. TurnNow' \in Turns!Moves(told, HandsTo(call.cmd))'
  BY <1>5 DEF Turns!Moves
<1>7. Quiet'
  BY <1>1, AroundTheTable, SeatsAssumption DEF Quiet, Players, Nobody
<1>8. Turns!Phase(told)' = PhaseOf(call.cmd)' /\ told'.stage # "over"
  BY <1>2 DEF Turns!Phase, PhaseOf, settings
<1> QED
  BY <1>6, <1>7, <1>8, PlayedReady

-----------------------------------------------------------------------------
(* The calls, one by one.                                                  *)

\* Between two calls: what the answer said is how it is.
LEMMA AtRest ==
    ASSUME MatchInv, call = None
    PROVE  /\ told = TurnNow /\ Quiet /\ (told.stage = "over" <=> IsOver)
           /\ ~IsOver => /\ told = [seat |-> current_player, stage |-> Stage]
                         /\ current_player # Nobody
                         /\ queued_attack # None => ~DefendsItself
<1>1. told = TurnNow /\ Quiet
  BY DEF MatchInv, Progress
<1> QED
  BY <1>1, OverIsOver DEF TurnNow, Stage, Quiet

\* A call that is refused before it has played anything.
LEMMA RefusedAtOnce ==
    ASSUME MatchInv, MatchTypes', call = None, UNCHANGED <<settings, told>>,
           NEW c, NEW cmd \in Refusable, NewCallIs(cmd, c),
           Refuse(c) \/ NothingDone([c EXCEPT !.at = "settle", !.error = TRUE])
    PROVE  Ready' /\ call' # None /\ call'.cmd = cmd /\ call'.at \in {"answer", "settle"}
<1>1. UNCHANGED sessionVars /\ call'.cmd = cmd /\ call'.error = TRUE /\ call'.applied = "nothing"
      /\ call' \in Calls /\ call'.at \in {"answer", "settle"}
  BY DEF Refuse, NothingDone, NewCallIs, Calls
<1>2. call' # None
  BY <1>1, MatchAssumption
<1>3. TurnNow' = told' /\ Quiet'
  BY <1>1, AtRest, NothingMoves
<1> QED
  BY <1>1, <1>2, <1>3, RefusedReady

\* Policies and the other module: their action, played on the way.
LEMMA PolicyPlays ==
    ASSUME IInv, IInv', MatchInv, MatchTypes', ToldTrue', call = None, UNCHANGED <<settings, told>>,
           Play, NEW cmd \in {"bot_step", "act"}, Settles(NewCall(cmd)),
           IsOver \/ Turns!Phase(told) = PhaseOf(cmd)
    PROVE  Progress'
<1>1. call'.cmd = cmd /\ call'.at = "settle" /\ call'.error = FALSE /\ call'.applied = "more"
      /\ call' # None
  <2>1. NewCallIs(cmd, NewCall(cmd))
    BY NewCallTyped
  <2>2. call' = [NewCall(cmd) EXCEPT !.at = "settle", !.applied = "more"]
    BY DEF Settles
  <2> QED
    BY <2>1, <2>2, MatchAssumption DEF NewCallIs, Calls
<1>2. CASE IsOver
  BY <1>1, <1>2, AtRest, OverReady DEF Progress
<1>3. CASE ~IsOver /\ initial_placement
  <2>1. PICK t \in Territories : InitialPlace(t)
    BY <1>3 DEF Play, PlayerAction, ValidPlayerAction, PlayerToMove, QueueDefense,
                ValidDefense, RollDice, Fortify, IInv, BattleConsistent
  <2>2. Turns!Phase(told) = PhaseOf(call'.cmd)
    BY <1>1, <1>3
  <2>3. Ready'
    BY <1>1, <2>1, <2>2, AtRest, PlacedReady DEF MatchInv
  <2> QED
    BY <1>1, <2>3 DEF Progress
<1>4. CASE ~IsOver /\ ~initial_placement
  <2>1. told'.stage = "playing"
    BY <1>4, AtRest DEF Stage
  <2>2. ~initial_placement'
    BY <1>4, PlayStaysPlay
  <2>3. Turns!Phase(told)' = PhaseOf(call.cmd)'
    BY <1>1, <1>4 DEF Turns!Phase, PhaseOf, settings
  <2>4. PolicyHolds'
    BY <1>1, <2>1, <2>2, <2>3 DEF PolicyHolds
  <2> QED
    BY <1>1, <2>4 DEF Progress
<1> QED
  BY <1>2, <1>3, <1>4

LEMMA PlaceProgress ==
    ASSUME IInv, IInv', MatchInv, MatchTypes', ToldTrue', call = None, UNCHANGED <<settings, told>>,
           NEW t \in Territories, Place(t)
    PROVE  Progress'
<1>1. NewCallIs("place", NewCall("place"))
  BY NewCallTyped
<1>2. CASE Refuse(NewCall("place"))
  <2>1. Ready' /\ call' # None /\ call'.cmd = "place" /\ call'.at \in {"answer", "settle"}
    BY <1>1, <1>2, RefusedAtOnce DEF Refusable
  <2> QED
    BY <2>1 DEF Progress
<1>3. CASE /\ current_player = human /\ ValidInitialPlace(t)
           /\ InitialPlace(t) /\ Settles(NewCall("place"))
  <2>1. call'.cmd = "place" /\ call'.at = "settle" /\ call'.error = FALSE /\ call' # None
    BY <1>1, <1>3, MatchAssumption DEF Settles, NewCallIs, Calls
  <2>2. initial_placement /\ ~IsOver
    BY <1>3, OverInPlay DEF ValidInitialPlace
  <2>3. told = TurnNow /\ told = [seat |-> human, stage |-> "placing"]
    BY <1>3, <2>2, AtRest DEF Stage
  <2>4. Turns!Phase(told) = "place"
    BY <2>3 DEF Turns!Phase, MatchInv, MatchTypes
  <2>5. PhaseOf("place") = "place"
    BY DEF PhaseOf
  <2>6. Ready'
    BY <1>3, <2>1, <2>3, <2>4, <2>5, PlacedReady DEF MatchInv
  <2> QED
    BY <2>1, <2>6 DEF Progress
<1> QED
  BY <1>2, <1>3 DEF Place, Apply

LEMMA QuickSetupProgress ==
    ASSUME IInv, IInv', MatchInv, MatchTypes', ToldTrue', call = None, UNCHANGED <<settings, told>>,
           QuickSetup
    PROVE  Progress'
<1>1. NewCallIs("quick_setup", NewCall("quick_setup"))
  BY NewCallTyped
<1>2. UNCHANGED sessionVars /\ call'.at = "setup" /\ call'.error = FALSE /\ call' # None
  BY <1>1, MatchAssumption DEF QuickSetup, NothingDone, NewCallIs, Calls
<1>3. TurnNow' = told' /\ Quiet'
  BY <1>2, AtRest, NothingMoves
<1>4. told'.stage = "placing" => initial_placement'
  <2>1. UNCHANGED <<told, initial_placement>>
    BY <1>2 DEF sessionVars, roundVars, vars, placement
  <2> QED
    BY <2>1, AtRest, OverIsOver
<1>5. SetupHolds'
  BY <1>2, <1>3, <1>4 DEF SetupHolds
<1> QED
  BY <1>2, <1>5 DEF Progress

LEMMA MoveProgress ==
    ASSUME IInv, IInv', MatchInv, MatchTypes', ToldTrue', call = None, UNCHANGED <<settings, told>>,
           NEW cmd \in {"attack", "fortify"}, NEW c, NewCallIs(cmd, c), NEW place, Move(c, place)
    PROVE  Progress'
<1>1. CASE Refuse(c)
  <2>1. Ready' /\ call' # None /\ call'.cmd = cmd /\ call'.at = "answer"
    BY <1>1, RefusedAtOnce DEF Refusable, Refuse, NothingDone, NewCallIs, Calls
  <2> QED
    BY <2>1 DEF Progress
<1>2. CASE ~Refuse(c)
  <2>1. /\ current_player = human /\ ~initial_placement
        /\ \/ UNCHANGED sessionVars /\ call' = [c EXCEPT !.at = c.cmd]
           \/ PlayerAction(place, None) /\ call' = [c EXCEPT !.at = c.cmd, !.applied = "reserves"]
    BY <1>2 DEF Move, NothingDone, Apply
  <2>2. /\ call' # None /\ call'.at = cmd /\ call'.error = FALSE /\ call'.applied # "more"
        /\ call'.at \in {"attack", "fortify"}
    <3>1. c \in Calls /\ c.cmd = cmd /\ c.error = FALSE /\ c.applied = "nothing"
      BY DEF NewCallIs
    <3>2. \/ call' = [c EXCEPT !.at = cmd]
          \/ call' = [c EXCEPT !.at = cmd, !.applied = "reserves"]
      BY <2>1, <3>1
    <3>3. /\ call' \in Calls /\ call'.at = cmd /\ call'.error = FALSE
          /\ call'.applied \in {"nothing", "reserves"}
      BY <3>1, <3>2 DEF Calls
    <3> QED
      BY <3>3, MatchAssumption
  <2>3. /\ UNCHANGED <<owner, initial_placement, num_initial_placements, turn_count>>
        /\ UNCHANGED <<current_player, queued_attack>>
    BY <2>1 DEF sessionVars, roundVars, vars, board, placement, turn, battle, PlayerAction,
      ValidPlayerAction
  <2>4. IsOver' = IsOver
    BY <2>3 DEF IsOver, Won, Rounds
  <2>5. TurnNow' = told' /\ Quiet'
    BY <2>3, <2>4, AtRest DEF TurnNow, Quiet, DefendsItself, settings
  <2>6. MoveHolds'
    BY <2>1, <2>2, <2>3, <2>5 DEF MoveHolds, settings
  <2> QED
    BY <2>2, <2>6 DEF Progress
<1> QED
  BY <1>1, <1>2

LEMMA BotStepProgress ==
    ASSUME IInv, IInv', MatchInv, MatchTypes', ToldTrue', call = None, UNCHANGED <<settings, told>>,
           BotStep
    PROVE  Progress'
<1>1. CASE current_player \in {human, outside, Nobody} \/ IsOver
  <2>1. NewCallIs("bot_step", NewCall("bot_step"))
    BY NewCallTyped
  <2>2. UNCHANGED sessionVars /\ call' = [NewCall("bot_step") EXCEPT !.at = "settle"]
    BY <1>1 DEF BotStep, NothingDone
  <2>3. call'.cmd = "bot_step" /\ call'.at = "settle" /\ call'.error = FALSE /\ call' # None
    BY <2>1, <2>2, MatchAssumption DEF NewCallIs, Calls
  <2>4. TurnNow' = told' /\ Quiet'
    BY <2>2, AtRest, NothingMoves
  <2>5. Ready'
    <3>1. CASE IsOver
      BY <2>3, <3>1, AtRest, OverReady
    <3>2. CASE ~IsOver
      <4>1. current_player \in {human, outside} /\ told.seat = current_player
            /\ told.stage \in {"placing", "playing"}
        BY <1>1, <3>2, AtRest DEF Stage
      <4>2. Turns!Phase(told)' # "bot"
        BY <4>1 DEF Turns!Phase, settings
      <4>3. Reason'
        BY <2>3, <2>4, <4>2 DEF Reason, Made
      <4> QED
        BY <2>3, <2>4, <4>3, ReadyNext
    <3> QED
      BY <3>1, <3>2
  <2> QED
    BY <2>3, <2>5 DEF Progress
<1>2. CASE ~(current_player \in {human, outside, Nobody} \/ IsOver)
  <2>1. Play /\ Settles(NewCall("bot_step"))
    BY <1>2, BotPlays DEF BotStep, Apply
  <2>2. Turns!Phase(told) = PhaseOf("bot_step")
    BY <1>2, AtRest DEF Turns!Phase, PhaseOf, Stage
  <2> QED
    BY <2>1, <2>2, PolicyPlays
<1> QED
  BY <1>1, <1>2

LEMMA ActProgress ==
    ASSUME IInv, IInv', MatchInv, MatchTypes', ToldTrue', call = None, UNCHANGED <<settings, told>>, Act
    PROVE  Progress'
<1>1. NewCallIs("act", NewCall("act"))
  BY NewCallTyped
<1>2. CASE Refuse(NewCall("act")) \/ NothingDone([NewCall("act") EXCEPT !.at = "settle", !.error = TRUE])
  <2>1. Ready' /\ call' # None /\ call'.cmd = "act" /\ call'.at \in {"answer", "settle"}
    BY <1>1, <1>2, RefusedAtOnce DEF Refusable
  <2> QED
    BY <2>1 DEF Progress
<1>3. CASE current_player = outside /\ Next /\ Settles(NewCall("act"))
  <2>1. IsOver \/ Turns!Phase(told) = PhaseOf("act")
    BY <1>3, AtRest DEF Turns!Phase, PhaseOf, Stage
  <2> QED
    BY <1>3, <2>1, NextIsPlay, PolicyPlays
<1> QED
  BY <1>2, <1>3 DEF Act, Apply

-----------------------------------------------------------------------------
(* What goes on inside a call, step by step.                               *)

LEMMA InSetup ==
    ASSUME MatchInv, At("setup")
    PROVE  SetupHolds /\ call \in Calls /\ call.cmd = "quick_setup"
  BY DEF At, MatchInv, Progress, MatchTypes

LEMMA SetupProgress ==
    ASSUME IInv, IInv', MatchInv, MatchTypes', ToldTrue', UNCHANGED <<settings, told>>, SetupStep
    PROVE  Progress'
<1>1. SetupHolds /\ call \in Calls /\ call # None /\ call.cmd = "quick_setup" /\ call.at = "setup"
  BY InSetup DEF SetupStep, At
<1>2. CASE initial_placement
  <2>1. PICK t \in Territories : InitialPlace(t)
    BY <1>2 DEF SetupStep, Apply
  <2>2. /\ current_player' = SeatAfter(current_player) /\ current_player \in Players
        /\ queued_attack' = None /\ ~IsOver'
        /\ ~initial_placement' => current_player' = 0
    BY <2>1, PlacementPasses
  <2>3. call' = [call EXCEPT !.applied = "more"]
    BY <1>2 DEF SetupStep
  <2>4. call'.at = "setup" /\ call'.error = FALSE /\ call' # None
    BY <1>1, <2>3, MatchAssumption DEF SetupHolds, Calls
  <2>5. told.stage = "placing"
    BY <1>1, <1>2, OverIsOver, OverInPlay DEF SetupHolds
  <2>6. ~initial_placement' => TurnNow' = [seat |-> 0, stage |-> "playing"]
    BY <2>2 DEF TurnNow
  <2>7. Quiet'
    BY <2>2, AroundTheTable, SeatsAssumption DEF Quiet, Players, Nobody
  <2>8. SetupHolds'
    BY <2>4, <2>5, <2>6, <2>7 DEF SetupHolds
  <2> QED
    BY <2>4, <2>8 DEF Progress
<1>3. CASE ~initial_placement
  <2>1. UNCHANGED sessionVars /\ call' = [call EXCEPT !.at = "settle"]
    BY <1>3 DEF SetupStep, GoOn
  <2>2. call'.cmd = "quick_setup" /\ call'.at = "settle" /\ call'.error = FALSE /\ call' # None
    BY <1>1, <2>1, MatchAssumption DEF SetupHolds, Calls
  <2>3. TurnNow' = TurnNow /\ Quiet' = Quiet
    BY <2>1, NothingMoves
  <2>4. Ready'
    <3>1. CASE told.stage = "over"
      BY <2>2, <3>1, OverReady
    <3>2. CASE told.stage = "placing"
      <4>1. TurnNow' = [seat |-> 0, stage |-> "playing"] /\ Quiet'
        BY <1>1, <1>3, <2>3, <3>2 DEF SetupHolds
      <4>2. Reason'
        BY <2>2, <3>2, <4>1 DEF Reason, Made
      <4> QED
        BY <2>2, <4>1, <4>2, ReadyNext
    <3>3. CASE told.stage = "playing"
      <4>1. TurnNow' = told' /\ Quiet'
        BY <1>1, <2>3, <3>3 DEF SetupHolds
      <4>2. Reason'
        BY <2>2, <3>3, <4>1 DEF Reason, Made
      <4> QED
        BY <2>2, <4>1, <4>2, ReadyNext
    <3> QED
      BY <3>1, <3>2, <3>3 DEF MatchInv, ToldTrue, Turns!Over
  <2> QED
    BY <2>2, <2>4 DEF Progress
<1> QED
  BY <1>2, <1>3

LEMMA AttackProgress ==
    ASSUME IInv, IInv', MatchInv, MatchTypes', ToldTrue', UNCHANGED <<settings, told>>, AttackStep
    PROVE  Progress'
<1> DEFINE dice == Min2(3, units[call.source] - 1)
           attack == [source |-> call.source, target |-> call.target, dice |-> dice, move |-> call.move]
<1>1. /\ call \in Calls /\ call # None /\ call.cmd = "attack" /\ call.at = "attack" /\ MoveHolds
      /\ call.source \in Territories /\ call.target \in Territories
  BY DEF AttackStep, At, MatchInv, MatchTypes, Progress
<1>2. CASE PlayerToMove /\ dice >= 1 /\ ValidAttack(attack)
  <2>1. /\ PlayerAction(NoReinforcement, attack)
        /\ call' = [call EXCEPT !.at = "defend", !.applied = "more"]
    BY <1>2 DEF AttackStep, Apply
  <2>2. /\ call'.at = "defend" /\ call'.error = FALSE /\ call' # None
        /\ call'.source = call.source /\ call'.target = call.target
    BY <1>1, <2>1, MatchAssumption DEF MoveHolds, Calls
  <2>3. attack \in QueueAttackActions
    BY <1>1, <1>2, AttackPlays DEF MatchInv
  <2>4. attack # None
    BY <2>3, NumbersAssumption
  <2>5. queued_attack' = attack /\ UNCHANGED <<owner, initial_placement>>
    BY <2>1, <2>4 DEF PlayerAction, ValidPlayerAction, Attack, placement
  <2>6. owner[call.source] = human /\ call.target \in Neighbors[call.source]
    BY <1>1, <1>2 DEF ValidAttack, MoveHolds
  <2>7. told # Turns!Over => told = [seat |-> human, stage |-> "playing"]
    BY <1>1 DEF MoveHolds, TurnNow
  <2>8. BattleHolds' /\ queued_attack' # None
    BY <1>1, <2>2, <2>4, <2>5, <2>6, <2>7 DEF BattleHolds, MoveHolds, settings, Turns!Over
  <2> QED
    BY <2>2, <2>8 DEF Progress
<1>3. CASE ~(PlayerToMove /\ dice >= 1 /\ ValidAttack(attack))
  <2>1. UNCHANGED sessionVars /\ call' = [call EXCEPT !.at = "answer", !.error = TRUE]
    BY <1>3 DEF AttackStep, Refuse, NothingDone
  <2>2. call.applied # "more"
    <3> SUFFICES ASSUME call.applied = "more"
                 PROVE  PlayerToMove /\ dice >= 1 /\ ValidAttack(attack)
      BY <1>3
    <3>1. /\ queued_attack = None /\ owner[call.source] = human /\ owner[call.target] # human
          /\ call.target \in Neighbors[call.source] /\ units[call.source] > 1
          /\ current_player = human /\ ~initial_placement /\ human \in Players
      BY <1>1 DEF MoveHolds, MatchInv, MatchTypes
    <3>2. units[call.source] \in Int
      BY <1>1, NumbersAssumption DEF IInv, TypeOK
    <3>3. dice >= 1 /\ units[call.source] > dice
      BY <3>1, <3>2 DEF Min2
    <3> QED
      BY <3>1, <3>3 DEF PlayerToMove, ValidAttack
  <2>3. /\ call'.cmd = "attack" /\ call'.at = "answer" /\ call'.error = TRUE /\ call' # None
        /\ call'.applied # "more"
    BY <1>1, <2>1, <2>2, MatchAssumption DEF Calls
  <2>4. TurnNow' = told' /\ Quiet'
    BY <1>1, <2>1, NothingMoves DEF MoveHolds
  <2>5. Ready'
    BY <2>3, <2>4, RefusedReady DEF Refusable
  <2> QED
    BY <2>3, <2>5 DEF Progress
<1> QED
  BY <1>2, <1>3

\* While a defence is waited for there is nothing else to play.
LEMMA OnlyDefends ==
    ASSUME IInv, Play, queued_attack # None, queued_defense = NoDefense
    PROVE  \E dice \in 1 .. 2 : QueueDefense(dice)
  BY DEF Play, InitialPlace, ValidInitialPlace, PlayerAction, ValidPlayerAction, PlayerToMove,
         RollDice, Fortify, IInv, BattleConsistent

LEMMA DefendProgress ==
    ASSUME IInv, IInv', MatchInv, MatchTypes', ToldTrue', UNCHANGED <<settings, told>>, DefendStep
    PROVE  Progress'
<1>1. /\ call \in Calls /\ call # None /\ call.cmd = "attack" /\ call.at = "defend"
      /\ BattleHolds /\ queued_attack # None
  BY DEF DefendStep, At, MatchInv, MatchTypes, Progress
<1>2. CASE current_player \notin {human, Nobody} /\ ~IsOver
  <2>1. Play /\ call' = call
    BY <1>2, BotPlays DEF DefendStep, Apply
  <2>2. PICK dice \in 1 .. 2 : QueueDefense(dice)
    BY <1>1, <1>2, <2>1, OnlyDefends DEF IInv, BattleConsistent
  <2>3. UNCHANGED <<owner, initial_placement, queued_attack>>
    BY <2>2 DEF QueueDefense, ValidDefense, board, placement
  <2>4. BattleHolds' /\ queued_attack' # None
    BY <1>1, <2>1, <2>3 DEF BattleHolds, settings, Turns!Over
  <2> QED
    BY <1>1, <2>1, <2>4 DEF Progress
<1>3. CASE ~(current_player \notin {human, Nobody} /\ ~IsOver)
  <2>1. UNCHANGED sessionVars /\ call' = [call EXCEPT !.at = "settle"]
    BY <1>3 DEF DefendStep, GoOn
  <2>2. /\ call'.cmd = "attack" /\ call'.at = "settle" /\ call'.error = FALSE /\ call' # None
        /\ call'.source = call.source /\ call'.target = call.target
    BY <1>1, <2>1, MatchAssumption DEF BattleHolds, Calls
  <2>3. ~IsOver => queued_defense # NoDefense
    BY <1>1, <1>3 DEF BattleHolds, IInv, BattleConsistent
  <2>4. IsOver' = IsOver /\ UNCHANGED <<owner, initial_placement, queued_attack, queued_defense>>
    BY <2>1, NothingMoves DEF sessionVars, roundVars, vars, board, placement, battle
  <2>5. BattleHolds'
    BY <1>1, <2>2, <2>3, <2>4 DEF BattleHolds, settings, Turns!Over
  <2> QED
    BY <2>2, <2>5 DEF Progress
<1> QED
  BY <1>2, <1>3

\* Whoever ends a turn hands it to somebody else, unless nobody else is left.
LEMMA TurnHandedOn ==
    ASSUME IInv, NEW source, NEW target, NEW num, Fortify(source, target, num), ~IsOver'
    PROVE  /\ current_player' \in Players \ {current_player} /\ queued_attack' = None
           /\ ~initial_placement'
<1>1. /\ ~initial_placement /\ current_player \in Players
      /\ owner' = owner /\ UNCHANGED placement /\ queued_attack' = None
      /\ TurnOwner = current_player /\ TurnOwner' \in Players
      /\ \/ /\ Rounds' = Rounds /\ TurnOwner' > TurnOwner
            /\ \A q \in Players : Owns(owner, q) /\ q > TurnOwner => TurnOwner' <= q
         \/ /\ Rounds' = Rounds + 1 /\ TurnOwner' <= TurnOwner
            /\ \A q \in Players : Owns(owner, q) => TurnOwner' <= q /\ q <= TurnOwner
  BY TurnPasses
<1>2. TurnOwner' = current_player'
  BY <1>1 DEF TurnOwner
<1>3. ASSUME current_player' = current_player PROVE FALSE
  <2>1. \A q \in Players : Owns(owner, q) => q = current_player
    BY <1>1, <1>2, <1>3, SeatsAssumption DEF Players
  <2>2. \A t \in Territories : owner[t] \in Players
    BY <1>1 DEF IInv, TypeOK, PlacementFair
  <2>3. Won(owner', current_player)
    BY <1>1, <2>1, <2>2 DEF Won, Owns, OwnedBy
  <2> QED
    BY <1>1, <2>3 DEF IsOver
<1> QED
  BY <1>1, <1>2, <1>3 DEF placement

LEMMA FortifyProgress ==
    ASSUME IInv, IInv', MatchInv, MatchTypes', ToldTrue', UNCHANGED <<settings, told>>, FortifyStep
    PROVE  Progress'
<1>1. /\ call \in Calls /\ call # None /\ call.cmd = "fortify" /\ call.at = "fortify" /\ MoveHolds
      /\ human \in Players /\ human # outside
  BY DEF FortifyStep, At, MatchInv, MatchTypes, Progress
<1>2. CASE PlayerToMove /\ ValidFortify(call.source, call.target, call.num)
  <2>1. /\ Fortify(call.source, call.target, call.num)
        /\ call' = [call EXCEPT !.at = "settle", !.applied = "more"]
    BY <1>2 DEF FortifyStep, Apply, Settles
  <2>2. /\ call'.cmd = "fortify" /\ call'.at = "settle" /\ call'.error = FALSE /\ call' # None
    BY <1>1, <2>1, MatchAssumption DEF MoveHolds, Calls
  <2>3. /\ current_player = human
        /\ ~IsOver' => /\ current_player' \in Players \ {human} /\ queued_attack' = None
                       /\ ~initial_placement'
    BY <1>1, <2>1, TurnHandedOn DEF MoveHolds
  <2>4. Ready'
    <3>1. CASE told.stage = "over"
      BY <2>2, <3>1, OverReady
    <3>2. CASE told.stage # "over"
      <4>1. told = [seat |-> human, stage |-> "playing"]
        BY <1>1, <2>3, <3>2 DEF MoveHolds, TurnNow, Turns!Over
      <4>2. Turns!Phase(told)' = "move" /\ PhaseOf(call.cmd)' = "move" /\ told'.stage # "over"
        BY <1>1, <2>2, <4>1 DEF Turns!Phase, PhaseOf, settings
      <4>3. HandsTo(call.cmd)' = Players \ {human}
        BY <2>2 DEF HandsTo, settings
      <4>4. TurnNow' \in Turns!Moves(told, HandsTo(call.cmd))'
        BY <2>3, <4>1, <4>3 DEF TurnNow, Turns!Moves
      <4>5. Quiet'
        BY <2>3, SeatsAssumption DEF Quiet, Players, Nobody
      <4> QED
        BY <2>2, <4>2, <4>4, <4>5, PlayedReady
    <3> QED
      BY <3>1, <3>2
  <2> QED
    BY <2>2, <2>4 DEF Progress
<1>3. CASE ~(PlayerToMove /\ ValidFortify(call.source, call.target, call.num))
  <2>1. UNCHANGED sessionVars /\ call' = [call EXCEPT !.at = "answer", !.error = TRUE]
    BY <1>3 DEF FortifyStep, Refuse, NothingDone
  <2>2. /\ call'.cmd = "fortify" /\ call'.at = "answer" /\ call'.error = TRUE /\ call' # None
        /\ call'.applied # "more"
    BY <1>1, <2>1, MatchAssumption DEF MoveHolds, Calls
  <2>3. TurnNow' = told' /\ Quiet'
    BY <1>1, <2>1, NothingMoves DEF MoveHolds
  <2>4. Ready'
    BY <2>2, <2>3, RefusedReady DEF Refusable
  <2> QED
    BY <2>2, <2>4 DEF Progress
<1> QED
  BY <1>2, <1>3

\* A roll that ends the match has taken the territory that was attacked.
LEMMA DiceOfBattle ==
    ASSUME IInv, BattleHolds, ~IsOver, NEW r \in Rolls(3), NEW s \in Rolls(2), RollDice(r, s)
    PROVE  /\ owner'[call.source] = human /\ current_player' = human /\ queued_attack' = None
           /\ ~initial_placement' /\ (IsOver' => owner'[call.target] = human)
<1>1. /\ UNCHANGED <<placement, turn_count>> /\ queued_attack # None /\ queued_attack' = None
      /\ current_player' = owner'[queued_attack.source]
      /\ queued_attack.source = call.source /\ queued_attack.target = call.target
      /\ owner[call.source] = human /\ ~initial_placement
  BY DEF RollDice, ResolveAttackRolls, BattleHolds
<1>2. /\ queued_attack \in QueueAttackActions
      /\ owner' = owner \/ owner' = [owner EXCEPT ![queued_attack.target] = owner[queued_attack.source]]
      /\ owner[queued_attack.source] # owner[queued_attack.target]
  BY <1>1 DEF RollDice, ResolveAttackRolls, IInv, TypeOK, ActionRecord, BattleConsistent
<1>3. owner'[call.source] = human
  BY <1>1, <1>2 DEF IInv, TypeOK, QueueAttackActions
<1>4. owner' # owner => owner'[call.target] = human
  BY <1>1, <1>2 DEF IInv, TypeOK, QueueAttackActions
<1>5. owner' = owner => IsOver' = IsOver
  BY <1>1 DEF IsOver, Rounds, placement
<1> QED
  BY <1>1, <1>3, <1>4, <1>5 DEF placement

\* Settle(): the dice are thrown, or the defence answered, until neither is due.
LEMMA Settling ==
    ASSUME SettleStep, MatchTypes
    PROVE  /\ call \in Calls /\ call # None /\ call.at = "settle"
           /\ \/ /\ ~IsOver /\ queued_defense # NoDefense /\ UNCHANGED call
                 /\ \E a \in Rolls(3), d \in Rolls(2) : RollDice(a, d)
              \/ /\ ~IsOver /\ queued_defense = NoDefense /\ BattleWaits /\ DefendsItself
                 /\ FullDefense /\ UNCHANGED call
              \/ /\ IsOver \/ (queued_defense = NoDefense /\ ~(BattleWaits /\ DefendsItself))
                 /\ UNCHANGED sessionVars
                 /\ call' = [call EXCEPT !.at = IF BlitzGoesOn THEN "attack" ELSE "answer"]
                 /\ call' # None
<1>1. call \in Calls /\ call # None /\ call.at = "settle"
  BY DEF SettleStep, At, MatchTypes
<1>2. ASSUME NEW step \in {"attack", "answer"}, GoOn(step)
      PROVE  UNCHANGED sessionVars /\ call' = [call EXCEPT !.at = step] /\ call' # None
  BY <1>1, <1>2, MatchAssumption DEF GoOn, Calls
<1>3. CASE ~IsOver /\ queued_defense # NoDefense
  BY <1>1, <1>3 DEF SettleStep, Apply
<1>4. CASE ~IsOver /\ queued_defense = NoDefense /\ BattleWaits /\ DefendsItself
  BY <1>1, <1>4 DEF SettleStep, Apply
<1>5. CASE IsOver \/ (queued_defense = NoDefense /\ ~(BattleWaits /\ DefendsItself))
  <2>1. GoOn(IF BlitzGoesOn THEN "attack" ELSE "answer")
    BY <1>5 DEF SettleStep
  <2> QED
    BY <1>1, <1>2, <1>5, <2>1
<1> QED
  BY <1>3, <1>4, <1>5

LEMMA BattleSettles ==
    ASSUME IInv, IInv', MatchInv, MatchTypes', ToldTrue', UNCHANGED <<settings, told>>, SettleStep,
           call.cmd = "attack"
    PROVE  Progress'
<1>1. call \in Calls /\ call # None /\ call.at = "settle" /\ human \in Players /\ human # outside
  BY Settling DEF MatchInv, MatchTypes
<1>2. BattleHolds
  BY <1>1 DEF MatchInv, Progress
<1>3. CASE ~IsOver /\ UNCHANGED call /\ \E a \in Rolls(3), d \in Rolls(2) : RollDice(a, d)
  <2>1. PICK a \in Rolls(3), d \in Rolls(2) : RollDice(a, d)
    BY <1>3
  <2>2. /\ owner'[call.source] = human /\ current_player' = human /\ queued_attack' = None
        /\ ~initial_placement' /\ (IsOver' => owner'[call.target] = human)
    BY <1>2, <1>3, <2>1, DiceOfBattle
  <2>3. BattleHolds'
    BY <1>1, <1>2, <1>3, <2>2 DEF BattleHolds, settings, Turns!Over
  <2> QED
    BY <1>1, <1>3, <2>3 DEF Progress
<1>4. CASE ~IsOver /\ queued_defense = NoDefense /\ BattleWaits
  BY <1>1, <1>2, <1>4 DEF BattleHolds, BattleWaits
<1>5. CASE /\ IsOver \/ (queued_defense = NoDefense /\ ~(BattleWaits /\ DefendsItself))
           /\ UNCHANGED sessionVars /\ call' # None
           /\ call' = [call EXCEPT !.at = IF BlitzGoesOn THEN "attack" ELSE "answer"]
  <2>1. ~IsOver => queued_attack = None /\ current_player = human
    BY <1>1, <1>2, <1>5 DEF BattleHolds
  <2>2. Quiet
    BY <1>1, <2>1, SeatsAssumption DEF Quiet, Players, Nobody
  <2>3. CASE BlitzGoesOn
    <3>1. ~IsOver
      <4>1. current_player = human /\ owner[call.target] # human
        BY <2>3 DEF BlitzGoesOn
      <4>2. ASSUME queued_attack # None, IsOver PROVE FALSE
        BY <1>1, <1>2, <4>1, <4>2, SeatsAssumption
        DEF BattleHolds, IInv, BattleConsistent, Players, Nobody, NoDefense
      <4> QED
        BY <1>2, <4>1, <4>2 DEF BattleHolds
    <3>2. TurnNow = told
      BY <1>2, <2>1, <3>1 DEF BattleHolds, TurnNow, MatchInv, ToldTrue, Turns!Over
    <3>3. /\ queued_attack = None /\ call.target \in Neighbors[call.source]
          /\ owner[call.source] = human /\ owner[call.target] # human /\ units[call.source] > 1
          /\ ~call.error /\ ~initial_placement /\ current_player = human
      BY <1>2, <2>1, <2>3, <3>1 DEF BattleHolds, BlitzGoesOn
    <3>4. /\ call'.at = "attack" /\ call'.error = call.error /\ call'.applied = call.applied
          /\ call'.source = call.source /\ call'.target = call.target
      BY <1>1, <1>5, <2>3 DEF Calls
    <3>5. TurnNow' = TurnNow /\ Quiet' = Quiet
      BY <1>5, NothingMoves
    <3>6. UNCHANGED <<owner, units, initial_placement, queued_attack, current_player>>
      BY <1>5 DEF sessionVars, roundVars, vars, board, placement, turn, battle
    <3>7. MoveHolds'
      BY <2>2, <3>2, <3>3, <3>4, <3>5, <3>6 DEF MoveHolds, settings
    <3> QED
      BY <1>5, <3>4, <3>7 DEF Progress
  <2>4. CASE ~BlitzGoesOn
    <3>1. call'.cmd = "attack" /\ call'.at = "answer" /\ call'.error = FALSE
      BY <1>1, <1>2, <1>5, <2>4 DEF Calls, BattleHolds
    <3>2. TurnNow' = TurnNow /\ Quiet'
      BY <1>5, <2>2, NothingMoves
    <3>3. Ready'
      <4>1. CASE told.stage = "over"
        BY <1>5, <3>1, <4>1, OverReady
      <4>2. CASE told.stage # "over"
        <5>1. told = [seat |-> human, stage |-> "playing"]
          BY <1>2, <4>2 DEF BattleHolds, Turns!Over
        <5>2. Turns!Phase(told)' = "move" /\ PhaseOf(call.cmd)' = "move" /\ told'.stage # "over"
          BY <1>1, <3>1, <5>1 DEF Turns!Phase, PhaseOf, settings
        <5>3. HandsTo(call.cmd)' = {human}
          BY <3>1 DEF HandsTo, settings
        <5>4. TurnNow \in {Turns!Over, [seat |-> human, stage |-> "playing"]}
          BY <1>2, <2>1 DEF TurnNow, BattleHolds
        <5>5. TurnNow' \in Turns!Moves(told, HandsTo(call.cmd))'
          BY <3>2, <5>1, <5>3, <5>4 DEF Turns!Moves, Turns!Over
        <5> QED
          BY <1>5, <3>1, <3>2, <5>2, <5>5, PlayedReady
      <4> QED
        BY <4>1, <4>2
    <3> QED
      BY <1>5, <3>1, <3>3 DEF Progress
  <2> QED
    BY <2>3, <2>4
<1> QED
  BY <1>3, <1>4, <1>5, Settling DEF MatchInv

LEMMA OtherSettles ==
    ASSUME IInv, IInv', MatchInv, MatchTypes', ToldTrue', UNCHANGED <<settings, told>>, SettleStep,
           call.cmd # "attack"
    PROVE  Progress'
<1>1. call \in Calls /\ call # None /\ call.at = "settle" /\ human \in Players /\ human # outside
  BY Settling DEF MatchInv, MatchTypes
<1>2. Ready \/ PolicyHolds
  BY <1>1 DEF MatchInv, Progress
<1>3. ASSUME ~IsOver, Play, UNCHANGED call,
             queued_defense # NoDefense \/ (BattleWaits /\ DefendsItself)
      PROVE  Progress'
  <2>1. ~Ready
    BY <1>3 DEF Ready, Quiet, BattleWaits, IInv, BattleConsistent
  <2>2. ~initial_placement'
    BY <1>2, <1>3, <2>1, PlayStaysPlay DEF PolicyHolds
  <2>3. Turns!Phase(told)' = PhaseOf(call.cmd)'
    BY <1>2, <1>3, <2>1 DEF PolicyHolds, Turns!Phase, PhaseOf, settings
  <2>4. PolicyHolds'
    BY <1>2, <1>3, <2>1, <2>2, <2>3 DEF PolicyHolds
  <2> QED
    BY <1>1, <1>3, <2>4 DEF Progress
<1>4. CASE /\ IsOver \/ (queued_defense = NoDefense /\ ~(BattleWaits /\ DefendsItself))
           /\ UNCHANGED sessionVars /\ call' # None
           /\ call' = [call EXCEPT !.at = IF BlitzGoesOn THEN "attack" ELSE "answer"]
  <2>1. /\ call'.cmd = call.cmd /\ call'.at = "answer" /\ call'.error = call.error
        /\ call'.applied = call.applied
    BY <1>1, <1>4 DEF BlitzGoesOn, Calls
  <2>2. TurnNow' = TurnNow /\ Quiet' = Quiet
    BY <1>4, NothingMoves
  <2>3. CASE Ready
    <3>1. AnswerDue'
      BY <2>1, <2>2, <2>3 DEF Ready, AnswerDue, Due, Turns!Effects, Turns!Phase, Turns!Moves,
                              Turns!Seats, settings
    <3>2. Ready'
      BY <2>1, <2>2, <2>3, <3>1 DEF Ready
    <3> QED
      BY <1>4, <2>1, <3>2 DEF Progress
  <2>4. CASE PolicyHolds
    <3>1. ~IsOver => /\ current_player \in Players
                     /\ queued_attack # None => ~DefendsItself
      BY <1>4 DEF BattleWaits, IInv, TypeOK, BattleConsistent
    <3>2. Quiet
      BY <3>1, SeatsAssumption DEF Quiet, Players, Nobody
    <3>3. TurnNow = Turns!Over \/ TurnNow \in [seat : Players, stage : {"playing"}]
      BY <2>4, <3>1 DEF TurnNow, PolicyHolds
    <3>4. HandsTo(call.cmd)' = Players
      BY <2>1, <2>4 DEF HandsTo, PolicyHolds
    <3>5. TurnNow' \in Turns!Moves(told, HandsTo(call.cmd))'
      BY <2>2, <2>4, <3>3, <3>4 DEF PolicyHolds, Turns!Moves, Turns!Over
    <3>6. Turns!Phase(told)' = PhaseOf(call.cmd)' /\ told'.stage # "over"
      BY <2>1, <2>4 DEF PolicyHolds, Turns!Phase, PhaseOf, settings
    <3>7. call'.error = FALSE /\ call'.cmd # "quick_setup"
      BY <1>1, <2>1, <2>4 DEF PolicyHolds, Calls
    <3>8. Ready'
      BY <1>4, <2>2, <3>2, <3>5, <3>6, <3>7, PlayedReady
    <3> QED
      BY <1>4, <2>1, <3>8 DEF Progress
  <2> QED
    BY <1>2, <2>3, <2>4
<1>5. CASE ~IsOver /\ queued_defense # NoDefense /\ UNCHANGED call
           /\ \E a \in Rolls(3), d \in Rolls(2) : RollDice(a, d)
  BY <1>3, <1>5 DEF Play
<1>6. CASE ~IsOver /\ BattleWaits /\ DefendsItself /\ FullDefense /\ UNCHANGED call
  BY <1>3, <1>6, FullDefensePlays
<1> QED
  BY <1>4, <1>5, <1>6, Settling DEF MatchInv

LEMMA AnswerProgress ==
    ASSUME MatchInv, Answer
    PROVE  Progress' /\ AnswerDue
<1>1. /\ call # None /\ call.at = "answer" /\ told' = TurnNow /\ call' = None
      /\ UNCHANGED <<sessionVars, settings>>
  BY DEF Answer, At
<1>2. Ready
  BY <1>1 DEF MatchInv, Progress
<1>3. TurnNow' = TurnNow /\ Quiet' = Quiet
  BY <1>1, NothingMoves
<1> QED
  BY <1>1, <1>2, <1>3 DEF Progress, Ready

LEMMA MatchStepInv == IInv /\ MatchInv /\ MatchNext => MatchInv'
<1> SUFFICES ASSUME IInv, MatchInv, MatchNext PROVE Progress'
  BY CallTypes, ToldStep DEF MatchInv
<1>1. IInv' /\ MatchTypes' /\ ToldTrue' /\ UNCHANGED settings
  BY EngineKept, CallTypes, ToldStep, SettingsStay DEF MatchInv
<1>2. CASE NewCallMade
  <2>1. call = None /\ UNCHANGED <<settings, told>>
    BY <1>2 DEF NewCallMade
  <2>2. ASSUME NEW t \in Territories, Place(t) PROVE Progress'
    BY <1>1, <2>1, <2>2, PlaceProgress
  <2>3. ASSUME NEW source \in Territories, NEW target \in Territories, NEW place, NEW blitz \in BOOLEAN,
               NEW move \in ConquestMoves,
               Move([NewCall("attack") EXCEPT !.source = source, !.target = target,
                                              !.blitz = blitz, !.move = move], place)
        PROVE  Progress'
    <3> DEFINE c == [NewCall("attack") EXCEPT !.source = source, !.target = target,
                                              !.blitz = blitz, !.move = move]
    <3>1. NewCallIs("attack", c)
      BY DEF NewCall, Calls, NewCallIs, Made, Turns!Commands
    <3>2. Move(c, place)
      BY <2>3
    <3> HIDE DEF c
    <3> QED
      BY <1>1, <2>1, <3>1, <3>2, MoveProgress
  <2>4. ASSUME NEW source \in Territories, NEW target \in Territories, NEW place, NEW num \in Retreats,
               Move([NewCall("fortify") EXCEPT !.source = source, !.target = target, !.num = num], place)
        PROVE  Progress'
    <3> DEFINE c == [NewCall("fortify") EXCEPT !.source = source, !.target = target, !.num = num]
    <3>1. NewCallIs("fortify", c)
      BY DEF NewCall, Calls, NewCallIs, Made, Turns!Commands
    <3>2. Move(c, place)
      BY <2>4
    <3> HIDE DEF c
    <3> QED
      BY <1>1, <2>1, <3>1, <3>2, MoveProgress
  <2>5. CASE QuickSetup
    BY <1>1, <2>1, <2>5, QuickSetupProgress
  <2>6. CASE BotStep
    BY <1>1, <2>1, <2>6, BotStepProgress
  <2>7. CASE Act
    BY <1>1, <2>1, <2>7, ActProgress
  <2> QED
    BY <1>2, <2>2, <2>3, <2>4, <2>5, <2>6, <2>7 DEF NewCallMade
<1>3. CASE Step
  <2>1. UNCHANGED told
    BY <1>3 DEF Step, answers
  <2> QED
    BY <1>1, <1>3, <2>1, SetupProgress, AttackProgress, DefendProgress, FortifyProgress,
       BattleSettles, OtherSettles DEF Step
<1>4. CASE Answer
  BY <1>4, AnswerProgress
<1> QED
  BY <1>2, <1>3, <1>4 DEF MatchNext

LEMMA MatchRests == IInv /\ MatchInv /\ UNCHANGED matchVars => IInv' /\ MatchInv'
<1> SUFFICES ASSUME IInv, MatchInv, UNCHANGED matchVars PROVE IInv' /\ MatchInv'
  OBVIOUS
<1>1. UNCHANGED <<sessionVars, settings, call, told>>
  BY DEF matchVars, answers
<1>2. IInv'
  BY <1>1, NextIInv DEF sessionVars, roundVars
<1>3. TurnNow' = TurnNow /\ IsOver' = IsOver /\ Quiet' = Quiet
  BY <1>1, NothingMoves
<1>4. UNCHANGED <<human, outside, fast_defense, call, told>>
  BY <1>1 DEF settings
<1>5. UNCHANGED <<owner, units, initial_placement, current_player, queued_attack, queued_defense>>
  BY <1>1 DEF sessionVars, roundVars, vars, board, placement, turn, battle
<1>6. MatchTypes' /\ ToldTrue'
  BY <1>3, <1>4 DEF MatchInv, MatchTypes, ToldTrue, Turns!Over
<1>7. AnswerDue' = AnswerDue
  BY <1>3, <1>4 DEF AnswerDue, Due, Turns!Effects, Turns!Phase, Turns!Moves, Turns!Seats
<1>8. Progress'
  BY <1>3, <1>4, <1>5, <1>7
  DEF MatchInv, Progress, Ready, SetupHolds, MoveHolds, BattleHolds, PolicyHolds, PhaseOf,
      Turns!Phase, Turns!Over
<1> QED
  BY <1>2, <1>6, <1>8 DEF MatchInv

LEMMA MatchInitInv == MatchInit => IInv /\ MatchInv
<1> SUFFICES ASSUME MatchInit PROVE IInv /\ MatchInv
  OBVIOUS
<1>1. Init
  BY InitOfEngine DEF MatchInit
<1>2. IInv
  BY <1>1, InitIInv
<1>3. MatchTypes /\ call = None
  BY MatchAssumption DEF MatchInit, MatchTypes
<1>4. ~IsOver /\ current_player = 0 /\ queued_attack = None /\ initial_placement
  BY <1>1, <1>2, OverInPlay DEF Init
<1>5. told = [seat |-> 0, stage |-> "placing"]
  BY DEF MatchInit, Turns!Init
<1>6. told = TurnNow /\ Quiet
  BY <1>4, <1>5, SeatsAssumption DEF TurnNow, Quiet, Nobody
<1> QED
  BY <1>2, <1>3, <1>5, <1>6, SeatsAssumption DEF MatchInv, ToldTrue, Progress, Players

LEMMA MatchAlways == MatchSpec => [](IInv /\ MatchInv)
<1>1. IInv /\ MatchInv /\ [MatchNext]_matchVars => IInv' /\ MatchInv'
  BY EngineKept, MatchStepInv, MatchRests DEF MatchInv
<1> QED
  BY <1>1, MatchInitInv, PTL DEF MatchSpec

\* Moved on, a call stays a call, and the same one.
LEMMA StillCall ==
    ASSUME NEW c \in Calls, NEW d,
           \/ d = c
           \/ \E at \in {"setup", "attack", "defend", "fortify", "settle", "answer"} :
                 \/ d = [c EXCEPT !.at = at]
                 \/ d = [c EXCEPT !.at = at, !.error = TRUE]
                 \/ d = [c EXCEPT !.at = at, !.applied = "reserves"]
                 \/ d = [c EXCEPT !.at = at, !.applied = "more"]
           \/ d = [c EXCEPT !.applied = "more"]
    PROVE  d # None /\ d.cmd = c.cmd
<1> DEFINE Steps == {"setup", "attack", "defend", "fortify", "settle", "answer"}
<1>1. CASE d = c \/ d = [c EXCEPT !.applied = "more"]
  <2>1. d \in Calls /\ d.cmd = c.cmd
    BY <1>1 DEF Calls
  <2> QED
    BY <2>1, MatchAssumption
<1>2. ASSUME NEW at \in Steps, NEW error \in BOOLEAN,
             d = [c EXCEPT !.at = at] \/ d = [c EXCEPT !.at = at, !.error = error]
      PROVE  d # None /\ d.cmd = c.cmd
  <2>1. d \in Calls /\ d.cmd = c.cmd
    <3>1. CASE d = [c EXCEPT !.at = at]
      BY <3>1 DEF Calls
    <3>2. CASE d = [c EXCEPT !.at = at, !.error = error]
      BY <3>2 DEF Calls
    <3> QED  BY <1>2, <3>1, <3>2
  <2> QED
    BY <2>1, MatchAssumption
<1>3. ASSUME NEW at \in Steps, NEW applied \in {"reserves", "more"},
             d = [c EXCEPT !.at = at, !.applied = applied]
      PROVE  d # None /\ d.cmd = c.cmd
  <2>1. d \in Calls /\ d.cmd = c.cmd
    BY <1>3 DEF Calls
  <2> QED
    BY <2>1, MatchAssumption
<1> QED
  BY <1>1, <1>2, <1>3, Zenon

LEMMA CallStarts == MatchTypes /\ NewCallMade => call' # None
<1> SUFFICES ASSUME MatchTypes, NewCallMade PROVE call' # None
  OBVIOUS
<1>1. ASSUME NEW cmd \in {"place", "quick_setup", "bot_step", "act"} PROVE NewCall(cmd) \in Calls
  BY NewCallTyped DEF NewCallIs
<1>2. ASSUME NEW t \in Territories, Place(t) PROVE call' # None
  <2>1. NewCall("place") \in Calls
    BY <1>1
  <2>2. \/ call' = [NewCall("place") EXCEPT !.at = "settle", !.applied = "more"]
        \/ call' = [NewCall("place") EXCEPT !.at = "answer", !.error = TRUE]
    BY <1>2 DEF Place, Settles, Refuse, NothingDone
  <2> QED
    BY <2>1, <2>2, StillCall, Zenon
<1>3. CASE QuickSetup \/ BotStep \/ Act
  <2>1. PICK cmd \in {"quick_setup", "bot_step", "act"} :
           \/ call' = [NewCall(cmd) EXCEPT !.at = "setup"]
           \/ call' = [NewCall(cmd) EXCEPT !.at = "settle"]
           \/ call' = [NewCall(cmd) EXCEPT !.at = "settle", !.applied = "more"]
           \/ call' = [NewCall(cmd) EXCEPT !.at = "answer", !.error = TRUE]
           \/ call' = [NewCall(cmd) EXCEPT !.at = "settle", !.error = TRUE]
    BY <1>3 DEF QuickSetup, BotStep, Act, Settles, Refuse, NothingDone
  <2>2. NewCall(cmd) \in Calls
    BY <1>1
  <2> QED
    BY <2>1, <2>2, StillCall, Zenon
<1>4. ASSUME NEW c \in Calls, c.cmd \in {"attack", "fortify"}, NEW place, Move(c, place)
      PROVE  call' # None
  BY <1>4, StillCall, Zenon DEF Move, Refuse, NothingDone
<1>5. ASSUME NEW source \in Territories, NEW target \in Territories, NEW place, NEW blitz \in BOOLEAN,
             NEW move \in ConquestMoves,
             Move([NewCall("attack") EXCEPT !.source = source, !.target = target,
                                            !.blitz = blitz, !.move = move], place)
      PROVE  call' # None
  <2> DEFINE c == [NewCall("attack") EXCEPT !.source = source, !.target = target,
                                            !.blitz = blitz, !.move = move]
  <2>1. c \in Calls /\ c.cmd = "attack"
    BY DEF NewCall, Calls, Turns!Commands
  <2>2. Move(c, place)
    BY <1>5
  <2> HIDE DEF c
  <2> QED
    BY <1>4, <2>1, <2>2
<1>6. ASSUME NEW source \in Territories, NEW target \in Territories, NEW place, NEW num \in Retreats,
             Move([NewCall("fortify") EXCEPT !.source = source, !.target = target, !.num = num], place)
      PROVE  call' # None
  <2> DEFINE c == [NewCall("fortify") EXCEPT !.source = source, !.target = target, !.num = num]
  <2>1. c \in Calls /\ c.cmd = "fortify"
    BY DEF NewCall, Calls, Turns!Commands
  <2>2. Move(c, place)
    BY <1>6
  <2> HIDE DEF c
  <2> QED
    BY <1>4, <2>1, <2>2
<1> QED
  BY <1>2, <1>3, <1>5, <1>6 DEF NewCallMade

LEMMA CallGoesOn == MatchTypes /\ Step => call # None /\ call' # None /\ call'.cmd = call.cmd
<1> SUFFICES ASSUME MatchTypes, Step PROVE call' # None /\ call # None /\ call'.cmd = call.cmd
  OBVIOUS
<1>1. call # None /\ call \in Calls
  BY DEF Step, SetupStep, AttackStep, DefendStep, FortifyStep, SettleStep, At, MatchTypes
<1>2. CASE SetupStep
  <2>1. call' = [call EXCEPT !.applied = "more"] \/ call' = [call EXCEPT !.at = "settle"]
    BY <1>2 DEF SetupStep, GoOn
  <2> QED
    BY <1>1, <2>1, StillCall, Zenon
<1>3. CASE AttackStep
  <2>1. \/ call' = [call EXCEPT !.at = "defend", !.applied = "more"]
        \/ call' = [call EXCEPT !.at = "answer", !.error = TRUE]
    BY <1>3 DEF AttackStep, Refuse, NothingDone
  <2> QED
    BY <1>1, <2>1, StillCall, Zenon
<1>4. CASE DefendStep
  <2>1. call' = call \/ call' = [call EXCEPT !.at = "settle"]
    BY <1>4 DEF DefendStep, GoOn
  <2> QED
    BY <1>1, <2>1, StillCall, Zenon
<1>5. CASE FortifyStep
  <2>1. \/ call' = [call EXCEPT !.at = "settle", !.applied = "more"]
        \/ call' = [call EXCEPT !.at = "answer", !.error = TRUE]
    BY <1>5 DEF FortifyStep, Settles, Refuse, NothingDone
  <2> QED
    BY <1>1, <2>1, StillCall, Zenon
<1>6. CASE SettleStep
  <2>1. \/ UNCHANGED call
        \/ call' = [call EXCEPT !.at = IF BlitzGoesOn THEN "attack" ELSE "answer"]
    BY <1>6, Settling
  <2>2. CASE call' = [call EXCEPT !.at = IF BlitzGoesOn THEN "attack" ELSE "answer"]
    <3>1. call' = [call EXCEPT !.at = "attack"] \/ call' = [call EXCEPT !.at = "answer"]
      BY <2>2
    <3>2. call' \in Calls /\ call'.cmd = call.cmd
      BY <1>1, <3>1 DEF Calls
    <3> QED
      BY <1>1, <3>2, MatchAssumption
  <2> QED
    BY <1>1, <2>1, <2>2
<1> QED
  BY <1>2, <1>3, <1>4, <1>5, <1>6 DEF Step

-----------------------------------------------------------------------------
(* The theorems.                                                           *)

\* Between calls nobody waits for chance, and a battle is left open only for a
\* policy's defence.
THEOREM NobodyAskedToDefend == MatchSpec => []NeverAskedToDefend
<1>1. IInv /\ MatchInv => NeverAskedToDefend
  BY DEF MatchInv, Progress, Quiet, DefendsItself, NeverAskedToDefend
<1> QED
  BY <1>1, MatchAlways, PTL

\* A refused call has at most placed the reserves, however long the blitz.
THEOREM RefusalsPlaceAtMost == MatchSpec => []RefusedAtMostPlaces
<1>1. IInv /\ MatchInv => RefusedAtMostPlaces
  BY DEF MatchInv, Progress, Ready, At, RefusedAtMostPlaces
<1> QED
  BY <1>1, MatchAlways, PTL

\* Every answer is one of those MatchTurns allows, whatever is called, whoever
\* plays and whenever the match ends.
THEOREM TurnsAreKept == MatchSpec => KeepsTurns
<1> DEFINE asked == IF call = None THEN "none" ELSE call.cmd
<1>1. MatchInit => Turns!Init
  BY DEF MatchInit, Turns!Init
<1>2. ASSUME IInv, MatchInv, MatchInv', MatchNext
      PROVE  Turns!Next \/ UNCHANGED <<human, outside, asked, told, refused>>
  <2>1. UNCHANGED <<human, outside>>
    BY <1>2, SettingsStay DEF settings
  <2>2. \A cmd \in Made : cmd # "none" /\ cmd \in Turns!Commands
    BY DEF Made, Turns!Commands
  <2>3. call # None => call.cmd \in Made
    BY <1>2 DEF MatchInv, MatchTypes
  <2>4. call' # None => call'.cmd \in Made
    BY <1>2 DEF MatchInv, MatchTypes
  <2>5. CASE NewCallMade
    <3>1. call = None /\ UNCHANGED told /\ refused' = FALSE
      BY <2>5 DEF NewCallMade
    <3>2. call' # None
      BY <1>2, <2>5, CallStarts DEF MatchInv
    <3>3. Turns!Ask(call'.cmd)
      BY <3>1, <3>2, <2>4 DEF Turns!Ask
    <3> QED
      BY <2>1, <2>2, <2>4, <3>2, <3>3 DEF Turns!Next
  <2>6. CASE Step
    <3>1. UNCHANGED <<told, refused>>
      BY <2>6 DEF Step, answers
    <3>2. asked' = asked
      BY <1>2, <2>6, CallGoesOn DEF MatchInv
    <3> QED
      BY <2>1, <3>1, <3>2
  <2>7. CASE Answer
    <3>1. AnswerDue
      BY <1>2, <2>7, AnswerProgress
    <3>2. call # None /\ call' = None /\ told' = TurnNow /\ refused' = call.error
      BY <2>7 DEF Answer, At
    <3>3. Turns!Answer
      BY <2>2, <2>3, <3>1, <3>2 DEF Turns!Answer, AnswerDue, Due
    <3> QED
      BY <2>1, <3>3 DEF Turns!Next
  <2> QED
    BY <1>2, <2>5, <2>6, <2>7 DEF MatchNext
<1>3. IInv /\ MatchInv /\ (IInv /\ MatchInv)' /\ [MatchNext]_matchVars
         => [Turns!Next]_<<human, outside, asked, told, refused>>
  BY <1>2 DEF matchVars, settings, answers
<1> QED
  BY <1>1, <1>3, MatchAlways, PTL DEF MatchSpec, KeepsTurns, Turns!Spec
=============================================================================
