------------------------------ MODULE PlayPage ------------------------------
(***************************************************************************)
(* The play page (web/static/js/play.js) and the two workers it talks to:  *)
(* the engine, which referees the match and plays the bots, and, when the  *)
(* second opponent is another candidate, the module that decides for the   *)
(* outside seat.  Calls and answers are messages, in order per worker.     *)
(* What the page does between two awaits is one step, and other events     *)
(* come in between: the code after an await is the step that receives its  *)
(* answer, so the awaits under way are the messages under way.             *)
(*                                                                         *)
(* The match is abstracted to who is to move and how many moves were made: *)
(* what a call may come to is MatchCalls, which RiskMatch is shown to keep.*)
(***************************************************************************)
EXTENDS MatchCalls, Sequences

CONSTANTS
    MaxMoves,       \* bound: the match is over after so many moves
    MaxAwaits       \* bound: the person waits when so many awaits are under way

ASSUME BoundsAssumption == MaxMoves \in Nat /\ MaxAwaits \in Nat

VARIABLES
    match,          \* the engine's match: whose turn it is, and the moves made
    state,          \* state.phase, of the engine's latest answer
    busy,           \* busy
    can_end,        \* the end-turn button is enabled
    last_attack,    \* lastAttack is set
    march,          \* the box that asks how many armies are to march is open
    shown,          \* finish() has shown the result
    calls,          \* messages to the engine's worker
    answers,        \* and from it
    questions,      \* messages to the outside seat's worker
    decisions,      \* and from it
    main_waits,     \* main() awaits the presenter after the setup
    turns_waiting   \* how many botTurn() await the presenter after their loop

settings == <<person, outside_seat>>
workers == <<calls, answers, questions, decisions>>
waits == <<main_waits, turns_waiting>>
memory == <<last_attack, march>>
vars == <<settings, match, state, busy, can_end, memory, shown, workers, waits>>

-----------------------------------------------------------------------------
(* The workers                                                             *)

PhaseNow == Phase(match.turn)
Bots == {"bot", "outside"}

\* What the engine may make of a call; the last move of the bound ends the
\* match.  The outside seat's decision on the match as it stands is legal: that
\* is the policy's part.
Played(t) == [turn |-> IF match.moves + 1 >= MaxMoves THEN Over ELSE t, moves |-> match.moves + 1]
Outcomes(call) ==
    LET fresh == call.cmd = "act" /\ PhaseNow = "outside" /\ call.on = match.moves
    IN  {[to |-> IF e.outcome = "played" THEN Played(e.to) ELSE match, error |-> e.outcome = "refused"] :
            e \in {e \in Effects(match.turn, call.cmd) : fresh => e.outcome # "refused"}}

\* engine_worker.js takes its messages one at a time and answers each.
EngineAnswers ==
    /\ calls # <<>>
    /\ \E effect \in Outcomes(Head(calls)) :
          /\ match' = effect.to
          /\ answers' = Append(answers, [cmd |-> Head(calls).cmd, error |-> effect.error,
                                         phase |-> Phase(effect.to.turn), on |-> effect.to.moves])
    /\ calls' = Tail(calls)
    /\ UNCHANGED <<settings, state, busy, can_end, memory, shown, questions, decisions, waits>>

\* rk_decide, on the snapshot it is given.
OutsideDecides ==
    /\ questions # <<>>
    /\ decisions' = Append(decisions, Head(questions))
    /\ questions' = Tail(questions)
    /\ UNCHANGED <<settings, match, state, busy, can_end, memory, shown, calls, answers, waits>>

-----------------------------------------------------------------------------
(* The page                                                                *)

Request(cmd, on) == calls' = Append(calls, [cmd |-> cmd, on |-> on])

\* The head of botTurn()'s loop; a snapshot, unlike a step, leaves busy as it is.
\* mutant: one step and no loop
BotTurnLoop_Once(phase, still) ==
    /\ busy' = still
    /\ turns_waiting' = turns_waiting + 1
    /\ UNCHANGED calls
BotTurnLoop(phase, still) ==
    IF phase = "outside" THEN
        busy' = still /\ Request("snapshot", 0) /\ UNCHANGED turns_waiting
    ELSE IF phase = "bot" THEN
        busy' = TRUE /\ Request("bot_step", 0) /\ UNCHANGED turns_waiting
    ELSE
        busy' = still /\ UNCHANGED calls /\ turns_waiting' = turns_waiting + 1

Refresh(phase) == can_end' = (phase = "move")

\* afterMove(), up to its first await.
AfterMove(phase) ==
    /\ Refresh(phase)
    /\ IF phase \in Bots
       THEN BotTurnLoop(phase, FALSE) /\ UNCHANGED shown
       ELSE /\ busy' = FALSE
            /\ shown' = (shown \/ phase = "over")
            /\ UNCHANGED <<calls, turns_waiting>>

Answered(cmd) == answers # <<>> /\ Head(answers).cmd = cmd /\ answers' = Tail(answers)

\* `state = answer.state`; mutant: an answer nobody seems to wait for is dropped
TakeState_OnlyWhenBusy == state' = IF busy THEN Head(answers).phase ELSE state
TakeState == state' = Head(answers).phase

\* mutant: a refused attack does not free the page
AttackAnswered_StaysBusy ==
    /\ Answered("attack")
    /\ TakeState
    /\ IF Head(answers).error \/ state' = "move"
       THEN Refresh(state') /\ busy' = Head(answers).error
            /\ UNCHANGED <<shown, calls, turns_waiting>>
       ELSE AfterMove(state')
    /\ UNCHANGED <<settings, match, memory, questions, decisions, main_waits>>

\* mutant: afterMove() is left out, so that a last conquest ends nothing
AttackAnswered_NoAfterMove ==
    /\ Answered("attack")
    /\ TakeState
    /\ Refresh(state') /\ busy' = FALSE /\ UNCHANGED <<shown, calls, turns_waiting>>
    /\ UNCHANGED <<settings, match, memory, questions, decisions, main_waits>>

AttackAnswered ==
    /\ Answered("attack")
    /\ TakeState
    /\ IF state' = "move"
       THEN Refresh(state') /\ busy' = FALSE /\ UNCHANGED <<shown, calls, turns_waiting>>
       ELSE AfterMove(state')
    /\ UNCHANGED <<settings, match, memory, questions, decisions, main_waits>>

FortifyAnswered ==
    /\ Answered("fortify")
    /\ TakeState
    /\ IF Head(answers).error
       THEN Refresh(state') /\ busy' = FALSE /\ UNCHANGED <<shown, calls, turns_waiting>>
       ELSE AfterMove(state')
    /\ UNCHANGED <<settings, match, memory, questions, decisions, main_waits>>

PlaceAnswered ==
    /\ Answered("place")
    /\ TakeState
    /\ AfterMove(state')
    /\ UNCHANGED <<settings, match, memory, questions, decisions, main_waits>>

\* A step of botTurn() by the engine's own bots, or for the outside seat.
BotAnswered(cmd) ==
    /\ cmd \in {"bot_step", "act"}
    /\ Answered(cmd)
    /\ TakeState
    /\ BotTurnLoop(state', FALSE)
    /\ UNCHANGED <<settings, match, can_end, memory, shown, questions, decisions, main_waits>>

\* engine.call('snapshot') is not call(): busy and state stay as they are.
SnapshotAnswered ==
    /\ Answered("snapshot")
    /\ questions' = Append(questions, Head(answers).on)
    /\ UNCHANGED <<settings, match, state, busy, can_end, memory, shown, calls, decisions, waits>>

\* The decision is sent on whatever has happened meanwhile.
DecisionAnswered ==
    /\ decisions # <<>>
    /\ decisions' = Tail(decisions)
    /\ busy' = TRUE
    /\ Request("act", Head(decisions))
    /\ UNCHANGED <<settings, match, state, can_end, memory, shown, answers, questions, waits>>

SetupAnswered ==
    /\ Answered("quick_setup")
    /\ TakeState
    /\ busy' = FALSE
    /\ main_waits' = TRUE
    /\ UNCHANGED <<settings, match, can_end, memory, shown, calls, questions, decisions, turns_waiting>>

\* The presenter has caught up: main() goes on, or the end of a botTurn().
SetupPresented ==
    /\ main_waits
    /\ main_waits' = FALSE
    /\ Refresh(state)
    /\ IF state \in Bots
       THEN BotTurnLoop(state, busy) /\ UNCHANGED shown
       ELSE shown' = (shown \/ state = "over") /\ UNCHANGED <<busy, calls, turns_waiting>>
    /\ UNCHANGED <<settings, match, state, memory, answers, questions, decisions>>

TurnPresented ==
    /\ turns_waiting > 0
    /\ turns_waiting' = turns_waiting - 1
    /\ Refresh(state)
    /\ shown' = (shown \/ state = "over")
    /\ UNCHANGED <<settings, match, state, busy, memory, workers, main_waits>>

-----------------------------------------------------------------------------
(* The person.  Which territories are clicked does not matter here.        *)

Awaits == Len(calls) + Len(answers) + Len(questions) + Len(decisions) + turns_waiting

Ask(cmd) ==
    /\ Awaits < MaxAwaits
    /\ Request(cmd, 0)
    /\ busy' = TRUE
    /\ UNCHANGED <<settings, match, state, can_end, shown, answers, questions, decisions, waits>>

\* onClick asks whose turn it is, and, for a placement, no more.
ClickPlace == state = "place" /\ Ask("place") /\ UNCHANGED memory
ClickAttack == state = "move" /\ ~busy /\ Ask("attack") /\ last_attack' = TRUE /\ UNCHANGED march
\* Space repeats the last attack; the turn is not looked at.
PressSpace == last_attack /\ ~busy /\ Ask("attack") /\ UNCHANGED memory

\* Attacks ended, which goes with the turn's end, and two territories clicked:
\* the box opens, also while a call is out.
ClickMarch ==
    /\ state = "move" /\ can_end /\ march' = TRUE
    /\ UNCHANGED <<settings, match, state, busy, can_end, last_attack, shown, workers, waits>>
\* Nothing but the person closes the box; fortify() then looks at busy only.
March ==
    /\ march /\ march' = FALSE /\ UNCHANGED last_attack
    /\ \/ ~busy /\ Ask("fortify")
       \/ busy /\ UNCHANGED <<settings, match, state, busy, can_end, shown, workers, waits>>
\* With the box open the button, or Enter, is the box's own.
EndTurn == can_end /\ ~march /\ ~busy /\ Ask("fortify") /\ UNCHANGED memory

\* The keys and clicks that only redraw; Escape closes the box.
Redraw ==
    /\ Refresh(state) /\ march' \in {march, FALSE}
    /\ UNCHANGED <<settings, match, state, busy, last_attack, shown, workers, waits>>

-----------------------------------------------------------------------------
\* main() with the listeners in place: the board is dealt, or drafted.
Init ==
    /\ person \in Seats
    /\ outside_seat \in (Seats \ {person}) \cup {-1}
    /\ match = [turn |-> [seat |-> 0, stage |-> "placing"], moves |-> 0]
    /\ state = PhaseNow
    /\ last_attack = FALSE /\ march = FALSE /\ shown = FALSE
    /\ answers = <<>> /\ questions = <<>> /\ decisions = <<>>
    /\ main_waits = FALSE /\ turns_waiting = 0
    /\ \/ /\ calls = << [cmd |-> "quick_setup", on |-> 0] >> /\ busy = TRUE
          /\ can_end = TRUE               \* as play.html has it, until refresh()
       \/ /\ calls = CASE state = "outside" -> << [cmd |-> "snapshot", on |-> 0] >>
                       [] state = "bot" -> << [cmd |-> "bot_step", on |-> 0] >>
                       [] OTHER -> <<>>
          /\ busy = (state = "bot") /\ can_end = FALSE

Page ==
    \/ AttackAnswered
    \/ FortifyAnswered
    \/ PlaceAnswered
    \/ \E cmd \in {"bot_step", "act"} : BotAnswered(cmd)
    \/ SnapshotAnswered
    \/ SetupAnswered

Person == ClickPlace \/ ClickAttack \/ PressSpace \/ ClickMarch \/ March \/ EndTurn \/ Redraw

Next ==
    \/ EngineAnswers
    \/ OutsideDecides
    \/ Page
    \/ DecisionAnswered
    \/ SetupPresented
    \/ TurnPresented
    \/ Person

\* The workers answer every call, the browser delivers every message and the
\* presenter catches up.  The person owes nothing.
Fairness ==
    /\ WF_vars(EngineAnswers) /\ WF_vars(OutsideDecides)
    /\ WF_vars(Page) /\ WF_vars(DecisionAnswered)
    /\ WF_vars(SetupPresented) /\ WF_vars(TurnPresented)

Spec == Init /\ [][Next]_vars /\ Fairness

-----------------------------------------------------------------------------
(* Properties                                                              *)

EngineIdle == calls = <<>> /\ answers = <<>>

\* "the engine's latest answer's state: the truth".  Several calls may be out
\* at once; when the last is answered the page shows where the match stands.
ShowsTruth == EngineIdle => state = PhaseNow

\* busy refuses the person's moves: it is never left set with nothing out.
NeverLockedUp == busy => ~EngineIdle

\* The bots' turns end in the person's, or the end of the game.
TurnComesBack == PhaseNow \in Bots ~> PhaseNow \notin Bots

\* A finished game is shown as finished, whoever finished it.
EndIsShown == PhaseNow = "over" ~> shown

\* "The match as it stands, for the outside seat's module to decide on": the
\* outside seat's move was decided on the position it is played in.
DecidedOnPosition ==
    [][ calls # <<>> /\ Head(calls).cmd = "act" /\ match' # match =>
            Head(calls).on = match.moves ]_vars
=============================================================================
