----------------------------- MODULE RiskMatch -----------------------------
(***************************************************************************)
(* The match behind the play page, web/risk_match.cc: a game of Risk       *)
(* between a person and policies, driven by calls.  A call applies any     *)
(* number of the rules' actions, each followed by the renderer, before it  *)
(* answers; calls come one at a time, in any order and at any moment, the  *)
(* end of the game included.  One step here is one action applied, or a    *)
(* decision between two of them.                                           *)
(***************************************************************************)
EXTENDS RiskSession

CONSTANTS
    Matches,        \* the matches there may be: [human, outside, fast]
    Retreats        \* the armies a person asks to march, 0 only ends the turn

VARIABLES
    human,          \* human_
    outside,        \* outside_, -1 for none
    fast_defense,   \* fast_defense_
    call,           \* the call under way, None between calls
    told,           \* whose turn it is, by the latest answer
    refused         \* the call just answered was refused

settings == <<human, outside, fast_defense>>
answers == <<told, refused>>
matchVars == <<sessionVars, settings, call, answers>>

Turns == INSTANCE MatchTurns
    WITH person <- human, outside_seat <- outside, turn <- told,
         asked <- IF call = None THEN "none" ELSE call.cmd

TurnNow ==
    IF IsOver THEN Turns!Over
    ELSE [seat |-> current_player, stage |-> IF initial_placement THEN "placing" ELSE "playing"]

\* A call: where it has got to, its error, its arguments, and, as a history,
\* what it has applied so far.
Calls ==
    [cmd : Turns!Commands,
     at : {"start", "setup", "attack", "defend", "fortify", "settle", "answer"},
     error : BOOLEAN, applied : {"nothing", "reserves", "more"},
     source : Territories \cup {None}, target : Territories \cup {None},
     move : {0} \cup ConquestMoves, num : {0} \cup Retreats, blitz : BOOLEAN]

NewCall(cmd) ==
    [cmd |-> cmd, at |-> "start", error |-> FALSE, applied |-> "nothing",
     source |-> None, target |-> None, move |-> 0, num |-> 0, blitz |-> FALSE]

\* rk_new: the outside seat is never the person's.
ASSUME MatchAssumption ==
    /\ Matches \subseteq [human : Players, outside : Players \cup {-1}, fast : BOOLEAN]
    /\ \A m \in Matches : m.outside # m.human
    /\ Retreats \subseteq Int
    /\ None \notin Calls

\* Apply(): an action that is valid, and the renderer after it.
Apply(action) == action /\ CountTurn /\ OnStep
Settles(c) == call' = [c EXCEPT !.at = "settle", !.applied = "more"]
NothingDone(c) == call' = c /\ UNCHANGED sessionVars
Refuse(c) == NothingDone([c EXCEPT !.at = "answer", !.error = TRUE])

-----------------------------------------------------------------------------
(* The calls                                                               *)

Place(t) ==
    IF current_player = human /\ ValidInitialPlace(t)
    THEN Apply(InitialPlace(t)) /\ Settles(NewCall("place"))
    ELSE Refuse(NewCall("place"))

QuickSetup == NothingDone([NewCall("quick_setup") EXCEPT !.at = "setup"])

\* The head of Attack and of Fortify: whose move it is, and the reserves, which
\* are placed on their own and before the move itself is looked at.
Move(c, place) ==
    IF current_player # human \/ initial_placement THEN Refuse(c)
    ELSE IF reserves[human] = 0 \/ ~first_attack_of_turn
         THEN NothingDone([c EXCEPT !.at = c.cmd])
    ELSE IF PlayerToMove /\ ValidReinforcement(place)
         THEN Apply(PlayerAction(place, None)) /\ call' = [c EXCEPT !.at = c.cmd, !.applied = "reserves"]
    ELSE Refuse(c)

\* What the page sends along: nothing, or armies the rules let it place.
Offers ==
    {NoReinforcement} \cup
    IF current_player = human THEN {p \in Placements : ValidReinforcement(p)} ELSE {}

\* The most dice allowed.
FullDefense == QueueDefense(Min2(2, units[queued_attack.target]))

\* BotAction: the policy's action, or a random legal one if that is illegal.
BotAction ==
    IF (fast_defense \/ current_player = outside) /\ queued_attack # None /\ queued_defense = NoDefense
    THEN FullDefense
    ELSE Next

\* mutant: the person's seat is not left alone
BotStep_PlaysPerson ==
    IF current_player \in {outside, Nobody} \/ IsOver
    THEN NothingDone([NewCall("bot_step") EXCEPT !.at = "settle"])
    ELSE Apply(BotAction) /\ Settles(NewCall("bot_step"))

BotStep ==
    IF current_player \in {human, outside, Nobody} \/ IsOver
    THEN NothingDone([NewCall("bot_step") EXCEPT !.at = "settle"])
    ELSE Apply(BotAction) /\ Settles(NewCall("bot_step"))

\* The action comes from elsewhere and may be none the rules allow.
Act ==
    IF current_player # outside THEN Refuse(NewCall("act"))
    ELSE \/ Apply(Next) /\ Settles(NewCall("act"))
         \/ NothingDone([NewCall("act") EXCEPT !.at = "settle", !.error = TRUE])

NewCallMade ==
    /\ call = None
    /\ \/ \E t \in Territories : Place(t)
       \/ QuickSetup
       \/ \E source, target \in Territories, place \in Offers, blitz \in BOOLEAN, move \in ConquestMoves :
             Move([NewCall("attack") EXCEPT !.source = source, !.target = target,
                                            !.blitz = blitz, !.move = move], place)
       \/ /\ turn_count < MaxTurns
          /\ \E source, target \in Territories, place \in Offers, num \in Retreats :
                Move([NewCall("fortify") EXCEPT !.source = source, !.target = target, !.num = num], place)
       \/ BotStep
       \/ Act
    /\ refused' = FALSE
    /\ UNCHANGED <<settings, told>>

-----------------------------------------------------------------------------
(* What goes on inside a call                                              *)

At(step) == call # None /\ call.at = step
GoOn(step) == call' = [call EXCEPT !.at = step] /\ UNCHANGED sessionVars

SetupStep ==
    /\ At("setup")
    /\ IF initial_placement
       THEN Apply(\E t \in Territories : InitialPlace(t)) /\ call' = [call EXCEPT !.applied = "more"]
       ELSE GoOn("settle")

\* The attack, with the most dice the source allows.
\* mutant: the loop is not left when the attack is refused
AttackStep_NoBreak ==
    LET attack == [source |-> call.source, target |-> call.target,
                   dice |-> Min2(3, units[call.source] - 1), move |-> call.move]
    IN  /\ At("attack")
        /\ IF PlayerToMove /\ attack.dice >= 1 /\ ValidAttack(attack)
           THEN Apply(PlayerAction(NoReinforcement, attack))
                /\ call' = [call EXCEPT !.at = "defend", !.applied = "more"]
           ELSE NothingDone([call EXCEPT !.at = "settle", !.error = TRUE])
AttackStep ==
    LET attack == [source |-> call.source, target |-> call.target,
                   dice |-> Min2(3, units[call.source] - 1), move |-> call.move]
    IN  /\ At("attack")
        /\ IF PlayerToMove /\ attack.dice >= 1 /\ ValidAttack(attack)
           THEN Apply(PlayerAction(NoReinforcement, attack))
                /\ call' = [call EXCEPT !.at = "defend", !.applied = "more"]
           ELSE Refuse(call)

\* The defence of a seat that is not the person's.
DefendStep ==
    /\ At("defend")
    /\ IF current_player \notin {human, Nobody} /\ ~IsOver
       THEN Apply(BotAction) /\ UNCHANGED call
       ELSE GoOn("settle")

FortifyStep ==
    /\ At("fortify")
    /\ IF PlayerToMove /\ ValidFortify(call.source, call.target, call.num)
       THEN Apply(Fortify(call.source, call.target, call.num)) /\ Settles(call)
       ELSE Refuse(call)

BattleWaits == queued_attack # None /\ queued_defense = NoDefense

\* mutant: the outside seat's defence is left to it
DefendsItself_PersonOnly == current_player = human
DefendsItself == current_player = human \/ (current_player = outside /\ fast_defense)

\* mutant: the last army is sent as well
BlitzGoesOn_LastArmy ==
    /\ call.cmd = "attack" /\ call.blitz
    /\ current_player = human
    /\ owner[call.target] # human
BlitzGoesOn ==
    /\ call.cmd = "attack" /\ call.blitz
    /\ current_player = human
    /\ owner[call.target] # human
    /\ units[call.source] > 1

\* Settle(): dice, and defences that need no one; then a blitz goes on.
SettleStep ==
    /\ At("settle")
    /\ IF ~IsOver /\ queued_defense # NoDefense
       THEN Apply(\E a \in Rolls(3), d \in Rolls(2) : RollDice(a, d)) /\ UNCHANGED call
       ELSE IF ~IsOver /\ BattleWaits /\ DefendsItself
       THEN Apply(FullDefense) /\ UNCHANGED call
       ELSE GoOn(IF BlitzGoesOn THEN "attack" ELSE "answer")

Answer ==
    /\ At("answer")
    /\ told' = TurnNow
    /\ refused' = call.error
    /\ call' = None
    /\ UNCHANGED <<sessionVars, settings>>

Step ==
    /\ SetupStep \/ AttackStep \/ DefendStep \/ FortifyStep \/ SettleStep
    /\ UNCHANGED <<settings, answers>>

MatchInit ==
    /\ SessionInit
    /\ \E m \in Matches : human = m.human /\ outside = m.outside /\ fast_defense = m.fast
    /\ call = None
    /\ Turns!Init

MatchNext ==
    \/ NewCallMade
    \/ Step
    \/ Answer

\* A call runs on one thread to its end; nobody has to make one.
MatchSpec == MatchInit /\ [][MatchNext]_matchVars /\ WF_matchVars(Step \/ Answer)

-----------------------------------------------------------------------------
(* Properties                                                              *)

\* Every answer is one the page may rely on: the right calls are refused, the
\* person's attack leaves the person on turn, the end of a turn does not, a bot
\* never moves for the person, and a match that is over stays over.
KeepsTurns == Turns!Spec

\* "A person never picks dice", and nobody waits for chance: between calls a
\* battle is open only for a policy's defence.
NeverAskedToDefend ==
    call = None /\ ~IsOver =>
        /\ current_player # Nobody
        /\ queued_attack # None =>
              current_player # human /\ (fast_defense => current_player # outside)

\* A call that is refused has at most placed the reserves: nothing is refused
\* once an attack has been made, however long the blitz.
RefusedAtMostPlaces == At("answer") /\ call.error => call.applied # "more"

\* Every call answers, a blitz included.
CallsReturn == call # None ~> call = None

\* "error explains a refused move, which leaves the game as it was".
RefusedChangesNothing == At("answer") /\ call.error => call.applied = "nothing"
=============================================================================
