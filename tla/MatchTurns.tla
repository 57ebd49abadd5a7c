---------------------------- MODULE MatchTurns ----------------------------
(***************************************************************************)
(* What the web match promises whoever calls it: one call at a time, each  *)
(* answered with one of the outcomes of MatchCalls.                        *)
(***************************************************************************)
EXTENDS MatchCalls

VARIABLES
    asked,          \* the call under way, "none" between calls
    turn,           \* whose turn it is, by the latest answer
    refused         \* the call just answered was refused

Init ==
    /\ asked = "none"
    /\ turn = [seat |-> 0, stage |-> "placing"]
    /\ refused = FALSE

Ask(cmd) ==
    /\ asked = "none"
    /\ asked' = cmd
    /\ refused' = FALSE
    /\ UNCHANGED turn

Answer ==
    /\ asked # "none"
    /\ \E effect \in Effects(turn, asked) :
          turn' = effect.to /\ refused' = (effect.outcome = "refused")
    /\ asked' = "none"

Next == (Answer \/ \E cmd \in Commands : Ask(cmd)) /\ UNCHANGED <<person, outside_seat>>

Spec == Init /\ [][Next]_<<person, outside_seat, asked, turn, refused>>
=============================================================================
