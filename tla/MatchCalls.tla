---------------------------- MODULE MatchCalls ----------------------------
(***************************************************************************)
(* The calls a page makes of the web match, and what each may come to, of  *)
(* the match no more than whose turn it is.  MatchTurns makes a promise of *)
(* it that RiskMatch is shown to keep; PlayPage is built on it.            *)
(***************************************************************************)
EXTENDS Integers

CONSTANT NumPlayers     \* the seats

VARIABLES
    person,             \* the page's seat
    outside_seat        \* the seat another module plays, -1 for none

Seats == 0 .. NumPlayers - 1
Over == [seat |-> 0, stage |-> "over"]
Commands == {"place", "quick_setup", "attack", "fortify", "bot_step", "act", "snapshot"}

\* State()'s phase, reinforce and attack being one.
Phase(t) ==
    IF t.stage = "over" THEN "over"
    ELSE IF t.seat = outside_seat THEN "outside"
    ELSE IF t.seat # person THEN "bot"
    ELSE IF t.stage = "placing" THEN "place"
    ELSE "move"

\* Where a move may lead.  A draft goes round the seats; in play a turn, a
\* battle or its defence may hand over to any of `seats`, or end the match.
Moves(t, seats) ==
    IF t.stage = "playing" THEN [seat : seats, stage : {"playing"}] \cup {Over}
    ELSE [seat : {(t.seat + 1) % NumPlayers},
          stage : IF t.seat = NumPlayers - 1 THEN {"placing", "playing"} ELSE {"placing"}]

\* What a call may come to: a move is played, there is nothing to do, or the
\* call is refused.
Effects(t, cmd) ==
    LET no == {[to |-> t, outcome |-> "refused"]}
        nothing == {[to |-> t, outcome |-> "idle"]}
        played(seats) == {[to |-> u, outcome |-> "played"] : u \in Moves(t, seats)}
        asMove(phase, seats) == IF Phase(t) = phase THEN played(seats) \cup no ELSE no
    IN  IF cmd = "snapshot" THEN nothing
        ELSE IF t.stage = "over" THEN no \cup nothing
        ELSE CASE cmd = "quick_setup" ->
                    IF t.stage = "playing" THEN nothing
                    ELSE {[to |-> [seat |-> 0, stage |-> "playing"], outcome |-> "played"]}
               [] cmd = "bot_step" -> IF Phase(t) = "bot" THEN played(Seats) ELSE nothing
               [] cmd = "act" -> asMove("outside", Seats)
               [] cmd = "place" -> asMove("place", {})
               [] cmd = "attack" -> asMove("move", {person})
               [] cmd = "fortify" -> asMove("move", Seats \ {person})
=============================================================================
