------------------------------- MODULE SelfPlay -------------------------------
(***************************************************************************)
(* risk_mcts_selfplay.cpp: the program that plays Risk against itself until*)
(* it is interrupted.  Ctrl-C may arrive between any two of its steps, keys*)
(* are polled once per move, the program may be killed at any point, and a *)
(* later run records into the same directory.  A game is what the loop sees*)
(* of it: who decides next (or the dice), and whether somebody has won.    *)
(***************************************************************************)
EXTENDS Integers, Sequences, FiniteSets, SequencesExt

CONSTANTS SeatCount,       \* --num_players
          Flag,            \* --iterations_per_move
          ParamSpecs,      \* the values of --player_params tried
          MovesPerGame,    \* --max_moves_per_game
          Recording,       \* whether --record_games names a directory
          NoFile,          \* no file of that name
          MaxGames, MaxRuns    \* bounds: games played to the end, runs in the directory

ASSUME SelfPlayAssumption ==
    /\ SeatCount \in Nat /\ Flag \in Int /\ MovesPerGame \in Nat
    /\ Recording \in BOOLEAN /\ MaxGames \in Nat /\ MaxRuns \in Nat \ {0}

Dice == -1
Nobody == -2
Seats0 == 0..SeatCount - 1

VARIABLES run,        \* how many times the program was started here
          stage,      \* where the program stands
          abort,      \* g_abort
          params,     \* iterations of each player, after --player_params
          thought,    \* iterations done for the decision being made
          game,       \* who moves and who has won
          move,       \* moves of this game
          stats,      \* games_, wins_ and draws_
          trajectory, \* steps and result recorded in memory
          back,       \* where WriteTrajectory returns to
          tmps, files,\* game_<i>.pbtxt.tmp and game_<i>.pbtxt on disk
          endings     \* how the games of each run really ended

selfPlayVars == <<run, stage, abort, params, thought, game, move, stats,
                  trajectory, back, tmps, files, endings>>
disk == <<tmps, files>>
play == <<thought, game, move, trajectory>>

Clamp(n) == IF n < 1 THEN 1 ELSE n

(* One key=value of --player_params; a bad one throws. *)
ApplyEntry(p, entry) ==
    CASE entry.key = "iterations" /\ entry.good -> [p EXCEPT !.iterations = Clamp(entry.number)]
      [] entry.key \in {"widening_c", "widening_alpha", "rollout"} /\ entry.good -> p
      [] OTHER -> [p EXCEPT !.ok = FALSE]

ParsePlayerParams(segment, p) == FoldLeft(ApplyEntry, p, segment)

(* Segments apply in player order; an empty last one is no segment. *)
Given(spec) == IF Last(spec) = <<>> THEN Front(spec) ELSE spec
GlobalPlayerParams == [iterations |-> Clamp(Flag), ok |-> TRUE]

ParsedParams(spec) ==
    [p \in Seats0 |-> IF p < Len(Given(spec))
                      THEN ParsePlayerParams(spec[p + 1], GlobalPlayerParams)
                      ELSE GlobalPlayerParams]

(* main's checks before the first game: return 1, or play. *)
Refuses(spec) ==
    \/ SeatCount \notin 2..6
    \/ Len(Given(spec)) > SeatCount
    \/ \E p \in Seats0 : ~ParsedParams(spec)[p].ok
(* The directory for the recordings may not be made.                       *)
FirstStages(spec) ==
    IF Refuses(spec) THEN {"refused"} ELSE IF Recording THEN {"top", "refused"} ELSE {"top"}
Iterations(spec) == [p \in Seats0 |-> ParsedParams(spec)[p].iterations]

Fresh == [games |-> 0, wins |-> [p \in Seats0 |-> 0], draws |-> 0]
NoGame == [mover |-> 0, winner |-> Nobody]
Untold(i) == [index |-> i, steps |-> 0, result |-> "none"]

SelfPlayInit ==
    /\ run = 1 /\ abort = FALSE
    /\ \E spec \in ParamSpecs : stage \in FirstStages(spec) /\ params = Iterations(spec)
    /\ thought = 0 /\ game = NoGame /\ move = 0
    /\ stats = Fresh /\ trajectory = Untold(0) /\ back = "none"
    /\ tmps = [i \in 0..MaxGames - 1 |-> NoFile]
    /\ files = [i \in 0..MaxGames - 1 |-> NoFile]
    /\ endings = [r \in 1..MaxRuns |-> <<>>]

Running == stage \notin {"refused", "exited", "killed"}
IsTerminal == game.winner # Nobody
TheGame == stats.games     \* game_index
Ended == FoldFunctionOnSet(LAMBDA ended, n : Len(ended) + n, 0, endings, 1..MaxRuns)

(***************************************************************************)
(* RunSelfPlay.                                                            *)
(***************************************************************************)
NewGame ==
    /\ stage = "top" /\ ~abort /\ Ended < MaxGames
    /\ stage' = "loop" /\ game' = NoGame /\ move' = 0
    /\ trajectory' = Untold(TheGame) /\ thought' = 0
    /\ UNCHANGED <<run, abort, params, stats, back, disk, endings>>

(* Leaving RunSelfPlay restores the terminal, prints the counts, returns 0. *)
Gone ==
    /\ thought' = 0 /\ game' = NoGame /\ move' = 0 /\ trajectory' = Untold(0)
    /\ back' = "none" /\ abort' = FALSE
    /\ UNCHANGED <<run, params, disk, endings>>

Leave ==
    /\ \/ stage = "top" /\ abort
       \/ stage = "counting" /\ abort
    /\ stage' = "exited" /\ Gone /\ UNCHANGED stats

GoOn ==
    /\ stage = "loop" /\ ~IsTerminal /\ move < MovesPerGame /\ ~abort
    /\ stage' = "input"
    /\ UNCHANGED <<run, abort, params, play, stats, back, disk, endings>>

LoopEnds ==
    /\ stage = "loop" /\ (IsTerminal \/ move >= MovesPerGame \/ abort)
    /\ stage' = "counting"
    /\ endings' = IF IsTerminal \/ move >= MovesPerGame
                  THEN [endings EXCEPT ![run] =
                            Append(@, [winner |-> game.winner, moves |-> move])]
                  ELSE endings
    /\ UNCHANGED <<run, abort, params, play, stats, back, disk>>

(* Mutant of Counted: the move cap makes a draw whoever has won. *)
Counted_CapFirst ==
    IF IsTerminal /\ move < MovesPerGame
    THEN [stats EXCEPT !.games = @ + 1, !.wins[game.winner] = @ + 1]
    ELSE [stats EXCEPT !.games = @ + 1, !.draws = @ + 1]

Counted == IF IsTerminal THEN [stats EXCEPT !.games = @ + 1, !.wins[game.winner] = @ + 1]
           ELSE [stats EXCEPT !.games = @ + 1, !.draws = @ + 1]

CountGame ==
    /\ stage = "counting" /\ ~abort
    /\ stats' = Counted
    /\ IF Recording
       THEN /\ trajectory' = [trajectory EXCEPT !.result =
                                  IF IsTerminal THEN ToString(game.winner) ELSE "draw"]
            /\ stage' = "open" /\ back' = "shown"
       ELSE stage' = "shown" /\ UNCHANGED <<trajectory, back>>
    /\ UNCHANGED <<run, abort, params, thought, game, move, disk, endings>>

ShowResult ==
    /\ stage = "shown" /\ stage' = "top"
    /\ UNCHANGED <<run, abort, params, play, stats, back, disk, endings>>

(***************************************************************************)
(* HandlePauseInput: one poll per move; the pause loop reads nothing but   *)
(* the keyboard.                                                           *)
(***************************************************************************)
NoKey ==
    /\ stage = "input" /\ stage' = "move"
    /\ UNCHANGED <<run, abort, params, play, stats, back, disk, endings>>

KeyQuit ==
    /\ stage \in {"input", "paused"}
    /\ stage' = "counting" /\ abort' = TRUE
    /\ UNCHANGED <<run, params, play, stats, back, disk, endings>>

KeySpace ==
    /\ \/ /\ stage = "input"
          /\ IF Recording THEN stage' = "open" /\ back' = "paused"
                          ELSE stage' = "paused" /\ UNCHANGED back
       \/ stage = "paused" /\ stage' = "move" /\ UNCHANGED back
    /\ UNCHANGED <<run, abort, params, play, stats, disk, endings>>

(***************************************************************************)
(* PlayMove.                                                               *)
(***************************************************************************)
Think ==
    /\ stage = "move" /\ game.mover # Dice
    /\ thought < params[game.mover] /\ ~abort
    /\ thought' = thought + 1
    /\ UNCHANGED <<run, stage, abort, params, game, move, stats, trajectory, back, disk, endings>>

GiveUpMove ==
    /\ stage = "move" /\ game.mover # Dice /\ abort
    /\ stage' = "counting"
    /\ UNCHANGED <<run, abort, params, play, stats, back, disk, endings>>

(* record_action, apply_action, ++move. *)
Apply(next) ==
    /\ trajectory' = [trajectory EXCEPT !.steps = @ + 1]
    /\ game' = next /\ move' = move + 1 /\ thought' = 0 /\ stage' = "loop"
    /\ UNCHANGED <<run, abort, params, stats, back, disk, endings>>

Decide ==
    /\ stage = "move" /\ game.mover # Dice
    /\ thought >= params[game.mover] /\ ~abort
    /\ \E mover \in Seats0 \cup {Dice} : Apply([mover |-> mover, winner |-> Nobody])

Roll ==
    /\ stage = "move" /\ game.mover = Dice
    /\ \/ \E mover \in Seats0 : Apply([mover |-> mover, winner |-> Nobody])
       \/ \E winner \in Seats0 : Apply([mover |-> 0, winner |-> winner])

(***************************************************************************)
(* WriteTrajectory: opens (and empties) the .tmp, writes it, renames it.   *)
(* Whether the text went in is not looked at before the rename.            *)
(***************************************************************************)
PathIndex_Now == TheGame    \* mutant of PathIndex: the next game's name
PathIndex == IF back = "shown" THEN TheGame - 1 ELSE TheGame
AfterOpenFails_RenamesAnyway == "rename"    \* mutant of AfterOpenFails
AfterOpenFails == back

Written(text) == [run |-> run, story |-> trajectory, text |-> text]

OpenTmp ==
    /\ stage = "open" /\ stage' = "write"
    /\ tmps' = [tmps EXCEPT ![PathIndex] = Written("cut")]
    /\ UNCHANGED <<run, abort, params, play, stats, back, files, endings>>

OpenFails ==
    /\ stage = "open" /\ stage' = AfterOpenFails
    /\ UNCHANGED <<run, abort, params, play, stats, back, disk, endings>>

WriteTmp ==
    /\ stage = "write" /\ stage' = "rename"
    /\ \E text \in {"whole", "refused by the disk"} :
           tmps' = [tmps EXCEPT ![PathIndex] = Written(text)]
    /\ UNCHANGED <<run, abort, params, play, stats, back, files, endings>>

RenameTmp ==
    /\ stage = "rename" /\ stage' = back
    /\ \/ /\ tmps[PathIndex] # NoFile
          /\ files' = [files EXCEPT ![PathIndex] = tmps[PathIndex]]
          /\ tmps' = [tmps EXCEPT ![PathIndex] = NoFile]
       \/ UNCHANGED disk
    /\ UNCHANGED <<run, abort, params, play, stats, back, endings>>

(***************************************************************************)
(* What happens to the program.                                            *)
(***************************************************************************)
OnSigInt ==
    /\ Running /\ ~abort /\ abort' = TRUE
    /\ UNCHANGED <<run, stage, params, play, stats, back, disk, endings>>

Kill ==
    /\ Running /\ stage' = "killed" /\ Gone /\ stats' = Fresh

Restart ==
    /\ ~Running /\ run < MaxRuns
    /\ run' = run + 1 /\ stats' = Fresh
    /\ \E spec \in ParamSpecs : stage' \in FirstStages(spec) /\ params' = Iterations(spec)
    /\ UNCHANGED <<abort, play, back, disk, endings>>

(* What the program does when nobody touches it. *)
ByItself ==
    \/ NewGame \/ Leave \/ GoOn \/ LoopEnds \/ CountGame \/ ShowResult
    \/ NoKey \/ Think \/ GiveUpMove \/ Decide \/ Roll
    \/ OpenTmp \/ OpenFails \/ WriteTmp \/ RenameTmp

SelfPlayNext == ByItself \/ KeyQuit \/ KeySpace \/ OnSigInt \/ Kill \/ Restart

SelfPlaySpec == SelfPlayInit /\ [][SelfPlayNext]_selfPlayVars /\ WF_selfPlayVars(ByItself)

-----------------------------------------------------------------------------
(* Whatever is interrupted, killed or refused, and whenever the program is *)
(* started again over what an earlier run left: a reader of the directory  *)
(* never finds a recording that was cut off while it was being written.    *)
(* (A full disk still publishes one: the write is not checked.)            *)
FilesAreWhole == \A i \in DOMAIN files : files[i] # NoFile => files[i].text # "cut"

(* game_<i>.pbtxt tells game i of the run that wrote it: finished, it holds *)
(* every move of that game and the result the game really had; a flush from*)
(* a pause holds no result.                                                *)
FilesTellTheirGame ==
    \A i \in DOMAIN files : files[i] # NoFile =>
        LET told == files[i].story
            ended == endings[files[i].run]
        IN  /\ told.index = i
            /\ told.result # "none" =>
                   /\ i < Len(ended) /\ told.steps = ended[i + 1].moves
                   /\ told.result = IF ended[i + 1].winner = Nobody THEN "draw"
                                    ELSE ToString(ended[i + 1].winner)

(* The counts shown and printed at the end are those of the games that     *)
(* ended: each is one win of its winner or one draw, and at most the last  *)
(* ending is missing, when the interrupt comes between the game's last move*)
(* and its count.                                                          *)
StatsMatchGames ==
    LET ended == endings[run]
        won(p) == {i \in 1..stats.games : ended[i].winner = p}
    IN  /\ stage # "killed" => Len(ended) \in {stats.games, stats.games + 1}
        /\ \A p \in Seats0 : stats.wins[p] = Cardinality(won(p))
        /\ stats.draws = Cardinality(won(Nobody))

(* The screen says "Ctrl-C to quit". *)
CtrlCQuits == abort ~> ~Running
=============================================================================
