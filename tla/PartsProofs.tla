------------------------------ MODULE PartsProofs ------------------------------
(***************************************************************************)
(* Theorems about the parts that share no state with one another.          *)
(* What a reader of the recordings' directory may rely on, for every       *)
(* number of players, games and runs of the self-play program; and that the*)
(* answers the server of the plots gives are due, for any number of        *)
(* browsers, whatever they send and in however many pieces, and whichever  *)
(* loop runs; and that random placements of any number of armies on any    *)
(* number of territories are drawn once each until none is left, and listed*)
(* by rank, from the last to the first.                                    *)
(***************************************************************************)
EXTENDS SelfPlay, HttpServer, Placements, FiniteLemmas, SequenceTheorems

-----------------------------------------------------------------------------
(* The self-play program.                                                  *)

(* The files and the .tmp beside them are the same in number, and the .tmp *)
(* about to be renamed has been written; no rename is gone back to.        *)
(* FilesAreWhole alone is not inductive: the rename must know what the     *)
(* write left.                                                             *)
Indices == 0..MaxGames - 1
WholeInv ==
    /\ tmps = [i \in Indices |-> tmps[i]]
    /\ files = [i \in Indices |-> files[i]]
    /\ stage = "rename" /\ PathIndex \in Indices => tmps[PathIndex].text # "cut"
    /\ back # "rename"
    /\ FilesAreWhole

-----------------------------------------------------------------------------
LEMMA InitWhole == SelfPlayInit => WholeInv
  BY DEF SelfPlayInit, WholeInv, FilesAreWhole, Indices, FirstStages

(* Most steps leave the disk alone and do not come to a rename.            *)
LEMMA DiskAtRest ==
    ASSUME WholeInv, UNCHANGED disk, stage' # "rename", back' \in {back, "none", "shown", "paused"}
    PROVE  WholeInv'
  BY DEF WholeInv, FilesAreWhole, disk

LEMMA NextWhole == WholeInv /\ [SelfPlayNext]_selfPlayVars => WholeInv'
<1> SUFFICES ASSUME WholeInv, [SelfPlayNext]_selfPlayVars PROVE WholeInv'
  OBVIOUS
<1>1. CASE NewGame \/ Leave \/ GoOn \/ LoopEnds \/ CountGame \/ ShowResult
  BY <1>1, DiskAtRest
  DEF NewGame, Leave, Gone, GoOn, LoopEnds, CountGame, ShowResult
<1>2. CASE NoKey \/ KeyQuit \/ KeySpace \/ Think \/ GiveUpMove
  BY <1>2, DiskAtRest DEF NoKey, KeyQuit, KeySpace, Think, GiveUpMove
<1>3. CASE Decide \/ Roll
  BY <1>3, DiskAtRest DEF Decide, Roll, Apply
<1>4. CASE Kill \/ Restart
  BY <1>4, DiskAtRest DEF Kill, Restart, Gone, FirstStages
<1>5. ASSUME OpenTmp PROVE WholeInv'
  BY <1>5 DEF OpenTmp, WholeInv, FilesAreWhole
<1>6. ASSUME OpenFails PROVE WholeInv'
  BY <1>6, DiskAtRest DEF OpenFails, AfterOpenFails, WholeInv
<1>7. ASSUME WriteTmp PROVE WholeInv'
  <2>1. PICK text \in {"whole", "refused by the disk"} :
            tmps' = [tmps EXCEPT ![PathIndex] = Written(text)]
    BY <1>7 DEF WriteTmp
  <2>2. PathIndex' = PathIndex /\ files' = files /\ back' = back
    BY <1>7 DEF WriteTmp, PathIndex, TheGame
  <2>3. Written(text).text # "cut"
    BY DEF Written
  <2>4. PathIndex \in Indices => tmps'[PathIndex] = Written(text)
    BY <2>1 DEF WholeInv
  <2>5. tmps' = [i \in Indices |-> tmps'[i]]
    BY <2>1 DEF WholeInv
  <2> QED
    BY <2>2, <2>3, <2>4, <2>5 DEF WholeInv, FilesAreWhole, Indices
<1>8. ASSUME RenameTmp PROVE WholeInv'
  <2>1. CASE UNCHANGED disk
    BY <1>8, <2>1, DiskAtRest DEF RenameTmp, WholeInv
  <2>2. CASE /\ files' = [files EXCEPT ![PathIndex] = tmps[PathIndex]]
             /\ tmps' = [tmps EXCEPT ![PathIndex] = NoFile]
    <3>1. stage = "rename" /\ stage' # "rename" /\ back' = back
      BY <1>8 DEF RenameTmp, WholeInv
    <3>2. \A i \in Indices : files'[i] = IF i = PathIndex THEN tmps[i] ELSE files[i]
      BY <2>2 DEF WholeInv
    <3>3. /\ tmps' = [i \in Indices |-> tmps'[i]]
          /\ files' = [i \in Indices |-> files'[i]]
      BY <2>2 DEF WholeInv
    <3>4. FilesAreWhole'
      BY <3>1, <3>2, <3>3 DEF WholeInv, FilesAreWhole
    <3> QED
      BY <3>1, <3>3, <3>4 DEF WholeInv, Indices
  <2> QED
    BY <1>8, <2>1, <2>2 DEF RenameTmp
<1>9. ASSUME OnSigInt PROVE WholeInv'
  BY <1>9 DEF OnSigInt, WholeInv, FilesAreWhole, disk, PathIndex, TheGame, Indices
<1>10. CASE UNCHANGED selfPlayVars
  BY <1>10 DEF selfPlayVars, WholeInv, FilesAreWhole, disk, PathIndex, TheGame, Indices
<1> QED
  BY <1>1, <1>2, <1>3, <1>4, <1>5, <1>6, <1>7, <1>8, <1>9, <1>10
  DEF SelfPlayNext, ByItself

(* No file of the directory was ever cut off, whatever was killed.         *)
THEOREM RecordingsWhole == SelfPlaySpec => []FilesAreWhole
<1>1. WholeInv => FilesAreWhole
  BY DEF WholeInv
<1> QED
  BY <1>1, InitWhole, NextWhole, PTL DEF SelfPlaySpec

-----------------------------------------------------------------------------
(* The counts are those of the first stats.games endings of the run; there *)
(* are as many of these, or one more that is about to be counted, which is *)
(* then the game on the board, or that the interrupt leaves uncounted.     *)
Endings == [winner : Seats0 \cup {Nobody}, moves : Nat]
Writing == {"open", "write", "rename"}
AtRest == {"refused", "top", "loop", "input", "paused", "move", "shown"} \cup Writing
Won(p) == {i \in 1..stats.games : endings[run][i].winner = p}

CountTypes ==
    /\ run \in 1..MaxRuns /\ move \in Nat
    /\ stage \in AtRest \cup {"counting", "exited", "killed"}
    /\ stage \in Writing => back \in {"shown", "paused"}
    /\ game.winner \in Seats0 \cup {Nobody}
    /\ stats \in [games : Nat, wins : [Seats0 -> Nat], draws : Nat]
    /\ endings \in [1..MaxRuns -> Seq(Endings)]

Tallied ==
    /\ \A p \in Seats0 : stats.wins[p] = Cardinality(Won(p))
    /\ stats.draws = Cardinality(Won(Nobody))

Counting ==
    LET played == Len(endings[run])
    IN  /\ stage \in AtRest => played = stats.games
        /\ stage = "exited" => played \in {stats.games, stats.games + 1}
        /\ stage = "killed" => stats.games = 0
        /\ stage = "counting" =>
               \/ abort /\ played \in {stats.games, stats.games + 1}
               \/ played = stats.games + 1 /\ endings[run][played].winner = game.winner

FutureRuns == \A r \in 1..MaxRuns : r > run => endings[r] = <<>>

CountInv == CountTypes /\ Tallied /\ Counting /\ FutureRuns

LEMMA InitCounts == SelfPlayInit => CountInv
<1> SUFFICES ASSUME SelfPlayInit PROVE CountInv
  OBVIOUS
<1> USE DEF SelfPlayInit, Fresh, NoGame
<1>1. run \in 1..MaxRuns /\ endings[run] = <<>>
  BY SelfPlayAssumption
<1>2. CountTypes
  BY <1>1 DEF CountTypes, AtRest, Writing, FirstStages
<1>3. \A p : Won(p) = {}
  BY DEF Won
<1>4. Tallied
  BY <1>3, FS_EmptySet DEF Tallied
<1>5. Counting /\ FutureRuns
  BY <1>1 DEF Counting, FutureRuns, AtRest, Writing, FirstStages
<1> QED
  BY <1>2, <1>4, <1>5 DEF CountInv

(* Most steps neither end a game nor count one.                            *)
LEMMA NothingCounted ==
    ASSUME CountInv, UNCHANGED <<run, stats, endings>>,
           CountTypes', Counting'
    PROVE  CountInv'
  BY DEF CountInv, Tallied, Won, FutureRuns

(* A game ends: it is not among the games counted yet.                     *)
LEMMA EndingUncounted ==
    ASSUME CountInv, LoopEnds
    PROVE  CountInv'
<1> USE DEF CountInv
<1>1. /\ stage = "loop" /\ stage' = "counting"
      /\ UNCHANGED <<run, abort, game, move, stats, back>>
  BY DEF LoopEnds, play
<1>2. run \in 1..MaxRuns /\ endings[run] \in Seq(Endings) /\ Len(endings[run]) = stats.games
  BY <1>1 DEF CountTypes, Counting, AtRest
<1>3. CASE ~(IsTerminal \/ move >= MovesPerGame)
  <2>1. abort /\ UNCHANGED endings
    BY <1>3 DEF LoopEnds
  <2>2. CountTypes'
    BY <1>1, <2>1 DEF CountTypes, Writing
  <2>3. Counting'
    BY <1>1, <1>2, <2>1 DEF Counting, AtRest, Writing
  <2> QED
    BY <1>1, <2>1, <2>2, <2>3, NothingCounted
<1>4. CASE IsTerminal \/ move >= MovesPerGame
  <2> DEFINE ending == [winner |-> game.winner, moves |-> move]
  <2>1. endings' = [endings EXCEPT ![run] = Append(endings[run], ending)] /\ ending \in Endings
    BY <1>4 DEF LoopEnds, CountTypes, Endings
  <2> HIDE DEF ending
  <2>2. /\ endings' \in [1..MaxRuns -> Seq(Endings)]
        /\ endings'[run] = Append(endings[run], ending)
        /\ \A r \in 1..MaxRuns : r # run => endings'[r] = endings[r]
    BY <1>2, <2>1 DEF CountTypes
  <2>3. /\ Len(endings'[run]) = stats.games + 1
        /\ endings'[run][stats.games + 1] = ending
        /\ \A i \in 1..stats.games : endings'[run][i] = endings[run][i]
    BY <1>2, <2>2
  <2>4. CountTypes'
    BY <1>1, <2>2 DEF CountTypes, Writing
  <2>5. \A p : Won(p)' = Won(p)
    BY <1>1, <2>3 DEF Won
  <2>6. Tallied'
    BY <1>1, <2>5 DEF Tallied
  <2>7. Counting'
    BY <1>1, <2>3 DEF Counting, AtRest, Writing, ending
  <2>8. FutureRuns'
    BY <1>1, <1>2, <2>2 DEF FutureRuns
  <2> QED
    BY <2>4, <2>6, <2>7, <2>8
<1> QED
  BY <1>3, <1>4

(* A game is counted: the ending after the last one counted.               *)
LEMMA EndingCounted ==
    ASSUME CountInv, CountGame
    PROVE  CountInv'
<1> USE DEF CountInv
<1> DEFINE last == stats.games + 1
<1>1. /\ stage = "counting" /\ stats' = Counted
      /\ stage' \in {"open", "shown"} /\ (stage' = "open" => back' = "shown")
      /\ UNCHANGED <<run, game, move, endings>>
  BY DEF CountGame
<1>2. stats.games \in Nat /\ Len(endings[run]) = last /\ endings[run][last].winner = game.winner
  BY <1>1 DEF CountGame, Counting, CountTypes
<1>3. /\ stats'.games = last
      /\ \A p \in Seats0 : stats'.wins[p] = stats.wins[p] + (IF game.winner = p THEN 1 ELSE 0)
      /\ stats'.draws = stats.draws + (IF game.winner = Nobody THEN 1 ELSE 0)
      /\ stats' \in [games : Nat, wins : [Seats0 -> Nat], draws : Nat]
  <2>1. /\ stats \in [games : Nat, wins : [Seats0 -> Nat], draws : Nat]
        /\ game.winner \in Seats0 \cup {Nobody} /\ Nobody \notin Seats0
    BY DEF CountTypes, Seats0, Nobody
  <2>2. CASE game.winner = Nobody
    <3>1. stats' = [stats EXCEPT !.games = @ + 1, !.draws = @ + 1]
      BY <1>1, <2>2 DEF Counted, IsTerminal
    <3>2. stats' = [games |-> last, wins |-> stats.wins, draws |-> stats.draws + 1]
      BY <2>1, <3>1
    <3>3. stats'.games = last /\ stats'.wins = stats.wins /\ stats'.draws = stats.draws + 1
      BY <3>2
    <3>4. stats.wins \in [Seats0 -> Nat] /\ stats.draws \in Nat
      BY <2>1
    <3>5. stats' \in [games : Nat, wins : [Seats0 -> Nat], draws : Nat]
      BY <1>2, <3>2, <3>4
    <3> QED
      BY <2>1, <2>2, <3>3, <3>4, <3>5
  <2>3. CASE game.winner \in Seats0
    <3>1. stats' = [stats EXCEPT !.games = @ + 1, !.wins[game.winner] = @ + 1]
      BY <1>1, <2>1, <2>3 DEF Counted, IsTerminal
    <3> DEFINE wins == [stats.wins EXCEPT ![game.winner] = @ + 1]
    <3>2. stats' = [games |-> last, wins |-> wins, draws |-> stats.draws]
      BY <2>1, <3>1
    <3>3. stats'.games = last /\ stats'.wins = wins /\ stats'.draws = stats.draws
      BY <3>2
    <3>4. stats.wins \in [Seats0 -> Nat] /\ stats.draws \in Nat
      BY <2>1
    <3>5. /\ wins \in [Seats0 -> Nat]
          /\ \A p \in Seats0 : wins[p] = stats.wins[p] + (IF game.winner = p THEN 1 ELSE 0)
      BY <2>3, <3>4
    <3> HIDE DEF wins
    <3>6. stats' \in [games : Nat, wins : [Seats0 -> Nat], draws : Nat]
      BY <1>2, <3>2, <3>4, <3>5
    <3> QED
      BY <2>1, <2>3, <3>3, <3>4, <3>5, <3>6
  <2> QED
    BY <2>1, <2>2, <2>3
<1>4. CountTypes'
  BY <1>1, <1>3 DEF CountTypes, AtRest, Writing
<1>5. ASSUME NEW p
      PROVE  Cardinality(Won(p)') = Cardinality(Won(p)) + (IF game.winner = p THEN 1 ELSE 0)
  <2>1. IsFiniteSet(1..stats.games)
    BY <1>2, FS_Interval
  <2>2. IsFiniteSet(Won(p))
    BY <2>1, FS_Subset DEF Won
  <2>3. Won(p)' = {i \in 1..last : endings[run][i].winner = p}
    BY <1>1, <1>3 DEF Won
  <2>4. 1..last = (1..stats.games) \cup {last} /\ last \notin 1..stats.games
    BY <1>2
  <2>5. CASE game.winner = p
    <3>1. Won(p)' = Won(p) \cup {last} /\ last \notin Won(p)
      BY <1>2, <2>3, <2>4, <2>5 DEF Won
    <3>2. Cardinality(Won(p) \cup {last}) = Cardinality(Won(p)) + 1
      BY <2>2, <3>1, FS_AddElement
    <3> QED
      BY <2>5, <3>1, <3>2
  <2>6. CASE game.winner # p
    <3>1. Won(p)' = Won(p)
      BY <1>2, <2>3, <2>4, <2>6 DEF Won
    <3>2. Cardinality(Won(p)) \in Nat
      BY <2>2, FS_CardinalityType
    <3> QED
      BY <2>6, <3>1, <3>2
  <2> QED
    BY <2>5, <2>6
<1>6. Tallied'
  BY <1>3, <1>5 DEF Tallied
<1>7. Counting'
  BY <1>1, <1>2, <1>3 DEF Counting, AtRest, Writing
<1>8. FutureRuns'
  BY <1>1 DEF FutureRuns
<1> QED
  BY <1>4, <1>6, <1>7, <1>8

(* A run begins with nothing played and nothing counted; a killed one      *)
(* shows nothing.                                                          *)
LEMMA StartsAtNothing ==
    ASSUME CountInv, stats' = Fresh, CountTypes',
           \/ run' = run /\ stage' = "killed"
           \/ run' = run + 1 /\ stage' \in {"top", "refused"},
           UNCHANGED endings
    PROVE  CountInv'
<1> USE DEF CountInv
<1>1. stats'.games = 0 /\ stats'.draws = 0 /\ \A p \in Seats0 : stats'.wins[p] = 0
  BY DEF Fresh
<1>2. \A p : Won(p)' = {}
  BY <1>1 DEF Won
<1>3. Tallied'
  BY <1>1, <1>2, FS_EmptySet DEF Tallied
<1>4. run \in Nat /\ run' \in 1..MaxRuns
  BY DEF CountTypes
<1>5. Counting'
  <2>1. CASE run' = run + 1
    <3>1. endings'[run'] = <<>>
      BY <1>4, <2>1 DEF FutureRuns
    <3> QED
      BY <1>1, <2>1, <3>1 DEF Counting
  <2>2. CASE stage' = "killed"
    BY <1>1, <2>2 DEF Counting, AtRest, Writing
  <2> QED
    BY <2>1, <2>2
<1>6. FutureRuns'
  BY <1>4, SelfPlayAssumption DEF FutureRuns
<1> QED
  BY <1>3, <1>5, <1>6

LEMMA NextCounts == CountInv /\ [SelfPlayNext]_selfPlayVars => CountInv'
<1> SUFFICES ASSUME CountInv, [SelfPlayNext]_selfPlayVars PROVE CountInv'
  OBVIOUS
<1> USE DEF play, disk, Gone
<1>1. CASE NewGame \/ GoOn \/ ShowResult \/ NoKey \/ Think
  <2>1. UNCHANGED <<run, stats, endings, back>> /\ stage \in AtRest /\ stage' \in AtRest \ Writing
    BY <1>1 DEF NewGame, GoOn, ShowResult, NoKey, Think, AtRest, Writing
  <2>2. game'.winner \in Seats0 \cup {Nobody} /\ move' \in Nat
    BY <1>1 DEF NewGame, GoOn, ShowResult, NoKey, Think, NoGame, CountInv, CountTypes
  <2>3. CountTypes' /\ Counting'
    BY <2>1, <2>2 DEF CountInv, CountTypes, Counting, AtRest, Writing
  <2> QED
    BY <2>1, <2>3, NothingCounted
<1>2. CASE Leave \/ KeyQuit \/ GiveUpMove \/ OnSigInt
  <2>1. UNCHANGED <<run, stats, endings>>
    BY <1>2 DEF Leave, KeyQuit, GiveUpMove, OnSigInt
  <2>2. CountTypes'
    BY <1>2, <2>1 DEF Leave, KeyQuit, GiveUpMove, OnSigInt, NoGame, CountInv, CountTypes,
          AtRest, Writing
  <2>3. Counting'
    BY <1>2, <2>1 DEF Leave, KeyQuit, GiveUpMove, OnSigInt, CountInv, CountTypes, Counting,
          AtRest, Writing
  <2> QED
    BY <2>1, <2>2, <2>3, NothingCounted
<1>3. CASE KeySpace \/ OpenTmp \/ OpenFails \/ WriteTmp \/ RenameTmp
  <2>1. UNCHANGED <<run, stats, endings, game, move>> /\ stage \in AtRest /\ stage' \in AtRest
    BY <1>3 DEF KeySpace, OpenTmp, OpenFails, AfterOpenFails, WriteTmp, RenameTmp,
          CountInv, CountTypes, AtRest, Writing
  <2>2. stage' \in Writing => back' \in {"shown", "paused"}
    BY <1>3 DEF KeySpace, OpenTmp, OpenFails, AfterOpenFails, WriteTmp, RenameTmp,
          CountInv, CountTypes, AtRest, Writing
  <2>3. CountTypes' /\ Counting'
    BY <2>1, <2>2 DEF CountInv, CountTypes, Counting, AtRest, Writing
  <2> QED
    BY <2>1, <2>3, NothingCounted
<1>4. CASE Decide \/ Roll
  <2>1. /\ UNCHANGED <<run, stats, endings>> /\ stage = "move" /\ stage' = "loop"
        /\ move' = move + 1 /\ game'.winner \in Seats0 \cup {Nobody}
    BY <1>4 DEF Decide, Roll, Apply
  <2>2. CountTypes' /\ Counting'
    BY <2>1 DEF CountInv, CountTypes, Counting, AtRest, Writing
  <2> QED
    BY <2>1, <2>2, NothingCounted
<1>5. CASE LoopEnds
  BY <1>5, EndingUncounted
<1>6. CASE CountGame
  BY <1>6, EndingCounted
<1>7. CASE Kill \/ Restart
  <2>1. /\ stats' = Fresh /\ UNCHANGED endings
        /\ \/ run' = run /\ stage' = "killed"
           \/ run' = run + 1 /\ stage' \in {"top", "refused"}
    BY <1>7 DEF Kill, Restart, FirstStages
  <2>2. Fresh \in [games : Nat, wins : [Seats0 -> Nat], draws : Nat]
    BY DEF Fresh
  <2>3. run' \in 1..MaxRuns
    BY <1>7, SelfPlayAssumption DEF Kill, Restart, CountInv, CountTypes
  <2>4. game'.winner \in Seats0 \cup {Nobody} /\ move' \in Nat
    BY <1>7 DEF Kill, Restart, NoGame, CountInv, CountTypes
  <2>5. CountTypes'
    BY <2>1, <2>2, <2>3, <2>4 DEF CountInv, CountTypes, AtRest, Writing
  <2> QED
    BY <2>1, <2>5, StartsAtNothing
<1>8. CASE UNCHANGED selfPlayVars
  BY <1>8, NothingCounted DEF selfPlayVars, CountInv, CountTypes, Counting
<1> QED
  BY <1>1, <1>2, <1>3, <1>4, <1>5, <1>6, <1>7, <1>8 DEF SelfPlayNext, ByItself

(* The counts on the screen are the games that were played, whatever is    *)
(* interrupted, paused or killed.                                          *)
THEOREM CountsAreGames == SelfPlaySpec => []StatsMatchGames
<1>1. CountInv => StatsMatchGames
  <2> SUFFICES ASSUME CountInv PROVE StatsMatchGames
    OBVIOUS
  <2>1. stage # "killed" => Len(endings[run]) \in {stats.games, stats.games + 1}
    BY DEF CountInv, CountTypes, Counting
  <2>2. \A p : Won(p) = {i \in 1..stats.games : endings[run][i].winner = p}
    BY DEF Won
  <2>3. Tallied
    BY DEF CountInv
  <2>4. \A p \in Seats0 :
           stats.wins[p] = Cardinality({i \in 1..stats.games : endings[run][i].winner = p})
    BY <2>2, <2>3 DEF Tallied
  <2>5. stats.draws = Cardinality({i \in 1..stats.games : endings[run][i].winner = Nobody})
    BY <2>2, <2>3 DEF Tallied
  <2> QED
    BY <2>1, <2>4, <2>5 DEF StatsMatchGames
<1> QED
  BY <1>1, InitCounts, NextCounts, PTL DEF SelfPlaySpec

-----------------------------------------------------------------------------
(* A story names its game, and when it has a result it is that of the      *)
(* ending of that name in its run, with every move of it.                  *)
Tells(story, ended, i) ==
    /\ story.index = i
    /\ story.result # "none" =>
           /\ i < Len(ended) /\ story.steps = ended[i + 1].moves
           /\ story.result = IF ended[i + 1].winner = Nobody THEN "draw"
                             ELSE ToString(ended[i + 1].winner)

Holds(file, ends, i) ==
    file # NoFile => file.run \in 1..MaxRuns /\ Tells(file.story, ends[file.run], i)

(* The trajectory in memory is that of the game on the board, with every   *)
(* move of it, until that game is counted; then it is that of the last game*)
(* counted.  The .tmp files must tell the truth too, those a killed run    *)
(* left behind included: one of them may still be renamed.                 *)
MidGame == \/ stage \in {"loop", "input", "paused", "move", "counting"}
           \/ stage \in Writing /\ back = "paused"

Told ==
    /\ trajectory = [index |-> trajectory.index, steps |-> trajectory.steps,
                     result |-> trajectory.result]
    /\ MidGame => /\ trajectory.index = stats.games /\ trajectory.result = "none"
                  /\ trajectory.steps = move
    /\ stage = "counting" /\ ~abort => endings[run][stats.games + 1].moves = move
    /\ stage \in Writing /\ back = "shown" => Tells(trajectory, endings[run], stats.games - 1)

FilesHold == \A i \in Indices : Holds(files[i], endings, i)
TmpsHold == \A i \in Indices : Holds(tmps[i], endings, i)
TellInv == FilesHold /\ TmpsHold /\ Told

LEMMA InitTells == SelfPlayInit => TellInv
  BY DEF SelfPlayInit, TellInv, FilesHold, TmpsHold, Holds, Told, MidGame, Writing, Indices,
     Untold, Fresh, FirstStages

(* No ending is ever changed or forgotten.                                 *)
LEMMA EndingsStay ==
    ASSUME CountInv, [SelfPlayNext]_selfPlayVars, NEW r \in 1..MaxRuns
    PROVE  /\ Len(endings[r]) \in Nat /\ Len(endings'[r]) >= Len(endings[r])
           /\ \A k \in 1..Len(endings[r]) : endings'[r][k] = endings[r][k]
<1>1. endings \in [1..MaxRuns -> Seq(Endings)] /\ Len(endings[r]) \in Nat
  BY DEF CountInv, CountTypes
<1>2. CASE UNCHANGED endings
  BY <1>1, <1>2
<1>3. CASE LoopEnds
  <2>1. CASE UNCHANGED endings
    BY <1>2, <2>1
  <2>2. CASE IsTerminal \/ move >= MovesPerGame
    <3> DEFINE ending == [winner |-> game.winner, moves |-> move]
    <3>1. endings' = [endings EXCEPT ![run] = Append(endings[run], ending)] /\ ending \in Endings
      BY <1>3, <2>2 DEF LoopEnds, CountInv, CountTypes, Endings
    <3> HIDE DEF ending
    <3>2. endings'[r] = IF r = run THEN Append(endings[r], ending) ELSE endings[r]
      BY <1>1, <3>1
    <3> QED
      BY <1>1, <3>1, <3>2
  <2> QED
    BY <1>3, <2>1, <2>2 DEF LoopEnds
<1>4. CASE ~LoopEnds
  BY <1>2, <1>4
  DEF SelfPlayNext, ByItself, selfPlayVars, NewGame, Leave, Gone, GoOn, CountGame, ShowResult,
      NoKey, Think, GiveUpMove, Decide, Roll, Apply, OpenTmp, OpenFails, WriteTmp, RenameTmp,
      KeyQuit, KeySpace, OnSigInt, Kill, Restart
<1> QED
  BY <1>3, <1>4

LEMMA TaleStays ==
    ASSUME CountInv, [SelfPlayNext]_selfPlayVars, NEW r \in 1..MaxRuns, NEW i \in Nat, NEW story,
           Tells(story, endings[r], i)
    PROVE  Tells(story, endings'[r], i)
<1>1. /\ Len(endings[r]) \in Nat /\ Len(endings'[r]) >= Len(endings[r])
      /\ \A k \in 1..Len(endings[r]) : endings'[r][k] = endings[r][k]
  BY EndingsStay
<1>2. CASE story.result = "none"
  BY <1>2 DEF Tells
<1>3. CASE story.result # "none"
  <2>1. i < Len(endings[r]) /\ i + 1 \in 1..Len(endings[r])
    BY <1>1, <1>3 DEF Tells
  <2>2. i < Len(endings'[r]) /\ endings'[r][i + 1] = endings[r][i + 1]
    BY <1>1, <2>1 DEF CountInv, CountTypes
  <2> QED
    BY <1>3, <2>2 DEF Tells
<1> QED
  BY <1>2, <1>3

LEMMA FileHolds ==
    ASSUME CountInv, [SelfPlayNext]_selfPlayVars, NEW file, NEW i \in Nat,
           Holds(file, endings, i)
    PROVE  Holds(file, endings', i)
  BY TaleStays DEF Holds

(* What WriteTrajectory writes is true of the game it names.               *)
LEMMA WrittenHolds ==
    ASSUME CountInv, TellInv, stage \in Writing, NEW text
    PROVE  Holds(Written(text), endings, PathIndex)
<1>1. run \in 1..MaxRuns /\ back \in {"shown", "paused"}
  BY DEF CountInv, CountTypes
<1>2. Tells(trajectory, endings[run], PathIndex)
  BY <1>1 DEF TellInv, Told, MidGame, Tells, PathIndex, TheGame
<1> QED
  BY <1>1, <1>2 DEF Holds, Written

LEMMA CountTells ==
    ASSUME CountInv, TellInv, CountGame
    PROVE  Told'
<1>1. /\ stage = "counting" /\ ~abort /\ stats' = Counted
      /\ stage' \in {"open", "shown"} /\ (stage' = "open" => back' = "shown")
      /\ UNCHANGED <<run, game, move, endings>>
  BY DEF CountGame
<1>2. /\ Len(endings[run]) = stats.games + 1 /\ stats.games \in Nat
      /\ endings[run][stats.games + 1].winner = game.winner
      /\ endings[run][stats.games + 1].moves = move
  BY <1>1 DEF CountInv, CountTypes, Counting, TellInv, Told
<1>3. stats'.games = stats.games + 1
  BY <1>1 DEF CountInv, CountTypes, Counted
<1>4. CASE UNCHANGED trajectory /\ stage' = "shown"
  BY <1>1, <1>4 DEF TellInv, Told, MidGame, Writing
<1>5. CASE /\ trajectory' = [trajectory EXCEPT !.result =
                                 IF IsTerminal THEN ToString(game.winner) ELSE "draw"]
           /\ stage' = "open"
  <2>1. trajectory.index = stats.games /\ trajectory.steps = move
    BY <1>1 DEF TellInv, Told, MidGame
  <2> DEFINE result == IF IsTerminal THEN ToString(game.winner) ELSE "draw"
  <2>2. result = IF game.winner = Nobody THEN "draw" ELSE ToString(game.winner)
    BY Zenon DEF IsTerminal
  <2> HIDE DEF result
  <2>3. trajectory' = [index |-> stats.games, steps |-> move, result |-> result]
    BY <1>5, <2>1 DEF TellInv, Told, result
  <2>4. /\ trajectory'.index = stats.games /\ trajectory'.steps = move
        /\ trajectory'.result = result /\ stats.games < Len(endings[run])
    BY <1>2, <2>3
  <2>5. Tells(trajectory', endings[run], stats.games)
    BY <1>2, <2>2, <2>4, Zenon DEF Tells
  <2>6. stats'.games - 1 = stats.games
    BY <1>2, <1>3
  <2>7. Tells(trajectory', endings'[run'], stats'.games - 1)
    BY <1>1, <2>5, <2>6
  <2>8. trajectory' = [index |-> trajectory'.index, steps |-> trajectory'.steps,
                       result |-> trajectory'.result]
    BY <2>3
  <2>9. ~MidGame' /\ stage' # "counting"
    BY <1>1, <1>5 DEF MidGame, Writing
  <2> QED
    BY <2>7, <2>8, <2>9 DEF Told
<1> QED
  BY <1>4, <1>5 DEF CountGame

LEMMA NextTells == CountInv /\ WholeInv /\ TellInv /\ [SelfPlayNext]_selfPlayVars => TellInv'
<1> SUFFICES ASSUME CountInv, WholeInv, TellInv, [SelfPlayNext]_selfPlayVars PROVE TellInv'
  OBVIOUS
<1> USE DEF play, disk, Gone
<1>1. \A i \in Indices : i \in Nat /\ Holds(files[i], endings', i) /\ Holds(tmps[i], endings', i)
  BY FileHolds DEF TellInv, FilesHold, TmpsHold, Indices
<1>2. ASSUME UNCHANGED disk, Told' PROVE TellInv'
  BY <1>1, <1>2 DEF TellInv, FilesHold, TmpsHold
<1>3. CASE NewGame
  BY <1>2, <1>3 DEF NewGame, Told, MidGame, Writing, Untold, TheGame
<1>4. CASE Leave \/ ShowResult
  BY <1>2, <1>4 DEF Leave, ShowResult, TellInv, Told, MidGame, Writing, Untold
<1>5. CASE GoOn \/ NoKey \/ Think \/ GiveUpMove \/ KeyQuit
  BY <1>2, <1>5 DEF GoOn, NoKey, Think, GiveUpMove, KeyQuit, TellInv, Told, MidGame, Writing
<1>6. CASE LoopEnds
  <2>1. /\ stage = "loop" /\ stage' = "counting"
        /\ UNCHANGED <<run, abort, game, move, stats, trajectory, disk>>
    BY <1>6 DEF LoopEnds
  <2>2. ~abort => endings'[run][stats.games + 1].moves = move
    <3> SUFFICES ASSUME ~abort PROVE endings'[run][stats.games + 1].moves = move
      OBVIOUS
    <3> DEFINE ending == [winner |-> game.winner, moves |-> move]
    <3>1. endings' = [endings EXCEPT ![run] = Append(endings[run], ending)]
      BY <1>6, <2>1 DEF LoopEnds
    <3>2. /\ endings \in [1..MaxRuns -> Seq(Endings)] /\ run \in 1..MaxRuns
          /\ Len(endings[run]) = stats.games /\ ending \in Endings
      BY <2>1 DEF CountInv, CountTypes, Counting, AtRest, Endings
    <3> HIDE DEF ending
    <3>3. endings'[run][stats.games + 1] = ending
      BY <3>1, <3>2
    <3> QED
      BY <3>3 DEF ending
  <2>3. Told'
    BY <2>1, <2>2 DEF TellInv, Told, MidGame, Writing
  <2> QED
    BY <1>2, <2>1, <2>3
<1>7. CASE CountGame
  BY <1>2, <1>7, CountTells DEF CountGame
<1>8. CASE KeySpace
  BY <1>2, <1>8 DEF KeySpace, TellInv, Told, MidGame, Writing
<1>9. CASE Decide \/ Roll
  <2>1. /\ stage = "move" /\ stage' = "loop" /\ move' = move + 1 /\ UNCHANGED <<stats, disk>>
        /\ trajectory' = [trajectory EXCEPT !.steps = @ + 1]
    BY <1>9 DEF Decide, Roll, Apply
  <2>2. trajectory' = [index |-> trajectory.index, steps |-> trajectory.steps + 1,
                       result |-> trajectory.result]
    BY <2>1 DEF TellInv, Told
  <2>3. Told'
    BY <2>1, <2>2 DEF TellInv, Told, MidGame, Writing
  <2> QED
    BY <1>2, <2>1, <2>3
<1>10. ASSUME OpenTmp \/ WriteTmp PROVE TellInv'
  <2>1. PICK text : tmps' = [tmps EXCEPT ![PathIndex] = Written(text)]
    BY <1>10 DEF OpenTmp, WriteTmp
  <2>2. /\ stage \in Writing /\ stage' \in Writing
        /\ UNCHANGED <<run, abort, back, move, stats, trajectory, files, endings>>
    BY <1>10 DEF OpenTmp, WriteTmp, Writing
  <2>3. Holds(Written(text), endings', PathIndex)
    BY <2>2, WrittenHolds
  <2>4. \A i \in Indices : tmps'[i] = IF i = PathIndex THEN Written(text) ELSE tmps[i]
    BY <2>1 DEF WholeInv
  <2>5. Told'
    BY <2>2 DEF TellInv, Told, MidGame, Writing
  <2> QED
    BY <1>1, <2>2, <2>3, <2>4, <2>5 DEF TellInv, FilesHold, TmpsHold
<1>11. ASSUME OpenFails \/ RenameTmp PROVE Told'
  BY <1>11 DEF OpenFails, AfterOpenFails, RenameTmp, CountInv, CountTypes, TellInv, Told,
     MidGame, Writing
<1>12. CASE OpenFails
  BY <1>2, <1>11, <1>12 DEF OpenFails
<1>13. CASE RenameTmp
  <2>1. CASE UNCHANGED disk
    BY <1>2, <1>11, <1>13, <2>1
  <2>2. CASE /\ tmps[PathIndex] # NoFile
             /\ files' = [files EXCEPT ![PathIndex] = tmps[PathIndex]]
             /\ tmps' = [tmps EXCEPT ![PathIndex] = NoFile]
    <3>1. \A i \in Indices : /\ files'[i] = IF i = PathIndex THEN tmps[i] ELSE files[i]
                             /\ tmps'[i] = IF i = PathIndex THEN NoFile ELSE tmps[i]
      BY <2>2 DEF WholeInv
    <3>2. \A i : Holds(NoFile, endings', i)
      BY DEF Holds
    <3> QED
      BY <1>1, <1>11, <1>13, <3>1, <3>2 DEF TellInv, FilesHold, TmpsHold
  <2> QED
    BY <1>13, <2>1, <2>2 DEF RenameTmp
<1>14. CASE OnSigInt
  BY <1>2, <1>14 DEF OnSigInt, TellInv, Told, MidGame
<1>15. CASE Kill \/ Restart
  BY <1>2, <1>15 DEF Kill, Restart, FirstStages, TellInv, Told, MidGame, Writing, Untold
<1>16. CASE UNCHANGED selfPlayVars
  BY <1>2, <1>16 DEF selfPlayVars, TellInv, Told, MidGame
<1> QED
  BY <1>3, <1>4, <1>5, <1>6, <1>7, <1>8, <1>9, <1>10, <1>12, <1>13, <1>14, <1>15, <1>16
  DEF SelfPlayNext, ByItself

(* Every recording in the directory tells its own game to the end, whatever*)
(* was paused, flushed, killed and started again.                          *)
THEOREM RecordingsTrue == SelfPlaySpec => []FilesTellTheirGame
<1>1. WholeInv /\ TellInv => FilesTellTheirGame
  BY DEF WholeInv, TellInv, FilesHold, Holds, Tells, FilesTellTheirGame
<1> QED
  BY <1>1, InitWhole, NextWhole, InitCounts, NextCounts, InitTells, NextTells, PTL
  DEF SelfPlaySpec

-----------------------------------------------------------------------------
(* The server of the plots.                                                *)

Waiting(b) == \E i \in DOMAIN backlog : backlog[i] = b
Behind(b) == {fd \in Fds : fdOf[fd] = b}

Types ==
    /\ loop \in {"select", "accept", "handle", "stopped"}
    /\ read_fds \in SUBSET (Fds \cup {server_fd})
    /\ backlog \in Seq(Browsers)
    /\ fdOf \in [Fds -> Browsers \cup {Nobody0}]
    /\ kind \in [Browsers -> Kinds]
    /\ sent \in [Browsers -> Nat] /\ read \in [Browsers -> Nat]
    /\ complete \in [Browsers -> BOOLEAN]
    /\ link \in [Browsers -> {"away", "open", "closed"}]
    /\ answers \in [Browsers -> Nat]

(* An answer is given once, with the end of the connection.                *)
AnswerOf(b) ==
    /\ read[b] <= sent[b] /\ sent[b] <= Pieces(b)
    /\ link[b] # "closed" => answers[b] = 0
    /\ answers[b] \in {0, 1}
    /\ answers[b] = 1 => kind[b] = "GET" /\ read[b] = HeaderPieces

(* An open connection is either in the queue or behind one descriptor.     *)
Table ==
    /\ \A f, g \in Fds : fdOf[f] = fdOf[g] /\ fdOf[f] # Nobody0 => f = g
    /\ \A f \in clients_ : link[fdOf[f]] = "open" /\ ~Waiting(fdOf[f])
    /\ \A i, j \in DOMAIN backlog : backlog[i] = backlog[j] => i = j
    /\ \A b \in Browsers : Waiting(b) => link[b] = "open"
    /\ \A b \in Browsers : link[b] = "open" => Waiting(b) \/ Behind(b) # {}

(* What select reported is still there when its turn comes.                *)
Reported ==
    /\ read_fds \ {server_fd} \subseteq clients_
    /\ loop \in {"handle", "stopped"} => server_fd \notin read_fds
    /\ loop = "accept" => backlog # <<>>

ServerInv == Types /\ (\A b \in Browsers : AnswerOf(b)) /\ Table /\ Reported

-----------------------------------------------------------------------------
LEMMA FdsFinite ==
    /\ IsFiniteSet(Fds) /\ Cardinality(Fds) = Cardinality(Browsers)
    /\ Fds \subseteq Nat /\ server_fd \notin Fds /\ server_fd \in Nat
<1>1. Cardinality(Browsers) \in Nat
  BY HttpServerAssumption, FS_CardinalityType
<1> DEFINE n == Cardinality(Browsers)
<1> HIDE DEF n
<1>2. IsFiniteSet(4 .. 3 + n) /\ Cardinality(4 .. 3 + n) = n
  <2>1. 4 \in Int /\ 3 + n \in Int /\ n \in Nat
    BY <1>1 DEF n
  <2> QED
    BY <2>1, FS_Interval
<1>3. Fds = 4 .. 3 + n
  BY DEF Fds, server_fd, n
<1> QED
  BY <1>1, <1>2, <1>3 DEF server_fd, n

LEMMA PiecesType ==
    ASSUME Types, NEW b \in Browsers
    PROVE  Pieces(b) \in Nat /\ (kind[b] # "endless" => Pieces(b) = HeaderPieces)
  BY HttpServerAssumption DEF Types, Pieces

(* While a browser waits in the queue there is a descriptor for it.        *)
LEMMA DescriptorFree ==
    ASSUME ServerInv, backlog # <<>>
    PROVE  Min(Fds \ clients_) \in Fds \ clients_
<1>1. Head(backlog) \in Browsers /\ Waiting(Head(backlog))
  <2>1. 1 \in DOMAIN backlog /\ Head(backlog) = backlog[1] /\ backlog[1] \in Browsers
    BY DEF ServerInv, Types
  <2> QED
    BY <2>1 DEF Waiting
<1>2. ASSUME clients_ = Fds PROVE FALSE
  <2> DEFINE rest == Browsers \ {Head(backlog)}
  <2>1. \A f \in Fds : fdOf[f] \in rest
    BY <1>1, <1>2 DEF ServerInv, Types, Table, clients_
  <2>2. fdOf \in [Fds -> rest]
    BY <2>1 DEF ServerInv, Types
  <2>3. IsFiniteSet(rest) /\ Cardinality(rest) = Cardinality(Browsers) - 1
    BY <1>1, HttpServerAssumption, FS_RemoveElement
  <2>4. Cardinality(Browsers) \in Nat
    BY HttpServerAssumption, FS_CardinalityType
  <2>5. Cardinality(rest) < Cardinality(Fds)
    BY <2>3, <2>4, FdsFinite
  <2> HIDE DEF rest
  <2>6. PICK x, y \in Fds : x # y /\ fdOf[x] = fdOf[y]
    BY <2>2, <2>3, <2>5, FdsFinite, FS_PigeonHole
  <2>7. fdOf[x] # Nobody0
    BY <1>2 DEF clients_
  <2> QED
    BY <2>6, <2>7 DEF ServerInv, Table
<1>3. Fds \ clients_ # {} /\ Fds \ clients_ \in SUBSET Nat
  BY <1>2, FdsFinite DEF clients_
<1> QED
  BY <1>3, MinIsIn

-----------------------------------------------------------------------------
LEMMA InitServer == ServerInit => ServerInv
<1> SUFFICES ASSUME ServerInit PROVE ServerInv
  OBVIOUS
<1> USE DEF ServerInit
<1>1. Types
  BY DEF Types
<1>2. \A b \in Browsers : AnswerOf(b)
  BY <1>1, PiecesType DEF AnswerOf
<1>3. clients_ = {} /\ \A b : ~Waiting(b)
  BY DEF clients_, Waiting
<1>4. Table
  BY <1>3, HttpServerAssumption DEF Table, clients_, Waiting
<1> QED
  BY <1>1, <1>2, <1>4 DEF ServerInv, Reported

(* The browsers add to what the server has not read.                       *)
LEMMA ConnectKeeps ==
    ASSUME ServerInv, NEW b \in Browsers, Connect(b)
    PROVE  ServerInv'
<1> USE DEF Connect, browserVars
<1>1. Types'
  BY DEF ServerInv, Types
<1>2. \A c \in Browsers : AnswerOf(c)'
  BY DEF ServerInv, AnswerOf, Pieces, Types
<1>3. ~Waiting(b) /\ \A f \in Fds : fdOf[f] # b
  BY HttpServerAssumption DEF ServerInv, Table, clients_
<1>4. DOMAIN backlog = 1 .. Len(backlog) /\ Len(backlog) \in Nat
  BY DEF ServerInv, Types
<1>5. /\ DOMAIN backlog' = 1 .. Len(backlog) + 1
      /\ \A i \in DOMAIN backlog : backlog'[i] = backlog[i]
      /\ backlog'[Len(backlog) + 1] = b
  BY <1>4 DEF ServerInv, Types
<1>6. \A c : Waiting(c)' <=> Waiting(c) \/ c = b
  BY <1>4, <1>5 DEF Waiting
<1>7. Table'
  <2>1. \A i, j \in DOMAIN backlog' : backlog'[i] = backlog'[j] => i = j
    BY <1>3, <1>4, <1>5 DEF ServerInv, Table, Waiting
  <2>2. \A f \in clients_ : link'[fdOf[f]] = "open" /\ ~Waiting(fdOf[f])'
    BY <1>3, <1>6 DEF ServerInv, Table, Types, clients_
  <2>3. \A c \in Browsers : Waiting(c)' => link'[c] = "open"
    BY <1>6 DEF ServerInv, Table, Types
  <2>4. \A c \in Browsers : link'[c] = "open" => Waiting(c)' \/ Behind(c)' # {}
    BY <1>6 DEF ServerInv, Table, Types, Behind
  <2> QED
    BY <2>1, <2>2, <2>3, <2>4 DEF ServerInv, Table, clients_
<1>8. backlog' # <<>>
  BY <1>4, <1>5
<1> QED
  BY <1>1, <1>2, <1>7, <1>8 DEF ServerInv, Reported, clients_

LEMMA TableAtRest ==
    ASSUME Table, UNCHANGED <<backlog, fdOf, link>>
    PROVE  Table'
  BY DEF Table, clients_, Waiting, Behind

LEMMA SendKeeps ==
    ASSUME ServerInv, NEW b \in Browsers, Send(b) \/ HangUp(b)
    PROVE  ServerInv'
<1> USE DEF Send, HangUp, tableVars
<1>1. \/ sent' = sent
      \/ sent[b] < Pieces(b) /\ sent' = [sent EXCEPT ![b] = @ + 1]
  OBVIOUS
<1>2. UNCHANGED <<loop, read_fds, backlog, kind, fdOf, read, complete, link, answers>>
  OBVIOUS
<1>3. Types'
  <2>1. sent' \in [Browsers -> Nat]
    BY <1>1 DEF ServerInv, Types
  <2> QED
    BY <1>2, <2>1 DEF ServerInv, Types
<1>4. ASSUME NEW c \in Browsers PROVE AnswerOf(c)'
  <2>1. Pieces(c)' = Pieces(c) /\ Pieces(c) \in Nat
    BY <1>2, PiecesType DEF ServerInv, Pieces
  <2>2. sent[c] \in Nat /\ read[c] \in Nat /\ read[c] <= sent[c] /\ sent[c] <= Pieces(c)
    BY DEF ServerInv, AnswerOf, Types
  <2>3. sent'[c] = sent[c] \/ (sent[c] < Pieces(c) /\ sent'[c] = sent[c] + 1)
    BY <1>1 DEF ServerInv, Types
  <2>4. sent'[c] <= Pieces(c) /\ read[c] <= sent'[c]
    BY <2>1, <2>2, <2>3
  <2> QED
    BY <1>2, <2>1, <2>4 DEF ServerInv, AnswerOf
<1>5. Table'
  BY <1>2, TableAtRest DEF ServerInv
<1> QED
  BY <1>2, <1>3, <1>4, <1>5 DEF ServerInv, Reported, clients_

-----------------------------------------------------------------------------
(* The loop.                                                               *)
LEMMA SelectKeeps ==
    ASSUME ServerInv, Select
    PROVE  ServerInv'
<1> USE DEF Select, browserVars, tableVars
<1>1. UNCHANGED <<backlog, kind, sent, fdOf, read, complete, link, answers>>
  OBVIOUS
<1>2. clients_' = clients_ /\ read_fds' \subseteq clients_ \cup {server_fd} /\ clients_ \subseteq Fds
  BY <1>1 DEF clients_
<1>3. Types'
  BY <1>1, <1>2 DEF ServerInv, Types
<1>4. \A b \in Browsers : AnswerOf(b)'
  BY <1>1 DEF ServerInv, AnswerOf, Pieces
<1>5. Table'
  BY <1>1, TableAtRest DEF ServerInv
<1>6. server_fd \in read_fds' => backlog' # <<>>
  BY <1>1 DEF Readable
<1> QED
  BY <1>2, <1>3, <1>4, <1>5, <1>6 DEF ServerInv, Reported

LEMMA AcceptKeeps ==
    ASSUME ServerInv, AcceptClient
    PROVE  ServerInv'
<1> PICK fd, b : fd = Min(Fds \ clients_) /\ b = Head(backlog)
  OBVIOUS
<1>1. /\ loop = "accept" /\ loop' \in {"handle", "stopped"}
      /\ fdOf' = [fdOf EXCEPT ![fd] = b] /\ backlog' = Tail(backlog)
      /\ read_fds' = read_fds \ {server_fd}
      /\ UNCHANGED <<kind, sent, read, complete, link, answers>>
  BY DEF AcceptClient, browserVars
<1>2. backlog # <<>> /\ fd \in Fds \ clients_
  BY <1>1, DescriptorFree DEF ServerInv, Reported
<1>3. /\ backlog \in Seq(Browsers) /\ Len(backlog) \in Nat \ {0} /\ b = backlog[1]
      /\ DOMAIN backlog = 1 .. Len(backlog) /\ b \in Browsers
  BY <1>2 DEF ServerInv, Types
<1>4. /\ backlog' \in Seq(Browsers) /\ DOMAIN backlog' = 1 .. Len(backlog) - 1
      /\ \A i \in DOMAIN backlog' : backlog'[i] = backlog[i + 1]
  BY <1>1, <1>2, <1>3
<1>5. \A c : Waiting(c)' <=> Waiting(c) /\ c # b
  <2>1. Waiting(b)
    BY <1>3 DEF Waiting
  <2>2. \A i, j \in DOMAIN backlog : backlog[i] = backlog[j] => i = j
    BY DEF ServerInv, Table
  <2>3. ASSUME NEW c, Waiting(c)' PROVE Waiting(c) /\ c # b
    <3>1. PICK i \in DOMAIN backlog' : backlog'[i] = c
      BY <2>3 DEF Waiting
    <3>2. i + 1 \in DOMAIN backlog /\ i + 1 # 1 /\ 1 \in DOMAIN backlog /\ backlog[i + 1] = c
      BY <1>3, <1>4, <3>1
    <3> QED
      BY <1>3, <2>2, <3>2 DEF Waiting
  <2>4. ASSUME NEW c, Waiting(c), c # b PROVE Waiting(c)'
    <3>1. PICK i \in DOMAIN backlog : backlog[i] = c
      BY <2>4 DEF Waiting
    <3>2. i - 1 \in DOMAIN backlog' /\ (i - 1) + 1 = i
      BY <1>3, <1>4, <2>4, <3>1
    <3>3. backlog'[i - 1] = c
      BY <1>4, <3>1, <3>2
    <3> QED
      BY <3>2, <3>3 DEF Waiting
  <2> QED
    BY <2>3, <2>4
<1>6. Types'
  <2>1. fdOf' \in [Fds -> Browsers \cup {Nobody0}]
    BY <1>1, <1>3 DEF ServerInv, Types
  <2> QED
    BY <1>1, <1>4, <2>1 DEF ServerInv, Types
<1>7. \A c \in Browsers : AnswerOf(c)'
  BY <1>1 DEF ServerInv, AnswerOf, Pieces
<1>8. /\ fdOf'[fd] = b /\ \A f \in Fds \ {fd} : fdOf'[f] = fdOf[f]
      /\ clients_' = clients_ \cup {fd}
  <2>1. fdOf'[fd] = b /\ \A f \in Fds \ {fd} : fdOf'[f] = fdOf[f]
    BY <1>1, <1>2 DEF ServerInv, Types
  <2>2. b # Nobody0
    BY <1>3, HttpServerAssumption
  <2> QED
    BY <1>2, <2>1, <2>2 DEF clients_
<1>9. Waiting(b) /\ link[b] = "open" /\ \A f \in Fds : fdOf[f] # b
  <2>1. Waiting(b)
    BY <1>3 DEF Waiting
  <2> QED
    BY <1>3, <2>1, HttpServerAssumption DEF ServerInv, Table, clients_
<1>10. Table'
  <2>1. \A f, g \in Fds : fdOf'[f] = fdOf'[g] /\ fdOf'[f] # Nobody0 => f = g
    BY <1>8, <1>9 DEF ServerInv, Table
  <2>2. \A c : \A f \in clients_' : fdOf'[f] = c => link[c] = "open" /\ ~Waiting(c)'
    BY <1>5, <1>8, <1>9 DEF ServerInv, Table, clients_
  <2>3. \A i, j \in DOMAIN backlog' : backlog'[i] = backlog'[j] => i = j
    <3>1. \A i \in DOMAIN backlog' : i \in Int /\ i + 1 \in DOMAIN backlog
      BY <1>3, <1>4
    <3> QED
      BY <1>4, <3>1 DEF ServerInv, Table
  <2>4. \A c \in Browsers : Waiting(c)' => link'[c] = "open"
    BY <1>1, <1>5 DEF ServerInv, Table
  <2>5. \A c \in Browsers : link'[c] = "open" => Waiting(c)' \/ Behind(c)' # {}
    <3>1. \A c \in Browsers : Behind(c) # {} => Behind(c)' # {}
      BY <1>2, <1>8, HttpServerAssumption DEF Behind, clients_
    <3>2. Behind(b)' # {}
      BY <1>2, <1>8 DEF Behind
    <3> QED
      BY <1>1, <1>5, <3>1, <3>2 DEF ServerInv, Table
  <2> QED
    BY <1>1, <2>1, <2>2, <2>3, <2>4, <2>5 DEF Table
<1>11. read_fds' \subseteq clients_'
  BY <1>1, <1>8 DEF ServerInv, Reported
<1> QED
  BY <1>1, <1>6, <1>7, <1>10, <1>11 DEF ServerInv, Reported

(* A closed connection leaves the table, and nothing else does.            *)
LEMMA ClosingKeepsTable ==
    ASSUME ServerInv, NEW fd \in clients_, CloseClient(fd), UNCHANGED backlog
    PROVE  /\ Table' /\ clients_' = clients_ \ {fd}
           /\ fdOf' \in [Fds -> Browsers \cup {Nobody0}]
           /\ link' = [link EXCEPT ![fdOf[fd]] = "closed"]
           /\ link' \in [Browsers -> {"away", "open", "closed"}]
<1>1. /\ fdOf' = [fdOf EXCEPT ![fd] = Nobody0]
      /\ link' = [link EXCEPT ![fdOf[fd]] = "closed"]
  BY DEF CloseClient
<1>2. PICK b \in Browsers : fdOf[fd] = b /\ fd \in Fds /\ link[b] = "open" /\ ~Waiting(b)
  BY DEF ServerInv, Types, Table, clients_
<1>3. /\ fdOf' \in [Fds -> Browsers \cup {Nobody0}]
      /\ link' \in [Browsers -> {"away", "open", "closed"}]
  BY <1>1, <1>2 DEF ServerInv, Types
<1>4. /\ fdOf'[fd] = Nobody0 /\ \A f \in Fds \ {fd} : fdOf'[f] = fdOf[f]
      /\ link'[b] = "closed" /\ \A c \in Browsers \ {b} : link'[c] = link[c]
  BY <1>1, <1>2 DEF ServerInv, Types
<1>5. clients_' = clients_ \ {fd}
  BY <1>4 DEF clients_
<1>6. \A c : Waiting(c)' <=> Waiting(c)
  BY DEF Waiting
<1>7. \A f \in clients_ \ {fd} : fdOf[f] \in Browsers \ {b}
  BY <1>2 DEF ServerInv, Types, Table, clients_
<1>8. Table'
  <2>1. \A f, g \in Fds : fdOf'[f] = fdOf'[g] /\ fdOf'[f] # Nobody0 => f = g
    BY <1>4 DEF ServerInv, Table
  <2>2. \A c : \A f \in clients_' : fdOf'[f] = c => link'[c] = "open" /\ ~Waiting(c)'
    BY <1>4, <1>5, <1>6, <1>7 DEF ServerInv, Table, clients_
  <2>3. \A c \in Browsers : Waiting(c)' => link'[c] = "open"
    BY <1>2, <1>4, <1>6 DEF ServerInv, Table
  <2>4. \A c \in Browsers : link'[c] = "open" => Waiting(c)' \/ Behind(c)' # {}
    <3>1. ASSUME NEW c \in Browsers, link'[c] = "open", ~Waiting(c) PROVE Behind(c)' # {}
      <4>1. c # b /\ link[c] = "open"
        BY <1>4, <3>1
      <4>2. PICK f \in Fds : fdOf[f] = c
        BY <3>1, <4>1 DEF ServerInv, Table, Behind
      <4> QED
        BY <1>2, <1>4, <4>1, <4>2 DEF Behind
    <3> QED
      BY <1>6, <3>1
  <2> QED
    BY <2>1, <2>2, <2>3, <2>4 DEF ServerInv, Table
<1> QED
  BY <1>1, <1>3, <1>5, <1>8

(* What a call does to the browser of one descriptor.                      *)
LEMMA HandleDataKeeps ==
    ASSUME ServerInv, NEW fd \in clients_, HandleClientData(fd),
           UNCHANGED <<backlog, kind, sent>>
    PROVE  /\ read' \in [Browsers -> Nat] /\ complete' \in [Browsers -> BOOLEAN]
           /\ answers' \in [Browsers -> Nat]
           /\ fdOf' \in [Fds -> Browsers \cup {Nobody0}]
           /\ link' \in [Browsers -> {"away", "open", "closed"}]
           /\ \A c \in Browsers : AnswerOf(c)'
           /\ Table' /\ clients_ \ {fd} \subseteq clients_'
<1> PICK b \in Browsers : fdOf[fd] = b /\ link[b] = "open"
  BY DEF ServerInv, Types, Table, clients_
<1>1. /\ read[b] \in Nat /\ sent[b] \in Nat /\ sent[b] <= Pieces(b) /\ answers[b] = 0
      /\ read \in [Browsers -> Nat] /\ complete \in [Browsers -> BOOLEAN]
      /\ answers \in [Browsers -> Nat]
  BY DEF ServerInv, Types, AnswerOf
<1>2. \A c : Pieces(c)' = Pieces(c)
  BY DEF Pieces
<1>3. CASE sent[b] = read[b] /\ CloseClient(fd) /\ UNCHANGED <<read, complete, answers>>
  <2>1. \A c \in Browsers : AnswerOf(c)'
    BY <1>1, <1>2, <1>3, ClosingKeepsTable DEF ServerInv, AnswerOf, Types
  <2> QED
    BY <1>1, <1>3, <2>1, ClosingKeepsTable
<1>4. ASSUME NEW n \in read[b] + 1 .. sent[b], NEW terminated \in BOOLEAN,
             terminated <=> kind[b] # "endless" /\ n >= HeaderPieces,
             read' = [read EXCEPT ![b] = n], complete' = [complete EXCEPT ![b] = terminated],
             terminated => Respond(b) /\ CloseClient(fd),
             ~terminated => UNCHANGED answers /\ (CloseClient(fd) \/ UNCHANGED <<fdOf, link>>)
      PROVE  /\ read' \in [Browsers -> Nat] /\ complete' \in [Browsers -> BOOLEAN]
             /\ answers' \in [Browsers -> Nat]
             /\ fdOf' \in [Fds -> Browsers \cup {Nobody0}]
             /\ link' \in [Browsers -> {"away", "open", "closed"}]
             /\ \A c \in Browsers : AnswerOf(c)'
             /\ Table' /\ clients_ \ {fd} \subseteq clients_'
  <2>1. n \in Nat /\ n <= sent[b]
    BY <1>1
  <2>2. read' \in [Browsers -> Nat] /\ complete' \in [Browsers -> BOOLEAN]
    BY <1>1, <1>4, <2>1
  <2>3. /\ answers' \in [Browsers -> Nat]
        /\ answers'[b] = IF terminated /\ kind[b] = "GET" THEN 1 ELSE 0
        /\ \A c \in Browsers \ {b} : answers'[c] = answers[c]
    BY <1>1, <1>4 DEF Respond
  <2>4. /\ fdOf' \in [Fds -> Browsers \cup {Nobody0}]
        /\ link' \in [Browsers -> {"away", "open", "closed"}]
        /\ Table' /\ clients_ \ {fd} \subseteq clients_'
        /\ terminated => link'[b] = "closed"
        /\ \A c \in Browsers \ {b} : link'[c] = link[c]
    <3>1. CASE CloseClient(fd)
      BY <3>1, ClosingKeepsTable DEF ServerInv, Types
    <3>2. CASE ~terminated /\ UNCHANGED <<fdOf, link>>
      BY <3>2, TableAtRest DEF ServerInv, Types, clients_
    <3> QED
      BY <1>4, <3>1, <3>2
  <2>5. ASSUME NEW c \in Browsers PROVE AnswerOf(c)'
    <3>1. CASE c # b
      BY <1>2, <1>4, <2>3, <2>4, <3>1 DEF ServerInv, AnswerOf, Types
    <3>2. CASE c = b
      <4>1. read'[b] = n /\ kind' = kind /\ sent' = sent
        BY <1>1, <1>4
      <4>2. terminated => n = HeaderPieces
        BY <1>1, <1>4, <2>1, PiecesType, HttpServerAssumption DEF ServerInv
      <4> QED
        BY <1>1, <1>2, <2>1, <2>3, <2>4, <3>2, <4>1, <4>2 DEF AnswerOf
    <3> QED
      BY <3>1, <3>2
  <2> QED
    BY <2>2, <2>3, <2>4, <2>5
<1>5. ASSUME NEW n \in read[b] + 1 .. sent[b],
             LET terminated == kind[b] # "endless" /\ n >= HeaderPieces
             IN  /\ read' = [read EXCEPT ![b] = n]
                 /\ complete' = [complete EXCEPT ![b] = terminated]
                 /\ IF terminated THEN Respond(b) ELSE UNCHANGED answers
                 /\ IF terminated \/ n >= TooLarge
                    THEN CloseClient(fd) ELSE UNCHANGED <<fdOf, link>>
      PROVE  /\ read' \in [Browsers -> Nat] /\ complete' \in [Browsers -> BOOLEAN]
             /\ answers' \in [Browsers -> Nat]
             /\ fdOf' \in [Fds -> Browsers \cup {Nobody0}]
             /\ link' \in [Browsers -> {"away", "open", "closed"}]
             /\ \A c \in Browsers : AnswerOf(c)'
             /\ Table' /\ clients_ \ {fd} \subseteq clients_'
  BY <1>4, <1>5
<1> QED
  BY <1>3, <1>5 DEF HandleClientData

LEMMA HandleKeeps ==
    ASSUME ServerInv, Handle
    PROVE  ServerInv'
<1> PICK fd : fd = Min(read_fds)
  OBVIOUS
<1>1. /\ HandleClientData(fd) /\ read_fds' = read_fds \ {fd} /\ read_fds # {} /\ loop = "handle"
      /\ UNCHANGED <<loop, backlog, kind, sent>>
  BY DEF Handle, browserVars
<1>2. read_fds \subseteq clients_ /\ read_fds \in SUBSET Nat
  BY <1>1, FdsFinite DEF ServerInv, Reported, clients_
<1>3. fd \in clients_
  BY <1>1, <1>2, MinIsIn
<1>4. /\ read' \in [Browsers -> Nat] /\ complete' \in [Browsers -> BOOLEAN]
      /\ answers' \in [Browsers -> Nat]
      /\ fdOf' \in [Fds -> Browsers \cup {Nobody0}]
      /\ link' \in [Browsers -> {"away", "open", "closed"}]
      /\ \A c \in Browsers : AnswerOf(c)'
      /\ Table' /\ clients_ \ {fd} \subseteq clients_'
  BY <1>1, <1>3, HandleDataKeeps
<1>5. Types'
  BY <1>1, <1>4 DEF ServerInv, Types
<1>6. Reported'
  BY <1>1, <1>2, <1>4 DEF ServerInv, Reported
<1> QED
  BY <1>4, <1>5, <1>6 DEF ServerInv

LEMMA NextTurnKeeps ==
    ASSUME ServerInv, NextTurn
    PROVE  ServerInv'
<1>1. /\ loop' \in {"select", "stopped"} /\ read_fds = {}
      /\ UNCHANGED <<read_fds, backlog, kind, sent, fdOf, read, complete, link, answers>>
  BY DEF NextTurn, browserVars, tableVars
<1>2. Table'
  BY <1>1, TableAtRest DEF ServerInv
<1> QED
  BY <1>1, <1>2 DEF ServerInv, Types, AnswerOf, Pieces, Reported

LEMMA NextServer == ServerInv /\ [ServerNext]_serverVars => ServerInv'
<1> SUFFICES ASSUME ServerInv, [ServerNext]_serverVars PROVE ServerInv'
  OBVIOUS
<1>1. CASE UNCHANGED serverVars
  <2>1. Table'
    BY <1>1, TableAtRest DEF ServerInv, serverVars
  <2> QED
    BY <1>1, <2>1 DEF ServerInv, serverVars, Types, AnswerOf, Pieces, Reported, clients_
<1>2. CASE TheServer
  BY <1>2, SelectKeeps, AcceptKeeps, HandleKeeps, NextTurnKeeps DEF TheServer
<1>3. ASSUME NEW b \in Browsers, Connect(b) \/ Send(b) \/ HangUp(b) PROVE ServerInv'
  BY <1>3, ConnectKeeps, SendKeeps
<1> QED
  BY <1>1, <1>2, <1>3 DEF ServerNext

(* The strengthening is inductive: besides the answers it says where each  *)
(* open connection is, and that what select reported is in the table.      *)
THEOREM ServerKeepsInv == ServerSpec => []ServerInv
  BY InitServer, NextServer, PTL DEF ServerSpec

-----------------------------------------------------------------------------
(* However many browsers there are, whatever they send and whenever they   *)
(* hang up, each is answered at most once, for a whole GET only, and every *)
(* descriptor of the table is one open connection.                         *)
THEOREM AnswersAlwaysDue == ServerSpec => []AnswersAreDue
<1>1. ASSUME ServerInv PROVE AnswersAreDue
  <2>1. ASSUME NEW b \in Browsers
        PROVE  /\ answers[b] \in {0, 1}
               /\ answers[b] = 1 => /\ kind[b] = "GET" /\ read[b] = HeaderPieces
                                    /\ link[b] = "closed"
    BY <1>1 DEF ServerInv, AnswerOf
  <2>2. ASSUME NEW b \in Browsers, link[b] = "open"
        PROVE  Cardinality(Behind(b)) = IF Waiting(b) THEN 0 ELSE 1
    <3>1. CASE Waiting(b)
      <4>1. Behind(b) = {}
        BY <1>1, <3>1, HttpServerAssumption DEF ServerInv, Table, Behind, clients_
      <4> QED
        BY <3>1, <4>1, FS_EmptySet
    <3>2. CASE ~Waiting(b)
      <4>1. PICK f \in Fds : fdOf[f] = b
        BY <1>1, <2>2, <3>2 DEF ServerInv, Table, Behind
      <4>2. Behind(b) = {f}
        BY <1>1, <4>1, HttpServerAssumption DEF ServerInv, Table, Behind
      <4> QED
        BY <3>2, <4>2, FS_Singleton
    <3> QED
      BY <3>1, <3>2
  <2> QED
    BY <1>1, <2>1, <2>2 DEF AnswersAreDue, ServerInv, Reported, Behind, Waiting
<1> QED
  BY <1>1, ServerKeepsInv, PTL

-----------------------------------------------------------------------------
(* Placements.                                                             *)

\* The loop has a result.
Loop(n, m, f) ==
    f = [i \in 0..m |-> IF i = 0 THEN 1 ELSE (f[i - 1] * (n - i + 1)) \div i]
LEMMA LoopRuns == \A n, m \in Nat : \E f : Loop(n, m, f)
<1> SUFFICES ASSUME NEW n \in Nat PROVE \A m \in Nat : \E f : Loop(n, m, f)
  OBVIOUS
<1> DEFINE good == {m \in Nat : \E f : Loop(n, m, f)}
<1>1. 0 \in good
  <2>1. Loop(n, 0, [i \in 0..0 |-> 1])
    BY DEF Loop
  <2> QED  BY <2>1
<1>2. ASSUME NEW m \in Nat, m \in good PROVE m + 1 \in good
  <2>1. PICK f : Loop(n, m, f)
    BY <1>2
  <2> DEFINE next == (f[m] * (n - (m + 1) + 1)) \div (m + 1)
             g == [i \in 0..m + 1 |-> IF i = m + 1 THEN next ELSE f[i]]
  <2>2. \A i \in 0..m + 1 : g[i] = IF i = 0 THEN 1 ELSE (g[i - 1] * (n - i + 1)) \div i
    <3> TAKE i \in 0..m + 1
    <3>1. CASE i = m + 1
      <4>1. i # 0 /\ i - 1 = m /\ m \in 0..m + 1 /\ m # m + 1
        BY <3>1
      <4>2. g[i] = next /\ g[i - 1] = f[m]
        BY <3>1, <4>1
      <4> QED  BY <3>1, <4>1, <4>2
    <3>2. CASE i \in 0..m
      <4>1. i # m + 1 /\ (i # 0 => i - 1 \in 0..m /\ i - 1 # m + 1 /\ i - 1 \in 0..m + 1)
        BY <3>2
      <4>2. g[i] = f[i] /\ (i # 0 => g[i - 1] = f[i - 1])
        BY <4>1
      <4>3. f[i] = IF i = 0 THEN 1 ELSE (f[i - 1] * (n - i + 1)) \div i
        BY <2>1, <3>2 DEF Loop
      <4> HIDE DEF g
      <4> QED  BY <4>2, <4>3
    <3> QED  BY <3>1, <3>2
  <2>3. Loop(n, m + 1, g)
    <3>1. g = [i \in 0..m + 1 |-> g[i]]
      OBVIOUS
    <3> HIDE DEF g
    <3>2. g = [i \in 0..m + 1 |-> IF i = 0 THEN 1 ELSE (g[i - 1] * (n - i + 1)) \div i]
      BY <2>2, <3>1
    <3> QED  BY <3>2 DEF Loop
  <2> QED  BY <2>3
<1> HIDE DEF good
<1>3. \A m \in Nat : m \in good
  BY <1>1, <1>2, NumberInduction
<1> QED  BY <1>3 DEF good

\* And it is the entry of the triangle.
LEMMA LoopCounts ==
    ASSUME NEW N \in Nat, NEW c, Triangle(c, N), NEW n \in 0..N, NEW m \in Nat, NEW f, Loop(n, m, f)
    PROVE  f[m] = c[n][m]
<1> DEFINE good == {i \in Nat : i <= m => f[i] = c[n][i]}
<1>1. 0 \in good
  BY DEF Loop, Triangle
<1>2. ASSUME NEW i \in Nat, i \in good PROVE i + 1 \in good
  <2> SUFFICES ASSUME i + 1 <= m  PROVE f[i + 1] = c[n][i + 1]
    OBVIOUS
  <2>1. i + 1 \in 0..m /\ (i + 1) - 1 = i /\ i + 1 # 0 /\ i <= m
    OBVIOUS
  <2>2. f[i + 1] = (f[i] * (n - (i + 1) + 1)) \div (i + 1)
    BY <2>1 DEF Loop
  <2>3. f[i] = c[n][i]
    BY <1>2, <2>1
  <2>4. (i + 1) * c[n][i + 1] = (n - (i + 1) + 1) * c[n][i]
    <3>1. i + 1 \in Nat /\ i + 1 > 0
      OBVIOUS
    <3> QED  BY <2>1, <3>1, RowGoesOn
  <2>5. c[n][i] \in Nat /\ c[n][i + 1] \in Nat
    BY DEF Triangle
  <2> DEFINE x == c[n][i]
             y == c[n][i + 1]
  <2>6. \A a, b \in Nat : b > 0 => (b * a) \div b = a
    OBVIOUS
  <2>7. ((i + 1) * y) \div (i + 1) = y
    BY <2>5, <2>6
  <2>8. x * (n - (i + 1) + 1) = (n - (i + 1) + 1) * x
    BY <2>5
  <2> QED  BY <2>2, <2>3, <2>4, <2>7, <2>8
<1> HIDE DEF good
<1>3. \A i \in Nat : i \in good
  BY <1>1, <1>2, NumberInduction
<1> QED  BY <1>3 DEF good

\* So exact_binomial is the triangle's entry, whichever end it counts from.
LEMMA BinomialIs ==
    ASSUME NEW N \in Nat, NEW c, Triangle(c, N), NEW n \in 0..N, NEW k \in Nat
    PROVE  exact_binomial(n, k) = c[n][k]
<1> DEFINE small == IF k > n \div 2 THEN n - k ELSE k
           result == CHOOSE f : Loop(n, small, f)
<1>1. exact_binomial(n, k) = IF k > n THEN 0 ELSE result[small]
  BY DEF exact_binomial, Loop
<1>2. CASE k > n
  BY <1>1, <1>2, RowEnds
<1>3. CASE k <= n
  <2>1. small \in Nat /\ k \in 0..n /\ ~(k > n)
    BY <1>3
  <2>2. Loop(n, small, result)
    <3>1. n \in Nat
      OBVIOUS
    <3> HIDE DEF small
    <3> QED  BY <2>1, <3>1, LoopRuns
  <2>3. result[small] = c[n][small]
    <3> HIDE DEF small, result
    <3> QED  BY <2>1, <2>2, LoopCounts
  <2>4. c[n][n - k] = c[n][k]
    BY <2>1, RowIsEven
  <2> HIDE DEF result
  <2> QED  BY <1>1, <2>1, <2>3, <2>4
<1> QED  BY <1>2, <1>3

\* Binomials add up as the triangle does, for all numbers.
LEMMA Pascal ==
    /\ \A n, k \in Nat : exact_binomial(n, k) \in Nat
    /\ \A n \in Nat : exact_binomial(n, 0) = 1
    /\ \A k \in Nat : exact_binomial(0, k + 1) = 0
    /\ \A n, k \in Nat :
          exact_binomial(n + 1, k + 1) = exact_binomial(n, k) + exact_binomial(n, k + 1)
<1> SUFFICES ASSUME NEW n \in Nat, NEW k \in Nat
             PROVE  /\ exact_binomial(n, k) \in Nat
                    /\ exact_binomial(n, 0) = 1
                    /\ exact_binomial(0, k + 1) = 0
                    /\ exact_binomial(n + 1, k + 1) = exact_binomial(n, k) + exact_binomial(n, k + 1)
  OBVIOUS
<1>1. /\ n + 1 \in Nat /\ n \in 0..n + 1 /\ n + 1 \in 0..n + 1 /\ n + 1 \in 1..n + 1 /\ 0 \in 0..n + 1
      /\ (n + 1) - 1 = n /\ (k + 1) - 1 = k /\ k + 1 \in Nat /\ k + 1 > 0
  OBVIOUS
<1>2. PICK c : Triangle(c, n + 1)
  BY <1>1, TriangleExists
<1>3. \A m \in 0..n + 1 : \A j \in Nat : exact_binomial(m, j) = c[m][j]
  BY <1>1, <1>2, BinomialIs
<1> QED  BY <1>1, <1>2, <1>3 DEF Triangle

(***************************************************************************)
(* Unranking.  Rest is the number of ways to put the bars from the i-th on *)
(* at x or later; the positions skipped are the difference of two of them. *)
(***************************************************************************)
Rest(slots, bars, i, x) == exact_binomial(slots - x + 1, bars - i + 1)

\* The next bar is at x, or it is later.
LEMMA RestSplits ==
    ASSUME NEW slots \in Nat, NEW bars \in Nat, NEW i \in 1..bars, NEW x \in 1..slots
    PROVE  /\ Rest(slots, bars, i, x) = Rest(slots, bars, i + 1, x + 1) + Rest(slots, bars, i, x + 1)
           /\ Rest(slots, bars, i + 1, x + 1) = exact_binomial(slots - x, bars - i)
           /\ Rest(slots, bars, i, x) \in Nat /\ Rest(slots, bars, i, x + 1) \in Nat
           /\ Rest(slots, bars, i + 1, x + 1) \in Nat
<1> DEFINE n == slots - x
           k == bars - i
<1>1. /\ n \in Nat /\ k \in Nat /\ slots - x + 1 = n + 1 /\ bars - i + 1 = k + 1
      /\ slots - (x + 1) + 1 = n /\ bars - (i + 1) + 1 = k
  OBVIOUS
<1> HIDE DEF n, k
<1>2. n + 1 \in Nat /\ k + 1 \in Nat
  BY <1>1
<1>3. /\ exact_binomial(n + 1, k + 1) = exact_binomial(n, k) + exact_binomial(n, k + 1)
      /\ exact_binomial(n + 1, k + 1) \in Nat /\ exact_binomial(n, k + 1) \in Nat
      /\ exact_binomial(n, k) \in Nat
  BY <1>1, <1>2, Pascal
<1>4. Rest(slots, bars, i + 1, x + 1) = exact_binomial(slots - x, bars - i)
  BY <1>1 DEF Rest, n, k
<1> QED  BY <1>1, <1>3, <1>4 DEF Rest

\* No room for a bar is left past the slots; no bars are put in one way.
LEMMA RestEnds ==
    ASSUME NEW slots \in Nat, NEW bars \in Nat
    PROVE  /\ \A i \in 1..bars : Rest(slots, bars, i, slots + 1) = 0
           /\ \A x \in 1..slots + 1 : Rest(slots, bars, bars + 1, x) = 1
<1>1. ASSUME NEW i \in 1..bars PROVE Rest(slots, bars, i, slots + 1) = 0
  <2>1. slots - (slots + 1) + 1 = 0 /\ bars - i + 1 = (bars - i) + 1 /\ bars - i \in Nat
    OBVIOUS
  <2>2. exact_binomial(0, (bars - i) + 1) = 0
    BY <2>1, Pascal
  <2> QED  BY <2>1, <2>2 DEF Rest
<1>2. ASSUME NEW x \in 1..slots + 1 PROVE Rest(slots, bars, bars + 1, x) = 1
  <2>1. bars - (bars + 1) + 1 = 0 /\ slots - x + 1 \in Nat
    OBVIOUS
  <2> QED  BY <2>1, Pascal DEF Rest
<1> QED  BY <1>1, <1>2

\* The later the bars may begin, the fewer the ways.
LEMMA RestShrinks ==
    ASSUME NEW slots \in Nat, NEW bars \in Nat, NEW i \in 1..bars,
           NEW x \in 1..slots + 1, NEW y \in x..slots + 1
    PROVE  /\ Rest(slots, bars, i, x) \in Nat /\ Rest(slots, bars, i, y) \in Nat
           /\ Rest(slots, bars, i, y) <= Rest(slots, bars, i, x)
<1> DEFINE R(z) == Rest(slots, bars, i, z)
<1>1. \A z \in 1..slots + 1 : R(z) \in Nat
  <2> TAKE z \in 1..slots + 1
  <2>1. CASE z \in 1..slots
    BY <2>1, RestSplits
  <2>2. CASE z = slots + 1
    BY <2>2, RestEnds
  <2> QED  BY <2>1, <2>2
<1> DEFINE good == {d \in Nat : x + d <= slots + 1 => R(x + d) <= R(x)}
<1>2. 0 \in good
  <2>1. x + 0 = x
    OBVIOUS
  <2> QED  BY <1>1, <2>1
<1>3. ASSUME NEW d \in Nat, d \in good PROVE d + 1 \in good
  <2> SUFFICES ASSUME x + (d + 1) <= slots + 1  PROVE R(x + (d + 1)) <= R(x)
    OBVIOUS
  <2>1. /\ x + d \in 1..slots /\ x + (d + 1) = (x + d) + 1 /\ x + d <= slots + 1
        /\ x + d \in 1..slots + 1 /\ (x + d) + 1 \in 1..slots + 1
    OBVIOUS
  <2>2. R(x + d) <= R(x)
    BY <1>3, <2>1
  <2>3. R(x + d) = Rest(slots, bars, i + 1, (x + d) + 1) + R((x + d) + 1)
        /\ Rest(slots, bars, i + 1, (x + d) + 1) \in Nat
    BY <2>1, RestSplits
  <2>4. R(x + d) \in Nat /\ R((x + d) + 1) \in Nat /\ R(x) \in Nat
    BY <1>1, <2>1
  <2> QED  BY <2>1, <2>2, <2>3, <2>4
<1>4. \A d \in Nat : d \in good
  <2> HIDE DEF good
  <2> QED  BY <1>2, <1>3, NumberInduction
<1>5. y - x \in Nat /\ x + (y - x) = y /\ y <= slots + 1 /\ y \in 1..slots + 1
  OBVIOUS
<1>6. R(y) <= R(x)
  BY <1>4, <1>5
<1> QED  BY <1>1, <1>5, <1>6

\* What unrank counts up to a position is a difference of two rests.
LEMMA SkippedIs ==
    ASSUME NEW slots \in Nat, NEW bars \in Nat, NEW i \in 1..bars,
           NEW start \in 1..slots + 1, NEW p \in start..slots + 1
    PROVE  skipped(slots, bars - i, start, p)
               = Rest(slots, bars, i, start) - Rest(slots, bars, i, p)
<1> DEFINE R(z) == Rest(slots, bars, i, z)
           count(q) == [x \in start..q - 1 |-> exact_binomial(slots - x, bars - i)]
           sums(q) == SumOver(count(q), start..q - 1) = R(start) - R(q)
           good == {q \in Nat : q \in start..slots + 1 => sums(q)}
<1>1. \A q : skipped(slots, bars - i, start, q) = SumOver(count(q), start..q - 1)
  BY Zenon DEF skipped, SumOver
<1>2. \A z \in 1..slots + 1 : R(z) \in Nat
  <2> TAKE z \in 1..slots + 1
  <2>1. z \in z..slots + 1
    OBVIOUS
  <2> QED  BY <2>1, RestShrinks
<1>3. sums(start)
  <2>1. start..start - 1 = {}
    OBVIOUS
  <2>2. SumOver(count(start), start..start - 1) = 0
    BY <2>1, SumOfNone
  <2> QED  BY <1>2, <2>2
<1>4. ASSUME NEW q \in start..slots, sums(q) PROVE sums(q + 1)
  <2>1. q \in 1..slots /\ q + 1 \in 1..slots + 1 /\ q \in 1..slots + 1 /\ (q + 1) - 1 = q
    OBVIOUS
  <2>2. \A x \in start..q : exact_binomial(slots - x, bars - i) \in Nat
    <3> TAKE x \in start..q
    <3>1. x \in 1..slots
      OBVIOUS
    <3>2. /\ Rest(slots, bars, i + 1, x + 1) = exact_binomial(slots - x, bars - i)
          /\ Rest(slots, bars, i + 1, x + 1) \in Nat
      BY <3>1, RestSplits
    <3> QED  BY <3>2
  <2> DEFINE longer == [x \in start..q |-> exact_binomial(slots - x, bars - i)]
  <2>3. count(q + 1) = longer
    BY <2>1
  <2>4. \A x \in start..q - 1 : count(q)[x] = longer[x]
    OBVIOUS
  <2>5. \A x \in start..q : longer[x] \in Int
    BY <2>2
  <2>6. longer[q] = Rest(slots, bars, i + 1, q + 1)
    <3>1. longer[q] = exact_binomial(slots - q, bars - i)
      OBVIOUS
    <3> QED  BY <2>1, <3>1, RestSplits
  <2>7. SumOver(count(q), start..q - 1) = SumOver(longer, start..q - 1)
    <3>1. IsFiniteSet(start..q - 1)
      <4>1. q - 1 \in Int /\ start \in Int
        OBVIOUS
      <4> QED  BY <4>1, FS_Interval
    <3> HIDE DEF count, longer
    <3> QED  BY <2>4, <3>1, SumSame
  <2>8. SumOver(longer, start..q) = SumOver(longer, start..q - 1) + longer[q]
    <3> HIDE DEF longer
    <3> QED  BY <2>5, SumToNext
  <2>9. /\ R(q) = Rest(slots, bars, i + 1, q + 1) + R(q + 1)
        /\ Rest(slots, bars, i + 1, q + 1) \in Nat
    BY <2>1, RestSplits
  <2>10. R(start) \in Nat /\ R(q) \in Nat /\ R(q + 1) \in Nat
    BY <1>2, <2>1
  <2>11. SumOver(count(q + 1), start..(q + 1) - 1) = SumOver(longer, start..q)
    BY <2>1, <2>3
  <2>12. SumOver(longer, start..q) = R(start) - R(q + 1)
    <3> HIDE DEF count, longer, R
    <3> QED  BY <1>4, <2>6, <2>7, <2>8, <2>9, <2>10
  <2> QED  BY <2>11, <2>12
<1> HIDE DEF sums
<1>5. 0 \in good
  OBVIOUS
<1>6. ASSUME NEW q \in Nat, q \in good PROVE q + 1 \in good
  <2>1. CASE q + 1 = start
    BY <1>3, <2>1
  <2>2. CASE q \in start..slots
    BY <1>4, <1>6, <2>2
  <2>3. q + 1 \in start..slots + 1 => q + 1 = start \/ q \in start..slots
    OBVIOUS
  <2> QED  BY <2>1, <2>2, <2>3
<1>7. \A q \in Nat : q \in good
  <2> HIDE DEF good
  <2> QED  BY <1>5, <1>6, NumberInduction
<1>8. sums(p)
  BY <1>7
<1> QED  BY <1>1, <1>8 DEF sums

\* The bar chosen is the one whose continuations the rank falls among.
Among(slots, bars, i, start, rank, p) ==
    /\ Rest(slots, bars, i, start) - Rest(slots, bars, i, p) <= rank
    /\ rank < Rest(slots, bars, i, start) - Rest(slots, bars, i, p + 1)
Placing(slots, bars, i, s, p) ==
    [bars |-> Append(s.bars, p), start |-> p + 1,
     rank |-> s.rank - (Rest(slots, bars, i, s.start) - Rest(slots, bars, i, p))]

\* A rank within the rest goes on at exactly one position.
LEMMA NextBarIs ==
    ASSUME NEW slots \in Nat, NEW bars \in Nat, NEW i \in 1..bars, NEW s,
           s.start \in 1..slots + 1, s.rank \in Nat, s.rank < Rest(slots, bars, i, s.start)
    PROVE  \E p \in s.start..slots :
               /\ Among(slots, bars, i, s.start, s.rank, p)
               /\ \A q \in s.start..slots : Among(slots, bars, i, s.start, s.rank, q) => q = p
               /\ NextBar(slots, bars - i, s) = Placing(slots, bars, i, s, p)
<1> DEFINE R(z) == Rest(slots, bars, i, z)
           start == s.start
           rank == s.rank
           reach == {q \in start..slots : rank < skipped(slots, bars - i, start, q + 1)}
           p == Min(reach)
<1>1. \A y, z \in 1..slots + 1 : y <= z => R(y) \in Nat /\ R(z) \in Nat /\ R(z) <= R(y)
  <2> TAKE y, z \in 1..slots + 1
  <2> HAVE y <= z
  <2>1. z \in y..slots + 1
    OBVIOUS
  <2> QED  BY <2>1, RestShrinks
<1>2. \A z \in start..slots + 1 : skipped(slots, bars - i, start, z) = R(start) - R(z)
  BY SkippedIs
<1>3. reach = {q \in start..slots : rank < R(start) - R(q + 1)}
  <2>1. \A q \in start..slots : q + 1 \in start..slots + 1
    OBVIOUS
  <2> HIDE DEF R
  <2> QED  BY <1>2, <2>1
<1>4. reach # {} /\ reach \subseteq Nat
  <2>1. R(slots + 1) = 0
    BY RestEnds
  <2>2. start # slots + 1
    BY <2>1
  <2>3. slots \in start..slots
    BY <2>2
  <2>4. R(start) \in Nat
    BY <1>1
  <2>5. rank < R(start) - R(slots + 1)
    BY <2>1, <2>4
  <2>6. slots \in reach
    BY <1>3, <2>3, <2>5
  <2> QED  BY <2>6
<1>5. p \in reach /\ \A x \in reach : p <= x
  <2> HIDE DEF reach
  <2> QED  BY <1>4, MinIsIn
<1>6. p \in start..slots /\ rank < R(start) - R(p + 1)
  BY <1>3, <1>5
<1>7. R(start) - R(p) <= rank
  <2> HIDE DEF R, reach, p
  <2>1. CASE p = start
    <3>1. R(start) \in Nat
      BY <1>1
    <3> QED  BY <2>1, <3>1
  <2>2. CASE p # start
    <3>1. p - 1 \in start..slots /\ (p - 1) + 1 = p /\ ~(p <= p - 1)
      BY <1>6, <2>2
    <3>2. ~(rank < R(start) - R(p))
      BY <1>3, <1>5, <3>1
    <3>3. p \in 1..slots + 1 /\ start \in 1..slots + 1 /\ start <= p
      BY <1>6
    <3>4. R(p) \in Nat /\ R(start) \in Nat
      BY <1>1, <3>3
    <3> QED  BY <3>2, <3>4
  <2> QED  BY <2>1, <2>2
<1>8. Among(slots, bars, i, start, rank, p)
  BY <1>6, <1>7 DEF Among
<1>9. ASSUME NEW q \in start..slots, Among(slots, bars, i, start, rank, q) PROVE q = p
  <2>1. R(start) - R(q) <= rank /\ rank < R(start) - R(q + 1)
    BY <1>9 DEF Among
  <2> HIDE DEF R, reach, p
  <2>2. ASSUME NEW x \in start..slots, NEW y \in start..slots, x < y,
               rank < R(start) - R(x + 1), R(start) - R(y) <= rank
        PROVE  FALSE
    <3>1. x + 1 \in 1..slots + 1 /\ y \in 1..slots + 1 /\ x + 1 <= y /\ start \in 1..slots + 1
      BY <2>2
    <3>2. R(start) \in Nat /\ R(y) \in Nat /\ R(x + 1) \in Nat /\ R(y) <= R(x + 1)
      BY <1>1, <3>1
    <3> QED  BY <2>2, <3>2
  <2>3. ~(p < q) /\ ~(q < p)
    BY <1>6, <1>7, <2>1, <2>2
  <2>4. p \in Int /\ q \in Int
    BY <1>6
  <2> QED  BY <2>3, <2>4
<1>10. NextBar(slots, bars - i, s) = Placing(slots, bars, i, s, p)
  <2>1. NextBar(slots, bars - i, s) =
            [bars |-> Append(s.bars, p), start |-> p + 1,
             rank |-> rank - skipped(slots, bars - i, start, p)]
    BY Zenon DEF NextBar
  <2>2. p \in start..slots + 1
    BY <1>6
  <2>3. skipped(slots, bars - i, start, p) = R(start) - R(p)
    BY <1>2, <2>2
  <2> HIDE DEF p
  <2> QED  BY <2>1, <2>3 DEF Placing
<1> QED
  <2> HIDE DEF p
  <2> QED  BY <1>6, <1>8, <1>9, <1>10

\* Bars in order, what the unranking has counted of them, and the loop.
Rising(slots, n) ==
    {b \in Seq(1..slots) : Len(b) = n /\ \A i, j \in 1..n : i < j => b[i] < b[j]}
Start(b, i) == IF i = 0 THEN 1 ELSE b[i] + 1
Gaps(slots, bars, b) ==
    [i \in 1..Len(b) |-> Rest(slots, bars, i, Start(b, i - 1)) - Rest(slots, bars, i, b[i])]
RankOf(slots, bars, b) == SumOver(Gaps(slots, bars, b), 1..Len(b))

LEMMA RisingType ==
    ASSUME NEW slots \in Nat, NEW n \in Nat, NEW b \in Rising(slots, n)
    PROVE  /\ b \in Seq(1..slots) /\ Len(b) = n /\ DOMAIN b = 1..n
           /\ \A i \in 1..n : b[i] \in 1..slots
           /\ \A i, j \in 1..n : i < j => b[i] < b[j]
           /\ \A i \in 0..n : Start(b, i) \in 1..slots + 1
           /\ \A i \in 1..n : b[i] \in Start(b, i - 1)..slots
<1>1. /\ b \in Seq(1..slots) /\ Len(b) = n /\ DOMAIN b = 1..n
      /\ \A i \in 1..n : b[i] \in 1..slots
      /\ \A i, j \in 1..n : i < j => b[i] < b[j]
  BY DEF Rising
<1>2. \A i \in 0..n : Start(b, i) \in 1..slots + 1
  <2> TAKE i \in 0..n
  <2>1. CASE i = 0
    BY <2>1 DEF Start
  <2>2. CASE i \in 1..n
    BY <1>1, <2>2 DEF Start
  <2> QED  BY <2>1, <2>2
<1>3. \A i \in 1..n : b[i] \in Start(b, i - 1)..slots
  <2> TAKE i \in 1..n
  <2>1. CASE i = 1
    BY <1>1, <2>1 DEF Start
  <2>2. CASE i # 1
    <3>1. i - 1 \in 1..n /\ i - 1 < i /\ i - 1 # 0
      BY <2>2
    <3>2. b[i - 1] \in 1..slots /\ b[i] \in 1..slots /\ b[i - 1] < b[i]
      BY <1>1, <3>1
    <3> QED  BY <3>1, <3>2 DEF Start
  <2> QED  BY <2>1, <2>2
<1> QED  BY <1>1, <1>2, <1>3

LEMMA GapsType ==
    ASSUME NEW slots \in Nat, NEW bars \in Nat, NEW n \in 0..bars, NEW b \in Rising(slots, n)
    PROVE  /\ \A i \in 1..n : Gaps(slots, bars, b)[i] \in Int
           /\ RankOf(slots, bars, b) \in Int
<1> DEFINE g == Gaps(slots, bars, b)
<1>1. n \in Nat /\ Len(b) = n
  BY DEF Rising
<1>2. ASSUME NEW i \in 1..n PROVE g[i] \in Int
  <2>1. i - 1 \in 0..n /\ i \in 1..bars
    OBVIOUS
  <2>2. Start(b, i - 1) \in 1..slots + 1 /\ b[i] \in 1..slots
    BY <1>1, <2>1, RisingType
  <2>3. \A z \in 1..slots + 1 : Rest(slots, bars, i, z) \in Nat
    <3> TAKE z \in 1..slots + 1
    <3>1. z \in z..slots + 1
      OBVIOUS
    <3> QED  BY <2>1, <3>1, RestShrinks
  <2>4. g[i] = Rest(slots, bars, i, Start(b, i - 1)) - Rest(slots, bars, i, b[i])
    BY <1>1 DEF Gaps
  <2>5. b[i] \in 1..slots + 1
    BY <2>2
  <2> HIDE DEF g
  <2> QED  BY <2>2, <2>3, <2>4, <2>5
<1>3. SumOver(g, 1..n) \in Int
  <2>1. IsFiniteSet(1..n)
    BY <1>1, FS_Interval
  <2> HIDE DEF g
  <2> QED  BY <1>2, <2>1, SumType
<1> QED  BY <1>1, <1>2, <1>3 DEF RankOf

\* One more bar adds its gap to the rank.
LEMMA RankOfMore ==
    ASSUME NEW slots \in Nat, NEW bars \in Nat, NEW n \in Nat, n < bars,
           NEW b \in Rising(slots, n), NEW p \in Start(b, n)..slots
    PROVE  /\ Append(b, p) \in Rising(slots, n + 1)
           /\ RankOf(slots, bars, b) \in Int
           /\ RankOf(slots, bars, Append(b, p)) =
                  RankOf(slots, bars, b)
                  + (Rest(slots, bars, n + 1, Start(b, n)) - Rest(slots, bars, n + 1, p))
<1> DEFINE c == Append(b, p)
           f == Gaps(slots, bars, b)
           g == Gaps(slots, bars, c)
<1>1. /\ b \in Seq(1..slots) /\ Len(b) = n
      /\ \A i \in 1..n : b[i] \in 1..slots
      /\ \A i, j \in 1..n : i < j => b[i] < b[j]
      /\ \A i \in 0..n : Start(b, i) \in 1..slots + 1
  BY RisingType
<1>2. p \in 1..slots /\ n \in 0..n
  BY <1>1
<1>3. /\ c \in Seq(1..slots) /\ Len(c) = n + 1 /\ c[n + 1] = p
      /\ \A i \in 1..n : c[i] = b[i]
  BY <1>1, <1>2
<1>4. \A i \in 1..n : b[i] < p
  <2> TAKE i \in 1..n
  <2>1. n # 0 /\ n \in 1..n /\ Start(b, n) = b[n] + 1
    BY DEF Start
  <2>2. b[i] \in Int /\ b[n] \in Int /\ (i = n \/ b[i] < b[n])
    BY <1>1, <2>1
  <2> QED  BY <2>1, <2>2
<1>5. \A i, j \in 1..n + 1 : i < j => c[i] < c[j]
  <2> TAKE i, j \in 1..n + 1
  <2> HAVE i < j
  <2>1. i \in 1..n /\ (j = n + 1 \/ j \in 1..n)
    OBVIOUS
  <2> HIDE DEF c
  <2> QED  BY <1>1, <1>3, <1>4, <2>1
<1>6. c \in Rising(slots, n + 1)
  BY <1>3, <1>5 DEF Rising
<1>7. \A i \in 0..n : Start(c, i) = Start(b, i)
  <2> HIDE DEF c
  <2> QED  BY <1>3 DEF Start
<1>8. \A i \in 1..n + 1 : g[i] \in Int
  <2>1. n + 1 \in 0..bars
    OBVIOUS
  <2> HIDE DEF c
  <2> QED  BY <1>6, <2>1, GapsType
<1>9. \A i \in 1..n : f[i] = g[i]
  <2> TAKE i \in 1..n
  <2>1. i - 1 \in 0..n /\ i \in 1..n + 1
    OBVIOUS
  <2> HIDE DEF c
  <2> QED  BY <1>1, <1>3, <1>7, <2>1 DEF Gaps
<1>10. SumOver(f, 1..n) = SumOver(g, 1..n) /\ SumOver(f, 1..n) \in Int
  <2>1. IsFiniteSet(1..n)
    BY FS_Interval
  <2>2. \A i \in 1..n : f[i] \in Int
    <3> HIDE DEF f, g
    <3> QED  BY <1>8, <1>9
  <2> HIDE DEF f, g
  <2> QED  BY <1>9, <2>1, <2>2, SumSame, SumType
<1>11. SumOver(g, 1..n + 1) = SumOver(g, 1..n) + g[n + 1]
  <2>1. 1 \in Int /\ n + 1 \in Int /\ 1 <= n + 1 /\ (n + 1) - 1 = n
    OBVIOUS
  <2>2. SumOver(g, 1..n + 1) = SumOver(g, 1..(n + 1) - 1) + g[n + 1]
    <3> HIDE DEF g
    <3> QED  BY <1>8, <2>1, SumToNext
  <2> QED  BY <2>1, <2>2
<1>12. g[n + 1] = Rest(slots, bars, n + 1, Start(b, n)) - Rest(slots, bars, n + 1, p)
  <2>1. n + 1 \in 1..n + 1 /\ (n + 1) - 1 = n /\ n \in 0..n
    OBVIOUS
  <2> HIDE DEF c
  <2> QED  BY <1>3, <1>7, <2>1 DEF Gaps
<1>13. RankOf(slots, bars, b) = SumOver(f, 1..n) /\ RankOf(slots, bars, c) = SumOver(g, 1..n + 1)
  BY <1>1, <1>3 DEF RankOf
<1> HIDE DEF c, f, g
<1>14. RankOf(slots, bars, c) = RankOf(slots, bars, b) + g[n + 1] /\ RankOf(slots, bars, b) \in Int
  BY <1>10, <1>11, <1>13
<1> QED  BY <1>6, <1>12, <1>14 DEF c

Places(slots, bars, rank, m, f) ==
    f = [i \in 0..m |-> IF i = 0 THEN [bars |-> <<>>, start |-> 1, rank |-> rank]
                        ELSE NextBar(slots, bars - i, f[i - 1])]
\* The loop over the bars has a result, after every number of turns.
LEMMA PlacingRuns ==
    ASSUME NEW slots, NEW bars, NEW rank
    PROVE  \A m \in Nat : \E f : Places(slots, bars, rank, m, f)
<1> DEFINE first == [bars |-> <<>>, start |-> 1, rank |-> rank]
           good == {m \in Nat : \E f : Places(slots, bars, rank, m, f)}
<1>1. 0 \in good
  <2> DEFINE f == [i \in 0..0 |-> first]
  <2>1. f = [i \in 0..0 |-> IF i = 0 THEN first ELSE NextBar(slots, bars - i, f[i - 1])]
    BY \A i \in 0..0 : i = 0
  <2>2. Places(slots, bars, rank, 0, f)
    BY <2>1 DEF Places
  <2> QED  BY <2>2
<1>2. ASSUME NEW m \in Nat, m \in good PROVE m + 1 \in good
  <2>1. PICK f : Places(slots, bars, rank, m, f)
    BY <1>2
  <2> DEFINE next == NextBar(slots, bars - (m + 1), f[m])
             g == [i \in 0..m + 1 |-> IF i = m + 1 THEN next ELSE f[i]]
  <2> HIDE DEF first
  <2>2. \A i \in 0..m + 1 : g[i] = IF i = 0 THEN first ELSE NextBar(slots, bars - i, g[i - 1])
    <3> TAKE i \in 0..m + 1
    <3>1. CASE i = m + 1
      <4>1. i # 0 /\ i - 1 = m /\ m \in 0..m + 1 /\ m # m + 1
        BY <3>1
      <4>2. g[i] = next /\ g[i - 1] = f[m]
        BY <3>1, <4>1
      <4> HIDE DEF g
      <4> QED  BY <3>1, <4>1, <4>2
    <3>2. CASE i \in 0..m
      <4>1. i # m + 1 /\ (i # 0 => i - 1 \in 0..m /\ i - 1 # m + 1 /\ i - 1 \in 0..m + 1)
        BY <3>2
      <4>2. g[i] = f[i] /\ (i # 0 => g[i - 1] = f[i - 1])
        BY <4>1
      <4>3. f[i] = IF i = 0 THEN first ELSE NextBar(slots, bars - i, f[i - 1])
        BY <2>1, <3>2 DEF Places, first
      <4> HIDE DEF g
      <4> QED  BY <4>2, <4>3
    <3> QED  BY <3>1, <3>2
  <2>3. Places(slots, bars, rank, m + 1, g)
    <3>1. g = [i \in 0..m + 1 |-> g[i]]
      OBVIOUS
    <3> HIDE DEF g
    <3>2. g = [i \in 0..m + 1 |-> IF i = 0 THEN first ELSE NextBar(slots, bars - i, g[i - 1])]
      BY <2>2, <3>1
    <3> QED  BY <3>2 DEF Places, first
  <2> QED  BY <2>3
<1> HIDE DEF good
<1>3. \A m \in Nat : m \in good
  BY <1>1, <1>2, NumberInduction
<1> QED  BY <1>3 DEF good

Run(slots, bars, rank, f) ==
    /\ f[0] = [bars |-> <<>>, start |-> 1, rank |-> rank]
    /\ \A i \in 1..bars : f[i] = NextBar(slots, bars - i, f[i - 1])
    /\ PlacedBars(slots, bars, rank) = f[bars].bars
\* PlacedBars is the result of its loop.
LEMMA PlacedBarsAre ==
    ASSUME NEW slots \in Nat, NEW bars \in Nat, NEW rank
    PROVE  \E f : Run(slots, bars, rank, f)
<1> DEFINE f == CHOOSE f : Places(slots, bars, rank, bars, f)
<1>1. PlacedBars(slots, bars, rank) = f[bars].bars
  BY DEF PlacedBars, Places
<1>2. Places(slots, bars, rank, bars, f)
  <2>1. \E g : Places(slots, bars, rank, bars, g)
    BY PlacingRuns
  <2> QED  BY <2>1
<1> HIDE DEF f
<1>3. f[0] = [bars |-> <<>>, start |-> 1, rank |-> rank]
  BY <1>2 DEF Places
<1>4. \A i \in 1..bars : f[i] = NextBar(slots, bars - i, f[i - 1])
  <2> TAKE i \in 1..bars
  <2>1. i \in 0..bars /\ i # 0
    OBVIOUS
  <2> QED  BY <1>2, <2>1 DEF Places
<1>5. Run(slots, bars, rank, f)
  BY <1>1, <1>3, <1>4 DEF Run
<1> QED  BY <1>5

\* What the gap before a bar counts, and what is left beyond it.
LEMMA GapFits ==
    ASSUME NEW slots \in Nat, NEW bars \in Nat, NEW i \in 0..bars - 1,
           NEW x \in 1..slots + 1, NEW p \in x..slots
    PROVE  LET here == Rest(slots, bars, i + 1, x)
               there == Rest(slots, bars, i + 1, p)
               beyond == Rest(slots, bars, i + 1, p + 1)
               below == Rest(slots, bars, i + 2, p + 1)
           IN  /\ here \in Nat /\ there \in Nat /\ beyond \in Nat /\ below \in Nat
               /\ there <= here /\ there = below + beyond
<1>1. i + 1 \in 1..bars /\ (i + 1) + 1 = i + 2 /\ p \in 1..slots /\ p \in x..slots + 1
  OBVIOUS
<1>2. /\ Rest(slots, bars, i + 1, x) \in Nat /\ Rest(slots, bars, i + 1, p) \in Nat
      /\ Rest(slots, bars, i + 1, p) <= Rest(slots, bars, i + 1, x)
  BY <1>1, RestShrinks
<1>3. /\ Rest(slots, bars, i + 1, p)
             = Rest(slots, bars, (i + 1) + 1, p + 1) + Rest(slots, bars, i + 1, p + 1)
      /\ Rest(slots, bars, i + 1, p + 1) \in Nat
      /\ Rest(slots, bars, (i + 1) + 1, p + 1) \in Nat
  BY <1>1, RestSplits
<1> QED  BY <1>1, <1>2, <1>3

\* A rank is what has been counted up to a bar and what is left of it.
LEMMA UnrankRanks ==
    ASSUME NEW slots \in Nat, NEW bars \in Nat, NEW rank \in Nat, rank < Rest(slots, bars, 1, 1)
    PROVE  /\ PlacedBars(slots, bars, rank) \in Rising(slots, bars)
           /\ RankOf(slots, bars, PlacedBars(slots, bars, rank)) = rank
<1>0. PICK f : Run(slots, bars, rank, f)
  BY PlacedBarsAre
<1>1. /\ f[0] = [bars |-> <<>>, start |-> 1, rank |-> rank]
      /\ \A i \in 1..bars : f[i] = NextBar(slots, bars - i, f[i - 1])
      /\ PlacedBars(slots, bars, rank) = f[bars].bars
  BY <1>0 DEF Run
<1> DEFINE holds(i) ==
               /\ f[i].bars \in Rising(slots, i)
               /\ f[i].start = Start(f[i].bars, i) /\ f[i].start \in 1..slots + 1
               /\ f[i].rank \in Nat /\ f[i].rank < Rest(slots, bars, i + 1, f[i].start)
               /\ rank = RankOf(slots, bars, f[i].bars) + f[i].rank
           good == {i \in Nat : i <= bars => holds(i)}
<1>2. holds(0)
  <2>1. f[0].bars = <<>> /\ f[0].start = 1 /\ f[0].rank = rank
    BY <1>1
  <2>2. <<>> \in Rising(slots, 0)
    BY DEF Rising
  <2>3. RankOf(slots, bars, <<>>) = 0
    <3>1. 1..Len(<<>>) = {}
      OBVIOUS
    <3> QED  BY <3>1, SumOfNone DEF RankOf
  <2> QED  BY <2>1, <2>2, <2>3 DEF Start
<1>3. ASSUME NEW i \in Nat, i \in good PROVE i + 1 \in good
  <2> SUFFICES ASSUME i + 1 <= bars  PROVE holds(i + 1)
    OBVIOUS
  <2>1. i + 1 \in 1..bars /\ (i + 1) - 1 = i /\ i < bars /\ i <= bars
    OBVIOUS
  <2>2. holds(i)
    BY <1>3, <2>1
  <2> DEFINE s == f[i]
             b == f[i].bars
  <2>3. /\ b \in Rising(slots, i) /\ s.start = Start(b, i) /\ s.start \in 1..slots + 1
        /\ s.rank \in Nat /\ s.rank < Rest(slots, bars, i + 1, s.start)
        /\ rank = RankOf(slots, bars, b) + s.rank
    BY <2>2
  <2>4. PICK p \in s.start..slots :
            /\ Among(slots, bars, i + 1, s.start, s.rank, p)
            /\ NextBar(slots, bars - (i + 1), s) = Placing(slots, bars, i + 1, s, p)
    <3> HIDE DEF s, b
    <3> QED  BY <2>1, <2>3, NextBarIs
  <2>5. /\ f[i + 1].bars = Append(b, p) /\ f[i + 1].start = p + 1
        /\ f[i + 1].rank = s.rank - (Rest(slots, bars, i + 1, s.start) - Rest(slots, bars, i + 1, p))
    <3>1. f[i + 1] = Placing(slots, bars, i + 1, s, p)
      BY <1>1, <2>1, <2>4
    <3> QED  BY <3>1 DEF Placing
  <2>6. /\ Append(b, p) \in Rising(slots, i + 1)
        /\ RankOf(slots, bars, b) \in Int
        /\ RankOf(slots, bars, Append(b, p)) =
               RankOf(slots, bars, b)
               + (Rest(slots, bars, i + 1, Start(b, i)) - Rest(slots, bars, i + 1, p))
    <3>1. p \in Start(b, i)..slots
      BY <2>3, <2>4
    <3> HIDE DEF s, b
    <3> QED  BY <2>1, <2>3, <3>1, RankOfMore
  <2>7. /\ Rest(slots, bars, i + 1, p) = Rest(slots, bars, i + 2, p + 1) + Rest(slots, bars, i + 1, p + 1)
        /\ Rest(slots, bars, i + 1, p) \in Nat /\ Rest(slots, bars, i + 1, p + 1) \in Nat
        /\ Rest(slots, bars, i + 2, p + 1) \in Nat
        /\ Rest(slots, bars, i + 1, s.start) \in Nat
    <3>1. i \in 0..bars - 1
      BY <2>1
    <3> HIDE DEF s
    <3> QED  BY <2>3, <2>4, <3>1, GapFits
  <2>8. /\ Rest(slots, bars, i + 1, s.start) - Rest(slots, bars, i + 1, p) <= s.rank
        /\ s.rank < Rest(slots, bars, i + 1, s.start) - Rest(slots, bars, i + 1, p + 1)
    BY <2>4 DEF Among
  <2> DEFINE here == Rest(slots, bars, i + 1, s.start)
             there == Rest(slots, bars, i + 1, p)
             beyond == Rest(slots, bars, i + 1, p + 1)
             below == Rest(slots, bars, i + 2, p + 1)
             left == s.rank
  <2>9. f[i + 1].rank \in Nat /\ f[i + 1].rank < Rest(slots, bars, (i + 1) + 1, f[i + 1].start)
    <3>1. (i + 1) + 1 = i + 2 /\ f[i + 1].start = p + 1 /\ f[i + 1].rank = left - (here - there)
      BY <2>5
    <3>2. left - (here - there) \in Nat /\ left - (here - there) < below
      <4>1. there = below + beyond /\ left \in Nat /\ here - there <= left /\ left < here - beyond
        BY <2>3, <2>7, <2>8
      <4>2. here \in Nat /\ there \in Nat /\ beyond \in Nat /\ below \in Nat
        BY <2>7
      <4> HIDE DEF here, there, beyond, below, left
      <4> QED  BY <4>1, <4>2
    <3> QED  BY <3>1, <3>2
  <2>10. rank = RankOf(slots, bars, f[i + 1].bars) + f[i + 1].rank
    <3> DEFINE so_far == RankOf(slots, bars, b)
    <3>1. /\ f[i + 1].rank = left - (here - there)
          /\ RankOf(slots, bars, f[i + 1].bars) = so_far + (here - there)
      BY <2>3, <2>5, <2>6
    <3>2. so_far \in Int /\ here \in Nat /\ there \in Nat /\ left \in Nat /\ rank = so_far + left
      BY <2>3, <2>6, <2>7
    <3> HIDE DEF so_far, here, there, left
    <3> QED  BY <3>1, <3>2
  <2>11. f[i + 1].start = Start(f[i + 1].bars, i + 1) /\ f[i + 1].start \in 1..slots + 1
    <3>1. Append(b, p)[i + 1] = p /\ i + 1 # 0
      <4>1. b \in Seq(1..slots) /\ Len(b) = i
        BY <2>3 DEF Rising
      <4> QED  BY <4>1
    <3>2. p + 1 \in 1..slots + 1
      BY <2>3, <2>4
    <3> HIDE DEF s, b
    <3> QED  BY <2>5, <3>1, <3>2 DEF Start
  <2> QED  BY <2>5, <2>6, <2>9, <2>10, <2>11
<1>4. \A i \in Nat : i \in good
  <2>1. 0 \in good
    BY <1>2
  <2> HIDE DEF good
  <2> QED  BY <1>3, <2>1, NumberInduction
<1>5. holds(bars)
  BY <1>4
<1>6. f[bars].rank = 0
  <2>1. Rest(slots, bars, bars + 1, f[bars].start) = 1
    BY <1>5, RestEnds
  <2> QED  BY <1>5, <2>1
<1>7. RankOf(slots, bars, f[bars].bars) = rank
  <2>1. RankOf(slots, bars, f[bars].bars) \in Int
    <3>1. bars \in 0..bars
      OBVIOUS
    <3> QED  BY <1>5, <3>1, GapsType
  <2> QED  BY <1>5, <1>6, <2>1
<1> QED  BY <1>1, <1>5, <1>7

\* Any bars in order have a rank, and unranking it brings them back.
LEMMA RankUnranks ==
    ASSUME NEW slots \in Nat, NEW bars \in Nat, NEW b \in Rising(slots, bars)
    PROVE  /\ RankOf(slots, bars, b) \in Nat /\ RankOf(slots, bars, b) < Rest(slots, bars, 1, 1)
           /\ PlacedBars(slots, bars, RankOf(slots, bars, b)) = b
<1> DEFINE rank == RankOf(slots, bars, b)
           prefix(i) == SubSeq(b, 1, i)
           left(i) == rank - RankOf(slots, bars, prefix(i))
           bounded(i) == left(i) \in Nat /\ left(i) < Rest(slots, bars, i + 1, Start(b, i))
<1>1. /\ b \in Seq(1..slots) /\ Len(b) = bars
      /\ \A i \in 1..bars : b[i] \in 1..slots
      /\ \A i, j \in 1..bars : i < j => b[i] < b[j]
      /\ \A i \in 0..bars : Start(b, i) \in 1..slots + 1
      /\ \A i \in 1..bars : b[i] \in Start(b, i - 1)..slots
  BY RisingType
<1>2. \A i \in 0..bars : /\ prefix(i) \in Rising(slots, i)
                         /\ Start(prefix(i), i) = Start(b, i)
                         /\ RankOf(slots, bars, prefix(i)) \in Int
  <2> TAKE i \in 0..bars
  <2>1. /\ prefix(i) \in Seq(1..slots) /\ Len(prefix(i)) = i
        /\ \A j \in 1..i : prefix(i)[j] = b[j]
    <3>1. \A j \in 1..i : b[j] \in 1..slots
      BY <1>1
    <3>2. i - 1 + 1 = i /\ (1 <= i \/ i = 0) /\ \A j \in 1..i : 1 + j - 1 = j
      OBVIOUS
    <3>3. /\ SubSeq(b, 1, i) \in Seq(1..slots)
          /\ Len(SubSeq(b, 1, i)) = IF 1 <= i THEN i - 1 + 1 ELSE 0
          /\ \A j \in 1..i - 1 + 1 : SubSeq(b, 1, i)[j] = b[1 + j - 1]
      BY <3>1, SubSeqProperties
    <3> QED  BY <3>2, <3>3
  <2>2. \A j, k \in 1..i : j < k => prefix(i)[j] < prefix(i)[k]
    BY <1>1, <2>1
  <2> HIDE DEF prefix
  <2>3. prefix(i) \in Rising(slots, i)
    BY <2>1, <2>2 DEF Rising
  <2>4. Start(prefix(i), i) = Start(b, i)
    BY <2>1 DEF Start
  <2> QED  BY <2>3, <2>4, GapsType
<1>3. prefix(0) = <<>> /\ prefix(bars) = b
  BY <1>1, SubSeqEmpty, SubSeqFull
<1>4. RankOf(slots, bars, <<>>) = 0
  <2>1. 1..Len(<<>>) = {}
    OBVIOUS
  <2> QED  BY <2>1, SumOfNone DEF RankOf
<1>5. \A i \in 0..bars - 1 :
          /\ prefix(i + 1) = Append(prefix(i), b[i + 1])
          /\ RankOf(slots, bars, prefix(i + 1)) =
                 RankOf(slots, bars, prefix(i))
                 + (Rest(slots, bars, i + 1, Start(b, i)) - Rest(slots, bars, i + 1, b[i + 1]))
  <2> TAKE i \in 0..bars - 1
  <2>1. i \in 0..bars /\ i < bars /\ i + 1 \in 1..bars /\ (i + 1) - 1 = i /\ 1 \in 1..bars
        /\ i + 1 \in 1..Len(b) /\ 1 \in 1..Len(b) /\ i + 1 \in 1..Len(b) /\ i \in Nat
    BY <1>1
  <2>2. prefix(i + 1) = prefix(i) \o <<b[i + 1]>>
    BY <1>1, <2>1, SubSeqRecursiveSecond
  <2>3. prefix(i) \in Seq(1..slots) /\ b[i + 1] \in 1..slots
    BY <1>1, <1>2, <2>1 DEF Rising
  <2>4. prefix(i + 1) = Append(prefix(i), b[i + 1])
    <3> HIDE DEF prefix
    <3> QED  BY <2>2, <2>3
  <2>5. prefix(i) \in Rising(slots, i) /\ b[i + 1] \in Start(prefix(i), i)..slots
        /\ Start(prefix(i), i) = Start(b, i)
    BY <1>1, <1>2, <2>1
  <2> HIDE DEF prefix
  <2>6. RankOf(slots, bars, Append(prefix(i), b[i + 1])) =
            RankOf(slots, bars, prefix(i))
            + (Rest(slots, bars, i + 1, Start(prefix(i), i)) - Rest(slots, bars, i + 1, b[i + 1]))
    BY <2>1, <2>5, RankOfMore
  <2> QED  BY <2>4, <2>5, <2>6
<1> HIDE DEF prefix
<1>6. rank \in Int
  <2>1. bars \in 0..bars
    OBVIOUS
  <2> QED  BY <1>2, <1>3, <2>1
<1> HIDE DEF rank
<1>7. \A i \in 0..bars : bounded(i)
  <2> DEFINE good == {d \in Nat : d <= bars => bounded(bars - d)}
  <2>1. 0 \in good
    <3>1. bars - 0 = bars /\ bars \in 0..bars
      OBVIOUS
    <3>2. left(bars) = 0
      BY <1>3, <1>6 DEF rank
    <3>3. Rest(slots, bars, bars + 1, Start(b, bars)) = 1
      BY <1>1, <3>1, RestEnds
    <3> QED  BY <3>1, <3>2, <3>3
  <2>2. ASSUME NEW d \in Nat, d \in good PROVE d + 1 \in good
    <3> SUFFICES ASSUME d + 1 <= bars  PROVE bounded(bars - (d + 1))
      OBVIOUS
    <3> DEFINE i == bars - (d + 1)
               p == b[i + 1]
               here == Rest(slots, bars, i + 1, Start(b, i))
               there == Rest(slots, bars, i + 1, p)
               beyond == Rest(slots, bars, i + 1, p + 1)
               below == Rest(slots, bars, i + 2, p + 1)
               now == left(i)
               later == left(i + 1)
    <3>1. /\ i \in 0..bars - 1 /\ i \in 0..bars /\ i + 1 \in 1..bars /\ i + 1 \in 0..bars
          /\ i + 1 = bars - d /\ d <= bars /\ (i + 1) - 1 = i /\ (i + 1) + 1 = i + 2 /\ i + 1 # 0
      OBVIOUS
    <3>2. bounded(i + 1)
      BY <2>2, <3>1
    <3> HIDE DEF i
    <3>3. Start(b, i + 1) = p + 1
      BY <3>1 DEF Start
    <3>4. later \in Nat /\ later < below
      BY <3>1, <3>2, <3>3
    <3>5. p \in Start(b, i)..slots /\ Start(b, i) \in 1..slots + 1
      BY <1>1, <3>1
    <3>6. /\ here \in Nat /\ there \in Nat /\ beyond \in Nat /\ below \in Nat
          /\ there <= here /\ there = below + beyond
      <4> HIDE DEF p
      <4> QED  BY <3>1, <3>5, GapFits
    <3>8. now = later + (here - there)
      <4> DEFINE x == RankOf(slots, bars, prefix(i))
                 y == RankOf(slots, bars, prefix(i + 1))
      <4>1. y = x + (here - there) /\ x \in Int /\ y \in Int
        BY <1>2, <1>5, <3>1
      <4>2. now = rank - x /\ later = rank - y
        OBVIOUS
      <4> HIDE DEF x, y, here, there, now, later
      <4> QED  BY <1>6, <3>6, <4>1, <4>2
    <3>9. now \in Nat /\ now < here
      <4> HIDE DEF here, there, beyond, below, now, later
      <4> QED  BY <3>4, <3>6, <3>8
    <3>10. bounded(i)
      BY <3>9
    <3> QED  BY <3>10 DEF i
  <2>3. \A d \in Nat : d \in good
    <3> HIDE DEF good
    <3> QED  BY <2>1, <2>2, NumberInduction
  <2> TAKE i \in 0..bars
  <2>4. bars - i \in Nat /\ bars - i <= bars /\ bars - (bars - i) = i
    OBVIOUS
  <2> HIDE DEF bounded
  <2> QED  BY <2>3, <2>4
<1>8. rank \in Nat /\ rank < Rest(slots, bars, 1, 1)
  <2>1. 0 \in 0..bars /\ 0 + 1 = 1 /\ Start(b, 0) = 1
    BY DEF Start
  <2>2. left(0) = rank
    BY <1>3, <1>4, <1>6
  <2> QED  BY <1>7, <2>1, <2>2
<1>9. PICK f : Run(slots, bars, rank, f)
  BY PlacedBarsAre
<1>10. /\ f[0] = [bars |-> <<>>, start |-> 1, rank |-> rank]
       /\ \A i \in 1..bars : f[i] = NextBar(slots, bars - i, f[i - 1])
       /\ PlacedBars(slots, bars, rank) = f[bars].bars
  BY <1>9 DEF Run
<1> DEFINE so(i) == f[i] = [bars |-> prefix(i), start |-> Start(b, i), rank |-> left(i)]
           good == {i \in Nat : i <= bars => so(i)}
<1>11. so(0)
  <2>1. left(0) = rank /\ Start(b, 0) = 1
    BY <1>3, <1>4, <1>6 DEF Start
  <2> QED  BY <1>3, <1>10, <2>1
<1>12. ASSUME NEW i \in Nat, i \in good PROVE i + 1 \in good
  <2> SUFFICES ASSUME i + 1 <= bars  PROVE so(i + 1)
    OBVIOUS
  <2> DEFINE p == b[i + 1]
             s == f[i]
             here == Rest(slots, bars, i + 1, Start(b, i))
             there == Rest(slots, bars, i + 1, p)
             beyond == Rest(slots, bars, i + 1, p + 1)
             below == Rest(slots, bars, i + 2, p + 1)
             now == left(i)
             later == left(i + 1)
  <2>1. /\ i \in 0..bars - 1 /\ i \in 0..bars /\ i + 1 \in 1..bars /\ i + 1 \in 0..bars
        /\ i <= bars /\ (i + 1) - 1 = i /\ (i + 1) + 1 = i + 2 /\ i + 1 # 0
    OBVIOUS
  <2>2. s.bars = prefix(i) /\ s.start = Start(b, i) /\ s.rank = now
    BY <1>12, <2>1
  <2>3. Start(b, i + 1) = p + 1
    BY <2>1 DEF Start
  <2>4. bounded(i) /\ bounded(i + 1)
    BY <1>7, <2>1
  <2>5. now \in Nat /\ now < here /\ later \in Nat /\ later < below
    BY <2>1, <2>3, <2>4
  <2>6. p \in Start(b, i)..slots /\ Start(b, i) \in 1..slots + 1
    BY <1>1, <2>1
  <2>7. /\ here \in Nat /\ there \in Nat /\ beyond \in Nat /\ below \in Nat
        /\ there <= here /\ there = below + beyond
    <3> HIDE DEF p
    <3> QED  BY <2>1, <2>6, GapFits
  <2>9. now = later + (here - there)
    <3> DEFINE x == RankOf(slots, bars, prefix(i))
               y == RankOf(slots, bars, prefix(i + 1))
    <3>1. y = x + (here - there) /\ x \in Int /\ y \in Int
      BY <1>2, <1>5, <2>1
    <3>2. now = rank - x /\ later = rank - y
      OBVIOUS
    <3> HIDE DEF x, y, here, there, now, later
    <3> QED  BY <1>6, <2>7, <3>1, <3>2
  <2>10. Among(slots, bars, i + 1, Start(b, i), now, p)
    <3>1. here - there <= now /\ now < here - beyond
      <4> HIDE DEF here, there, beyond, below, now, later
      <4> QED  BY <2>5, <2>7, <2>9
    <3> QED  BY <3>1 DEF Among
  <2>11. NextBar(slots, bars - (i + 1), s) = Placing(slots, bars, i + 1, s, p)
    <3> HIDE DEF p, s, now
    <3>1. s.start \in 1..slots + 1 /\ s.rank \in Nat /\ s.rank < Rest(slots, bars, i + 1, s.start)
      BY <2>2, <2>5, <2>6
    <3>2. p \in s.start..slots /\ Among(slots, bars, i + 1, s.start, s.rank, p)
      BY <2>2, <2>6, <2>10
    <3> QED  BY <2>1, <3>1, <3>2, NextBarIs
  <2>12. f[i + 1] = Placing(slots, bars, i + 1, s, p)
    BY <1>10, <2>1, <2>11
  <2>13. later = now - (here - there)
    <3> HIDE DEF here, there, now, later
    <3> QED  BY <2>5, <2>7, <2>9
  <2>14. prefix(i + 1) = Append(prefix(i), p)
    BY <1>5, <2>1
  <2> HIDE DEF s, p, now, later
  <2>15. f[i + 1] = [bars |-> Append(prefix(i), p), start |-> p + 1, rank |-> now - (here - there)]
    BY <2>2, <2>12 DEF Placing
  <2>16. f[i + 1] = [bars |-> prefix(i + 1), start |-> Start(b, i + 1), rank |-> later]
    <3> HIDE DEF here, there
    <3> QED  BY <2>3, <2>13, <2>14, <2>15
  <2> QED  BY <2>16 DEF later
<1>13. \A i \in Nat : i \in good
  <2>1. 0 \in good
    BY <1>11
  <2> HIDE DEF good
  <2> QED  BY <1>12, <2>1, NumberInduction
<1>14. f[bars].bars = b
  <2>1. so(bars)
    BY <1>13
  <2> QED  BY <1>3, <2>1
<1> QED  BY <1>8, <1>10, <1>14 DEF rank

(***************************************************************************)
(* Bars and bins: the bars in order and the ways to spread n over k bins   *)
(* are the same.                                                           *)
(***************************************************************************)
Spreads(n, k) == {bins \in [1..k -> 0..n] : SumOver(bins, 1..k) = n}
Walls(n, k, b) == <<0>> \o b \o <<n + k>>
\* The walls: the two ends, and the bars between them.
LEMMA WallsAre ==
    ASSUME NEW n \in Nat, NEW k \in Nat \ {0}, NEW b \in Seq(Int), Len(b) = k - 1
    PROVE  /\ Walls(n, k, b)[1] = 0 /\ Walls(n, k, b)[k + 1] = n + k
           /\ \A j \in 1..k - 1 : Walls(n, k, b)[j + 1] = b[j]
<1> DEFINE w == <<0>> \o b
<1>1. <<0>> \in Seq(Int) /\ Len(<<0>>) = 1 /\ <<n + k>> \in Seq(Int) /\ Len(<<n + k>>) = 1
  OBVIOUS
<1>2. /\ w \in Seq(Int) /\ Len(w) = k
      /\ \A i \in 1..k : w[i] = IF i <= 1 THEN <<0>>[i] ELSE b[i - 1]
  <2>1. 1 + (k - 1) = k
    OBVIOUS
  <2> QED  BY <1>1, <2>1, ConcatProperties
<1> HIDE DEF w
<1>3. \A i \in 1..k + 1 : (w \o <<n + k>>)[i] = IF i <= k THEN w[i] ELSE <<n + k>>[i - k]
  BY <1>1, <1>2, ConcatProperties
<1>4. Walls(n, k, b) = w \o <<n + k>>
  BY DEF Walls, w
<1>5. 1 \in 1..k + 1 /\ 1 \in 1..k /\ k + 1 \in 1..k + 1 /\ ~(k + 1 <= k) /\ k + 1 - k = 1
  OBVIOUS
<1>6. ASSUME NEW j \in 1..k - 1 PROVE Walls(n, k, b)[j + 1] = b[j]
  <2>1. j + 1 \in 1..k + 1 /\ j + 1 <= k /\ j + 1 \in 1..k /\ ~(j + 1 <= 1) /\ (j + 1) - 1 = j
    OBVIOUS
  <2> QED  BY <1>2, <1>3, <1>4, <2>1
<1>7. Walls(n, k, b)[1] = 0
  <2>1. Walls(n, k, b)[1] = w[1] /\ w[1] = <<0>>[1]
    BY <1>2, <1>3, <1>4, <1>5
  <2> QED  BY <2>1
<1>8. Walls(n, k, b)[k + 1] = n + k
  <2> DEFINE last == k + 1
  <2>1. last \in 1..k + 1 /\ ~(last <= k) /\ last - k = 1
    BY <1>5
  <2>2. <<n + k>>[1] = n + k
    OBVIOUS
  <2> HIDE DEF last
  <2>3. (w \o <<n + k>>)[last] = n + k
    BY <1>3, <2>1, <2>2
  <2> QED  BY <1>4, <2>3 DEF last
<1> QED  BY <1>6, <1>7, <1>8

\* The walls of bins are where their sums say.
LEMMA SumsAreWalls ==
    ASSUME NEW n \in Nat, NEW k \in Nat \ {0}, NEW b \in Rising(n + k - 1, k - 1)
    PROVE  /\ BinCounts(n, k, b) \in Spreads(n, k)
           /\ \A j \in 1..k - 1 : b[j] = UpTo(BinCounts(n, k, b), j) + j
<1> DEFINE slots == n + k - 1
           w == Walls(n, k, b)
           bins == BinCounts(n, k, b)
<1>1. slots \in Nat /\ k - 1 \in Nat /\ slots + 1 = n + k
  OBVIOUS
<1>2. /\ b \in Seq(1..slots) /\ Len(b) = k - 1
      /\ \A i \in 1..k - 1 : b[i] \in 1..slots
      /\ \A i, j \in 1..k - 1 : i < j => b[i] < b[j]
  <2>1. b \in Rising(slots, k - 1)
    OBVIOUS
  <2> HIDE DEF slots
  <2>2. /\ b \in Seq(1..slots) /\ Len(b) = k - 1
        /\ \A i \in 1..k - 1 : b[i] \in 1..slots
        /\ \A i, j \in 1..k - 1 : i < j => b[i] < b[j]
    BY <1>1, <2>1, RisingType
  <2> QED  BY <2>2
<1>3. /\ w[1] = 0 /\ w[k + 1] = n + k
      /\ \A j \in 1..k - 1 : w[j + 1] = b[j]
  <2>1. b \in Seq(Int) /\ Len(b) = k - 1
    BY <1>2
  <2>2. w = Walls(n, k, b)
    OBVIOUS
  <2> HIDE DEF w
  <2>3. /\ Walls(n, k, b)[1] = 0 /\ Walls(n, k, b)[k + 1] = n + k
        /\ \A j \in 1..k - 1 : Walls(n, k, b)[j + 1] = b[j]
    BY <2>1, WallsAre
  <2> QED  BY <2>2, <2>3
<1>4. bins = [j \in 1..k |-> w[j + 1] - w[j] - 1]
  BY DEF BinCounts, Walls
<1> HIDE DEF w, bins, slots
<1>5. \A j \in 1..k : /\ w[j] \in Nat /\ w[j + 1] \in Nat /\ w[j] < w[j + 1]
                      /\ bins[j] \in Nat /\ bins[j] = w[j + 1] - w[j] - 1
  <2> TAKE j \in 1..k
  <2>1. w[j] \in Nat /\ (j # 1 => w[j] = b[j - 1] /\ w[j] <= slots) /\ (j = 1 => w[j] = 0)
    <3>1. CASE j = 1
      BY <1>3, <3>1
    <3>2. CASE j # 1
      <4>1. j - 1 \in 1..k - 1 /\ (j - 1) + 1 = j
        BY <3>2
      <4> QED  BY <1>1, <1>2, <1>3, <3>2, <4>1
    <3> QED  BY <3>1, <3>2
  <2>2. w[j + 1] \in Nat /\ w[j] < w[j + 1]
    <3>1. CASE j = k
      BY <1>1, <1>3, <2>1, <3>1
    <3>2. CASE j # k
      <4>1. j \in 1..k - 1 /\ w[j + 1] = b[j] /\ b[j] \in 1..slots
        BY <1>2, <1>3, <3>2
      <4>2. j # 1 => b[j - 1] < b[j]
        BY <1>2, <4>1
      <4> QED  BY <2>1, <4>1, <4>2
    <3> QED  BY <3>1, <3>2
  <2>3. bins[j] = w[j + 1] - w[j] - 1
    BY <1>4
  <2> QED  BY <2>1, <2>2, <2>3
<1>6. /\ UpTo(bins, 0) = 0
      /\ \A j \in 1..k : UpTo(bins, j) = UpTo(bins, j - 1) + bins[j]
      /\ \A j \in 0..k : UpTo(bins, j) \in Int
  <2>1. \A i \in 1..k : bins[i] \in Int
    BY <1>5
  <2> QED  BY <2>1, UpToNext
<1>7. \A j \in 0..k : w[j + 1] = UpTo(bins, j) + j
  <2> DEFINE good == {j \in Nat : j <= k => w[j + 1] = UpTo(bins, j) + j}
  <2>1. 0 \in good
    <3>1. 0 + 1 = 1 /\ 0 + 0 = 0
      OBVIOUS
    <3> QED  BY <1>3, <1>6, <3>1
  <2>2. ASSUME NEW j \in Nat, j \in good PROVE j + 1 \in good
    <3> SUFFICES ASSUME j + 1 <= k  PROVE w[(j + 1) + 1] = UpTo(bins, j + 1) + (j + 1)
      OBVIOUS
    <3>1. j + 1 \in 1..k /\ (j + 1) - 1 = j /\ j <= k /\ j \in 0..k
      OBVIOUS
    <3>2. w[j + 1] = UpTo(bins, j) + j /\ UpTo(bins, j) \in Int
      BY <1>6, <2>2, <3>1
    <3>3. /\ w[j + 1] \in Nat /\ w[(j + 1) + 1] \in Nat
          /\ bins[j + 1] = w[(j + 1) + 1] - w[j + 1] - 1
      BY <1>5, <3>1
    <3>4. UpTo(bins, j + 1) = UpTo(bins, j) + bins[j + 1]
      BY <1>6, <3>1
    <3> QED  BY <3>2, <3>3, <3>4
  <2>3. \A j \in Nat : j \in good
    <3> HIDE DEF good
    <3> QED  BY <2>1, <2>2, NumberInduction
  <2> QED  BY <2>3
<1>8. SumOver(bins, 1..k) = n
  <2>1. k \in 0..k
    OBVIOUS
  <2>2. n + k = UpTo(bins, k) + k /\ UpTo(bins, k) \in Int
    BY <1>3, <1>6, <1>7, <2>1
  <2> QED  BY <2>2 DEF UpTo
<1>9. \A j \in 1..k : bins[j] \in 0..n
  <2> TAKE j \in 1..k
  <2>1. IsFiniteSet(1..k) /\ \A i \in 1..k : bins[i] \in Nat
    BY <1>5, FS_Interval
  <2>2. bins[j] <= SumOver(bins, 1..k)
    BY <2>1, SumBounds
  <2> QED  BY <1>8, <2>1, <2>2
<1>10. bins \in Spreads(n, k)
  <2>1. bins \in [1..k -> 0..n]
    BY <1>4, <1>9
  <2> QED  BY <1>8, <2>1 DEF Spreads
<1>11. \A j \in 1..k - 1 : b[j] = UpTo(bins, j) + j
  <2> TAKE j \in 1..k - 1
  <2>1. j \in 0..k
    OBVIOUS
  <2> QED  BY <1>3, <1>7, <2>1
<1> QED  BY <1>10, <1>11 DEF bins

\* Every spread has bars.
LEMMA WallsFound ==
    ASSUME NEW n \in Nat, NEW k \in Nat \ {0}, NEW bins \in Spreads(n, k)
    PROVE  \E b \in Rising(n + k - 1, k - 1) : BinCounts(n, k, b) = bins
<1> DEFINE slots == n + k - 1
           b == [j \in 1..k - 1 |-> UpTo(bins, j) + j]
           w == Walls(n, k, b)
<1>1. /\ bins \in [1..k -> 0..n] /\ UpTo(bins, k) = n
      /\ \A i \in 1..k : bins[i] \in Nat /\ bins[i] \in Int
  BY DEF Spreads, UpTo
<1>2. \A j \in 0..k : UpTo(bins, j) \in Nat /\ \A i \in 0..j : UpTo(bins, i) <= UpTo(bins, j)
  BY <1>1, UpToGrows
<1>3. UpTo(bins, 0) = 0 /\ \A j \in 1..k : UpTo(bins, j) = UpTo(bins, j - 1) + bins[j]
  BY <1>1, UpToNext
<1>4. \A j \in 1..k - 1 : b[j] = UpTo(bins, j) + j /\ b[j] \in 1..slots
  <2> TAKE j \in 1..k - 1
  <2>1. j \in 0..k /\ k \in 0..k
    OBVIOUS
  <2>2. UpTo(bins, j) \in Nat /\ UpTo(bins, j) <= n
    BY <1>1, <1>2, <2>1
  <2> QED  BY <2>2
<1>5. /\ b \in Seq(1..slots) /\ Len(b) = k - 1 /\ b \in Seq(Int)
  <2>1. b \in [1..k - 1 -> 1..slots] /\ k - 1 \in Nat
    BY <1>4
  <2> HIDE DEF b
  <2> QED  BY <2>1
<1>6. \A i, j \in 1..k - 1 : i < j => b[i] < b[j]
  <2> TAKE i, j \in 1..k - 1
  <2> HAVE i < j
  <2>1. j \in 0..k /\ i \in 0..j /\ i \in 0..k
    OBVIOUS
  <2>2. UpTo(bins, i) <= UpTo(bins, j) /\ UpTo(bins, i) \in Nat /\ UpTo(bins, j) \in Nat
    BY <1>2, <2>1
  <2> QED  BY <1>4, <2>2
<1>7. b \in Rising(slots, k - 1)
  <2> HIDE DEF b, slots
  <2> QED  BY <1>5, <1>6 DEF Rising
<1>8. \A j \in 0..k : w[j + 1] = UpTo(bins, j) + j
  <2>1. /\ w[1] = 0 /\ w[k + 1] = n + k
        /\ \A j \in 1..k - 1 : w[j + 1] = b[j]
    <3> HIDE DEF b
    <3> QED  BY <1>5, WallsAre
  <2> HIDE DEF w
  <2> TAKE j \in 0..k
  <2>2. CASE j = 0
    BY <1>3, <2>1, <2>2
  <2>3. CASE j = k
    BY <1>1, <2>1, <2>3
  <2>4. CASE j \in 1..k - 1
    BY <1>4, <2>1, <2>4
  <2> QED  BY <2>2, <2>3, <2>4
<1>9. BinCounts(n, k, b) = [j \in 1..k |-> w[j + 1] - w[j] - 1]
  BY DEF BinCounts, Walls
<1> HIDE DEF w, b
<1>10. \A j \in 1..k : w[j + 1] - w[j] - 1 = bins[j]
  <2> TAKE j \in 1..k
  <2>1. j \in 0..k /\ j - 1 \in 0..k /\ (j - 1) + 1 = j
    OBVIOUS
  <2>2. w[j + 1] = UpTo(bins, j) + j /\ w[j] = UpTo(bins, j - 1) + (j - 1)
    BY <1>8, <2>1
  <2>3. UpTo(bins, j) = UpTo(bins, j - 1) + bins[j] /\ UpTo(bins, j - 1) \in Nat /\ bins[j] \in Nat
    BY <1>1, <1>2, <1>3, <2>1
  <2> QED  BY <2>2, <2>3
<1>11. BinCounts(n, k, b) = bins
  <2>1. bins = [j \in 1..k |-> bins[j]]
    BY <1>1
  <2> QED  BY <1>9, <1>10, <2>1
<1> QED  BY <1>7, <1>11

\* Unranking is a bijection.
Unrank(n, k, rank) == BinCounts(n, k, PlacedBars(n + k - 1, k - 1, rank))
LEMMA UnrankIsBijection ==
    ASSUME NEW n \in Nat, NEW k \in Nat \ {0}
    PROVE  /\ exact_binomial(n + k - 1, k - 1) \in Nat
           /\ \A r \in 0..exact_binomial(n + k - 1, k - 1) - 1 :
                 Unrank(n, k, r) \in Spreads(n, k)
           /\ \A r, s \in 0..exact_binomial(n + k - 1, k - 1) - 1 :
                 Unrank(n, k, r) = Unrank(n, k, s) => r = s
           /\ \A bins \in Spreads(n, k) :
                 \E r \in 0..exact_binomial(n + k - 1, k - 1) - 1 : Unrank(n, k, r) = bins
<1> DEFINE N == exact_binomial(n + k - 1, k - 1)
           slots == n + k - 1
           bars == k - 1
           bar(r) == PlacedBars(slots, bars, r)
<1>1. slots \in Nat /\ bars \in Nat
  OBVIOUS
<1>2. N \in Nat /\ N = Rest(slots, bars, 1, 1)
  <2>1. slots - 1 + 1 = slots /\ bars - 1 + 1 = bars
    OBVIOUS
  <2>2. Rest(slots, bars, 1, 1) = exact_binomial(slots, bars)
    <3> HIDE DEF slots, bars
    <3> QED  BY <2>1 DEF Rest
  <2> QED  BY <1>1, <2>2, Pascal
<1>3. \A r \in 0..N - 1 : bar(r) \in Rising(slots, bars) /\ RankOf(slots, bars, bar(r)) = r
  <2> TAKE r \in 0..N - 1
  <2>1. r \in Nat /\ r < Rest(slots, bars, 1, 1)
    <3> HIDE DEF N, slots, bars
    <3> QED  BY <1>2
  <2> HIDE DEF N, slots, bars
  <2> QED  BY <1>1, <2>1, UnrankRanks
<1>4. \A r : Unrank(n, k, r) = BinCounts(n, k, bar(r))
  BY DEF Unrank
<1>5. \A b \in Rising(slots, bars) :
          /\ BinCounts(n, k, b) \in Spreads(n, k)
          /\ \A j \in 1..bars : b[j] = UpTo(BinCounts(n, k, b), j) + j
  BY SumsAreWalls
<1> HIDE DEF N, slots, bars, bar
<1>6. ASSUME NEW b \in Rising(slots, bars), NEW c \in Rising(slots, bars),
             BinCounts(n, k, b) = BinCounts(n, k, c)
      PROVE  b = c
  <2>1. /\ b \in Seq(1..slots) /\ Len(b) = bars /\ c \in Seq(1..slots) /\ Len(c) = bars
    BY DEF Rising
  <2>2. \A j \in 1..bars : b[j] = c[j]
    BY <1>5, <1>6
  <2> QED  BY <2>1, <2>2, SeqEqual
<1>7. \A r \in 0..N - 1 : Unrank(n, k, r) \in Spreads(n, k)
  BY <1>3, <1>4, <1>5
<1>8. \A r, s \in 0..N - 1 : Unrank(n, k, r) = Unrank(n, k, s) => r = s
  <2> TAKE r, s \in 0..N - 1
  <2> HAVE Unrank(n, k, r) = Unrank(n, k, s)
  <2>1. bar(r) = bar(s)
    BY <1>3, <1>4, <1>6
  <2> QED  BY <1>3, <2>1
<1>9. \A bins \in Spreads(n, k) : \E r \in 0..N - 1 : Unrank(n, k, r) = bins
  <2> TAKE bins \in Spreads(n, k)
  <2>1. PICK b \in Rising(slots, bars) : BinCounts(n, k, b) = bins
    BY WallsFound DEF slots, bars
  <2> DEFINE r == RankOf(slots, bars, b)
  <2>2. r \in Nat /\ r < N /\ bar(r) = b
    BY <1>1, <1>2, RankUnranks DEF bar
  <2> HIDE DEF r
  <2>3. r \in 0..N - 1
    BY <1>2, <2>2
  <2> QED  BY <1>4, <2>1, <2>2, <2>3
<1> QED  BY <1>2, <1>7, <1>8, <1>9 DEF N

-----------------------------------------------------------------------------
(* Drawing without replacement.                                            *)

LEMMA SpreadsAreSums == \A f, S : FoldFunctionOnSet(+, 0, f, S) = SumOver(f, S)
  BY Zenon DEF FoldFunctionOnSet, SumOver, MapThenSumSet

\* The placements are the spreads of n_ over k_.
LEMMA AllAreSpreads == AllPlacements = Spreads(n_, k_)
<1>1. ASSUME NEW bins \in [1..k_ -> 0..n_]
      PROVE  FoldFunction(+, 0, bins) = SumOver(bins, 1..k_)
  <2>1. DOMAIN bins = 1..k_
    OBVIOUS
  <2>2. FoldFunction(+, 0, bins) = FoldFunctionOnSet(+, 0, bins, DOMAIN bins)
    BY Zenon DEF FoldFunction, FoldFunctionOnSet
  <2> QED  BY <2>1, <2>2, SpreadsAreSums, Zenon
<1> QED  BY <1>1 DEF AllPlacements, Spreads

Ranks == 0..SpaceSize - 1
NotDrawn == num_drawn..SpaceSize - 1      \* the places not drawn from yet
Undrawn == {at(i) : i \in NotDrawn}
ShuffleInv ==
    /\ size \in Nat \X (Nat \ {0})
    /\ num_drawn \in 0..SpaceSize
    /\ \A i \in NotDrawn : at(i) \in Ranks
    /\ \A i, j \in NotDrawn : at(i) = at(j) => i = j
    /\ drawn = {unrank(h) : h \in Ranks \ Undrawn}
    /\ IsFiniteSet(drawn) /\ Cardinality(drawn) = num_drawn

\* Ranks name the placements of this size, one to one.
LEMMA RanksName ==
    ASSUME size \in Nat \X (Nat \ {0})
    PROVE  /\ SpaceSize \in Nat
           /\ \A r \in Ranks : unrank(r) \in AllPlacements
           /\ \A r, s \in Ranks : unrank(r) = unrank(s) => r = s
           /\ \A bins \in AllPlacements : \E r \in Ranks : unrank(r) = bins
<1>1. n_ \in Nat /\ k_ \in Nat \ {0}
  BY DEF n_, k_
<1>2. \A r : unrank(r) = Unrank(n_, k_, r)
  BY DEF unrank, Unrank
<1>3. SpaceSize = exact_binomial(n_ + k_ - 1, k_ - 1)
  BY DEF SpaceSize
<1>4. /\ SpaceSize \in Nat
      /\ \A r \in Ranks : Unrank(n_, k_, r) \in Spreads(n_, k_)
      /\ \A r, s \in Ranks : Unrank(n_, k_, r) = Unrank(n_, k_, s) => r = s
      /\ \A bins \in Spreads(n_, k_) : \E r \in Ranks : Unrank(n_, k_, r) = bins
  <2> DEFINE N == exact_binomial(n_ + k_ - 1, k_ - 1)
  <2>1. /\ N \in Nat
        /\ \A r \in 0..N - 1 : Unrank(n_, k_, r) \in Spreads(n_, k_)
        /\ \A r, s \in 0..N - 1 : Unrank(n_, k_, r) = Unrank(n_, k_, s) => r = s
        /\ \A bins \in Spreads(n_, k_) : \E r \in 0..N - 1 : Unrank(n_, k_, r) = bins
    BY <1>1, UnrankIsBijection
  <2>2. SpaceSize = N /\ Ranks = 0..N - 1
    BY <1>3 DEF Ranks
  <2> HIDE DEF N
  <2> QED  BY <2>1, <2>2
<1> QED  BY <1>2, <1>4, AllAreSpreads

LEMMA InitShuffles == PlacementsInit => ShuffleInv
<1> SUFFICES ASSUME PlacementsInit PROVE ShuffleInv
  OBVIOUS
<1>1. size \in Nat \X (Nat \ {0}) /\ num_drawn = 0 /\ drawn = {} /\ DOMAIN swapped = {}
  <2>1. DOMAIN <<>> = {}
    OBVIOUS
  <2> QED  BY <2>1, PlacementsAssumption DEF PlacementsInit
<1>2. SpaceSize \in Nat
  BY <1>1, RanksName
<1>3. \A i : at(i) = i
  BY <1>1 DEF at
<1>4. NotDrawn = Ranks /\ Undrawn = Ranks
  BY <1>1, <1>3 DEF NotDrawn, Ranks, Undrawn
<1>5. {unrank(h) : h \in Ranks \ Undrawn} = {}
  BY <1>4
<1> QED  BY <1>1, <1>2, <1>3, <1>4, <1>5, FS_EmptySet DEF ShuffleInv

LEMMA DrawKeeps == ShuffleInv /\ Draw => ShuffleInv'
<1> SUFFICES ASSUME ShuffleInv, Draw PROVE ShuffleInv'
  OBVIOUS
<1>1. PICK j \in num_drawn..SpaceSize - 1 :
          /\ drawn' = drawn \cup {unrank(at(j))}
          /\ swapped' = [i \in DOMAIN swapped \cup {j} |-> IF i = j THEN MovedDown ELSE at(i)]
  BY DEF Draw
<1>2. num_drawn < SpaceSize /\ num_drawn' = num_drawn + 1 /\ size' = size
  BY DEF Draw
<1>3. /\ size \in Nat \X (Nat \ {0}) /\ num_drawn \in 0..SpaceSize
      /\ \A i \in NotDrawn : at(i) \in Ranks
      /\ \A i, l \in NotDrawn : at(i) = at(l) => i = l
      /\ drawn = {unrank(h) : h \in Ranks \ Undrawn}
      /\ IsFiniteSet(drawn) /\ Cardinality(drawn) = num_drawn
  BY DEF ShuffleInv
<1>4. /\ SpaceSize \in Nat
      /\ \A r, s \in Ranks : unrank(r) = unrank(s) => r = s
  BY <1>3, RanksName
<1>5. n_' = n_ /\ k_' = k_
  BY <1>2 DEF n_, k_
<1>6. SpaceSize' = SpaceSize /\ \A h : unrank(h)' = unrank(h)
  BY <1>5 DEF SpaceSize, unrank
<1>7. Ranks' = Ranks
  BY <1>6 DEF Ranks
<1>8. NotDrawn' = NotDrawn \ {num_drawn} /\ num_drawn \in NotDrawn /\ j \in NotDrawn
  BY <1>1, <1>2, <1>3, <1>4, <1>6 DEF NotDrawn
<1>9. \A i : at(i)' = IF i = j THEN at(num_drawn) ELSE at(i)
  BY <1>1 DEF at, MovedDown
<1>10. \A i \in NotDrawn' : at(i)' \in Ranks'
  BY <1>3, <1>7, <1>8, <1>9
<1>11. \A i, l \in NotDrawn' : at(i)' = at(l)' => i = l
  BY <1>3, <1>8, <1>9
<1>12. Undrawn' = Undrawn \ {at(j)} /\ at(j) \in Undrawn /\ at(j) \in Ranks
  <2>1. \A x : x \in Undrawn' <=> \E i \in NotDrawn' : x = at(i)'
    BY DEF Undrawn
  <2>2. \A x : x \in Undrawn <=> \E i \in NotDrawn : x = at(i)
    BY DEF Undrawn
  <2>3. at(j) \in Undrawn /\ at(j) \in Ranks
    BY <1>3, <1>8, <2>2
  <2>4. ASSUME NEW x, x \in Undrawn' PROVE x \in Undrawn \ {at(j)}
    <3>1. PICK i \in NotDrawn' : x = at(i)'
      BY <2>1, <2>4
    <3> QED  BY <1>3, <1>8, <1>9, <2>2, <3>1
  <2>5. ASSUME NEW x, x \in Undrawn \ {at(j)} PROVE x \in Undrawn'
    <3>1. PICK i \in NotDrawn : x = at(i)
      BY <2>2, <2>5
    <3>2. CASE i = num_drawn
      <4>1. j # num_drawn /\ j \in NotDrawn' /\ at(j)' = x
        BY <1>8, <1>9, <2>5, <3>1, <3>2
      <4> QED  BY <2>1, <4>1
    <3>3. CASE i # num_drawn
      <4>1. i \in NotDrawn' /\ i # j /\ at(i)' = x
        BY <1>8, <1>9, <2>5, <3>1, <3>3
      <4> QED  BY <2>1, <4>1
    <3> QED  BY <3>2, <3>3
  <2> QED  BY <2>3, <2>4, <2>5
<1>13. unrank(at(j)) \notin drawn
  BY <1>3, <1>4, <1>12
<1>14. drawn' = {unrank(h)' : h \in Ranks' \ Undrawn'}
  <2>1. Ranks' \ Undrawn' = (Ranks \ Undrawn) \cup {at(j)}
    BY <1>7, <1>12
  <2>2. {unrank(h)' : h \in Ranks' \ Undrawn'} = {unrank(h) : h \in (Ranks \ Undrawn) \cup {at(j)}}
    BY <1>6, <2>1
  <2>3. {unrank(h) : h \in (Ranks \ Undrawn) \cup {at(j)}}
            = {unrank(h) : h \in Ranks \ Undrawn} \cup {unrank(at(j))}
    OBVIOUS
  <2> QED  BY <1>1, <1>3, <2>2, <2>3
<1>15. IsFiniteSet(drawn') /\ Cardinality(drawn') = num_drawn'
  <2>1. /\ IsFiniteSet(drawn \cup {unrank(at(j))})
        /\ Cardinality(drawn \cup {unrank(at(j))}) = Cardinality(drawn) + 1
    BY <1>3, <1>13, FS_AddElement
  <2> QED  BY <1>1, <1>2, <1>3, <2>1
<1>16. size' \in Nat \X (Nat \ {0}) /\ num_drawn' \in 0..SpaceSize'
  BY <1>2, <1>3, <1>4, <1>6
<1> QED  BY <1>10, <1>11, <1>14, <1>15, <1>16 DEF ShuffleInv

LEMMA NextShuffles == ShuffleInv /\ [PlacementsNext]_placementVars => ShuffleInv'
<1> SUFFICES ASSUME ShuffleInv, [PlacementsNext]_placementVars PROVE ShuffleInv'
  OBVIOUS
<1>1. CASE Draw
  BY <1>1, DrawKeeps
<1>2. CASE UNCHANGED <<size, samplerVars>>
  <2>1. size' = size /\ num_drawn' = num_drawn /\ swapped' = swapped /\ drawn' = drawn
    BY <1>2 DEF samplerVars
  <2>2. n_' = n_ /\ k_' = k_
    BY <2>1 DEF n_, k_
  <2>3. SpaceSize' = SpaceSize /\ (\A h : unrank(h)' = unrank(h)) /\ \A i : at(i)' = at(i)
    BY <2>1, <2>2 DEF SpaceSize, unrank, at
  <2>4. NotDrawn' = NotDrawn /\ Ranks' = Ranks /\ Undrawn' = Undrawn
    BY <2>1, <2>3 DEF NotDrawn, Ranks, Undrawn
  <2>5. {unrank(h)' : h \in Ranks' \ Undrawn'} = {unrank(h) : h \in Ranks \ Undrawn}
    BY <2>3, <2>4
  <2> QED  BY <2>1, <2>3, <2>4, <2>5 DEF ShuffleInv
<1> QED  BY <1>1, <1>2 DEF PlacementsNext, Increment, placementVars, samplerVars

\* When no place is left, nothing is undrawn.
LEMMA ShuffleMeans == ShuffleInv => EachPlacementOnce
<1> SUFFICES ASSUME ShuffleInv PROVE EachPlacementOnce
  OBVIOUS
<1>1. /\ SpaceSize \in Nat
      /\ \A r \in Ranks : unrank(r) \in AllPlacements
      /\ \A bins \in AllPlacements : \E r \in Ranks : unrank(r) = bins
  BY RanksName DEF ShuffleInv
<1>2. drawn \subseteq AllPlacements
  BY <1>1 DEF ShuffleInv
<1>3. ASSUME num_drawn = SpaceSize PROVE AllPlacements \subseteq drawn
  <2>1. NotDrawn = {}
    BY <1>1, <1>3 DEF NotDrawn
  <2>2. Undrawn = {}
    BY <2>1 DEF Undrawn
  <2>3. drawn = {unrank(h) : h \in Ranks}
    BY <2>2 DEF ShuffleInv
  <2> QED  BY <1>1, <2>3
<1> QED  BY <1>2, <1>3 DEF ShuffleInv, EachPlacementOnce

(* Drawing a random placement of n armies on k territories never hands one *)
(* out twice, and when the draws have run out every placement has been     *)
(* handed out, for all n and k and whatever the shuffle swapped.           *)
THEOREM EachDrawnOnce == PlacementsSpec => []EachPlacementOnce
<1>1. PlacementsInit => ShuffleInv
  BY InitShuffles
<1>2. ShuffleInv /\ [PlacementsNext]_placementVars => ShuffleInv'
  BY NextShuffles
<1>3. ShuffleInv => EachPlacementOnce
  BY ShuffleMeans
<1> QED  BY <1>1, <1>2, <1>3, PTL DEF PlacementsSpec

(***************************************************************************)
(* The list.  What next_permutation makes of the armies and bars is the    *)
(* row of bars of the rank before.                                         *)
(***************************************************************************)
Bits(slots, b) == [p \in 1..slots |-> IF \E j \in DOMAIN b : b[j] = p THEN 1 ELSE 0]

\* A bar with room before it is an ascent; every ascent is before such a bar.
LEMMA AscentsAre ==
    ASSUME NEW slots \in Nat, NEW bars \in Nat, NEW b \in Rising(slots, bars)
    PROVE  /\ Len(Bits(slots, b)) = slots
           /\ \A j \in 1..bars : b[j] # Start(b, j - 1) => b[j] - 1 \in Ascents(Bits(slots, b))
           /\ \A i \in Ascents(Bits(slots, b)) :
                 /\ i \in 1..slots - 1 /\ Bits(slots, b)[i] = 0
                 /\ \E j \in 1..bars : b[j] = i + 1 /\ b[j] # Start(b, j - 1)
<1> DEFINE s == Bits(slots, b)
<1>1. /\ b \in Seq(1..slots) /\ Len(b) = bars /\ DOMAIN b = 1..bars
      /\ \A i \in 1..bars : b[i] \in 1..slots
      /\ \A i, j \in 1..bars : i < j => b[i] < b[j]
      /\ \A i \in 0..bars : Start(b, i) \in 1..slots + 1
      /\ \A i \in 1..bars : b[i] \in Start(b, i - 1)..slots
  BY RisingType
<1>2. s \in [1..slots -> 0..1] /\ \A p \in 1..slots : s[p] = 1 <=> \E j \in 1..bars : b[j] = p
  <2>1. s \in [1..slots -> 0..1]
    BY DEF Bits
  <2>2. \A p \in 1..slots : s[p] = 1 <=> \E j \in DOMAIN b : b[j] = p
    BY DEF Bits
  <2> QED  BY <1>1, <2>1, <2>2
<1> HIDE DEF s
<1>3. Len(s) = slots
  BY <1>2
<1>4. ASSUME NEW j \in 1..bars, b[j] # Start(b, j - 1)
      PROVE  b[j] - 1 \in Ascents(s)
  <2>1. b[j] - 1 \in 1..slots - 1 /\ (b[j] - 1) + 1 = b[j] /\ b[j] \in 1..slots
        /\ Start(b, j - 1) <= b[j] - 1 /\ b[j] - 1 \in 1..slots
    <3>1. b[j] \in Start(b, j - 1)..slots /\ Start(b, j - 1) \in 1..slots + 1
      BY <1>1
    <3> QED  BY <1>4, <3>1
  <2>2. s[b[j]] = 1
    BY <1>2, <2>1
  <2>3. ASSUME NEW l \in 1..bars PROVE b[l] # b[j] - 1
    <3>1. CASE l < j
      <4>1. j - 1 \in 1..bars /\ j - 1 # 0 /\ (l = j - 1 \/ l < j - 1)
        BY <3>1
      <4>0. Start(b, j - 1) = b[j - 1] + 1
        BY <4>1 DEF Start
      <4>2. b[l] <= b[j - 1] /\ b[l] \in 1..slots /\ b[j - 1] \in 1..slots
        <5>1. b[l] \in 1..slots /\ b[j - 1] \in 1..slots
          BY <1>1, <4>1
        <5>2. CASE l = j - 1  BY <5>1, <5>2
        <5>3. CASE l < j - 1  BY <1>1, <4>1, <5>1, <5>3
        <5> QED  BY <4>1, <5>2, <5>3
      <4>3. b[j - 1] < b[j] - 1 \/ b[j - 1] + 1 <= b[j] - 1
        BY <2>1, <4>0, <4>2
      <4> QED  BY <2>1, <4>2, <4>3
    <3>2. CASE l = j
      BY <2>1, <3>2
    <3>3. CASE j < l
      <4>1. b[j] < b[l] /\ b[l] \in 1..slots
        BY <1>1, <3>3
      <4> QED  BY <2>1, <4>1
    <3> QED  BY <3>1, <3>2, <3>3
  <2>4. s[b[j] - 1] = 0
    <3>1. s[b[j] - 1] # 1
      BY <1>2, <2>1, <2>3
    <3>2. s[b[j] - 1] \in 0..1
      BY <1>2, <2>1
    <3> QED  BY <3>1, <3>2
  <2>5. b[j] - 1 \in 1..Len(s) - 1 /\ s[b[j] - 1] < s[(b[j] - 1) + 1]
    BY <1>3, <2>1, <2>2, <2>4
  <2> QED  BY <2>5 DEF Ascents
<1>5. ASSUME NEW i \in Ascents(s)
      PROVE  /\ i \in 1..slots - 1 /\ s[i] = 0
             /\ \E j \in 1..bars : b[j] = i + 1 /\ b[j] # Start(b, j - 1)
  <2>1. i \in 1..slots - 1 /\ s[i] < s[i + 1]
    BY <1>3 DEF Ascents
  <2>2. i \in 1..slots /\ i + 1 \in 1..slots
    BY <2>1
  <2>3. s[i] = 0 /\ s[i + 1] = 1
    <3>1. s[i] \in 0..1 /\ s[i + 1] \in 0..1
      BY <1>2, <2>2
    <3> QED  BY <2>1, <3>1
  <2>4. PICK j \in 1..bars : b[j] = i + 1
    BY <1>2, <2>2, <2>3
  <2>5. ASSUME b[j] = Start(b, j - 1) PROVE FALSE
    <3>1. j # 1
      BY <2>1, <2>4, <2>5 DEF Start
    <3>2. j - 1 \in 1..bars /\ Start(b, j - 1) = b[j - 1] + 1
      BY <3>1 DEF Start
    <3>3. b[j - 1] = i
      BY <1>1, <2>1, <2>4, <2>5, <3>2
    <3>4. s[i] = 1
      BY <1>2, <2>2, <3>2, <3>3
    <3> QED  BY <2>3, <3>4
  <2> QED  BY <2>1, <2>3, <2>4, <2>5
<1> QED  BY <1>3, <1>4, <1>5 DEF s

\* From a bar on after which there is no ascent, the bars stand together.
LEMMA BarsTogether ==
    ASSUME NEW slots \in Nat, NEW bars \in Nat, NEW b \in Rising(slots, bars), NEW m \in 1..bars,
           \A j \in m + 1..bars : b[j] = Start(b, j - 1)
    PROVE  \A j \in m..bars : b[j] = b[m] + (j - m)
<1> DEFINE good == {d \in Nat : m + d <= bars => b[m + d] = b[m] + d}
<1>1. \A i \in 1..bars : b[i] \in 1..slots
  BY RisingType
<1>2. 0 \in good
  BY <1>1
<1>3. ASSUME NEW d \in Nat, d \in good PROVE d + 1 \in good
  <2> SUFFICES ASSUME m + (d + 1) <= bars  PROVE b[m + (d + 1)] = b[m] + (d + 1)
    OBVIOUS
  <2>1. /\ m + (d + 1) \in m + 1..bars /\ (m + (d + 1)) - 1 = m + d /\ m + d # 0
        /\ m + d <= bars /\ m + d \in 1..bars
    OBVIOUS
  <2>2. b[m + d] = b[m] + d
    BY <1>3, <2>1
  <2>3. b[m + (d + 1)] = b[m + d] + 1
    BY <2>1 DEF Start
  <2> QED  BY <1>1, <2>1, <2>2, <2>3
<1>4. \A d \in Nat : d \in good
  <2> HIDE DEF good
  <2> QED  BY <1>2, <1>3, NumberInduction
<1> TAKE j \in m..bars
<1>5. j - m \in Nat /\ m + (j - m) = j
  OBVIOUS
<1> QED  BY <1>4, <1>5

\* A bar right behind the one before it leaves no gap.
LEMMA NoGap ==
    ASSUME NEW slots \in Nat, NEW bars \in Nat, NEW b \in Rising(slots, bars), NEW j \in 1..bars,
           b[j] = Start(b, j - 1)
    PROVE  Gaps(slots, bars, b)[j] = 0
<1>1. Len(b) = bars /\ b[j] \in 1..slots
  BY RisingType
<1>2. Gaps(slots, bars, b)[j] = Rest(slots, bars, j, Start(b, j - 1)) - Rest(slots, bars, j, b[j])
  BY <1>1 DEF Gaps
<1>3. j - 1 \in 0..bars - 1 /\ (j - 1) + 1 = j /\ b[j] \in 1..slots + 1 /\ b[j] \in b[j]..slots
  BY <1>1
<1>4. Rest(slots, bars, j, b[j]) \in Nat
  BY <1>3, GapFits
<1> QED  BY <1>2, <1>4

\* When next_permutation finds no ascent, the rank is the first.
LEMMA LastHasNoRank ==
    ASSUME NEW slots \in Nat, NEW bars \in Nat, NEW b \in Rising(slots, bars),
           Ascents(Bits(slots, b)) = {}
    PROVE  RankOf(slots, bars, b) = 0
<1>1. \A j \in 1..bars : b[j] = Start(b, j - 1)
  BY AscentsAre
<1>2. \A j \in 1..bars : Gaps(slots, bars, b)[j] = 0
  BY <1>1, NoGap
<1>3. Len(b) = bars /\ IsFiniteSet(1..bars)
  BY RisingType, FS_Interval
<1> QED  BY <1>2, <1>3, SumOfZeros DEF RankOf

\* The last ascent is before a bar with room before it, the bars after that
\* one standing together behind it.
Pivot(slots, bars, b, J) ==
    /\ J \in 1..bars /\ Start(b, J - 1) <= b[J] - 1
    /\ b[J] - 1 = Max(Ascents(Bits(slots, b)))
    /\ \A j \in J..bars : b[j] = b[J] + (j - J)
LEMMA PivotFound ==
    ASSUME NEW slots \in Nat, NEW bars \in Nat, NEW b \in Rising(slots, bars),
           Ascents(Bits(slots, b)) # {}
    PROVE  \E J \in 1..bars : Pivot(slots, bars, b, J)
<1> DEFINE A == Ascents(Bits(slots, b))
           i == Max(A)
<1>1. /\ \A j \in 1..bars : b[j] # Start(b, j - 1) => b[j] - 1 \in A
      /\ \A x \in A : /\ x \in 1..slots - 1
                      /\ \E j \in 1..bars : b[j] = x + 1 /\ b[j] # Start(b, j - 1)
  BY AscentsAre
<1>2. /\ \A x \in 1..bars : b[x] \in 1..slots
      /\ \A x, y \in 1..bars : x < y => b[x] < b[y]
      /\ \A x \in 0..bars : Start(b, x) \in 1..slots + 1
      /\ \A x \in 1..bars : b[x] \in Start(b, x - 1)..slots
  BY RisingType
<1> HIDE DEF A
<1>3. i \in A /\ \A x \in A : x <= i
  <2>1. A \subseteq 1..slots - 1 /\ A \subseteq Nat
    <3>1. A \subseteq 1..slots - 1
      BY <1>1
    <3>2. 1..slots - 1 \subseteq Nat
      OBVIOUS
    <3> QED  BY <3>1, <3>2
  <2>0. A # {}
    BY DEF A
  <2>2. IsFiniteSet(A)
    <3>1. slots - 1 \in Int /\ 1 \in Int
      OBVIOUS
    <3>2. IsFiniteSet(1..slots - 1)
      BY <3>1, FS_Interval
    <3> QED  BY <2>1, <3>2, FS_Subset
  <2> QED  BY <2>0, <2>1, <2>2, MaxIsIn
<1> HIDE DEF i
<1>4. PICK J \in 1..bars : b[J] = i + 1 /\ b[J] # Start(b, J - 1)
  BY <1>1, <1>3
<1>5. i \in 1..slots - 1
  BY <1>1, <1>3
<1>6. ASSUME NEW j \in J + 1..bars PROVE b[j] = Start(b, j - 1)
  <2> SUFFICES ASSUME b[j] # Start(b, j - 1) PROVE FALSE
    OBVIOUS
  <2>1. j \in 1..bars /\ J < j
    OBVIOUS
  <2>2. b[j] - 1 \in A
    BY <1>1, <2>1
  <2>3. b[j] - 1 <= i /\ b[J] < b[j] /\ b[j] \in 1..slots
    BY <1>2, <1>3, <2>1, <2>2
  <2> QED  BY <1>4, <1>5, <2>3
<1>7. \A j \in J..bars : b[j] = b[J] + (j - J)
  BY <1>6, BarsTogether
<1>8. Start(b, J - 1) <= b[J] - 1
  <2>1. J - 1 \in 0..bars /\ b[J] \in Start(b, J - 1)..slots /\ Start(b, J - 1) \in 1..slots + 1
    BY <1>2
  <2> QED  BY <1>4, <2>1
<1>9. b[J] - 1 = i
  BY <1>4, <1>5
<1> QED  BY <1>7, <1>8, <1>9 DEF Pivot, A, i

\* The bars of the rank before: the pivot one to the left, those after it as
\* far right as they go.
Back(slots, bars, b, J) ==
    [j \in 1..bars |-> IF j < J THEN b[j] ELSE IF j = J THEN b[J] - 1 ELSE slots - bars + j]
LEMMA BackRises ==
    ASSUME NEW slots \in Nat, NEW bars \in Nat, NEW b \in Rising(slots, bars),
           NEW J, Pivot(slots, bars, b, J)
    PROVE  /\ Back(slots, bars, b, J) \in Rising(slots, bars)
           /\ b[J] - 1 \in 1..slots - 1 /\ b[J] + (bars - J) <= slots
           /\ \A j \in 1..bars : j < J => b[j] < b[J] - 1
<1> DEFINE c == Back(slots, bars, b, J)
<1>1. /\ \A x \in 1..bars : b[x] \in 1..slots
      /\ \A x, y \in 1..bars : x < y => b[x] < b[y]
      /\ \A x \in 0..bars : Start(b, x) \in 1..slots + 1
  BY RisingType
<1>2. J \in 1..bars /\ Start(b, J - 1) <= b[J] - 1 /\ b[bars] = b[J] + (bars - J)
  BY DEF Pivot
<1>3. b[bars] \in 1..slots /\ b[J] \in 1..slots
  BY <1>1, <1>2
<1>4. b[J] + (bars - J) <= slots
  BY <1>2, <1>3
<1>5. b[J] - 1 \in 1..slots - 1
  <2>1. Start(b, J - 1) \in 1..slots + 1
    BY <1>1, <1>2
  <2> QED  BY <1>2, <1>3, <2>1
<1>6. ASSUME NEW j \in 1..bars, j < J PROVE b[j] < b[J] - 1
  <2>1. J - 1 \in 1..bars /\ J - 1 # 0 /\ (j = J - 1 \/ j < J - 1)
    BY <1>2, <1>6
  <2>2. Start(b, J - 1) = b[J - 1] + 1 /\ b[J - 1] \in 1..slots /\ b[j] \in 1..slots
    BY <1>1, <2>1 DEF Start
  <2>3. b[j] <= b[J - 1]
    BY <1>1, <2>1, <2>2
  <2> QED  BY <1>2, <1>3, <2>2, <2>3
<1>7. ASSUME NEW j \in 1..bars
      PROVE  /\ c[j] \in 1..slots
             /\ j < J => c[j] = b[j] /\ c[j] < b[J] - 1
             /\ j = J => c[j] = b[J] - 1
             /\ j > J => c[j] = slots - bars + j /\ c[j] > b[J] - 1
  <2>1. CASE j < J
    BY <1>1, <1>2, <1>6, <2>1 DEF Back
  <2>2. CASE j = J
    BY <1>2, <1>5, <2>2 DEF Back
  <2>3. CASE j > J
    <3>1. c[j] = slots - bars + j
      BY <1>2, <2>3 DEF Back
    <3> QED  BY <1>2, <1>3, <1>4, <2>3, <3>1
  <2> QED  BY <1>2, <2>1, <2>2, <2>3
<1>8. c \in Seq(1..slots) /\ Len(c) = bars
  <2>1. c \in [1..bars -> 1..slots] 
    <3>1. c = [j \in 1..bars |-> c[j]]
      BY DEF Back
    <3> QED  BY <1>7, <3>1
  <2> HIDE DEF c
  <2> QED  BY <2>1
<1>9. ASSUME NEW x \in 1..bars, NEW y \in 1..bars, x < y PROVE c[x] < c[y]
  <2> HIDE DEF c
  <2>1. CASE y < J
    BY <1>1, <1>2, <1>7, <1>9, <2>1
  <2>2. CASE y = J
    BY <1>2, <1>7, <1>9, <2>2
  <2>3. CASE y > J /\ x <= J
    <3>1. c[x] <= b[J] - 1
      BY <1>2, <1>5, <1>7, <2>3
    <3> QED  BY <1>2, <1>5, <1>7, <2>3, <3>1
  <2>4. CASE y > J /\ x > J
    BY <1>2, <1>7, <1>9, <2>4
  <2> QED  BY <1>2, <2>1, <2>2, <2>3, <2>4
<1>10. c \in Rising(slots, bars)
  <2> HIDE DEF c
  <2> QED  BY <1>8, <1>9 DEF Rising
<1> QED  BY <1>4, <1>5, <1>6, <1>10

\* Nothing is left to choose when the bars fill the slots from x on.
LEMMA RestOfFull ==
    ASSUME NEW slots \in Nat, NEW bars \in Nat, NEW j \in 1..bars + 1, bars <= slots + j - 1
    PROVE  Rest(slots, bars, j, slots - bars + j) = 1
<1>1. slots - (slots - bars + j) + 1 = bars - j + 1 /\ bars - j + 1 \in Nat
  OBVIOUS
<1>2. PICK t : Triangle(t, bars - j + 1)
  BY <1>1, TriangleExists
<1>3. exact_binomial(bars - j + 1, bars - j + 1) = t[bars - j + 1][bars - j + 1]
  BY <1>1, <1>2, BinomialIs
<1>4. t[bars - j + 1][bars - j + 1] = 1
  BY <1>1, <1>2, RowEnds
<1> QED  BY <1>1, <1>3, <1>4 DEF Rest

\* The gaps before and after the step.
LEMMA BackGaps ==
    ASSUME NEW slots \in Nat, NEW bars \in Nat, NEW b \in Rising(slots, bars),
           NEW J, Pivot(slots, bars, b, J),
           NEW f, f = Gaps(slots, bars, b), NEW g, g = Gaps(slots, bars, Back(slots, bars, b, J))
    PROVE  /\ \A j \in 1..bars : f[j] \in Int /\ g[j] \in Int
           /\ \A j \in 1..J - 1 : g[j] = f[j]
           /\ g[J] = f[J] - Rest(slots, bars, J + 1, b[J])
           /\ Rest(slots, bars, J + 1, b[J]) \in Int
           /\ \A j \in J + 1..bars : f[j] = 0
           /\ \A j \in J + 2..bars : g[j] = 0
           /\ J = bars => Rest(slots, bars, J + 1, b[J]) = 1
           /\ J < bars => g[J + 1] = Rest(slots, bars, J + 1, b[J]) - 1
<1> DEFINE c == Back(slots, bars, b, J)
<1>1. /\ c \in Rising(slots, bars) /\ b[J] - 1 \in 1..slots - 1 /\ b[J] + (bars - J) <= slots
      /\ J \in 1..bars /\ \A j \in J..bars : b[j] = b[J] + (j - J)
  BY BackRises DEF Pivot
<1>2. /\ Len(b) = bars /\ \A x \in 1..bars : b[x] \in 1..slots
      /\ \A x \in 0..bars : Start(b, x) \in 1..slots + 1
      /\ \A x \in 1..bars : b[x] \in Start(b, x - 1)..slots
  BY RisingType
<1>3. /\ Len(c) = bars /\ \A x \in 1..bars : c[x] \in 1..slots
      /\ \A x \in 0..bars : Start(c, x) \in 1..slots + 1
      /\ \A x \in 1..bars : c[x] \in Start(c, x - 1)..slots
  BY <1>1, RisingType
<1>4. \A j \in 1..bars : c[j] = IF j < J THEN b[j] ELSE IF j = J THEN b[J] - 1 ELSE slots - bars + j
  BY DEF Back
<1>5. \A j \in 1..bars :
          /\ f[j] = Rest(slots, bars, j, Start(b, j - 1)) - Rest(slots, bars, j, b[j])
          /\ g[j] = Rest(slots, bars, j, Start(c, j - 1)) - Rest(slots, bars, j, c[j])
  <2> HIDE DEF c
  <2>1. \A j \in 1..bars : f[j] = Rest(slots, bars, j, Start(b, j - 1)) - Rest(slots, bars, j, b[j])
    BY <1>2 DEF Gaps
  <2>2. g = Gaps(slots, bars, c)
    BY DEF c
  <2>3. \A j \in 1..bars : g[j] = Rest(slots, bars, j, Start(c, j - 1)) - Rest(slots, bars, j, c[j])
    BY <1>3, <2>2 DEF Gaps
  <2> QED  BY <2>1, <2>3
<1>6. \A j \in 1..bars : f[j] \in Int /\ g[j] \in Int
  <2>1. bars \in 0..bars
    OBVIOUS
  <2>2. \A j \in 1..bars : Gaps(slots, bars, b)[j] \in Int
    BY <2>1, GapsType
  <2>3. \A j \in 1..bars : Gaps(slots, bars, c)[j] \in Int
    BY <1>1, <2>1, GapsType
  <2> QED  BY <2>2, <2>3
<1> HIDE DEF c
<1>7. \A j \in 0..J - 1 : Start(c, j) = Start(b, j)
  <2> TAKE j \in 0..J - 1
  <2>1. j # 0 => j \in 1..bars /\ j < J
    BY <1>1
  <2>2. j # 0 => c[j] = b[j]
    BY <1>4, <2>1
  <2> QED  BY <2>2 DEF Start
<1>8. \A j \in 1..J - 1 : g[j] = f[j]
  <2> TAKE j \in 1..J - 1
  <2>1. j \in 1..bars /\ j < J /\ j - 1 \in 0..J - 1
    BY <1>1
  <2>2. c[j] = b[j] /\ Start(c, j - 1) = Start(b, j - 1)
    BY <1>4, <1>7, <2>1
  <2> QED  BY <1>5, <2>1, <2>2
<1>9. /\ g[J] = f[J] - Rest(slots, bars, J + 1, b[J]) /\ Rest(slots, bars, J + 1, b[J]) \in Int
  <2>1. c[J] = b[J] - 1 /\ J - 1 \in 0..J - 1
    BY <1>1, <1>4
  <2>2. Start(c, J - 1) = Start(b, J - 1)
    BY <1>7, <2>1
  <2> DEFINE x == b[J] - 1
  <2>3. x \in 1..slots /\ x + 1 = b[J]
    <3>1. b[J] \in 1..slots
      BY <1>1, <1>2
    <3>2. x \in 1..slots - 1
      BY <1>1
    <3>3. x + 1 = b[J]
      BY <3>1
    <3> HIDE DEF x
    <3> QED  BY <3>2, <3>3
  <2> HIDE DEF x
  <2>4. /\ Rest(slots, bars, J, x) = Rest(slots, bars, J + 1, x + 1) + Rest(slots, bars, J, x + 1)
        /\ Rest(slots, bars, J, x) \in Nat /\ Rest(slots, bars, J, x + 1) \in Nat
        /\ Rest(slots, bars, J + 1, x + 1) \in Nat
    BY <1>1, <2>3, RestSplits
  <2>5. /\ f[J] = Rest(slots, bars, J, Start(b, J - 1)) - Rest(slots, bars, J, x + 1)
        /\ g[J] = Rest(slots, bars, J, Start(b, J - 1)) - Rest(slots, bars, J, x)
    BY <1>1, <1>5, <2>1, <2>2, <2>3 DEF x
  <2>6. Rest(slots, bars, J, Start(b, J - 1)) \in Nat
    <3>1. J - 1 \in 0..bars
      BY <1>1
    <3>2. Start(b, J - 1) \in 1..slots + 1 /\ b[J] \in Start(b, J - 1)..slots + 1
      BY <1>1, <1>2, <3>1
    <3> QED  BY <1>1, <3>2, RestShrinks
  <2>7. g[J] = f[J] - Rest(slots, bars, J + 1, x + 1)
    BY <2>4, <2>5, <2>6
  <2> QED  BY <2>3, <2>4, <2>7
<1>10. \A j \in J + 1..bars : f[j] = 0
  <2> TAKE j \in J + 1..bars
  <2>1. j \in 1..bars /\ j - 1 \in J..bars /\ j \in J..bars /\ j - 1 # 0
    BY <1>1
  <2>2. b[j] = b[J] + (j - J) /\ b[j - 1] = b[J] + ((j - 1) - J)
    BY <1>1, <2>1
  <2>3. b[j] = Start(b, j - 1)
    <3>1. b[j] = b[j - 1] + 1
      <4>1. b[J] \in Int
        BY <1>1, <1>2
      <4> QED  BY <1>1, <2>1, <2>2, <4>1
    <3> QED  BY <2>1, <3>1 DEF Start
  <2> QED  BY <2>1, <2>3, NoGap
<1>11. \A j \in J + 2..bars : g[j] = 0
  <2> TAKE j \in J + 2..bars
  <2>1. j \in 1..bars /\ j - 1 \in 1..bars /\ j > J /\ j - 1 > J /\ j - 1 # 0
    BY <1>1
  <2>2. c[j] = slots - bars + j /\ c[j - 1] = slots - bars + (j - 1)
    BY <1>1, <1>4, <2>1
  <2>3. c[j] = Start(c, j - 1)
    <3>1. c[j] = c[j - 1] + 1
      BY <1>1, <2>1, <2>2
    <3> QED  BY <2>1, <3>1 DEF Start
  <2>4. Gaps(slots, bars, c)[j] = 0
    BY <1>1, <2>1, <2>3, NoGap
  <2> QED  BY <2>4 DEF c
<1>12. J = bars => Rest(slots, bars, J + 1, b[J]) = 1
  <2>1. b[J] \in 1..slots + 1
    BY <1>1, <1>2
  <2> QED  BY <2>1, RestEnds
<1>13. ASSUME J < bars PROVE g[J + 1] = Rest(slots, bars, J + 1, b[J]) - 1
  <2>1. J + 1 \in 1..bars /\ (J + 1) - 1 = J /\ J # 0 /\ J + 1 > J /\ J + 1 # J /\ ~(J + 1 < J) /\ ~(J < J)
    BY <1>1, <1>13
  <2>2. c[J + 1] = slots - bars + (J + 1) /\ Start(c, J) = b[J]
    <3>1. c[J + 1] = slots - bars + (J + 1) /\ c[J] = b[J] - 1
      BY <1>1, <1>4, <2>1
    <3>2. Start(c, J) = (b[J] - 1) + 1
      BY <2>1, <3>1 DEF Start
    <3>3. b[J] \in Int
      BY <1>1, <1>2
    <3> QED  BY <3>1, <3>2, <3>3
  <2>3. Rest(slots, bars, J + 1, slots - bars + (J + 1)) = 1
    <3>1. b[J] \in 1..slots
      BY <1>1, <1>2
    <3>2. bars <= slots + (J + 1) - 1 /\ J + 1 \in 1..bars + 1
      BY <1>1, <3>1
    <3> QED  BY <3>2, RestOfFull
  <2>4. g[J + 1] = Rest(slots, bars, J + 1, b[J]) - Rest(slots, bars, J + 1, slots - bars + (J + 1))
    BY <1>5, <2>1, <2>2
  <2> QED  BY <2>3, <2>4
<1> QED  BY <1>6, <1>8, <1>9, <1>10, <1>11, <1>12, <1>13

\* So the step goes back one rank.
LEMMA BackRanks ==
    ASSUME NEW slots \in Nat, NEW bars \in Nat, NEW b \in Rising(slots, bars),
           NEW J, Pivot(slots, bars, b, J)
    PROVE  RankOf(slots, bars, Back(slots, bars, b, J)) = RankOf(slots, bars, b) - 1
<1> DEFINE c == Back(slots, bars, b, J)
           f == Gaps(slots, bars, b)
           g == Gaps(slots, bars, c)
           r == Rest(slots, bars, J + 1, b[J])
           h == [j \in 1..bars |-> IF j = J THEN g[J] ELSE f[j]]
<1>1. /\ c \in Rising(slots, bars) /\ J \in 1..bars
  BY BackRises DEF Pivot
<1>2. Len(b) = bars /\ Len(c) = bars
  BY <1>1, RisingType
<1>3. /\ \A j \in 1..bars : f[j] \in Int /\ g[j] \in Int
      /\ \A j \in 1..J - 1 : g[j] = f[j]
      /\ g[J] = f[J] - r /\ r \in Int
      /\ \A j \in J + 1..bars : f[j] = 0
      /\ \A j \in J + 2..bars : g[j] = 0
      /\ J = bars => r = 1
      /\ J < bars => g[J + 1] = r - 1
  BY BackGaps
<1> HIDE DEF c, f, g, r
<1>4. /\ \A j \in 1..bars : h[j] \in Int /\ h[J] = g[J]
      /\ \A j \in 1..bars : j # J => h[j] = f[j]
  BY <1>1, <1>3
<1> HIDE DEF h
<1>5. IsFiniteSet(1..bars)
  BY FS_Interval
<1>6. SumOver(f, 1..bars) \in Int
  BY <1>3, <1>5, SumType
<1>7. SumOver(h, 1..bars) = SumOver(f, 1..bars) - f[J] + h[J]
  <2>1. /\ \A x \in 1..bars : f[x] \in Int /\ h[x] \in Int
        /\ \A x \in (1..bars) \ {J} : f[x] = h[x]
    BY <1>3, <1>4
  <2> QED  BY <1>1, <1>5, <2>1, SumChange
<1>8. SumOver(h, 1..bars) = SumOver(f, 1..bars) - r
  BY <1>1, <1>3, <1>4, <1>6, <1>7
<1>9. CASE J = bars
  <2>1. \A j \in 1..bars : h[j] = g[j]
    <3> TAKE j \in 1..bars
    <3>1. j = J \/ j \in 1..J - 1
      BY <1>1, <1>9
    <3> QED  BY <1>3, <1>4, <3>1
  <2>2. SumOver(h, 1..bars) = SumOver(g, 1..bars)
    BY <1>5, <2>1, SumSame
  <2> QED  BY <1>2, <1>3, <1>8, <1>9, <2>2 DEF RankOf, f, g, c
<1>10. CASE J < bars
  <2>1. J + 1 \in 1..bars
    BY <1>1, <1>10
  <2>2. \A j \in (1..bars) \ {J + 1} : h[j] = g[j]
    <3> TAKE j \in (1..bars) \ {J + 1}
    <3>1. j = J \/ j \in 1..J - 1 \/ j \in J + 2..bars
      BY <1>1
    <3>2. j \in J + 2..bars => j \in J + 1..bars /\ j # J
      BY <1>1
    <3> QED  BY <1>3, <1>4, <3>1, <3>2
  <2>3. SumOver(g, 1..bars) = SumOver(h, 1..bars) - h[J + 1] + g[J + 1]
    <3>1. \A x \in 1..bars : h[x] \in Int /\ g[x] \in Int
      BY <1>3, <1>4
    <3> QED  BY <1>5, <2>1, <2>2, <3>1, SumChange
  <2>4. h[J + 1] = 0 /\ g[J + 1] = r - 1
    <3>1. J + 1 \in J + 1..bars /\ J + 1 # J
      BY <1>1, <1>10
    <3> QED  BY <1>3, <1>4, <1>10, <2>1, <3>1
  <2>5. SumOver(g, 1..bars) = SumOver(f, 1..bars) - 1
    BY <1>3, <1>6, <1>8, <2>3, <2>4
  <2> QED  BY <1>2, <2>5 DEF RankOf, f, g, c
<1> QED  BY <1>1, <1>9, <1>10

\* Two bars lists with the same slots taken have the same bits.
LEMMA BitsType ==
    ASSUME NEW slots \in Nat, NEW bars \in Nat, NEW b \in Rising(slots, bars)
    PROVE  /\ Bits(slots, b) \in [1..slots -> 0..1]
           /\ \A x \in 1..slots : Bits(slots, b)[x] = 1 <=> \E j \in 1..bars : b[j] = x
           /\ \A j \in 1..bars : Bits(slots, b)[b[j]] = 1
<1>1. Bits(slots, b) \in [1..slots -> 0..1]
  BY DEF Bits
<1>2. \A x \in 1..slots : Bits(slots, b)[x] = 1 <=> \E j \in DOMAIN b : b[j] = x
  BY DEF Bits
<1>3. DOMAIN b = 1..bars /\ \A j \in 1..bars : b[j] \in 1..slots
  BY RisingType
<1> QED  BY <1>1, <1>2, <1>3

\* Where next_permutation cuts, and what it swaps with the last bar.
LEMMA BackSwaps ==
    ASSUME NEW slots \in Nat, NEW bars \in Nat, NEW b \in Rising(slots, bars),
           NEW J, Pivot(slots, bars, b, J),
           NEW s, s = Bits(slots, b), NEW i, i = b[J] - 1, NEW e, e = b[bars]
    PROVE  /\ i \in 1..slots - 1 /\ e \in i + 1..slots /\ e = i + 1 + (bars - J) /\ J \in 1..bars
           /\ i = Max(Ascents(s)) /\ s[i] = 0
           /\ e = Max({l \in DOMAIN s : s[l] > s[i]}) /\ s[e] = 1
           /\ \A x \in i + 1..e : s[x] = 1
           /\ \A x \in e + 1..slots : s[x] = 0
<1>1. /\ s \in [1..slots -> 0..1] /\ DOMAIN s = 1..slots
      /\ \A x \in 1..slots : s[x] = 1 <=> \E j \in 1..bars : b[j] = x
  BY BitsType
<1>2. /\ J \in 1..bars /\ i = Max(Ascents(s)) /\ \A j \in J..bars : b[j] = b[J] + (j - J)
  BY DEF Pivot
<1>3. /\ i \in 1..slots - 1 /\ b[J] + (bars - J) <= slots
      /\ \A j \in 1..bars : j < J => b[j] < i
  BY BackRises
<1>4. \A j \in 1..bars : b[j] \in 1..slots
  BY RisingType
<1>5. b[J] \in 1..slots /\ b[J] = i + 1
  <2>1. b[J] \in 1..slots
    BY <1>2, <1>4
  <2> QED  BY <2>1
<1>6. \A j \in J..bars : b[j] = i + 1 + (j - J)
  BY <1>2, <1>5
<1>7. e = i + 1 + (bars - J) /\ e \in i + 1..slots
  <2>1. bars \in J..bars
    BY <1>2
  <2>2. e = i + 1 + (bars - J)
    BY <1>6, <2>1
  <2> QED  BY <1>2, <1>3, <1>5, <2>2
<1> HIDE DEF Pivot
<1>8. \A x \in i + 1..e : s[x] = 1
  <2> TAKE x \in i + 1..e
  <2>1. x \in 1..slots /\ J + (x - i - 1) \in J..bars /\ J + (x - i - 1) \in 1..bars
    BY <1>2, <1>3, <1>7
  <2>2. b[J + (x - i - 1)] = i + 1 + ((J + (x - i - 1)) - J)
    BY <1>6, <2>1
  <2>3. b[J + (x - i - 1)] = x
    BY <1>2, <1>3, <2>1, <2>2
  <2> QED  BY <1>1, <2>1, <2>3
<1>9. \A x \in e + 1..slots : s[x] = 0
  <2> TAKE x \in e + 1..slots
  <2>1. x \in 1..slots
    BY <1>3, <1>7
  <2>2. ASSUME NEW j \in 1..bars PROVE b[j] # x
    <3>1. CASE j < J
      <4>1. b[j] < i /\ b[j] \in 1..slots
        BY <1>3, <1>4, <3>1
      <4> QED  BY <1>3, <1>7, <4>1
    <3>2. CASE j >= J
      <4>1. j \in J..bars
        BY <1>2, <3>2
      <4>2. b[j] = i + 1 + (j - J)
        BY <1>6, <4>1
      <4> QED  BY <1>2, <1>3, <1>7, <4>1, <4>2
    <3> QED  BY <1>2, <3>1, <3>2
  <2>3. s[x] # 1 /\ s[x] \in 0..1
    BY <1>1, <2>1, <2>2
  <2> QED  BY <2>3
<1>10. s[i] = 0
  <2>1. i \in 1..slots
    BY <1>3
  <2>2. ASSUME NEW j \in 1..bars PROVE b[j] # i
    <3>1. CASE j < J
      <4>1. b[j] < i /\ b[j] \in 1..slots
        BY <1>3, <1>4, <3>1
      <4> QED  BY <1>3, <4>1
    <3>2. CASE j >= J
      <4>1. j \in J..bars
        BY <1>2, <3>2
      <4>2. b[j] = i + 1 + (j - J)
        BY <1>6, <4>1
      <4> QED  BY <1>2, <1>3, <4>1, <4>2
    <3> QED  BY <1>2, <3>1, <3>2
  <2>3. s[i] # 1 /\ s[i] \in 0..1
    BY <1>1, <2>1, <2>2
  <2> QED  BY <2>3
<1>11. e \in 1..slots /\ s[e] = 1
  BY <1>3, <1>7, <1>8
<1>12. e = Max({l \in DOMAIN s : s[l] > s[i]})
  <2> DEFINE ones == {l \in DOMAIN s : s[l] > s[i]}
  <2>1. ones \subseteq 1..slots /\ ones \subseteq Nat /\ e \in ones
    <3>1. s[e] > s[i] /\ e \in DOMAIN s
      BY <1>1, <1>10, <1>11
    <3>2. ones \subseteq 1..slots
      BY <1>1
    <3>3. 1..slots \subseteq Nat
      OBVIOUS
    <3> QED  BY <3>1, <3>2, <3>3
  <2>2. \A l \in ones : l <= e
    <3> SUFFICES ASSUME NEW l \in ones, ~(l <= e) PROVE FALSE
      OBVIOUS
    <3>1. l \in e + 1..slots
      BY <1>1, <1>11
    <3>2. s[l] = 0
      BY <1>9, <3>1
    <3>3. s[l] > s[i]
      OBVIOUS
    <3> QED  BY <1>10, <3>2, <3>3
  <2> HIDE DEF ones
  <2>3. IsFiniteSet(ones)
    <3>1. IsFiniteSet(1..slots)
      BY FS_Interval
    <3> QED  BY <2>1, <3>1, FS_Subset
  <2>4. ones # {}
    BY <2>1
  <2>5. Max(ones) \in ones /\ \A x \in ones : x <= Max(ones)
    BY <2>1, <2>3, <2>4, MaxIsIn
  <2>6. Max(ones) <= e /\ e <= Max(ones) /\ Max(ones) \in Nat /\ e \in Nat
    BY <2>1, <2>2, <2>5
  <2>7. Max(ones) = e
    BY <2>6
  <2> QED  BY <2>7 DEF ones
<1> QED  BY <1>2, <1>3, <1>7, <1>8, <1>9, <1>10, <1>11, <1>12

\* A row cut after i, the tail backwards.
LEMMA TailReversed ==
    ASSUME NEW slots \in Nat, NEW t \in [1..slots -> 0..1], NEW i \in 1..slots - 1
    PROVE  LET r == SubSeq(t, 1, i) \o Reverse(SubSeq(t, i + 1, Len(t)))
           IN  /\ r \in [1..slots -> 0..1]
               /\ \A x \in 1..i : r[x] = t[x]
               /\ \A x \in i + 1..slots : r[x] = t[slots + i + 1 - x]
<1> DEFINE head == SubSeq(t, 1, i)
           tail == SubSeq(t, i + 1, Len(t))
           turned == Reverse(tail)
           r == head \o turned
<1>1. t \in Seq(0..1) /\ Len(t) = slots
  OBVIOUS
<1>2. /\ head \in Seq(0..1) /\ Len(head) = i /\ \A x \in 1..i : head[x] = t[x]
      /\ tail \in Seq(0..1) /\ Len(tail) = slots - i
      /\ \A x \in 1..slots - i : tail[x] = t[i + x]
  <2>1. /\ head \in Seq(0..1) /\ Len(head) = i /\ \A x \in 1..i : head[x] = t[x]
    BY <1>1, SubSeqProperties
  <2>2. tail = SubSeq(t, i + 1, slots)
    BY <1>1
  <2>3. /\ tail \in Seq(0..1) /\ Len(tail) = slots - i
        /\ \A x \in 1..slots - i : tail[x] = t[i + x]
    <3> HIDE DEF tail
    <3> QED  BY <1>1, <2>2, SubSeqProperties
  <2> QED  BY <2>1, <2>3
<1> HIDE DEF head, tail
<1>3. /\ turned \in Seq(0..1) /\ Len(turned) = slots - i
      /\ \A x \in 1..slots - i : turned[x] = t[slots + 1 - x]
  <2>1. turned = [x \in 1..slots - i |-> tail[(slots - i - x) + 1]]
    BY <1>2 DEF Reverse
  <2>2. \A x \in 1..slots - i : turned[x] = t[slots + 1 - x] /\ turned[x] \in 0..1
    <3> TAKE x \in 1..slots - i
    <3>1. (slots - i - x) + 1 \in 1..slots - i /\ i + ((slots - i - x) + 1) = slots + 1 - x
          /\ slots + 1 - x \in 1..slots
      OBVIOUS
    <3>2. tail[(slots - i - x) + 1] = t[slots + 1 - x]
      BY <1>2, <3>1
    <3> QED  BY <2>1, <3>1, <3>2
  <2>3. turned \in [1..slots - i -> 0..1]
    BY <2>1, <2>2
  <2> HIDE DEF turned
  <2>4. turned \in Seq(0..1) /\ Len(turned) = slots - i
    BY <2>3
  <2> QED  BY <2>2, <2>4
<1> HIDE DEF turned
<1>4. /\ r \in Seq(0..1) /\ Len(r) = slots
      /\ \A x \in 1..slots : r[x] = IF x <= i THEN head[x] ELSE turned[x - i]
  <2>1. r \in Seq(0..1)
    BY <1>2, <1>3
  <2>2. Len(r) = i + (slots - i)
    <3>1. head \in Seq(0..1) /\ turned \in Seq(0..1)
      BY <1>2, <1>3
    <3>2. Len(r) = Len(head) + Len(turned)
      BY <3>1
    <3> QED  BY <1>2, <1>3, <3>2
  <2>3. Len(r) = slots
    BY <2>2
  <2>4. \A x \in 1..Len(head) + Len(turned) : r[x] = IF x <= Len(head) THEN head[x] ELSE turned[x - Len(head)]
    BY <1>2, <1>3
  <2>5. Len(head) + Len(turned) = slots
    BY <1>2, <1>3
  <2> QED  BY <1>2, <2>1, <2>3, <2>4, <2>5
<1> HIDE DEF r
<1>5. r \in [1..slots -> 0..1]
  BY <1>4
<1>6. \A x \in 1..i : r[x] = t[x]
  BY <1>2, <1>4
<1>7. \A x \in i + 1..slots : r[x] = t[slots + i + 1 - x]
  <2> TAKE x \in i + 1..slots
  <2>1. x - i \in 1..slots - i /\ slots + 1 - (x - i) = slots + i + 1 - x /\ x \in 1..slots /\ ~(x <= i)
    OBVIOUS
  <2> QED  BY <1>3, <1>4, <2>1
<1>8. r = SubSeq(t, 1, i) \o Reverse(SubSeq(t, i + 1, Len(t)))
  BY DEF r, head, tail, turned
<1> QED  BY <1>5, <1>6, <1>7, <1>8

\* next_permutation takes the bits to those of the rank before.
LEMMA BackIsNext ==
    ASSUME NEW slots \in Nat, NEW bars \in Nat, NEW b \in Rising(slots, bars),
           NEW J, Pivot(slots, bars, b, J)
    PROVE  next_permutation(Bits(slots, b)) = Bits(slots, Back(slots, bars, b, J))
<1> DEFINE s == Bits(slots, b)
           c == Back(slots, bars, b, J)
           i == b[J] - 1
           e == b[bars]
           t == [s EXCEPT ![i] = s[e], ![e] = s[i]]
           r == SubSeq(t, 1, i) \o Reverse(SubSeq(t, i + 1, Len(t)))
           q == Bits(slots, c)
<1>1. /\ i \in 1..slots - 1 /\ e \in i + 1..slots /\ e = i + 1 + (bars - J) /\ J \in 1..bars
      /\ i = Max(Ascents(s)) /\ s[i] = 0
      /\ e = Max({l \in DOMAIN s : s[l] > s[i]}) /\ s[e] = 1
      /\ \A x \in i + 1..e : s[x] = 1
      /\ \A x \in e + 1..slots : s[x] = 0
  <2>1. s = Bits(slots, b) /\ i = b[J] - 1 /\ e = b[bars]
    OBVIOUS
  <2> HIDE DEF s, i, e
  <2> QED  BY <2>1, BackSwaps
<1>2. /\ s \in [1..slots -> 0..1] /\ DOMAIN s = 1..slots
      /\ \A x \in 1..slots : s[x] = 1 <=> \E j \in 1..bars : b[j] = x
  BY BitsType
<1>3. /\ c \in Rising(slots, bars) /\ \A j \in 1..bars : j < J => b[j] < i
  BY BackRises
<1>4. \A j \in 1..bars : c[j] = IF j < J THEN b[j] ELSE IF j = J THEN i ELSE slots - bars + j
  BY DEF Back
<1>5. /\ q \in [1..slots -> 0..1]
      /\ \A x \in 1..slots : q[x] = 1 <=> \E j \in 1..bars : c[j] = x
  BY <1>3, BitsType
<1>6. \A j \in 1..bars : b[j] \in 1..slots
  BY RisingType
<1>14. b[J] = i + 1
  BY <1>1, <1>6
<1>15. \A j \in J..bars : b[j] = i + 1 + (j - J)
  BY <1>14 DEF Pivot
<1>7. next_permutation(s) = r
  <2> HIDE DEF s, i, e
  <2>1. Len(t) = Len(s)
    <3>1. t \in [1..slots -> 0..1] /\ s \in Seq(0..1)
      BY <1>1, <1>2
    <3>2. Len(t) = slots /\ Len(s) = slots
      <4> HIDE DEF t
      <4> QED  BY <1>2, <3>1
    <3> QED  BY <3>2
  <2>2. next_permutation(s) = SubSeq(t, 1, i) \o Reverse(SubSeq(t, i + 1, Len(s)))
    BY <1>1 DEF next_permutation
  <2> QED  BY <2>1, <2>2
<1> HIDE DEF s, c, i, e, q
<1>8. /\ t \in [1..slots -> 0..1]
      /\ \A x \in 1..i - 1 : t[x] = s[x]
      /\ t[i] = 1 /\ t[e] = 0
      /\ \A x \in i + 1..slots : t[x] = IF x < e THEN 1 ELSE 0
  <2>1. i \in 1..slots /\ e \in 1..slots /\ i # e
    BY <1>1
  <2>2. t \in [1..slots -> 0..1] /\ \A x \in 1..slots : t[x] = IF x = e THEN 0 ELSE IF x = i THEN 1 ELSE s[x]
    BY <1>1, <1>2, <2>1
  <2> HIDE DEF t
  <2>3. \A x \in 1..i - 1 : t[x] = s[x]
    <3> TAKE x \in 1..i - 1
    <3>1. x \in 1..slots /\ x # i /\ x # e
      BY <1>1
    <3> QED  BY <2>2, <3>1
  <2>4. \A x \in i + 1..slots : t[x] = IF x < e THEN 1 ELSE 0
    <3> TAKE x \in i + 1..slots
    <3>1. x \in 1..slots /\ x # i
      BY <1>1
    <3>2. x < e => x \in i + 1..e /\ x # e
      BY <1>1
    <3>3. x > e => x \in e + 1..slots /\ x # e
      BY <1>1
    <3>4. x < e \/ x = e \/ x > e
      BY <1>1
    <3> QED  BY <1>1, <2>2, <3>1, <3>2, <3>3, <3>4
  <2> QED  BY <2>1, <2>2, <2>3, <2>4
<1> HIDE DEF t
<1>9. /\ r \in [1..slots -> 0..1]
      /\ \A x \in 1..i : r[x] = t[x]
      /\ \A x \in i + 1..slots : r[x] = t[slots + i + 1 - x]
  BY <1>1, <1>8, TailReversed
<1> HIDE DEF r
<1>10. ASSUME NEW x \in 1..slots PROVE r[x] = 1 <=> q[x] = 1
  <2>1. CASE x < i
    <3>1. r[x] = s[x]
      <4>1. x \in 1..i - 1 /\ x \in 1..i
        BY <1>1, <2>1
      <4> QED  BY <1>8, <1>9, <4>1
    <3>2. (\E j \in 1..bars : b[j] = x) <=> (\E j \in 1..bars : c[j] = x)
      <4>1. ASSUME NEW j \in 1..bars, b[j] = x PROVE c[j] = x
        <5>1. CASE j < J  BY <1>4, <4>1, <5>1
        <5>2. CASE j >= J
          <6>1. b[j] = i + 1 + (j - J)
            BY <1>1, <1>15, <5>2
          <6> QED  BY <1>1, <2>1, <4>1, <5>2, <6>1
        <5> QED  BY <1>1, <5>1, <5>2
      <4>2. ASSUME NEW j \in 1..bars, c[j] = x PROVE b[j] = x
        <5>1. CASE j < J  BY <1>4, <4>2, <5>1
        <5>2. CASE j = J  BY <1>1, <1>4, <2>1, <4>2, <5>2
        <5>3. CASE j > J
          <6>1. c[j] = slots - bars + j
            BY <1>1, <1>4, <5>3
          <6> QED  BY <1>1, <2>1, <4>2, <5>3, <6>1
        <5> QED  BY <1>1, <5>1, <5>2, <5>3
      <4> QED  BY <4>1, <4>2
    <3> QED  BY <1>2, <1>5, <3>1, <3>2
  <2>2. CASE x = i
    <3>1. c[J] = i
      BY <1>1, <1>4
    <3> QED  BY <1>1, <1>5, <1>8, <1>9, <2>2, <3>1
  <2>3. CASE x > i
    <3>1. x \in i + 1..slots /\ slots + i + 1 - x \in i + 1..slots
      BY <1>1, <2>3
    <3>2. r[x] = IF slots + i + 1 - x < e THEN 1 ELSE 0
      BY <1>8, <1>9, <3>1
    <3>3. r[x] = 1 <=> x >= slots - bars + J + 1
      <4>1. slots + i + 1 - x < e <=> x >= slots - bars + J + 1
        BY <1>1, <2>3
      <4> QED  BY <3>2, <4>1
    <3>4. ASSUME NEW j \in 1..bars, c[j] = x PROVE x >= slots - bars + J + 1
      <4>1. CASE j < J  BY <1>1, <1>3, <1>4, <1>6, <2>3, <3>4, <4>1
      <4>2. CASE j = J  BY <1>1, <1>4, <2>3, <3>4, <4>2
      <4>3. CASE j > J  BY <1>1, <1>4, <3>4, <4>3
      <4> QED  BY <1>1, <4>1, <4>2, <4>3
    <3>5. ASSUME x >= slots - bars + J + 1 PROVE \E j \in 1..bars : c[j] = x
      <4> DEFINE j == x - (slots - bars)
      <4>1. j \in 1..bars /\ j > J /\ slots - bars + j = x
        BY <1>1, <3>5
      <4>2. c[j] = x
        BY <1>1, <1>4, <4>1
      <4> QED  BY <4>1, <4>2
    <3> QED  BY <1>5, <3>3, <3>4, <3>5
  <2> QED  BY <1>1, <2>1, <2>2, <2>3
<1>11. \A x \in 1..slots : r[x] = q[x]
  <2> TAKE x \in 1..slots
  <2>1. r[x] \in 0..1 /\ q[x] \in 0..1
    BY <1>5, <1>9
  <2> QED  BY <1>10, <2>1
<1>12. r = q
  BY <1>5, <1>9, <1>11
<1> QED  BY <1>7, <1>12 DEF s, c, q

\* A step of the iterator goes back one rank.
LEMMA StepBack ==
    ASSUME NEW slots \in Nat, NEW bars \in Nat, NEW b \in Rising(slots, bars),
           Ascents(Bits(slots, b)) # {}
    PROVE  \E c \in Rising(slots, bars) :
               /\ next_permutation(Bits(slots, b)) = Bits(slots, c)
               /\ RankOf(slots, bars, c) = RankOf(slots, bars, b) - 1
<1>1. PICK J \in 1..bars : Pivot(slots, bars, b, J)
  BY PivotFound
<1>2. Back(slots, bars, b, J) \in Rising(slots, bars)
  BY <1>1, BackRises
<1> QED  BY <1>1, <1>2, BackIsNext, BackRanks

\* The bars before a slot, counted.
LEMMA OnesBefore ==
    ASSUME NEW slots \in Nat, NEW bars \in Nat, NEW b \in Rising(slots, bars),
           NEW i \in 1..slots, NEW u \in 0..bars,
           \A j \in 1..bars : b[j] < i <=> j <= u
    PROVE  Cardinality({l \in 1..i - 1 : Bits(slots, b)[l] = 1}) = u
<1> DEFINE s == Bits(slots, b)
           D == {l \in 1..i - 1 : s[l] = 1}
           f == [j \in 1..u |-> b[j]]
<1>1. /\ \A x \in 1..slots : s[x] = 1 <=> \E j \in 1..bars : b[j] = x
  BY BitsType
<1>2. /\ \A x \in 1..bars : b[x] \in 1..slots
      /\ \A x, y \in 1..bars : x < y => b[x] < b[y]
  BY RisingType
<1> HIDE DEF s
<1>3. \A j \in 1..u : j \in 1..bars /\ b[j] \in D
  <2> TAKE j \in 1..u
  <2>1. j \in 1..bars /\ j <= u
    OBVIOUS
  <2>2. b[j] \in 1..slots /\ b[j] < i
    BY <1>2, <2>1
  <2>3. b[j] \in 1..i - 1 /\ s[b[j]] = 1
    BY <1>1, <2>1, <2>2
  <2> QED  BY <2>1, <2>3
<1>4. \A x \in D : \E j \in 1..u : b[j] = x
  <2> TAKE x \in D
  <2>1. x \in 1..slots /\ s[x] = 1 /\ x < i
    OBVIOUS
  <2>2. PICK j \in 1..bars : b[j] = x
    BY <1>1, <2>1
  <2>3. j \in 1..u
    BY <2>1, <2>2
  <2> QED  BY <2>2, <2>3
<1>5. \A x, y \in 1..u : b[x] = b[y] => x = y
  <2> TAKE x, y \in 1..u
  <2>1. x \in 1..bars /\ y \in 1..bars /\ (x = y \/ x < y \/ y < x)
    OBVIOUS
  <2>2. b[x] \in 1..slots /\ b[y] \in 1..slots
    BY <1>2, <2>1
  <2> QED  BY <1>2, <2>1, <2>2
<1> HIDE DEF D
<1>6. f \in [1..u -> D] /\ \A x \in 1..u : f[x] = b[x]
  BY <1>3
<1> HIDE DEF f
<1>7. f \in Bijection(1..u, D)
  BY <1>4, <1>5, <1>6 DEF Bijection, Injection, IsInjective, Surjection
<1>8. IsFiniteSet(1..u) /\ Cardinality(1..u) = u
  <2>1. IsFiniteSet(1..u) /\ Cardinality(1..u) = IF 1 > u THEN 0 ELSE u - 1 + 1
    <3>1. 1 \in Int /\ u \in Int
      OBVIOUS
    <3> QED  BY <3>1, FS_Interval
  <2> QED  BY <2>1
<1>9. Cardinality(D) = u
  BY <1>7, <1>8, FS_Bijection DEF ExistsBijection
<1> QED  BY <1>9 DEF D, s

\* How many numbers there are strictly between two.
LEMMA BetweenWalls ==
    ASSUME NEW x \in Int, NEW y \in Int, x < y
    PROVE  Cardinality(x + 1..y - 1) = y - x - 1
<1>1. x + 1 \in Int /\ y - 1 \in Int
  OBVIOUS
<1>2. Cardinality(x + 1..y - 1) = IF x + 1 > y - 1 THEN 0 ELSE (y - 1) - (x + 1) + 1
  BY <1>1, FS_Interval
<1> QED  BY <1>2

\* The bars before a slot are the first so many.
LEMMA BarsBefore ==
    ASSUME NEW slots \in Nat, NEW bars \in Nat, NEW b \in Rising(slots, bars), NEW i \in 1..slots
    PROVE  \E u \in 0..bars : \A j \in 1..bars : b[j] < i <=> j <= u
<1> DEFINE U == {j \in 1..bars : b[j] < i}
<1>1. /\ \A x \in 1..bars : b[x] \in 1..slots
      /\ \A x, y \in 1..bars : x < y => b[x] < b[y]
  BY RisingType
<1>2. CASE U = {}
  <2>1. 0 \in 0..bars /\ \A j \in 1..bars : ~(b[j] < i) /\ ~(j <= 0)
    BY <1>2
  <2> QED  BY <2>1
<1>3. CASE U # {}
  <2>1. U \subseteq 1..bars /\ U \in SUBSET Nat
    OBVIOUS
  <2>2. IsFiniteSet(U)
    <3>1. IsFiniteSet(1..bars)
      BY FS_Interval
    <3> QED  BY <2>1, <3>1, FS_Subset
  <2>3. Max(U) \in U /\ \A x \in U : x <= Max(U)
    <3> HIDE DEF U
    <3> QED  BY <1>3, <2>1, <2>2, MaxIsIn
  <2> DEFINE u == Max(U)
  <2> HIDE DEF u
  <2>4. u \in 1..bars /\ b[u] < i /\ \A x \in 1..bars : b[x] < i => x <= u
    BY <2>3 DEF u
  <2>5. ASSUME NEW j \in 1..bars, j <= u PROVE b[j] < i
    <3>1. j = u \/ j < u
      BY <2>4, <2>5
    <3>2. b[j] \in 1..slots /\ b[u] \in 1..slots
      BY <1>1, <2>4
    <3> QED  BY <1>1, <2>4, <3>1, <3>2
  <2> QED  BY <2>4, <2>5
<1> QED  BY <1>2, <1>3

\* The slots of an urn are those between its walls.
LEMMA UrnIsBetween ==
    ASSUME NEW n \in Nat, NEW k \in Nat \ {0}, NEW b \in Rising(n + k - 1, k - 1), NEW u \in 1..k
    PROVE  LET s == Bits(n + k - 1, b)
               w == Walls(n, k, b)
           IN  /\ {i \in DOMAIN s : s[i] = 0 /\ Cardinality({j \in 1..i - 1 : s[j] = 1}) = u - 1}
                      = w[u] + 1..w[u + 1] - 1
               /\ w[u] \in Int /\ w[u + 1] \in Int /\ w[u] < w[u + 1]
<1> DEFINE slots == n + k - 1
           bars == k - 1
           s == Bits(slots, b)
           w == Walls(n, k, b)
           ones(i) == {j \in 1..i - 1 : s[j] = 1}
           Z == {i \in DOMAIN s : s[i] = 0 /\ Cardinality(ones(i)) = u - 1}
<1>1. slots \in Nat /\ bars \in Nat /\ slots = n + bars /\ k = bars + 1
  OBVIOUS
<1>2. /\ s \in [1..slots -> 0..1] /\ DOMAIN s = 1..slots
      /\ \A x \in 1..slots : s[x] = 1 <=> \E j \in 1..bars : b[j] = x
  BY <1>1, BitsType
<1>3. /\ b \in Seq(1..slots) /\ Len(b) = bars
      /\ \A x \in 1..bars : b[x] \in 1..slots
      /\ \A x, y \in 1..bars : x < y => b[x] < b[y]
  BY <1>1, RisingType
<1>4. /\ w[1] = 0 /\ w[bars + 2] = slots + 1
      /\ \A j \in 1..bars : w[j + 1] = b[j]
  <2>1. b \in Seq(Int) /\ Len(b) = k - 1
    <3>1. 1..slots \subseteq Int
      OBVIOUS
    <3> HIDE DEF slots
    <3> QED  BY <1>3, <3>1
  <2>2. w[1] = 0 /\ w[k + 1] = n + k /\ \A j \in 1..k - 1 : w[j + 1] = b[j]
    BY <2>1, WallsAre
  <2> HIDE DEF w
  <2> QED  BY <2>2
<1>5. \A i \in 1..slots : \A v \in 0..bars :
          (\A j \in 1..bars : b[j] < i <=> j <= v) => Cardinality(ones(i)) = v
  BY <1>1, OnesBefore
<1>6. \A i \in 1..slots : \E v \in 0..bars : \A j \in 1..bars : b[j] < i <=> j <= v
  BY <1>1, BarsBefore
<1>7. b \in Rising(slots, bars)
  OBVIOUS
<1> HIDE DEF s, w, ones, slots, bars
<1>8. /\ u = 1 => w[u] = 0
      /\ u # 1 => u - 1 \in 1..bars /\ w[u] = b[u - 1]
      /\ u = k => w[u + 1] = slots + 1
      /\ u # k => u \in 1..bars /\ w[u + 1] = b[u]
  <2>1. u = 1 => w[u] = 0
    BY <1>4
  <2>2. u # 1 => u - 1 \in 1..bars /\ w[u] = b[u - 1]
    <3> SUFFICES ASSUME u # 1 PROVE u - 1 \in 1..bars /\ w[u] = b[u - 1]
      OBVIOUS
    <3>1. u - 1 \in 1..bars /\ (u - 1) + 1 = u
      BY <1>1
    <3>2. w[(u - 1) + 1] = b[u - 1]
      BY <1>4, <3>1
    <3> QED  BY <3>1, <3>2
  <2>3. u = k => w[u + 1] = slots + 1
    <3> SUFFICES ASSUME u = k PROVE w[u + 1] = slots + 1
      OBVIOUS
    <3>1. u + 1 = bars + 2
      BY <1>1
    <3> QED  BY <1>4, <3>1
  <2>4. u # k => u \in 1..bars /\ w[u + 1] = b[u]
    BY <1>1, <1>4
  <2> QED  BY <2>1, <2>2, <2>3, <2>4
<1>9. w[u] \in 0..slots /\ w[u + 1] \in 1..slots + 1
  <2>1. u \in 1..bars \/ u = k
    BY <1>1
  <2>2. CASE u = 1
    BY <1>1, <1>3, <1>8, <2>1, <2>2
  <2>3. CASE u # 1
    BY <1>1, <1>3, <1>8, <2>1, <2>3
  <2> QED  BY <2>2, <2>3
<1>10. w[u] < w[u + 1]
  <2>1. CASE u = 1
    BY <1>8, <1>9, <2>1
  <2>2. CASE u = k /\ u # 1
    <3>1. w[u] \in 1..slots
      BY <1>3, <1>8, <2>2
    <3> QED  BY <1>1, <1>8, <2>2, <3>1
  <2>3. CASE u # 1 /\ u # k
    <3>1. u - 1 < u
      OBVIOUS
    <3> QED  BY <1>3, <1>8, <2>3, <3>1
  <2> QED  BY <2>1, <2>2, <2>3
<1>11. ASSUME NEW i \in w[u] + 1..w[u + 1] - 1 PROVE i \in Z
  <2>1. i \in 1..slots
    BY <1>1, <1>9
  <2>2. \A j \in 1..bars : b[j] < i <=> j <= u - 1
    <3> TAKE j \in 1..bars
    <3>1. CASE j <= u - 1
      <4>1. u # 1 /\ (j = u - 1 \/ j < u - 1)
        BY <3>1
      <4>2. b[j] \in 1..slots /\ w[u] = b[u - 1] /\ b[u - 1] \in 1..slots /\ b[j] <= b[u - 1]
        BY <1>3, <1>8, <4>1
      <4> QED  BY <1>1, <1>9, <3>1, <4>2
    <3>2. CASE ~(j <= u - 1)
      <4>1. u # k /\ (j = u \/ j > u)
        BY <1>1, <3>2
      <4>2. b[j] \in 1..slots /\ w[u + 1] = b[u] /\ b[u] \in 1..slots /\ b[u] <= b[j]
        BY <1>3, <1>8, <4>1
      <4> QED  BY <1>1, <1>9, <3>2, <4>2
    <3> QED  BY <3>1, <3>2
  <2>3. u - 1 \in 0..bars
    BY <1>1
  <2>4. Cardinality(ones(i)) = u - 1
    BY <1>5, <2>1, <2>2, <2>3
  <2>5. s[i] # 1
    <3> SUFFICES ASSUME s[i] = 1 PROVE FALSE
      OBVIOUS
    <3>1. PICK j \in 1..bars : b[j] = i
      BY <1>2, <2>1
    <3>2. ~(j <= u - 1)
      BY <2>1, <2>2, <3>1
    <3>3. u # k /\ (j = u \/ j > u)
      BY <1>1, <3>2
    <3>4. w[u + 1] = b[u] /\ b[u] \in 1..slots /\ b[u] <= b[j]
      BY <1>3, <1>8, <3>3
    <3> QED  BY <1>9, <3>1, <3>4
  <2>6. s[i] = 0
    <3>1. s[i] \in 0..1
      BY <1>2, <2>1
    <3> QED  BY <2>5, <3>1
  <2> QED  BY <1>2, <2>1, <2>4, <2>6
<1>12. ASSUME NEW i \in Z PROVE i \in w[u] + 1..w[u + 1] - 1
  <2>1. i \in 1..slots /\ s[i] = 0 /\ Cardinality(ones(i)) = u - 1
    BY <1>2
  <2>2. PICK v \in 0..bars : \A j \in 1..bars : b[j] < i <=> j <= v
    BY <1>6, <2>1
  <2>3. v = u - 1
    BY <1>5, <2>1, <2>2
  <2>4. w[u] < i
    <3>1. CASE u = 1
      BY <1>8, <2>1, <3>1
    <3>2. CASE u # 1
      <4>1. u - 1 \in 1..bars /\ w[u] = b[u - 1] /\ u - 1 <= v
        BY <1>8, <2>3, <3>2
      <4> QED  BY <2>2, <4>1
    <3> QED  BY <3>1, <3>2
  <2>5. i < w[u + 1]
    <3>1. CASE u = k
      BY <1>1, <1>8, <2>1, <3>1
    <3>2. CASE u # k
      <4>1. u \in 1..bars /\ w[u + 1] = b[u] /\ ~(u <= v)
        BY <1>8, <2>3, <3>2
      <4>2. ~(b[u] < i) /\ b[u] \in 1..slots
        BY <1>3, <2>2, <4>1
      <4>3. b[u] # i
        BY <1>2, <2>1, <4>1
      <4> QED  BY <2>1, <4>1, <4>2, <4>3
    <3> QED  BY <3>1, <3>2
  <2> QED  BY <1>9, <2>1, <2>4, <2>5
<1>13. Z = w[u] + 1..w[u + 1] - 1
  <2> HIDE DEF Z
  <2> QED  BY <1>11, <1>12
<1>14. w[u] \in Int /\ w[u + 1] \in Int
  BY <1>1, <1>9
<1> QED  BY <1>10, <1>13, <1>14 DEF s, w, ones, slots, bars

\* UpdateUrns reads off the row the same counts as unrank works out.
LEMMA UrnsAre ==
    ASSUME size \in Nat \X (Nat \ {0}), NEW b \in Rising(n_ + k_ - 1, k_ - 1)
    PROVE  Urns(Bits(n_ + k_ - 1, b)) = BinCounts(n_, k_, b)
<1> DEFINE s == Bits(n_ + k_ - 1, b)
           w == Walls(n_, k_, b)
           Z(u) == {i \in DOMAIN s : s[i] = 0 /\ Cardinality({j \in 1..i - 1 : s[j] = 1}) = u - 1}
<1>1. n_ \in Nat /\ k_ \in Nat \ {0}
  BY DEF n_, k_
<1>2. \A u \in 1..k_ : Z(u) = w[u] + 1..w[u + 1] - 1
                       /\ w[u] \in Int /\ w[u + 1] \in Int /\ w[u] < w[u + 1]
  BY <1>1, UrnIsBetween
<1>3. \A u \in 1..k_ : Cardinality(Z(u)) = w[u + 1] - w[u] - 1
  <2> HIDE DEF s, w
  <2> TAKE u \in 1..k_
  <2>1. Z(u) = w[u] + 1..w[u + 1] - 1 /\ w[u] \in Int /\ w[u + 1] \in Int /\ w[u] < w[u + 1]
    BY <1>2
  <2> HIDE DEF Z
  <2> QED  BY <2>1, BetweenWalls
<1>4. Urns(s) = [u \in 1..k_ |-> Cardinality(Z(u))]
  BY DEF Urns
<1>5. BinCounts(n_, k_, b) = [u \in 1..k_ |-> w[u + 1] - w[u] - 1]
  BY DEF BinCounts, Walls
<1> HIDE DEF s, w, Z
<1>6. [u \in 1..k_ |-> Cardinality(Z(u))] = [u \in 1..k_ |-> w[u + 1] - w[u] - 1]
  BY <1>3
<1> QED  BY <1>4, <1>5, <1>6 DEF s

\* The row the iterator begins with is that of the last rank.
First(n, k) == [j \in 1..k - 1 |-> n + j]
LEMMA FirstIsLast ==
    ASSUME NEW n \in Nat, NEW k \in Nat \ {0}
    PROVE  /\ First(n, k) \in Rising(n + k - 1, k - 1)
           /\ Bits(n + k - 1, First(n, k)) = [i \in 1..n |-> 0] \o [i \in 1..k - 1 |-> 1]
           /\ RankOf(n + k - 1, k - 1, First(n, k)) = exact_binomial(n + k - 1, k - 1) - 1
<1> DEFINE slots == n + k - 1
           bars == k - 1
           b == First(n, k)
           head == [i \in 1..n |-> 0]
           tail == [i \in 1..k - 1 |-> 1]
           g == Gaps(slots, bars, b)
<1>1. slots \in Nat /\ bars \in Nat /\ slots = n + bars
  OBVIOUS
<1>2. b \in [1..bars -> 1..slots] /\ \A j \in 1..bars : b[j] = n + j
  <2>1. \A j \in 1..bars : n + j \in 1..slots
    OBVIOUS
  <2> QED  BY <2>1 DEF First
<1>3. head \in Seq(0..1) /\ Len(head) = n /\ \A i \in 1..n : head[i] = 0
  OBVIOUS
<1>4. tail \in Seq(0..1) /\ Len(tail) = bars /\ \A i \in 1..bars : tail[i] = 1
  OBVIOUS
<1> HIDE DEF slots, bars, b, head, tail
<1>5. b \in Rising(slots, bars)
  <2>1. b \in Seq(1..slots) /\ Len(b) = bars
    BY <1>1, <1>2
  <2>2. \A i, j \in 1..bars : i < j => b[i] < b[j]
    BY <1>1, <1>2
  <2> QED  BY <2>1, <2>2 DEF Rising
<1>6. Bits(slots, b) = head \o tail
  <2>1. /\ Bits(slots, b) \in [1..slots -> 0..1]
        /\ \A x \in 1..slots : Bits(slots, b)[x] = 1 <=> \E j \in 1..bars : b[j] = x
    BY <1>1, <1>5, BitsType
  <2> DEFINE row == head \o tail
  <2>2. /\ row \in Seq(0..1) /\ Len(row) = slots
        /\ \A i \in 1..slots : row[i] = IF i <= n THEN head[i] ELSE tail[i - n]
    <3>1. /\ row \in Seq(0..1) /\ Len(row) = Len(head) + Len(tail)
          /\ \A i \in 1..Len(head) + Len(tail) :
                row[i] = IF i <= Len(head) THEN head[i] ELSE tail[i - Len(head)]
      BY <1>3, <1>4, ConcatProperties
    <3>2. Len(head) + Len(tail) = slots
      BY <1>1, <1>3, <1>4
    <3> HIDE DEF row
    <3> QED  BY <1>3, <3>1, <3>2
  <2> HIDE DEF row
  <2>3. row \in [1..slots -> 0..1]
    BY <2>2
  <2>4. \A x \in 1..slots : Bits(slots, b)[x] = row[x]
    <3> TAKE x \in 1..slots
    <3>1. CASE x <= n
      <4>1. x \in 1..n
        BY <3>1
      <4>2. row[x] = 0
        BY <1>3, <2>2, <3>1, <4>1
      <4>3. \A j \in 1..bars : b[j] # x
        BY <1>1, <1>2, <3>1
      <4>4. Bits(slots, b)[x] \in 0..1 /\ Bits(slots, b)[x] # 1
        BY <2>1, <4>3
      <4>5. Bits(slots, b)[x] = 0
        <5> DEFINE v == Bits(slots, b)[x]
        <5>1. v \in 0..1 /\ v # 1
          BY <4>4
        <5> HIDE DEF v
        <5>2. v = 0
          BY <5>1
        <5> QED  BY <5>2 DEF v
      <4> QED  BY <4>2, <4>5
    <3>2. CASE x > n
      <4>1. x - n \in 1..bars /\ n + (x - n) = x
        BY <1>1, <3>2
      <4>2. row[x] = 1
        <5>1. ~(x <= n)
          BY <3>2
        <5> QED  BY <1>4, <2>2, <4>1, <5>1
      <4>3. b[x - n] = x
        BY <1>2, <4>1
      <4>4. Bits(slots, b)[x] = 1
        BY <2>1, <4>1, <4>3
      <4> QED  BY <4>2, <4>4
    <3>3. x <= n \/ x > n
      BY <1>1
    <3> QED  BY <3>1, <3>2, <3>3
  <2>5. Bits(slots, b) = row
    <3> DEFINE q == Bits(slots, b)
    <3>1. q \in [1..slots -> 0..1] /\ \A x \in 1..slots : q[x] = row[x]
      BY <2>1, <2>4
    <3> HIDE DEF q
    <3>2. q = [x \in 1..slots |-> q[x]] /\ row = [x \in 1..slots |-> row[x]]
      BY <2>3, <3>1
    <3>3. [x \in 1..slots |-> q[x]] = [x \in 1..slots |-> row[x]]
      BY <3>1
    <3>4. q = row
      BY <3>2, <3>3
    <3> QED  BY <3>4 DEF q
  <2> QED  BY <2>5 DEF row
<1>7. RankOf(slots, bars, b) = exact_binomial(slots, bars) - 1
  <2>1. Rest(slots, bars, 1, 1) = exact_binomial(slots, bars)
    <3>1. slots - 1 + 1 = slots /\ bars - 1 + 1 = bars
      BY <1>1
    <3> QED  BY <3>1 DEF Rest
  <2>2. Len(b) = bars /\ IsFiniteSet(1..bars)
    BY <1>1, <1>5, RisingType, FS_Interval
  <2>3. CASE bars = 0
    <3>1. 1..bars = {}
      BY <2>3
    <3>2. RankOf(slots, bars, b) = 0
      BY <2>2, <3>1, SumOfNone DEF RankOf
    <3>3. Rest(slots, bars, bars + 1, 1) = 1
      BY <1>1, RestEnds
    <3> QED  BY <2>1, <2>3, <3>2, <3>3
  <2>4. CASE bars # 0
    <3>1. 1 \in 1..bars
      BY <1>1, <2>4
    <3>2. g[1] = Rest(slots, bars, 1, 1) - Rest(slots, bars, 1, n + 1)
      <4>1. b[1] = n + 1 /\ Start(b, 1 - 1) = 1
        BY <1>2, <3>1 DEF Start
      <4> QED  BY <2>2, <3>1, <4>1 DEF Gaps
    <3>3. Rest(slots, bars, 1, n + 1) = 1
      <4>1. 1 \in 1..bars + 1 /\ bars <= slots + 1 - 1 /\ slots - bars + 1 = n + 1
        BY <1>1
      <4> QED  BY <1>1, <4>1, RestOfFull
    <3>4. \A j \in (1..bars) \ {1} : g[j] = 0
      <4> TAKE j \in (1..bars) \ {1}
      <4>1. j - 1 \in 1..bars /\ j - 1 # 0 /\ j \in 1..bars
        BY <1>1
      <4>2. b[j] = b[j - 1] + 1
        BY <1>1, <1>2, <4>1
      <4>3. b[j] = Start(b, j - 1)
        BY <4>1, <4>2 DEF Start
      <4> QED  BY <1>1, <1>5, <4>1, <4>3, NoGap
    <3>5. g[1] \in Int
      <4>1. bars \in 0..bars
        BY <1>1
      <4> QED  BY <1>1, <1>5, <3>1, <4>1, GapsType
    <3> HIDE DEF g
    <3>6. SumOver(g, 1..bars) = g[1]
      BY <2>2, <3>1, <3>4, <3>5, SumOfOne
    <3> QED  BY <2>1, <2>2, <3>2, <3>3, <3>6 DEF RankOf, g
  <2> QED  BY <2>3, <2>4
<1> QED  BY <1>5, <1>6, <1>7 DEF slots, bars, b, head, tail

\* The sampler that draws straight from the slots can return every placement.
LEMMA SampledAreAll ==
    ASSUME size \in Nat \X (Nat \ {0})
    PROVE  sample_stars_and_bars = AllPlacements
<1> DEFINE slots == n_ + k_ - 1
           bars == k_ - 1
<1>1. n_ \in Nat /\ k_ \in Nat \ {0}
  BY DEF n_, k_
<1>2. slots \in Nat /\ bars \in Nat
  BY <1>1
<1> HIDE DEF slots, bars
<1>3. sampled = Rising(slots, bars)
  <2>1. ASSUME NEW b \in [1..bars -> 1..slots], \A i, j \in DOMAIN b : i < j => b[i] < b[j]
        PROVE  b \in Rising(slots, bars)
    <3>1. b \in Seq(1..slots) /\ Len(b) = bars /\ DOMAIN b = 1..bars
      BY <1>2
    <3> QED  BY <2>1, <3>1 DEF Rising
  <2>2. ASSUME NEW b \in Rising(slots, bars)
        PROVE  b \in [1..bars -> 1..slots] /\ \A i, j \in DOMAIN b : i < j => b[i] < b[j]
    <3>1. /\ b \in Seq(1..slots) /\ Len(b) = bars /\ DOMAIN b = 1..bars
          /\ \A i \in 1..bars : b[i] \in 1..slots
          /\ \A i, j \in 1..bars : i < j => b[i] < b[j]
      BY <1>2, RisingType
    <3> QED  BY <3>1
  <2>3. sampled = {b \in [1..bars -> 1..slots] : \A i, j \in DOMAIN b : i < j => b[i] < b[j]}
    BY DEF sampled, slots, bars
  <2> QED  BY <2>1, <2>2, <2>3
<1>4. \A b \in Rising(slots, bars) : BinCounts(n_, k_, b) \in Spreads(n_, k_)
  BY <1>1, SumsAreWalls DEF slots, bars
<1>5. \A bins \in Spreads(n_, k_) : \E b \in Rising(slots, bars) : BinCounts(n_, k_, b) = bins
  BY <1>1, WallsFound DEF slots, bars
<1>6. sample_stars_and_bars = {BinCounts(n_, k_, b) : b \in Rising(slots, bars)}
  BY <1>3 DEF sample_stars_and_bars
<1>7. sample_stars_and_bars = Spreads(n_, k_)
  BY <1>4, <1>5, <1>6
<1> QED  BY <1>7, AllAreSpreads

(* The iterator stands at the row of some bars, whose rank counts down with *)
(* the list.                                                               *)
At(b) ==
    /\ b \in Rising(n_ + k_ - 1, k_ - 1) /\ sequence = Bits(n_ + k_ - 1, b)
    /\ RankOf(n_ + k_ - 1, k_ - 1, b) = SpaceSize - Len(shown)
ListInv ==
    /\ size \in Nat \X (Nat \ {0})
    /\ shown \in Seq(Spreads(n_, k_)) /\ Len(shown) \in 1..SpaceSize
    /\ \A i \in DOMAIN shown : shown[i] = unrank(SpaceSize - i)
    /\ \E b \in Rising(n_ + k_ - 1, k_ - 1) : At(b)
    /\ is_end => Len(shown) = SpaceSize

\* A rank the iterator stands at is unranked to the urns of its row.
LEMMA UrnsOfRank ==
    ASSUME size \in Nat \X (Nat \ {0}), NEW b \in Rising(n_ + k_ - 1, k_ - 1)
    PROVE  LET rank == RankOf(n_ + k_ - 1, k_ - 1, b)
           IN  /\ SpaceSize \in Nat /\ rank \in 0..SpaceSize - 1
               /\ Urns(Bits(n_ + k_ - 1, b)) = unrank(rank)
               /\ Urns(Bits(n_ + k_ - 1, b)) \in Spreads(n_, k_)
<1> DEFINE slots == n_ + k_ - 1
           bars == k_ - 1
           rank == RankOf(slots, bars, b)
<1>1. n_ \in Nat /\ k_ \in Nat \ {0}
  BY DEF n_, k_
<1>2. slots \in Nat /\ bars \in Nat /\ slots - 1 + 1 = slots /\ bars - 1 + 1 = bars
  BY <1>1
<1>3. rank \in Nat /\ rank < Rest(slots, bars, 1, 1) /\ PlacedBars(slots, bars, rank) = b
  BY <1>2, RankUnranks
<1>4. SpaceSize \in Nat /\ \A r \in Ranks : unrank(r) \in Spreads(n_, k_)
  BY RanksName, AllAreSpreads
<1>5. Urns(Bits(slots, b)) = BinCounts(n_, k_, b)
  BY UrnsAre
<1> HIDE DEF rank
<1>6. Rest(slots, bars, 1, 1) = SpaceSize
  BY <1>2 DEF Rest, SpaceSize
<1>7. unrank(rank) = BinCounts(n_, k_, b)
  BY <1>3 DEF unrank
<1>8. rank \in 0..SpaceSize - 1 /\ rank \in Ranks
  BY <1>3, <1>4, <1>6 DEF Ranks
<1> QED  BY <1>4, <1>5, <1>7, <1>8 DEF rank

LEMMA InitLists == PlacementsInit => ListInv
<1> SUFFICES ASSUME PlacementsInit PROVE ListInv
  OBVIOUS
<1>1. size \in Nat \X (Nat \ {0}) /\ ~is_end /\ shown = <<Urns(sequence)>>
      /\ sequence = [i \in 1..n_ |-> 0] \o [i \in 1..k_ - 1 |-> 1]
  BY PlacementsAssumption DEF PlacementsInit
<1>2. n_ \in Nat /\ k_ \in Nat \ {0}
  BY <1>1 DEF n_, k_
<1> DEFINE b == First(n_, k_)
<1>3. /\ b \in Rising(n_ + k_ - 1, k_ - 1) /\ sequence = Bits(n_ + k_ - 1, b)
      /\ RankOf(n_ + k_ - 1, k_ - 1, b) = SpaceSize - 1
  BY <1>1, <1>2, FirstIsLast DEF SpaceSize
<1> HIDE DEF b
<1>4. /\ SpaceSize \in Nat /\ SpaceSize - 1 \in 0..SpaceSize - 1
      /\ Urns(sequence) = unrank(SpaceSize - 1) /\ Urns(sequence) \in Spreads(n_, k_)
  BY <1>1, <1>3, UrnsOfRank
<1>5. /\ shown \in Seq(Spreads(n_, k_)) /\ Len(shown) = 1 /\ DOMAIN shown = {1}
      /\ shown[1] = Urns(sequence)
  BY <1>1, <1>4
<1>6. At(b)
  BY <1>3, <1>5 DEF At
<1>7. Len(shown) \in 1..SpaceSize
  BY <1>4, <1>5
<1>8. \A i \in DOMAIN shown : shown[i] = unrank(SpaceSize - i)
  BY <1>4, <1>5
<1> QED  BY <1>1, <1>3, <1>5, <1>6, <1>7, <1>8 DEF ListInv

\* The operators of one size, before and after a step.
LEMMA SameSpace ==
    ASSUME size' = size
    PROVE  /\ n_' = n_ /\ k_' = k_ /\ SpaceSize' = SpaceSize
           /\ \A rank : unrank(rank)' = unrank(rank)
<1>1. n_' = n_ /\ k_' = k_
  BY DEF n_, k_
<1>2. SpaceSize' = SpaceSize
  BY <1>1 DEF SpaceSize
<1>3. \A rank : unrank(rank)' = unrank(rank)
  BY <1>1 DEF unrank
<1> QED  BY <1>1, <1>2, <1>3

LEMMA IncrementLists == ListInv /\ Increment => ListInv'
<1> SUFFICES ASSUME ListInv, Increment PROVE ListInv'
  OBVIOUS
<1>1. /\ size \in Nat \X (Nat \ {0})
      /\ shown \in Seq(Spreads(n_, k_)) /\ Len(shown) \in 1..SpaceSize
      /\ \A i \in DOMAIN shown : shown[i] = unrank(SpaceSize - i)
      /\ is_end => Len(shown) = SpaceSize
  BY DEF ListInv
<1>2. PICK b \in Rising(n_ + k_ - 1, k_ - 1) : At(b)
  BY DEF ListInv
<1>3. n_ \in Nat /\ k_ \in Nat \ {0} /\ n_ + k_ - 1 \in Nat /\ k_ - 1 \in Nat
  BY <1>1 DEF n_, k_
<1>4. size' = size /\ ~is_end
  BY DEF Increment
<1>5. /\ n_' = n_ /\ k_' = k_ /\ SpaceSize' = SpaceSize
      /\ \A rank : unrank(rank)' = unrank(rank)
  BY <1>4, SameSpace
<1> DEFINE slots == n_ + k_ - 1
           bars == k_ - 1
<1>6. sequence = Bits(slots, b) /\ RankOf(slots, bars, b) = SpaceSize - Len(shown)
  BY <1>2 DEF At
<1>7. SpaceSize \in Nat
  BY <1>1, RanksName
<1>8. CASE Ascents(sequence) = {}
  <2>1. is_end' = TRUE /\ UNCHANGED <<sequence, shown>>
    BY <1>8 DEF Increment
  <2>2. RankOf(slots, bars, b) = 0
    BY <1>3, <1>6, <1>8, LastHasNoRank
  <2>3. Len(shown) = SpaceSize
    BY <1>1, <1>6, <1>7, <2>2
  <2>4. At(b)'
    BY <1>2, <1>5, <2>1 DEF At
  <2>5. b \in Rising(n_' + k_' - 1, k_' - 1)
    BY <1>5
  <2>6. \E x \in Rising(n_' + k_' - 1, k_' - 1) : At(x)'
    BY <2>4, <2>5
  <2> QED  BY <1>1, <1>4, <1>5, <2>1, <2>3, <2>6 DEF ListInv
<1>9. CASE Ascents(sequence) # {}
  <2>1. sequence' = next_permutation(sequence) /\ shown' = Append(shown, Urns(sequence'))
        /\ is_end' = is_end
    BY <1>9 DEF Increment, Advanced
  <2>2. PICK c \in Rising(slots, bars) :
            /\ next_permutation(Bits(slots, b)) = Bits(slots, c)
            /\ RankOf(slots, bars, c) = RankOf(slots, bars, b) - 1
    BY <1>3, <1>6, <1>9, StepBack
  <2>3. sequence' = Bits(slots, c) /\ RankOf(slots, bars, c) = SpaceSize - (Len(shown) + 1)
    BY <1>1, <1>6, <1>7, <2>1, <2>2
  <2> DEFINE urns == Urns(Bits(slots, c))
  <2>4. Urns(sequence') = urns
    BY <2>3
  <2>5. /\ RankOf(slots, bars, c) \in 0..SpaceSize - 1
        /\ urns = unrank(RankOf(slots, bars, c)) /\ urns \in Spreads(n_, k_)
    BY <1>1, UrnsOfRank
  <2>6. urns = unrank(SpaceSize - (Len(shown) + 1)) /\ Len(shown) + 1 \in 1..SpaceSize
    BY <1>1, <1>7, <2>3, <2>5
  <2> HIDE DEF urns
  <2>8. shown' = Append(shown, urns)
    BY <2>1, <2>4
  <2>9. /\ shown' \in Seq(Spreads(n_, k_)) /\ Len(shown') = Len(shown) + 1
        /\ \A i \in 1..Len(shown) : shown'[i] = shown[i]
        /\ shown'[Len(shown) + 1] = urns /\ DOMAIN shown' = 1..Len(shown) + 1
    BY <1>1, <2>5, <2>8
  <2>10. \A i \in DOMAIN shown' : shown'[i] = unrank(SpaceSize - i)
    <3> TAKE i \in DOMAIN shown'
    <3>1. i \in 1..Len(shown) \/ i = Len(shown) + 1
      BY <1>1, <2>9
    <3>2. DOMAIN shown = 1..Len(shown)
      BY <1>1
    <3> QED  BY <1>1, <2>6, <2>9, <3>1, <3>2
  <2>11. At(c)'
    <3>1. c \in Rising(n_' + k_' - 1, k_' - 1)
      BY <1>5
    <3>2. sequence' = Bits(n_' + k_' - 1, c)
      BY <1>5, <2>3
    <3>3. RankOf(n_' + k_' - 1, k_' - 1, c) = SpaceSize' - Len(shown')
      BY <1>5, <2>3, <2>9
    <3> QED  BY <3>1, <3>2, <3>3 DEF At
  <2>12. \E x \in Rising(n_' + k_' - 1, k_' - 1) : At(x)'
    BY <1>5, <2>11
  <2>13. Len(shown') \in 1..SpaceSize'
    BY <1>5, <2>6, <2>9
  <2>14. shown' \in Seq(Spreads(n_', k_')) /\ ~is_end'
    BY <1>4, <1>5, <2>1, <2>9
  <2>15. \A i \in DOMAIN shown' : shown'[i] = (unrank(SpaceSize - i))'
    BY <1>5, <2>10 DEF unrank
  <2> QED  BY <1>1, <1>4, <2>12, <2>13, <2>14, <2>15 DEF ListInv
<1> QED  BY <1>8, <1>9

LEMMA NextLists == ListInv /\ [PlacementsNext]_placementVars => ListInv'
<1> SUFFICES ASSUME ListInv, [PlacementsNext]_placementVars PROVE ListInv'
  OBVIOUS
<1>1. CASE Increment
  BY <1>1, IncrementLists
<1>2. CASE Draw \/ UNCHANGED placementVars
  <2>1. UNCHANGED <<size, sequence, is_end, shown>>
    BY <1>2 DEF Draw, iteratorVars, placementVars
  <2>2. /\ n_' = n_ /\ k_' = k_ /\ SpaceSize' = SpaceSize
        /\ \A rank : unrank(rank)' = unrank(rank)
    BY <2>1, SameSpace
  <2>3. PICK b \in Rising(n_ + k_ - 1, k_ - 1) : At(b)
    BY DEF ListInv
  <2>4. At(b)' /\ b \in Rising(n_' + k_' - 1, k_' - 1)
    BY <2>1, <2>2, <2>3 DEF At
  <2>5. \E x \in Rising(n_' + k_' - 1, k_' - 1) : At(x)'
    BY <2>4
  <2> QED  BY <2>1, <2>2, <2>5 DEF ListInv
<1> QED  BY <1>1, <1>2 DEF PlacementsNext

LEMMA ListMeans == ListInv => ListIsRanksBackwards
<1> SUFFICES ASSUME ListInv PROVE ListIsRanksBackwards
  OBVIOUS
<1>1. sample_stars_and_bars = AllPlacements
  BY SampledAreAll DEF ListInv
<1>2. \A i \in DOMAIN shown : i <= SpaceSize /\ shown[i] = unrank(SpaceSize - i)
  <2> TAKE i \in DOMAIN shown
  <2>1. DOMAIN shown = 1..Len(shown) /\ Len(shown) \in 1..SpaceSize
    BY DEF ListInv
  <2>2. SpaceSize \in Nat
    BY RanksName DEF ListInv
  <2>3. i <= SpaceSize
    BY <2>1, <2>2
  <2> QED  BY <2>3 DEF ListInv
<1> QED  BY <1>1, <1>2 DEF ListIsRanksBackwards, ListInv

(* The list of a space shows the placements in the order of their ranks,   *)
(* backwards, and ends after rank 0; and what can be sampled from the slots*)
(* is every placement: for all n and k.                                    *)
THEOREM ListGoesBackwards == PlacementsSpec => []ListIsRanksBackwards
<1>1. PlacementsInit => ListInv
  BY InitLists
<1>2. ListInv /\ [PlacementsNext]_placementVars => ListInv'
  BY NextLists
<1>3. ListInv => ListIsRanksBackwards
  BY ListMeans
<1> QED  BY <1>1, <1>2, <1>3, PTL DEF PlacementsSpec
=============================================================================
