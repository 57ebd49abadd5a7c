---------------------------- MODULE RiskTournament ----------------------------
(***************************************************************************)
(* risk_tournament.cpp: the program around RunTournament.  It reads the    *)
(* policies from a config file, lets the workers play while an observer on *)
(* each game records its moves in memory, then writes one file a game, the *)
(* standings and a CSV.  Every error ends it with exit code 1 and leaves   *)
(* what it has written so far.                                             *)
(***************************************************************************)
EXTENDS RoundRobin, Functions

CONSTANTS
    Configs,        \* config files: sequences of lines, see ReadLine
    Recording       \* whether --record_games names a directory

\* Names are sequences of characters; those a file name keeps, of the ones here.
PathSafe == {"a", "b", "_", "-"}

\* Trimmed lines without comments: a section header, a key with its value, or
\* text without an equals sign.
ReadLine(read, line) ==
    IF ~read.ok THEN read
    ELSE IF line = <<"[policy]">> THEN [read EXCEPT !.sections = Append(@, <<>>)]
    ELSE IF read.sections = <<>> \/ Len(line) # 2 THEN [read EXCEPT !.ok = FALSE]
    ELSE [read EXCEPT !.sections[Len(read.sections)] = (line[1] :> line[2]) @@ @]

ParseConfig(lines) == FoldLeft(ReadLine, [ok |-> TRUE, sections |-> <<>>], lines)
Sections(lines) == ParseConfig(lines).sections

Get(params, key, fallback) == IF key \in DOMAIN params THEN params[key] ELSE fallback
Numbers == {"iterations", "widening_c", "widening_alpha", "exploration_c"}

\* MakeMctsPolicy: the rollouts' proposer attacks; only the tree's may stall.
MakesMctsPolicy(params) ==
    /\ Get(params, "proposer", "stock") \in {"stock", "border"}
    /\ Get(params, "tree_proposer", Get(params, "proposer", "stock"))
           \in {"stock", "border", "atk", "smart"}
    /\ \A key \in Numbers : Get(params, key, "1") # "word"
    /\ Get(params, "rollout", "shortcut") \in {"shortcut", "exact"}

MakesPolicy(params) ==
    /\ {"name", "type"} \subseteq DOMAIN params /\ params["name"] # <<>>
    /\ \/ params["type"] = "random"
       \/ params["type"] = "mcts" /\ MakesMctsPolicy(params)

Accepted(lines) ==
    /\ ParseConfig(lines).ok /\ Len(Sections(lines)) >= 2
    /\ \A i \in DOMAIN Sections(lines) : MakesPolicy(Sections(lines)[i])

\* main's checks before play; the directory for the recordings may not be made.
Starts(lines) ==
    IF ~Accepted(lines) THEN {"failed"} ELSE IF Recording THEN {"play", "failed"} ELSE {"play"}

\* The schedule is made for as many policies as an accepted file has.
ASSUME ConfigsAssumption ==
    /\ Recording \in BOOLEAN /\ Tasks = BuildRoundRobin
    /\ \A lines \in Configs : Accepted(lines) => Len(Sections(lines)) = NumPolicies

VARIABLES
    at,             \* where main is
    policies,       \* the parameters of each policy read
    made,           \* moves each worker has made in its game
    recordings,     \* trajectory_ of each task: moves, by task and number
    written,        \* the next recording to write
    files           \* what each file of the directory tells

programVars == <<at, policies, made, recordings, written, files>>
allVars == <<vars, programVars>>

SanitizeFilename(name) ==
    IF name = <<>> THEN <<"policy">>
    ELSE [i \in DOMAIN name |-> IF name[i] \in PathSafe THEN name[i] ELSE "_"]

\* mutant: the names alone make the file's name
FileName_NoIndex(i, a, b) == <<a, b>>
FileName(i, a, b) == <<i, a, b>>
Path(i) ==
    LET name(p) == SanitizeFilename(policies[p + 1]["name"])
    IN  FileName(i, name(Tasks[i + 1].a), name(Tasks[i + 1].b))

ProgramInit ==
    /\ Init
    /\ \E lines \in Configs :
          /\ policies = Sections(lines)
          /\ at \in Starts(lines)
    /\ made = [w \in Workers |-> 0]
    /\ recordings = [i \in TaskIds |-> <<>>]
    /\ written = 0
    /\ files = <<>>

-----------------------------------------------------------------------------
Moves(i) == IF games[i].moves <= MaxMoves THEN games[i].moves ELSE MaxMoves

\* A move of the game a worker plays; the observer the worker got for its task
\* appends it.  mutant: the slot is the worker's
Slot_OfWorker(w) == w
Slot(w) == task[w]
Move(w) ==
    /\ at = "play" /\ pc[w] = "play" /\ made[w] < Moves(task[w])
    /\ made' = [made EXCEPT ![w] = @ + 1]
    /\ recordings' = IF Recording
                     THEN [recordings EXCEPT ![Slot(w)] = Append(@, <<task[w], made[w] + 1>>)]
                     ELSE recordings
    /\ UNCHANGED <<vars, at, policies, written, files>>

\* The steps of RunTournament; a game is over when its moves are made.
WorkerStep(w) ==
    /\ at = "play" /\ pc[w] = "play" => made[w] = Moves(task[w])
    /\ at = "play" /\ Step(w)
    /\ made' = [made EXCEPT ![w] = 0]
    /\ UNCHANGED <<at, policies, recordings, written, files>>

MainStep ==
    /\ at = "play" /\ Manage
    /\ at' = IF pc'[Main] # "returned" THEN at ELSE IF Recording THEN "write" ELSE "report"
    /\ UNCHANGED <<policies, made, recordings, written, files>>

Result(record) ==
    IF record.score = 1 THEN "draw" ELSE IF record.score = 2 THEN "seat 0" ELSE "seat 1"

WriteFile ==
    /\ at = "write" /\ written < Len(Tasks)
    /\ files' = [path \in DOMAIN files \cup {Path(written)} |->
                    IF path = Path(written)
                    THEN [steps |-> recordings[written], result |-> Result(records[written])]
                    ELSE files[path]]
    /\ written' = written + 1
    /\ UNCHANGED <<vars, at, policies, made, recordings>>

\* TextFormat or the file fails: the rest, the standings and the CSV are lost.
WriteFails ==
    /\ at = "write" /\ written < Len(Tasks)
    /\ at' = "failed"
    /\ UNCHANGED <<vars, policies, made, recordings, written, files>>

WroteAll ==
    /\ at = "write" /\ written = Len(Tasks)
    /\ at' = "report"
    /\ UNCHANGED <<vars, policies, made, recordings, written, files>>

\* The standings are printed; the CSV may not open.
Report ==
    /\ at = "report"
    /\ at' \in {"exited", "failed"}
    /\ UNCHANGED <<vars, policies, made, recordings, written, files>>

AfterPlay == WriteFile \/ WriteFails \/ WroteAll \/ Report
ProgramNext == MainStep \/ AfterPlay \/ \E w \in Workers : Move(w) \/ WorkerStep(w)

\* Threads are scheduled as in RunTournament; main goes on by itself.
ProgramSpec ==
    /\ ProgramInit /\ [][ProgramNext]_allVars
    /\ WF_allVars(MainStep \/ AfterPlay)
    /\ \A w \in Workers : WF_allVars(Move(w) \/ WorkerStep(w))

-----------------------------------------------------------------------------
\* When the program succeeds every game has a file of its own, and the file has
\* that game's moves, all of them, in order and none of another game's, though
\* the workers record side by side without a lock, and the result that counts in
\* the standings; files written before a failure are right too.
RecordingsMatch ==
    /\ at = "exited" /\ Recording => Cardinality(DOMAIN files) = Len(Tasks)
    /\ \A i \in 0 .. written - 1 :
          /\ files[Path(i)].steps = [n \in 1 .. Moves(i) |-> <<i, n>>]
          /\ files[Path(i)].result = Result(Record(i))

\* The program ends.
Exits == <>(at \in {"exited", "failed"})
=============================================================================
