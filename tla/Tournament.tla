----------------------------- MODULE Tournament -----------------------------
(***************************************************************************)
(* RunTournament of game_mcts/core/mcts/tournament.h: workers that pull    *)
(* task indices from one atomic counter, play the games, write each its    *)
(* own records and print a line a game under a mutex; the calling thread   *)
(* spawns the others, works too, joins them and returns the records.       *)
(*                                                                         *)
(* The games themselves come from elsewhere: what the seed of a task makes *)
(* of its game is chosen once, at the start, and PlayGame keeps of it the  *)
(* result or, past the move cap, a draw.                                   *)
(***************************************************************************)
EXTENDS Integers, Sequences

CONSTANTS
    Tasks,          \* tasks: a sequence of [a, b]; index i of the code is i + 1
    NumThreads,     \* num_threads
    MaxMoves,       \* max_moves
    Games           \* the games there may be: [moves, result], 0 or 1 for the
                    \* seat that wins, Draw otherwise

Draw == 2
Main == 0           \* the calling thread
NumWorkers == IF NumThreads > 1 THEN NumThreads ELSE 1
Workers == 0 .. NumWorkers - 1
TaskIds == 0 .. Len(Tasks) - 1
Unlocked == -1      \* nobody holds the mutex

ASSUME TasksAssumption ==
    /\ Tasks \in Seq([a : Nat, b : Nat])
    /\ NumThreads \in Int
    /\ MaxMoves \in Nat
    /\ Games \subseteq [moves : Nat, result : {0, 1, Draw}]

VARIABLES
    games,          \* the game each task would be, by its seed
    next_task,      \* next_task
    pc,             \* where each worker is
    task,           \* i of each worker
    records,        \* records
    print_mutex,    \* who holds print_mutex
    announced       \* history: the GAME_DONE lines of each task

vars == <<games, next_task, pc, task, records, print_mutex, announced>>

\* A value-initialised MatchRecord; scores are doubled: 2 a win, 1 a draw.
NoRecord == [policy_a |-> 0, policy_b |-> 0, score |-> 0]

Init ==
    /\ games \in [TaskIds -> Games]
    /\ next_task = 0
    /\ pc = [w \in Workers |-> IF w = Main THEN "spawn" ELSE "unborn"]
    /\ task = [w \in Workers |-> 0]
    /\ records = [i \in TaskIds |-> NoRecord]
    /\ print_mutex = Unlocked
    /\ announced = [i \in TaskIds |-> 0]

-----------------------------------------------------------------------------
\* PlayGame: the loop ends on a terminal state or after MaxMoves moves, and then
\* looks at the state once more.
PlayGame(game) == IF game.moves <= MaxMoves THEN game.result ELSE Draw

Record(i) ==
    LET state == PlayGame(games[i])
    IN  [policy_a |-> Tasks[i + 1].a, policy_b |-> Tasks[i + 1].b,
         score |-> IF state = 0 THEN 2 ELSE IF state = 1 THEN 0 ELSE 1]

GoTo(w, where) == pc' = [pc EXCEPT ![w] = where]

\* The loop that starts the threads, and the calling thread's own worker().
SpawnNext(t) ==
    /\ pc[Main] = "spawn"
    /\ pc[t] = "unborn" /\ \A u \in Workers : pc[u] = "unborn" => t <= u
    /\ GoTo(t, "claim")
    /\ UNCHANGED <<games, next_task, task, records, print_mutex, announced>>

StartWorking ==
    /\ pc[Main] = "spawn"
    /\ \A t \in Workers : pc[t] # "unborn"
    /\ GoTo(Main, "claim")
    /\ UNCHANGED <<games, next_task, task, records, print_mutex, announced>>

\* mutant: the counter is read and written in two steps, so that it may be set
\* back to what another worker has already gone past
Claim_LoadThenStore(w) ==
    /\ pc[w] = "claim"
    /\ \E i \in {next_task} \cup {task[v] : v \in {v \in Workers : pc[v] = "play"}} :
          /\ next_task' = i + 1
          /\ task' = [task EXCEPT ![w] = i]
          /\ GoTo(w, IF i < Len(Tasks) THEN "play" ELSE "done")
    /\ UNCHANGED <<games, records, print_mutex, announced>>

\* next_task.fetch_add(1), and the test of the loop.
Claim(w) ==
    /\ pc[w] = "claim"
    /\ next_task' = next_task + 1
    /\ task' = [task EXCEPT ![w] = next_task]
    /\ GoTo(w, IF next_task < Len(Tasks) THEN "play" ELSE "done")
    /\ UNCHANGED <<games, records, print_mutex, announced>>

\* The game, and records[i].
Play(w) ==
    /\ pc[w] = "play"
    /\ records' = [records EXCEPT ![task[w]] = Record(task[w])]
    /\ GoTo(w, "lock")
    /\ UNCHANGED <<games, next_task, task, print_mutex, announced>>

LockPrint(w) ==
    /\ pc[w] = "lock"
    /\ print_mutex = Unlocked
    /\ print_mutex' = w
    /\ GoTo(w, "print")
    /\ UNCHANGED <<games, next_task, task, records, announced>>

\* mutant: the lock is kept
Announce_NoUnlock(w) ==
    /\ pc[w] = "print"
    /\ announced' = [announced EXCEPT ![task[w]] = @ + 1]
    /\ GoTo(w, "claim")
    /\ UNCHANGED <<games, next_task, task, records, print_mutex>>

Announce(w) ==
    /\ pc[w] = "print"
    /\ announced' = [announced EXCEPT ![task[w]] = @ + 1]
    /\ print_mutex' = Unlocked
    /\ GoTo(w, "claim")
    /\ UNCHANGED <<games, next_task, task, records>>

\* mutant: the threads are detached, nobody waits for them
Join_NoWait ==
    /\ pc[Main] = "done"
    /\ GoTo(Main, "returned")
    /\ UNCHANGED <<games, next_task, task, records, print_mutex, announced>>

\* The joins, one after another: the last of them returns when all have ended.
Join ==
    /\ pc[Main] = "done"
    /\ \A t \in Workers \ {Main} : pc[t] = "done"
    /\ GoTo(Main, "returned")
    /\ UNCHANGED <<games, next_task, task, records, print_mutex, announced>>

-----------------------------------------------------------------------------
Step(w) == Claim(w) \/ Play(w) \/ LockPrint(w) \/ Announce(w)

\* What the calling thread does besides working.
Manage == StartWorking \/ Join \/ \E t \in Workers : SpawnNext(t)

Next == Manage \/ \E w \in Workers : Step(w)

\* The operating system runs every thread that can run.  The mutex needs no
\* more: a worker asks for it once a task, so nobody is passed over for ever.
Fairness == WF_vars(Manage) /\ \A w \in Workers : WF_vars(Step(w))

Spec == Init /\ [][Next]_vars /\ Fairness

-----------------------------------------------------------------------------
(* Properties                                                              *)

OnTask(w) == pc[w] \in {"play", "lock", "print"}

\* A worker with a game to play or to report has an index into tasks and records.
TypeOK ==
    /\ games \in [TaskIds -> Games]
    /\ next_task \in Nat
    /\ pc \in [Workers -> {"spawn", "unborn", "claim", "play", "lock", "print", "done", "returned"}]
    /\ task \in [Workers -> Nat] /\ \A w \in Workers : OnTask(w) => task[w] \in TaskIds
    /\ records \in [TaskIds -> [policy_a : Nat, policy_b : Nat, score : 0 .. 2]]
    /\ print_mutex \in Workers \cup {Unlocked}
    /\ announced \in [TaskIds -> Nat]

Recorded(i) == i < next_task /\ \A w \in Workers : ~(pc[w] = "play" /\ task[w] = i)

\* No task is two workers', and one the counter has gone past is somebody's or
\* finished: its record is written and its line printed once.  Before that it
\* has neither.
TaskState ==
    /\ \A w \in Workers : OnTask(w) => task[w] < next_task
    /\ \A v, w \in Workers : OnTask(v) /\ OnTask(w) /\ task[v] = task[w] => v = w
    /\ \A i \in TaskIds :
          /\ records[i] = IF Recorded(i) THEN Record(i) ELSE NoRecord
          /\ announced[i] =
                IF i < next_task /\ \A w \in Workers : ~(OnTask(w) /\ task[w] = i) THEN 1 ELSE 0

\* One worker prints at a time, and whoever holds the mutex is printing.
OnePrinter == \A w \in Workers : pc[w] = "print" <=> print_mutex = w

\* A worker leaves only when there is nothing left to take, and RunTournament
\* returns when every worker has.
LeavesLast ==
    /\ \A w \in Workers : pc[w] \in {"done", "returned"} => next_task > Len(Tasks)
    /\ \A w \in Workers \ {Main} : pc[w] \notin {"spawn", "returned"}
    /\ pc[Main] # "unborn"
    /\ pc[Main] = "returned" => \A w \in Workers \ {Main} : pc[w] = "done"

\* The caller gets every game's record, the same whatever the number of threads
\* and however they were scheduled, and by then every line is out.
ReturnsEverything ==
    pc[Main] = "returned" => \A i \in TaskIds : records[i] = Record(i) /\ announced[i] = 1

\* RunTournament does what it promises.
Outcome == INSTANCE TournamentOutcome WITH
    Blank <- NoRecord,
    verdict <- [i \in TaskIds |-> Record(i)],
    recorded <- {i \in TaskIds : Recorded(i)},
    returned <- pc[Main] = "returned"
PromisedSafety == Outcome!Safety
=============================================================================
