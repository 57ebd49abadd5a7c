# A TLA+ model of game-mcts

The repository holds a Monte-Carlo tree search for games of any number of
players (`game_mcts/core`), an implementation of Risk to play with it
(`game_mcts/games/risk`), a referee that turns policies and a Risk game into a
tournament result (`problem`, `bots`), and a web page on which a person plays
against the candidates (`web`). This directory models the parts that decide
something: the rules and their board, the result, the search and what it
proposes, the programs that play games by themselves, the threads of the
tournament, the asynchronous page, and the server of the plots.

## The system and its parts

| Component | State | Operations | Talks to |
|---|---|---|---|
| Risk rules, `risk_game.h` | board, reserves, whose turn, queued attack and defence, turn counter | place, reinforce, attack, defend, roll, fortify | called by everyone; checks nothing unless `is_valid_action` is asked first |
| Session and result, `risk_session.h`, `risk_view.h` | the rules' state, order of elimination | apply an action, roll the dice, ask for the outcome | wraps the rules; asked by the referee and by the web match |
| Tree search, `mcts.inl`, `game_traits.h` | node storage, path of the iteration | select, expand, sample chance, roll out, back up | any game through its traits; used by policies |
| Tournament, `tournament.h` | task counter, records, print mutex, threads | spawn, claim, play, print, join; schedule; standings | policies and games |
| Web match, `risk_match.cc`, `bot_wasm.cc` | a Risk game, renderer, events | place, attack, fortify, quick setup, bot step, act, snapshot | rules, result, bots; called by the page through a worker |
| Play page, `play.js`, `engine.js`, `engine_worker.js` | latest answer, `busy`, selection, awaits under way | clicks, keys, the loop of the bots' turns | two workers, by messages |
| Tournament program, `risk_tournament.cpp` | policies read, recordings in memory, files | read the config, record, write, report | `tournament.h`, the search |
| Self-play program, `risk_mcts_selfplay.cpp` | a game, counts, a recording, `g_abort` | play, pause, record, count, quit | the search, a terminal, a directory |
| Search strategies, `risk_proposer.h`, `risk_rollout_shortcuts.h`, `predict_battle_outcome*.cpp` | none; a generated table | propose actions, resolve a battle at once | the search, which plays them unchecked |
| Placements, `state_space.h`, `starts_and_bars.h` | what has been drawn; where the list stands | count, rank, list, draw | the rules' action sets, the search |
| Visualisation server, `http_server.cpp` | connections, by descriptor | select, accept, read, answer, close | browsers |
| Serialization, Python bindings | none | convert | search, rules |
| Pig, tic-tac-toe, minimax, game runner | a game each | moves | search, tests |
| Replays, rendering, fitters, build | files | format, draw, serve | people |

What is hard to get right, and to test, in each:

- **Rules.** A battle is three actions of three actors (the attacker, the
  defender, chance), each checked against the board of its own moment. Seats
  drop out in the middle of somebody else's turn. Counts are 16 bits wide:
  units saturate, reserves wrap. Correct means: no owned territory is ever
  empty, armies come and go only as the rules say, a conquest leaves its
  garrison, the dead stay dead, and there is always a legal action.
- **Result.** The round is derived from a counter that placement and play both
  move and that ticks where the seats wrap, whoever is still there. Correct
  means: every survivor has had the same number of turns when the cap cuts,
  and the places follow from the order of elimination and the board.
- **Search.** Indices into a vector that grows while it is used, infinities as
  scores of decided nodes, dice between decisions, a limit on width. Correct
  means: one tree, one descending path per iteration, statistics that add up.
- **Tournament.** Threads that share a counter, a vector and a mutex. Correct
  means: the same as if one thread had played the games in order.
- **Tournament program.** Recordings are written by all workers, side by side
  and without a lock, filled in by main and named after policies. Correct
  means: every file tells its own game, whatever the threads did and whatever
  fails afterwards.
- **Self-play.** Ctrl-C, the keyboard and the kill come anywhere, and a later
  run writes into the same directory. Correct means: no file is half a file,
  every file tells the game its name says, the counts are those of the games.
- **Strategies.** The search plays what they propose on copies of the game,
  where nothing is checked; two functions must mirror each other; odds are
  typed in by hand. Correct means: every proposal is legal, the number of
  proposals is exact, the odds are those of the dice.
- **Placements.** Ranks, lists and draws are three views of one set. Correct
  means: they agree, and a draw without replacement hands out each one once.
- **Plot server.** Requests come in pieces over several connections whose
  descriptors are reused. Correct means: one answer for each whole GET, an end
  for everyone, and ServeOnce stops when it has served.
- **Web match.** A call is a sequence of the rules' actions with decisions of
  three parties in between, and calls may come at any moment. Correct means:
  each call answers, a battle never waits for somebody who will not be asked,
  nobody moves for anybody else.
- **Page.** Several asynchronous functions of one page wait for two workers
  while the person goes on clicking. Correct means: the page shows the match
  as it is, is never locked, and always comes back to the person.

## The modules

| Module | Models | Built on |
|---|---|---|
| `RiskGame` | `risk_game.h`: the rules, one action per alternative of `RiskAction` | |
| `RiskRounds` | `Rounds()` of `risk_view.h`, with a history of the turns taken | `RiskGame` |
| `RiskSession` | `risk_session.h`, `ResultOf` and `StepRenderer` of `risk_view.h` | `RiskRounds` |
| `FiniteLemmas` | lemmas about finite sets: sums over them, their least and greatest elements, sorting them; about numbers: induction, sums in order, Pascal's triangle | |
| `RiskSessionProofs` | theorems about `RiskGame`, `RiskSession` and `RiskProposer` | `RiskSession`, `RiskProposer`, `FiniteLemmas` |
| `RiskProposer` | `risk_proposer.h`: what the search and the playouts propose, in all four variants | `RiskGame` |
| `RiskBoard` | the tables of `risk_board.h` and what is computed from them | |
| `Mcts` | `MctsRunner`, both node pickers and `best_action` of `mcts.inl` | |
| `MctsProofs` | theorems about `Mcts` | `Mcts`, `FiniteLemmas` |
| `TournamentOutcome` | what a tournament promises: games recorded in any order, then a return | |
| `Tournament` | `RunTournament` with its threads, shown to implement `TournamentOutcome` | `TournamentOutcome` |
| `RoundRobin` | `BuildRoundRobin` and the columns of `PrintStandings`, over a tournament of that schedule | `Tournament` |
| `RiskTournament` | `risk_tournament.cpp`, from its config file to its exit code | `RoundRobin` |
| `TournamentProofs` | theorems about `Tournament`, its refinement, `RiskTournament` and `RoundRobin` | `RiskTournament`, `FiniteLemmas` |
| `SelfPlay` | `risk_mcts_selfplay.cpp`, with its interrupts, kills and later runs | |
| `HttpServer` | `http_server.cpp`: `Serve` and `ServeOnce` against browsers | |
| `PartsProofs` | theorems about `SelfPlay`, about `HttpServer` and about `Placements` | these three, `FiniteLemmas` |
| `Placements` | `state_space.*` and `starts_and_bars.*`: ranks, list and draws | |
| `BattleTable` | `predict_battle_outcome*.cpp` and `risk_rollout_shortcuts.h` | |
| `BattleProofs` | theorems about `BattleTable` | `BattleTable`, `FiniteLemmas` |
| `Parts` | `SelfPlay`, `HttpServer`, `Placements`, `BattleTable` and `RiskBoard`, one at a time | these five |
| `MatchCalls` | the calls of the web match and what each may come to, of the match only whose turn it is | |
| `MatchTurns` | the web match as its callers see it: one call, one answer | `MatchCalls` |
| `RiskMatch` | `risk_match.cc` over the rules, shown to implement `MatchTurns` | `RiskSession`, `MatchTurns` |
| `RiskMatchProofs` | theorems about `RiskMatch`, with the refinement | `RiskMatch`, `RiskSessionProofs` |
| `PlayPage` | `play.js` and both workers, the match being what `MatchCalls` says | `MatchCalls` |
| `PlayPageProofs` | theorems about `PlayPage` | `PlayPage` |
| `MC*` | boards, games and schedules for the runs | the module in the name |

**RiskGame.** Variables carry the names of `RiskState`'s members. An action is
`is_valid_action` and then `apply_action_in_place`, which is what every caller
that takes actions from outside does. `PlayerAction` has its two optional
halves: reserves may be placed without an attack, an attack may ride on a
placement. `RollDice` takes every roll of the dice in use; `ResolveAttackRolls`
sorts, compares the pairs, takes the losses and moves the conquerors in.
`FortifyToMoveUnits` moves the armies, hands the turn on past the seats that
are off the board (`NextPlayer`) and counts the reinforcements. The board is a
parameter: territories, neighbours, continents, bonuses.

**RiskSession.** `SessionNext` is a step of the rules together with the
renderer's note of who was knocked out by it, which is what `OnStep` does
before the call returns. `Places` is the stable sort and the loop of `ResultOf`;
the sort is the one order of the seats in which a seat comes before those that
rank below it and before those of a higher number that rank with it (`Ahead`, `Order`).
`RiskRounds` adds one history variable, the turns each seat has ended, which
says what the round number ought to mean.

**RiskProposer.** `Proposals` is everything `sample()` may return, a set per
variant (`border`, `favorable`), and `SupportSize` is `support_size()`; both are
functions of a position of the rules, so every reachable position of the
session's run is a test of them. `Accepts` is `is_valid_action`.

**RiskBoard.** The rows as they are typed, each with its count and its array
padded as C++ pads it; a behaviour walks along the neighbour masks.

**Mcts.** A game is a table of positions. One step is one call of the picker in
`select()`, or the rollout and backpropagation that end the iteration. Of a
UCB score the model keeps whether it is plus infinity, finite or minus
infinity; among finite ones any may be the largest, so every exploration
constant and every rounding is covered. A generator of distinct actions gives
any untried one; a `DedupSampler` (positions in `Sampled`) may also give up
early, once it has given one.

**Tournament.** Each worker is a program counter with the steps between which
another thread may run: the atomic claim, the game, the print mutex, the
print and unlock, the join. Writing `records[i]` belongs to the step that plays
the game, since no other thread looks at that slot until the join; that no
two workers ever hold the same slot is the property `TaskState`.

**RoundRobin.** The schedule is the one order of the meetings that the three loops
of `BuildRoundRobin` run through (`Earlier`, `InOrder`), with the first seat changing
from game to game.

**RiskTournament.** The variables of `Tournament` are the threads; to them come
where `main` is, the policies read from the file, the moves each worker has
made in its game, the recordings and the files. `Move` is one move with its
observer: the worker appends to the slot of its task. A config is a sequence
of lines, each what `ParseConfig` tells apart; an error on any line ends the
program. Creating the directory, writing and reporting may fail.

**SelfPlay.** `stage` is where the program stands, one step per place where a
signal changes what comes next: between moves, in the thinking, in the pause,
between opening, writing and renaming a recording. `OnSigInt` sets `g_abort`
at any moment, `Kill` ends the program at any moment and leaves the disk,
`Restart` runs it again over what is there. A recording is the game it tells,
the steps and result in it, and whether its text is all there. `endings` is a
history variable: how each game of each run really ended.

**HttpServer.** One step is a call of the kernel with what the loop does on its
answer: select, accept, recv for one descriptor, and the test at the top of the
loop. Connections get the lowest free descriptor. A request is a number of
pieces up to its blank line, or a flood without one.

**Placements, BattleTable.** Algorithms as operators, with the state they keep
(the shuffle's map, the iterator's permutation) as variables. Probabilities are
whole numbers out of `One`: `Grain` says for each stage of a battle what its chance is a
multiple of, and `Exact` that nothing is ever rounded off. Such numbers exist for any finite set of
battles (powers of `6^5` in the armies left, for one); the run uses the least, since TLC's
integers have 32 bits. The dice are rolled out in `Left`, the reference, from the counts
in `Falls`; `DiceAssumption`, which TLC evaluates, says that these are the odds `get_probs` has
written out. The loops of `exact_binomial`, `unrank` and `ComputeExpectedRemnants` are recursive
functions over the turns of the loop, so that they can be proved about.

**RiskMatch.** A call is a record that says how far it has got: the reserves
(`Move`), the attack (`AttackStep`), the policy's defence (`DefendStep`), what is
settled without anybody's choice (`SettleStep`), and round again if it is a blitz
(`BlitzGoesOn`), until it answers. Each step applies one action of `RiskGame`
together with the renderer's note (`Apply`, as in the code) or decides between
two. Arguments are whatever the rules may allow or refuse; an outside decision
may be illegal. `fast_defense` is chosen at the start. The placements offered
are legal ones or none, so a refusal of the reserves comes from the latter.
`Turns` is the refinement: the call's name and the turn of the latest answer,
every other step a stutter.

**PlayPage.** JavaScript runs to completion between awaits, so one step is a
function up to its next `await`, and the functions that wait are exactly the
messages under way. The two workers answer in order. The match is abstracted
to who is to move, the stage and the number of moves: what a call may do to
the first two is `MatchCalls`, the promise `RiskMatch` is checked to keep. The person may click, press Space, end the
turn or have the page drawn again at any time the page accepts it. `march` is the box that asks for
the armies of a fortification: once open it stays through the bots' turns, and `fortifyGo`
looks at `busy` only. Which territories are clicked is left out, and with it whether a
turn's reserves are all placed, on which the end-turn button also depends.

## What the runs check

| Run | Question | Bounds |
|---|---|---|
| `RiskSession` | the rules, what the search would propose at each position, and the rounds, eliminations and places read off the game | 3 seats, 3 territories in a row, 2 armies each, dice with 2 faces, a cap of one round and play past it until the counter is 3 |
| `Mcts` | the tree, its statistics, its choices, its end | 7 positions with decisions of both players, dice, wins, losses and draws; 7 iterations, paths of 6; a third child only from the second visit (`SquaredC` is the square of the widening constant) |
| `MctsForcedLoss` | violated: see below | 6 positions, 5 iterations, paths of 10 |
| `Tournament` | the tournament program: config file, threads, schedule, recordings, standings, and the refinement | 2 policies with names that become the same file name, 3 games, 3 threads, games of up to 2 moves; good and bad config files |
| `RiskMatch` | the web match's calls and the refinement | 3 seatings with and without an outside seat and its fast defence, 3 territories, 1 army each to place, units up to 3, cap of 1 round with calls after it |
| `RiskMatchRefused` | violated: see below | the same |
| `PlayPage` | the page's overlapping awaits | every seating and both setups, 5 moves, 3 awaits |
| `PlayPageOutside` | violated: see below | 6 moves, 3 awaits |
| `Parts` | self-play, plot server, placements, battles and board, each by itself | 2 runs of 2 games of up to 2 moves; 2 browsers, requests of 2 pieces, floods of 3; draws of up to 2 armies on 3 territories, lists of up to 4 on 4; eight battles of up to 3 against 3, out of `One` = `6^10`; the whole board |
| `SelfPlayPaused` | violated: see below | 2 runs, 2 games |
| `ServeOnce` | violated: see below | 2 browsers |
| `ExpectedTable` | violated: see below | a table for up to 2 against 2 |

Why these bounds are enough to matter. Three territories in a row for three
seats is the smallest board with a conquest that eliminates, one that leaves
the third seat alone in mid-round, and one that wins; two faces keep ties,
wins and losses of each pair of dice; the requests for how many armies move
in on a conquest are the least and more than there are, so both ends of the clamp are
reached. The first game of the search gives both players wins and losses to
find, dice to repeat, and positions reached with one and with several children.
Three workers and three games let a worker finish two games, or none. Three
awaits are enough for two loops of the bots' turns to run side by side with a
call of the person. Two runs of the self-play program are enough for one to
find the other's finished, flushed and abandoned files; two browsers for one to
get the descriptor of the other; battles of three armies for the row that is
used again to be met with and without something left in it.

`Parts` runs components that share nothing as one specification, of which a
behaviour runs one and leaves the rest in a fixed state: the states add up and
do not multiply.

The bounds are constants with "bound" in their comment: `MaxTurns` (no turn ends
once the counter reaches it), `MaxIterations` and `MaxPath` (a path that comes back
to the root could grow for ever), `MaxMoves` and `MaxAwaits` of the page, `MaxGames` and `MaxRuns` of the
self-play program. `MaxUnits`, and `MaxMoves` of a tournament game,
`MovesPerGame` of self-play and `TooLarge` of the server are the code's own limits with small values.
`CHECK_DEADLOCK FALSE` appears where the system may stop: a bounded game, a
search that has done its iterations, a tournament that has returned, a finished
match. That the rules themselves never get stuck is the invariant
`NeverStuck`.

**Fairness.** `Mcts`: one thread that nothing inside it blocks, hence weak
fairness of `Next`; the choices inside, dice included, are not fair.
`Tournament`: weak fairness of every worker's steps, since the operating
system runs every thread that can run; the mutex needs no fairness of its own,
since every worker prints finitely often. `RiskTournament`: the same, and of
`main`. `SelfPlay`: weak fairness of the program's own steps; keys, signals
and kills are nobody's duty. `HttpServer`: weak fairness of the loop, which
`select` wakes when something is there; browsers owe nothing. `RiskMatch`: weak fairness of a call's
steps, which one thread takes without waiting for anyone; no call need be made,
and neither the dice nor the policies are fair. `PlayPage`: workers answer each message, the browser delivers each
answer, the presenter catches up; the person owes nothing. `PlayPage` assumes
of an outside policy that what it decides on the match as it stands is legal:
`RiskMatch::Act` has no random fallback, and a policy that offers an illegal
action for ever keeps the page asking for ever.

### What the six violated properties show

- `MctsForcedLoss`. `best_child_index` starts at 0, the root, and no score
  beats minus infinity when all children of a node are lost for its mover. The
  picker then returns the root: the iteration walks round the tree, the root
  is counted twice, and visits no longer add up to the iterations. Without dice
  in between it walks round for ever. A lost child that is the only one so far,
  where the visits do not allow a second yet, does the same. The games in the repository never
  force their mover to lose at once, so they do not meet it.
- `RiskMatchRefused`. An attack or a fortification that brings reserves places
  them first, and the rules may then refuse the rest, for example a march of
  more armies than leave one behind, or one to somebody else's territory (whether the
  two are connected the rules do not ask): the refused call has changed the
  game, which `risk_match.h` says it does not. `RefusedAtMostPlaces` of the passing
  run says that this is all a refused call ever leaves behind. The page keeps
  the armies of such a fortification in its own `placement` too, and shows them
  twice until a later answer clears it.
- `PlayPageOutside`. While the page waits for the outside seat's decision
  `busy` is false, and there are two ways to a second loop of the bots' turns
  beside the first. In TLC's trace the person ends the turn while `main()` still
  awaits the presenter after the setup: the answer starts one loop, and `main()`, when
  it goes on, another. Later in a game it takes Space while
  the outside seat thinks: Space does not look at whose turn it is, its attack is
  refused, and what follows the refusal starts the second loop. Both loops take a snapshot and both send their decision; the
  second decision is applied to a position it was not made for, if it happens
  to be legal there.
- `SelfPlayPaused`. The pause loop looks at the keyboard only. An interrupt
  during a pause sets `g_abort`, which is read after the pause; the status line
  says "Ctrl-C to quit". `q` works.
- `ServeOnce`. The loop leaves when the connection it has just accepted is
  the only event and the only client, though the comment there says it will be
  served in the next iteration. If that does not happen it never leaves, since
  the handler erases a client in the call that marks its request complete and
  the loop waits to see such a client.
- `ExpectedTable`. The generator writes a row per number of defenders and the
  lookup it writes takes the row of the attackers: the battle of two against
  one gets the outcome of one against two. The unit test compares the shortcut
  with the same lookup. `NobodyLeavesEmpty` of the passing run holds in spite of it.

## What is proved

Every module of theorems takes its constants as they come: any board, seats,
game, config and bounds that satisfy the named `ASSUME`s of the modules, which TLC
evaluates for the values of each run. Hypotheses beyond these are said below.

**The rules** (the first part of `RiskSessionProofs`). The invariant is

    IInv == TypeOK /\ Garrisoned /\ BattleConsistent /\ MoverOnBoard /\ PlacementFair

and it is needed whole: that a roll leaves the counts in their type and no
territory empty rests on the battle being consistent, that in turn on the
dice having been checked when the attack and the defence were queued, and the
garrisons of play rest on the placement leaving no territory unclaimed, which is
where the count of the placements comes in. From it follow, as step properties,
that conquests are bloodless and eliminations final, and that no state is
stuck. One lemma per action says what it preserves; the lemmas about the dice
(`TopOfThree`, `SortedPair`, the losses) and about `NextPlayer` are stated
apart.

`ArmiesAlwaysAccounted` is `ArmiesAccounted`, action by action, and has the
hypothesis `[]CountsFit`: the armies on the board and the mover's reserves fit
the 16 bits of one territory together. The rules bound neither, and a count that
saturates loses armies the property would miss. Every game that is played comes nowhere
near it.

**The session** (the second part of `RiskSessionProofs`). A step of the
session is a step of the rules and the note taken of it, by construction, so the theorems
above hold of it too. The round number counts the turns of every survivor (`RoundsAreFullRounds`).
The latter is about play; that it starts from no turns is known only from the
placements before, hence the strengthening

    TurnsInv == turns_taken \in [Players -> Nat]
                /\ (initial_placement => \A p \in Players : turns_taken[p] = 0)
                /\ RoundsAreFullRounds

which is inductive relative to `IInv` of the rules. It needs that nobody comes
back on the board and that the seats a hand-over passes are exactly those that
are off it. `CapCutsBetweenRounds` follows.

`EliminatedExactly` is inductive once `eliminated` is a sequence of seats
(`ElimInv`), since no step knocks out more than one: only a roll takes a
territory, and it takes one. `OutcomeRanksSeats` follows from `IInv` and `ElimInv`
in one state. `Before` is a strict order, so the seats can be sorted by
it (`SortedBijection` of `FiniteLemmas`); seats that rank alike stand next to each other
in the sorted order (`RunsAreLevel`); so the place a seat shares is the number of seats that
rank before it (`PlaceCountsBetter`), and places compare as ranks do.

**What the search proposes** (the end of `RiskSessionProofs`). `ProposalsAreLegal` follows from
`IInv` alone, variant by variant. What needs an argument is that there is always
something to propose: the reserves can be laid out on the pool of either
variant, since all on one territory of it is such a layout (`ReservesScatter`), and the march that closes
a turn has a source and a target among the mover's own, since a finite set has
an element that faces least and, of those, one with most armies (`ClosingMoveFound`). `SupportIsExact` counts the
proposals by a bijection with the pairs of territories they are made for.

**The web match** (`RiskMatchProofs`). `MatchInv == MatchTypes /\ ToldTrue /\ Progress`,
relative to `IInv`. `Progress` says, for each place a call may have got
to, what it has left to do: at `answer` that the answer, were it given now, is one that
`MatchTurns` allows and that the match is quiet (`Ready`); before the attack or
the march that it is still the person's turn and, once a blitz has gone
on, that the attack cannot be refused (`MoveHolds`); in the middle of a battle whose battle it is
(`BattleHolds`); while the armies are dealt out whom they are dealt for
(`SetupHolds`). `NeverAskedToDefend`, `RefusedAtMostPlaces` and `KeepsTurns`, the
safety part of the refinement, are read off it.

**The search** (`MctsProofs`), for every game, widening constant and number of iterations. The
invariant `TreeInv` says of each node what `TreeShape` says of the tree (edges
lead to later nodes and follow the rules, no action twice, nothing below a
terminal position, as wide as the visits allow) and that each node but the root
has exactly one parent, which is what makes a new node's index safe to store in
one place and not disturb another.

`SelectionDecides` is proved whole. Its steps: a score of plus infinity is a child that is won
for the mover, minus infinity one that is lost, and the best child is chosen by
that order (`DecisiveStep`). Its answer needs an invariant of its own (`AnswerInv`): the
root is the start, no lost child of it has been visited twice, and every iteration
has gone down to a child. After more iterations than there are moves some child has been
visited twice, so the most visited one is not lost. It is about searches from a position in which a player decides among finitely many
moves (`DecidesAtRoot`), the only ones for which `best_action` is defined.

`Conserved` and `RootCountsIterations` are proved for as long as no iteration comes
back to the root, `[]RootOnlyOnce`, from `PassedOn`, which says what holds in the middle of an
iteration: the path goes down, and everything adds up but the node just made. That the root
is met once per iteration is in turn proved of every game in which no action of a player leads
to a position that another has won (`NeverBackToTheRoot`, `SearchAddsUp`). This is
the exact border of the finding below: `MctsForcedLoss` is a game with such an action, and both fail in it.

**The tournament** (`TournamentProofs`), for every number of threads and tasks: `IInv == TypeOK /\
TaskState /\ OnePrinter /\ LeavesLast` is inductive, what is returned is
complete, and each step of the threads is a step of `TournamentOutcome` or
leaves it as it is (`KeepsPromise`, the safety part of the refinement). Of the
program, for every config and schedule:

    ProgramInv == IInv /\ MainInv /\ SlotsInv /\ FilesInv

`SlotsInv` is what the recordings rest on: the slot of a task is what its worker
has played so far, all of the game once its record is written, and empty before the task is
claimed; it needs `TaskState`, from `IInv`, since a slot that two workers could
hold would be two games'. `FilesInv` says of each file what its slot and its
record said when it was written. `RecordingsMatch` follows, and the program
implements `TournamentOutcome` because each of its steps is one of
`Tournament`'s or leaves that state alone.

`SeatsShared` and `StandingsAddUp` have the hypothesis `Scheduled`, that the tasks
are `BuildRoundRobin`'s, which is what `risk_tournament.cpp` passes. The schedule is a
bijection with the meetings, so counting records is counting meetings;
the standings are counted by exchanging sums (`GamesAllCounted`, `WonIsLost`).

**Self-play** (`PartsProofs`), for every number of players, games and runs. `FilesAreWhole`
needs to know what the rename is about to publish (`WholeInv`: the `.tmp` of a
recording about to be renamed has been written). `StatsMatchGames` needs that
the game about to be counted is the one that ended last (`CountInv`).
`FilesTellTheirGame` needs both and `TellInv == FilesHold /\ TmpsHold /\ Told`: the `.tmp` files tell
the truth too, those a killed run left behind included, since a later run may
rename one; and the trajectory in memory is that of the game on the board until the game is
counted, then of the game counted last.

**The plot server** (`PartsProofs`), for every number of browsers and every way of sending:
`AnswersAreDue`. The invariant says that an open connection is in the queue or
behind exactly one descriptor, never both, and that what `select` reported is
still in the table when its turn comes, which is what makes a descriptor safe
to use again. That `accept` finds a free one is the pigeonhole principle.

**The placements** (`PartsProofs`), for any number of armies and of territories:
`EachPlacementOnce`, in three stages. The loop of `exact_binomial` computes Pascal's triangle
(`BinomialIs`, `Pascal`): each product is divisible by the turn it is divided by, because
`k * C(n, k) = (n - k + 1) * C(n, k - 1)`, and a row reads the same from both
ends. With `Rest(i, x)`, the number of ways to put the bars from the `i`-th on at `x` or
later, what `unrank` skips is a difference of two of them (`SkippedIs`), so
each bar goes to exactly one position (`NextBarIs`), the rank is the sum of the gaps,
and ranks and bars in order name one another (`UnrankRanks`, `RankUnranks`); bars and
bins do so by partial sums (`SumsAreWalls`, `WallsFound`), which makes unranking
a bijection from the ranks to the placements (`UnrankIsBijection`). And the
shuffle keeps a permutation (`ShuffleInv`): `at` on the places not drawn from is
one to one, and what has been handed out is what those places do not hold.

`ListGoesBackwards` is about the list, which `std::next_permutation` steps through as a row of armies and
bars. The row's pivot is the last bar that has an army behind it somewhere; swapping the two
and reversing the tail moves that bar one place on and packs the bars behind it as closely as they
go, which changes one gap of the rank and the sum of those after it, and lowers the rank by one. The
last row is the one without a pivot, rank 0. What `Urns` reads off a row are the
lengths between bars that `unrank` computes, and the sampled rows are all the rows with their bars in
order, so the direct sampler draws from the same set.

**The battles** (`BattleProofs`), for battles and tables of any size. Give every stage of a
battle a value, and an army that is left one, such that a roll changes the value of a battle by nothing on
average and a finished battle is worth no more than the armies left (`Fair`). Then the chances in
the three rows, each times the value of its stage, and the armies counted so far are together worth at least
what the battle was worth to begin with, at every column of every row (`Kept`, `CellKeeps`, `RowKeeps`,
`WorthIsKept`). That needs that the rows hold the stages they are thought to hold: the slot of
row `a` is that of row `a - 3`, which is why it is cleared (`RowKeeps`), and no cell is written after it has been read (`Alive`);
and that no share is rounded (`Exact`). With all values 1, one side at least keeps
half an army on average, so rounding leaves an army on one side, and the shortcut one on both: `BattlesLeaveArmies`,
for the transposed lookup too. With the attackers that rolling the dice leaves as the value (`Left`, or
the defenders, and both once more with the sign turned round) it is the equality `ExpectedIsRolled`;
that `Left` is defined by its recursion at all, and is whole wherever it is divided, is `LeavesExists` and `AllAreWhole`.
The theorem takes the odds of a single roll from `DiceAssumption`: six finite counts.

**The page** (`PlayPageProofs`), for any number of seats, moves and awaits, the person's free
clicking included: `busy` is set only while a call is out whose answer clears
it, which snapshots, that leave `busy` alone, are not (`BusyIsAwaited`); and the
latest answer under way that will set the page's state tells the match's
phase (`LatestAnswerTells`), because the engine answers in order and a snapshot
moves nothing. `NeverLockedUp` and `ShowsTruth` are what is left of the two when
no message is under way.

**Finite sets and numbers** (`FiniteLemmas`). `MapThenSumSet` of the community modules is a
recursive definition; `SumExists` and `SumIsRecursion` show that it computes what it says over
any finite set, by an induction over subsets stated of a set of sets (`SubsetInduction`),
without an operator as a parameter; `NumberInduction` is the same for numbers. From them:
sums over one element more or less, of zeros, of sums, in order, bounds, and exchange
of the order of summation; and that Pascal's triangle exists up to every row and is even.
`SortedBijection`: a finite set is sorted by any strict total order on it, in one way.

**Only model-checked.**

- Liveness (`Exits`, `AllIterationsComplete`, `CallsReturn`, `TurnComesBack`, `EndIsShown`,
  `EveryRequestEnds`, the fairness of the refinements), since it needs `ENABLED`.
- `BoardIsAMap`: the board is one constant, which TLC evaluates completely. Likewise `DiceAssumption`,
  the counts of the rolls of up to five dice.
- What the six violated properties show: counterexamples are the runs'.

## What is not modelled, and why

Rendering, replays, captions, sounds and layout: no decision of the program
depends on them. ELO ratings and fitters: floating point that nothing
acts on. The probabilities with which the samplers and the proposer draw, and `DedupSampler`'s budget
of collisions: the models take any draw, and any moment to give up. Minimax
and the game runner: sequential, a screen long, without state; tic-tac-toe
and pig are games of the search's kind, tested branch by branch. Serialization
and the Python bindings convert field by field. `iterations=0` in a
tournament's config, which is not clamped as the self-play program does and
leaves `best_action` without a child to choose: `RiskTournament` takes a policy's
move as given. In the plot server, `send` on a non-blocking socket may take less than the page,
and failures of `accept` and `fcntl` close a connection at once; neither is in `HttpServer`.
Nor is an error of `select`, on which both loops break: `EveryRequestEnds` holds as long as there is
none. On the page, a worker that throws rejects the call (`engine_worker.js:44-46`), `call()` frees the
page and whoever awaited it ends, a loop of the bots' turns included: `PlayPage` takes
engines that do not throw, and `TurnComesBack` and `EndIsShown` are about those. The page playing the
person's side itself (`?autoplay=1`) is for tests.
In the search, that storing a node may move the others, so that no reference to one may be
used after it, is below the model, in which an expansion is one step; and a search in a
game with a forced loss, of which `MctsForcedLoss` shows that it may walk back to the root,
is not one that `AllIterationsComplete` is about.
In the self-play program the dumps ('s' and 'a') write files of their own
that nothing reads. The placement the person composes on the page, and with it
the armies shown twice after a refused march, is not in `PlayPage`. The referee
of `game_arena` is not in the repository. Bazel files, vendored code and the
ASCII templates hold no state.

## The plan

Done, in the order of importance: the rules, the result and its rounds, the search,
the tournament and its program, the web match, the page, self-play, the strategies,
the placements and the plot server are modelled, and every safety invariant and action property
that the runs check is proved but for the one about the constant board. What would come next:

1. `PlayPageProofs`: that a loop of the bots' turns is under way while a bot is to
   move, which needs the shape of each turn under way.
2. `PersonTurn`: the placement the person composes on the page while the march box
   is open, and what the engine has been sent of it.
