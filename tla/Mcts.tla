-------------------------------- MODULE Mcts --------------------------------
(***************************************************************************)
(* The tree search of game_mcts/core/mcts: MctsRunner with the two node    *)
(* pickers of mcts.inl, over any game.  One step is one call of the picker *)
(* inside select(), or the rollout and backpropagation that close an       *)
(* iteration.                                                              *)
(*                                                                         *)
(* Of a child's upper confidence bound the model keeps what decides the    *)
(* control flow: plus infinity for a won child, minus infinity for a lost  *)
(* one, a finite number otherwise, and any of the finite ones may be the   *)
(* largest.  A rollout may end any way.                                    *)
(***************************************************************************)
EXTENDS Integers, Sequences, FiniteSets, SequencesExt, FiniteSetsExt, Functions

CONSTANTS
    Players,
    Positions,      \* the states of the game
    Start,          \* the position searched from
    Legal,          \* the actions that may be taken, or rolled, in a position
    Apply,          \* apply_action
    Mover,          \* current_player(), Chance where chance acts
    Result,         \* current_state(): Ongoing, Draw, or the winner
    Sampled,        \* the positions whose proposer is a DedupSampler
    SquaredC,       \* widening_c squared, with widening_alpha at its default of 1/2
    MaxIterations,  \* bound: the iterations asked for
    MaxPath         \* bound: no path goes on once it is this long

Chance == -1
Draw == -2
Ongoing == -3

ASSUME GameAssumption ==
    /\ Start \in Positions
    /\ \A s \in Positions :
          /\ Mover[s] \in Players \cup {Chance}
          /\ Result[s] \in Players \cup {Ongoing, Draw}
          /\ Result[s] = Ongoing => Legal[s] # {}
          /\ \A a \in Legal[s] : Apply[s][a] \in Positions
ASSUME SearchAssumption ==
    SquaredC \in Nat \ {0} /\ MaxIterations \in Nat /\ MaxPath \in Nat

VARIABLES
    node_storage,   \* node_storage; index i of the code is i + 1 here
    path,           \* path: the nodes of the iteration under way
    selected,       \* select() has returned: path ends in the node to play out
    iterations      \* history: the iterations completed

vars == <<node_storage, path, selected, iterations>>

RootIndex == 1
NewNode(s) ==
    [game_state |-> s, num_visits |-> 0, total_value |-> [p \in Players |-> 0],
     untried_exhausted |-> FALSE, children |-> <<>>]

Init ==
    /\ node_storage = << NewNode(Start) >>
    /\ path = << RootIndex >>
    /\ selected = FALSE
    /\ iterations = 0

-----------------------------------------------------------------------------
(* The picker                                                              *)

Children(n) == Range(node_storage[n].children)
Tried(n) == {child.action : child \in Children(n)}
Untried(n) == Legal[node_storage[n].game_state] \ Tried(n)

\* mutant: only a win ends the descent
IsTerminal_WinsOnly(n) == Result[node_storage[n].game_state] \in Players

IsTerminal(n) == Result[node_storage[n].game_state] # Ongoing
ToMove(n) == Mover[node_storage[n].game_state]

\* children < c * sqrt(visits), or no child yet
WideningAllows(n) ==
    LET size == Len(node_storage[n].children)
    IN  size = 0 \/ size * size < SquaredC * node_storage[n].num_visits

\* compute_ucb, seen from the player who moves at the parent
\* mutant: seen from the player who would move at the child
CountsAsWin_ChildMover(n, c) == Result[node_storage[c].game_state] = ToMove(c)

CountsAsWin(n, c) == Result[node_storage[c].game_state] = ToMove(n)
CountsAsLoss(n, c) ==
    Result[node_storage[c].game_state] \in Players /\ ~CountsAsWin(n, c)

\* The loop over the children.  It stops at the first won child; it keeps its
\* initial value, the index of the root, when no child beats minus infinity.
BestChildren(n) ==
    LET inOrder == [i \in DOMAIN node_storage[n].children |-> node_storage[n].children[i].node]
        won     == SelectInSeq(inOrder, LAMBDA c : CountsAsWin(n, c))
        finite  == {c \in Range(inOrder) : ~CountsAsLoss(n, c)}
    IN  IF won # 0 THEN {inOrder[won]}
        ELSE IF finite # {} THEN finite
        ELSE {RootIndex}

Selecting(n) ==
    ~selected /\ iterations < MaxIterations /\ Len(path) < MaxPath /\ n = Last(path)

AddChild(n, a) ==
    LET child == [action |-> a, node |-> Len(node_storage) + 1]
    IN  /\ node_storage' = Append([node_storage EXCEPT ![n].children = Append(@, child)],
                                  NewNode(Apply[node_storage[n].game_state][a]))
        /\ path' = Append(path, child.node)
        /\ selected' = TRUE

StopAtTerminal(n) ==
    /\ Selecting(n)
    /\ IsTerminal(n)
    /\ selected' = TRUE
    /\ UNCHANGED <<node_storage, path, iterations>>

\* mutant: an action that has a child may be drawn again
Expand_WithReplacement(n, a) ==
    /\ Selecting(n)
    /\ ~IsTerminal(n) /\ ToMove(n) # Chance
    /\ ~node_storage[n].untried_exhausted /\ WideningAllows(n)
    /\ a \in Legal[node_storage[n].game_state]
    /\ AddChild(n, a)
    /\ UNCHANGED iterations

\* The generator draws an action that has no child yet.
Expand(n, a) ==
    /\ Selecting(n)
    /\ ~IsTerminal(n) /\ ToMove(n) # Chance
    /\ ~node_storage[n].untried_exhausted /\ WideningAllows(n)
    /\ a \in Untried(n)
    /\ AddChild(n, a)
    /\ UNCHANGED iterations

\* The generator is not asked, or has nothing left.  A DedupSampler also gives
\* up after too many repeats in a row.
Descend(n, c) ==
    /\ Selecting(n)
    /\ ~IsTerminal(n) /\ ToMove(n) # Chance
    /\ LET asked == ~node_storage[n].untried_exhausted /\ WideningAllows(n)
           gaveUp == node_storage[n].game_state \in Sampled /\ Tried(n) # {}
       IN  /\ asked => Untried(n) = {} \/ gaveUp
           /\ node_storage' = [node_storage EXCEPT ![n].untried_exhausted = @ \/ asked]
    /\ c \in BestChildren(n)
    /\ path' = Append(path, c)
    /\ UNCHANGED <<selected, iterations>>

\* sample_chance_action, and the child the outcome has or gets.
SampleChance(n, a) ==
    /\ Selecting(n)
    /\ ~IsTerminal(n) /\ ToMove(n) = Chance
    /\ a \in Legal[node_storage[n].game_state]
    /\ IF a \in Tried(n)
       THEN /\ \E child \in Children(n) : child.action = a /\ path' = Append(path, child.node)
            /\ UNCHANGED <<node_storage, selected>>
       ELSE AddChild(n, a)
    /\ UNCHANGED iterations

-----------------------------------------------------------------------------
(* Rollout and backpropagation                                             *)

Outcomes(n) == IF IsTerminal(n) THEN {Result[node_storage[n].game_state]}
                                ELSE Players \cup {Draw}
Score(outcome, p) == IF outcome = Draw THEN 0 ELSE IF outcome = p THEN 1 ELSE -1

\* mutant: the sign flips with every ply
Backpropagate_SignFlips(outcome) ==
    LET at(i) == {k \in DOMAIN path : path[k] = i}
    IN  node_storage' = [i \in DOMAIN node_storage |->
            [node_storage[i] EXCEPT
                !.num_visits = @ + Cardinality(at(i)),
                !.total_value = [p \in Players |->
                    @[p] + MapThenSumSet(LAMBDA k : IF k % 2 = 1 THEN Score(outcome, p)
                                                                 ELSE -Score(outcome, p), at(i))]]]

Backpropagate(outcome) ==
    LET times(i) == Cardinality({k \in DOMAIN path : path[k] = i})
    IN  node_storage' = [i \in DOMAIN node_storage |->
            [node_storage[i] EXCEPT
                !.num_visits = @ + times(i),
                !.total_value = [p \in Players |-> @[p] + times(i) * Score(outcome, p)]]]

\* The end of OneIteration, and path.clear() of the next one.
Simulate(outcome) ==
    /\ selected
    /\ outcome \in Outcomes(Last(path))
    /\ Backpropagate(outcome)
    /\ path' = << RootIndex >>
    /\ selected' = FALSE
    /\ iterations' = iterations + 1

\* best_action: of the root's children, the first of those visited most.  Asked
\* for when the iterations are done; a root without children is refused by an
\* assertion only.
Visits(c) == node_storage[c].num_visits
BestAction ==
    LET children == node_storage[RootIndex].children
        mostVisited(child) == \A c \in {k.node : k \in Range(children)} : Visits(child.node) >= Visits(c)
    IN  children[SelectInSeq(children, mostVisited)].action

-----------------------------------------------------------------------------
Next ==
    \/ \E n \in DOMAIN node_storage : StopAtTerminal(n)
    \/ \E n \in DOMAIN node_storage : \E a \in Legal[node_storage[n].game_state] : Expand(n, a)
    \/ \E n, c \in DOMAIN node_storage : Descend(n, c)
    \/ \E n \in DOMAIN node_storage : \E a \in Legal[node_storage[n].game_state] : SampleChance(n, a)
    \/ \E outcome \in Players \cup {Draw} : Simulate(outcome)

\* The search runs on one thread, which nothing inside it blocks.
Spec == Init /\ [][Next]_vars /\ WF_vars(Next)

-----------------------------------------------------------------------------
(* Properties                                                              *)

Idle == path = << RootIndex >> /\ ~selected
ChildNodes(n) == {child.node : child \in Children(n)}

\* node_storage is one tree: every node but the root hangs on one earlier node,
\* at the position its edge leads to, and no action of a node has two children.
\* Expansion takes the child's index from the storage's size and pushes the child
\* before it stores the node.  At every time, not only when the newest child was added,
\* a decision node has no more children than the widening limit allows.
TreeShape ==
    /\ \A n \in DOMAIN node_storage :
          /\ \A child \in Children(n) :
                /\ child.node \in n + 1 .. Len(node_storage)
                /\ child.action \in Legal[node_storage[n].game_state]
                /\ node_storage[child.node].game_state = Apply[node_storage[n].game_state][child.action]
          /\ Cardinality(Tried(n)) = Len(node_storage[n].children)
          /\ IsTerminal(n) => Children(n) = {}
          /\ LET older == Len(node_storage[n].children) - 1
             IN  ToMove(n) # Chance /\ older > 0 =>
                     older * older < SquaredC * node_storage[n].num_visits
    /\ \A m \in DOMAIN node_storage \ {RootIndex} :
          Cardinality({n \in DOMAIN node_storage : m \in ChildNodes(n)}) = 1

Visited == [n \in DOMAIN node_storage |-> node_storage[n].num_visits]
Valued(p) == [n \in DOMAIN node_storage |-> node_storage[n].total_value[p]]
RootAddsUp ==
    /\ Visited[RootIndex] = iterations
    /\ ~IsTerminal(RootIndex) => SumFunctionOnSet(Visited, ChildNodes(RootIndex)) = iterations
AddsUp(n) ==
    /\ Visited[n] >= 1
    /\ ~IsTerminal(n) =>
          /\ Visited[n] = SumFunctionOnSet(Visited, ChildNodes(n)) + 1
          /\ \E outcome \in Players \cup {Draw} : \A p \in Players :
                Valued(p)[n] = SumFunctionOnSet(Valued(p), ChildNodes(n)) + Score(outcome, p)
    /\ IsTerminal(n) => \A p \in Players :
          Valued(p)[n] = Visited[n] * Score(Result[node_storage[n].game_state], p)

\* One iteration, one visit of the root: between iterations the root has as many
\* visits as there were iterations, and its children share them.
RootCountsIterations == Idle => RootAddsUp

\* Below the root every visit is the one that made the node or was passed on to
\* a child, and the values add up the same way, so the averages UCB compares are
\* averages over the playouts that went through the node.
Conserved == Idle => \A n \in DOMAIN node_storage \ {RootIndex} : AddsUp(n)

\* A player who has found a winning move goes back to no other, and one who has
\* found that a move loses outright never goes back to it; so, given more
\* iterations than there are moves, the answer is no such move either, unless
\* every move found is one.
WinFor(n, c) == Result[node_storage[c].game_state] = ToMove(n)
LossFor(n, c) == Result[node_storage[c].game_state] \in Players \ {ToMove(n)}
DecisiveStep ==
    \A n \in DOMAIN node_storage : ToMove(n) # Chance =>
        \A c \in ChildNodes(n) :
            c \in Range(path') /\ c \notin Range(path) =>
                /\ ~LossFor(n, c)
                /\ (\E w \in ChildNodes(n) : WinFor(n, w)) => WinFor(n, c)
AnswerIsNoLoss ==
    Idle /\ iterations > Cardinality(Legal[Start]) /\ ~IsTerminal(RootIndex) =>
        \/ \A c \in ChildNodes(RootIndex) : LossFor(RootIndex, c)
        \/ Result[Apply[Start][BestAction]] \notin Players \ {ToMove(RootIndex)}
SelectionDecides == [][DecisiveStep]_vars /\ []AnswerIsNoLoss

\* select() always comes to a node to play out, so the iterations asked for are
\* all completed: in a game where nobody is forced to lose at once, see
\* RootCountsIterations.
AllIterationsComplete == <>(iterations = MaxIterations)
=============================================================================
