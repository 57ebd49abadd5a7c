------------------------------ MODULE MctsProofs ------------------------------
(***************************************************************************)
(* The search's storage is one tree, its selection and its answer are      *)
(* decisive, and its visits and values add up unless it comes back to its  *)
(* root: for any game, widening constant and number of iterations.         *)
(***************************************************************************)
EXTENDS Mcts, FiniteLemmas, SequenceTheorems

Edges == [action : UNION {Legal[s] : s \in Positions}, node : Nat]
Nodes == [game_state : Positions, num_visits : Nat, total_value : [Players -> Int],
          untried_exhausted : BOOLEAN, children : Seq(Edges)]

TypeOK ==
    /\ node_storage \in Seq(Nodes) /\ Len(node_storage) >= 1
    /\ path \in Seq(DOMAIN node_storage) /\ Len(path) >= 1 /\ path[1] = RootIndex
    /\ selected \in BOOLEAN /\ iterations \in Nat

\* TreeShape, of one node.
EdgesLead(n) ==
    \A child \in Children(n) :
        /\ child.node \in n + 1 .. Len(node_storage)
        /\ child.action \in Legal[node_storage[n].game_state]
        /\ node_storage[child.node].game_state = Apply[node_storage[n].game_state][child.action]
TriedOnce(n) == IsFiniteSet(Tried(n)) /\ Cardinality(Tried(n)) = Len(node_storage[n].children)
EndsAtTerminal(n) == IsTerminal(n) => Children(n) = {}
Within(n) ==
    LET older == Len(node_storage[n].children) - 1
    IN  ToMove(n) # Chance /\ older > 0 => older * older < SquaredC * node_storage[n].num_visits
NodeInv(n) == EdgesLead(n) /\ TriedOnce(n) /\ EndsAtTerminal(n) /\ Within(n)

Parents(m) == {n \in DOMAIN node_storage : m \in ChildNodes(n)}
TreeInv ==
    /\ TypeOK
    /\ \A n \in DOMAIN node_storage : NodeInv(n)
    /\ \A m \in DOMAIN node_storage \ {RootIndex} : \E p \in DOMAIN node_storage : Parents(m) = {p}

-----------------------------------------------------------------------------
LEMMA NewNodeType ==
    ASSUME NEW s \in Positions
    PROVE  NewNode(s) \in Nodes
  BY DEF NewNode, Nodes

LEMMA NodeTypes ==
    ASSUME TypeOK
    PROVE  /\ Len(node_storage) \in Nat /\ DOMAIN node_storage = 1 .. Len(node_storage)
           /\ \A i \in DOMAIN node_storage :
                 /\ node_storage[i] \in Nodes
                 /\ node_storage[i].game_state \in Positions
                 /\ node_storage[i].num_visits \in Nat
                 /\ node_storage[i].children \in Seq(Edges)
<1>1. /\ Len(node_storage) \in Nat /\ DOMAIN node_storage = 1 .. Len(node_storage)
      /\ \A i \in DOMAIN node_storage : node_storage[i] \in Nodes
  BY DEF TypeOK
<1> QED
  BY <1>1 DEF Nodes

LEMMA InitTree == Init => TreeInv
<1> SUFFICES ASSUME Init PROVE TreeInv
  OBVIOUS
<1>1. Start \in Positions /\ NewNode(Start) \in Nodes
  BY GameAssumption, NewNodeType
<1>2. /\ node_storage \in Seq(Nodes) /\ Len(node_storage) = 1 /\ DOMAIN node_storage = {1}
      /\ node_storage[1] = NewNode(Start)
  BY <1>1 DEF Init
<1>3. TypeOK
  <2>1. path = <<1>> /\ 1 \in DOMAIN node_storage
    BY <1>2 DEF Init, RootIndex
  <2>2. path \in Seq(DOMAIN node_storage) /\ Len(path) = 1 /\ path[1] = 1
    BY <2>1
  <2>3. selected \in BOOLEAN /\ iterations \in Nat
    BY DEF Init
  <2> QED
    BY <1>2, <2>2, <2>3 DEF TypeOK, RootIndex
<1>4. Children(1) = {} /\ Len(node_storage[1].children) = 0
  BY <1>2 DEF Children, NewNode, Range
<1>5. NodeInv(1)
  <2>1. Tried(1) = {}
    BY <1>4 DEF Tried
  <2>2. TriedOnce(1)
    BY <1>4, <2>1, FS_EmptySet DEF TriedOnce
  <2> QED
    BY <1>4, <2>2 DEF NodeInv, EdgesLead, EndsAtTerminal, Within
<1> QED
  BY <1>2, <1>3, <1>5 DEF TreeInv, RootIndex

\* What is kept when the nodes stay, with their states and children, and lose no
\* visit.
LEMMA SameTree ==
    ASSUME TreeInv, TypeOK', Len(node_storage') = Len(node_storage),
           \A i \in DOMAIN node_storage :
              /\ node_storage'[i].game_state = node_storage[i].game_state
              /\ node_storage'[i].children = node_storage[i].children
              /\ node_storage'[i].num_visits >= node_storage[i].num_visits
    PROVE  TreeInv'
<1>1. DOMAIN node_storage' = DOMAIN node_storage /\ DOMAIN node_storage = 1 .. Len(node_storage)
  BY DEF TreeInv, TypeOK
<1>2. \A i \in DOMAIN node_storage :
         /\ Children(i)' = Children(i) /\ Tried(i)' = Tried(i) /\ ChildNodes(i)' = ChildNodes(i)
         /\ (IsTerminal(i)' <=> IsTerminal(i)) /\ ToMove(i)' = ToMove(i)
  BY <1>1 DEF Children, Tried, ChildNodes, IsTerminal, ToMove
<1>3. ASSUME NEW n \in DOMAIN node_storage PROVE NodeInv(n)'
  <2>1. NodeInv(n)
    BY DEF TreeInv
  <2>2. EdgesLead(n)'
    <3>1. \A child \in Children(n) : child.node \in DOMAIN node_storage
      BY <1>1, <2>1 DEF NodeInv, EdgesLead
    <3> QED
      BY <1>1, <1>2, <2>1, <3>1 DEF NodeInv, EdgesLead
  <2>3. TriedOnce(n)' /\ EndsAtTerminal(n)'
    BY <1>2, <2>1 DEF NodeInv, TriedOnce, EndsAtTerminal
  <2>4. Within(n)'
    <3> DEFINE older == Len(node_storage[n].children) - 1
               v == node_storage[n].num_visits
               w == node_storage'[n].num_visits
    <3>1. v \in Nat /\ w \in Nat /\ v <= w /\ older \in Int
      <4>1. v \in Nat /\ Len(node_storage[n].children) \in Nat
        BY NodeTypes DEF TreeInv
      <4>2. w \in Nat /\ v <= w
        <5>1. node_storage'[n] \in Nodes
          BY <1>1 DEF TypeOK
        <5> QED
          BY <5>1 DEF Nodes
      <4> QED
        BY <4>1, <4>2
    <3>2. SquaredC * v <= SquaredC * w
      BY <3>1, SearchAssumption
    <3>3. older * older \in Int /\ SquaredC * v \in Int /\ SquaredC * w \in Int
      BY <3>1, SearchAssumption
    <3>4. ToMove(n) # Chance /\ older > 0 => older * older < SquaredC * v
      BY <2>1 DEF NodeInv, Within
    <3>5. ToMove(n) # Chance /\ older > 0 => older * older < SquaredC * w
      BY <3>2, <3>3, <3>4
    <3>6. Len(node_storage'[n].children) - 1 = older /\ ToMove(n)' = ToMove(n)
      BY <1>2
    <3> HIDE DEF older, v, w
    <3>7. ToMove(n)' # Chance /\ Len(node_storage'[n].children) - 1 > 0 =>
              (Len(node_storage'[n].children) - 1) * (Len(node_storage'[n].children) - 1)
                  < SquaredC * w
      BY <3>5, <3>6
    <3> QED
      BY <3>7, Zenon DEF Within, w
  <2> QED
    BY <2>2, <2>3, <2>4 DEF NodeInv
<1>4. \A m : Parents(m)' = Parents(m)
  BY <1>1, <1>2 DEF Parents
<1> QED
  BY <1>1, <1>3, <1>4 DEF TreeInv

LEMMA TreeStays ==
    ASSUME TreeInv, TypeOK', UNCHANGED node_storage
    PROVE  TreeInv'
<1>1. \A i \in DOMAIN node_storage : node_storage[i].num_visits \in Nat
  BY NodeTypes DEF TreeInv
<1>2. \A i \in DOMAIN node_storage : node_storage'[i].num_visits >= node_storage[i].num_visits
  BY <1>1
<1> QED
  BY <1>2, SameTree

-----------------------------------------------------------------------------
\* A node gets a child: what node_storage holds afterwards.
LEMMA AddChildEffect ==
    ASSUME TypeOK, NEW n \in DOMAIN node_storage, NEW a \in Legal[node_storage[n].game_state],
           AddChild(n, a)
    PROVE  LET next == Len(node_storage) + 1
               child == [action |-> a, node |-> next]
               state == Apply[node_storage[n].game_state][a]
           IN  /\ node_storage' \in Seq(Nodes) /\ Len(node_storage') = next
               /\ \A i \in DOMAIN node_storage :
                     /\ node_storage'[i].game_state = node_storage[i].game_state
                     /\ node_storage'[i].num_visits = node_storage[i].num_visits
                     /\ node_storage'[i].total_value = node_storage[i].total_value
                     /\ node_storage'[i].untried_exhausted = node_storage[i].untried_exhausted
                     /\ node_storage'[i].children =
                           IF i = n THEN Append(node_storage[n].children, child)
                                    ELSE node_storage[i].children
               /\ node_storage'[next] = NewNode(state)
               /\ path' = Append(path, next) /\ child \in Edges /\ state \in Positions
<1> DEFINE next == Len(node_storage) + 1
           child == [action |-> a, node |-> next]
           state == Apply[node_storage[n].game_state][a]
           grown == [node_storage EXCEPT ![n].children = Append(@, child)]
<1>1. node_storage' = Append(grown, NewNode(state)) /\ path' = Append(path, next)
  BY DEF AddChild
<1>2. Len(node_storage) \in Nat /\ n \in 1 .. Len(node_storage) /\ node_storage[n].game_state \in Positions
  BY NodeTypes
<1>3. child \in Edges
  BY <1>2 DEF Edges
<1>4. state \in Positions /\ NewNode(state) \in Nodes
  BY <1>2, GameAssumption, NewNodeType
<1> HIDE DEF child, state
<1>5. Append(node_storage[n].children, child) \in Seq(Edges)
  BY <1>3, NodeTypes
<1>6. [node_storage[n] EXCEPT !.children = Append(@, child)] \in Nodes
  BY <1>5, NodeTypes DEF Nodes
<1>7. \A i \in DOMAIN node_storage :
         grown[i] = IF i = n THEN [node_storage[n] EXCEPT !.children = Append(@, child)]
                             ELSE node_storage[i]
  OBVIOUS
<1>8. grown \in Seq(Nodes) /\ Len(grown) = Len(node_storage)
  BY <1>6 DEF TypeOK
<1>9. \A i \in DOMAIN node_storage :
         /\ grown[i].game_state = node_storage[i].game_state
         /\ grown[i].num_visits = node_storage[i].num_visits
         /\ grown[i].total_value = node_storage[i].total_value
         /\ grown[i].untried_exhausted = node_storage[i].untried_exhausted
         /\ grown[i].children = IF i = n THEN Append(node_storage[n].children, child)
                                         ELSE node_storage[i].children
  BY <1>7, NodeTypes DEF Nodes
<1> HIDE DEF grown
<1>10. /\ node_storage' \in Seq(Nodes) /\ Len(node_storage') = next
       /\ \A i \in 1 .. Len(node_storage) : node_storage'[i] = grown[i]
       /\ node_storage'[next] = NewNode(state)
  BY <1>1, <1>2, <1>4, <1>8
<1> QED
  BY <1>1, <1>2, <1>3, <1>4, <1>9, <1>10 DEF child, state

LEMMA RangeOfAppend ==
    ASSUME NEW S, NEW s \in Seq(S), NEW e \in S
    PROVE  Range(Append(s, e)) = Range(s) \cup {e}
<1>1. /\ Append(s, e) \in Seq(S) /\ Len(Append(s, e)) = Len(s) + 1 /\ Len(s) \in Nat
      /\ \A i \in 1 .. Len(s) : Append(s, e)[i] = s[i]
      /\ Append(s, e)[Len(s) + 1] = e
  OBVIOUS
<1>2. DOMAIN Append(s, e) = 1 .. Len(s) + 1 /\ DOMAIN s = 1 .. Len(s)
  BY <1>1
<1> QED
  BY <1>1, <1>2 DEF Range

LEMMA AddChildKids ==
    ASSUME TypeOK, NEW n \in DOMAIN node_storage, NEW a \in Legal[node_storage[n].game_state],
           AddChild(n, a), NEW next, next = Len(node_storage) + 1
    PROVE  LET child == [action |-> a, node |-> next]
           IN  /\ \A i \in DOMAIN node_storage :
                     /\ Children(i)' = IF i = n THEN Children(n) \cup {child} ELSE Children(i)
                     /\ Tried(i)' = IF i = n THEN Tried(n) \cup {a} ELSE Tried(i)
                     /\ ChildNodes(i)' = IF i = n THEN ChildNodes(n) \cup {next} ELSE ChildNodes(i)
               /\ Children(next)' = {} /\ Tried(next)' = {} /\ ChildNodes(next)' = {}
<1> DEFINE child == [action |-> a, node |-> next]
           state == Apply[node_storage[n].game_state][a]
<1>1. child.action = a /\ child.node = next
  OBVIOUS
<1>2. /\ \A i \in DOMAIN node_storage :
            node_storage'[i].children = IF i = n THEN Append(node_storage[n].children, child)
                                                 ELSE node_storage[i].children
      /\ node_storage'[next] = NewNode(state) /\ child \in Edges
  BY AddChildEffect
<1> HIDE DEF child, state
<1>3. \A i \in DOMAIN node_storage :
         Children(i)' = IF i = n THEN Children(n) \cup {child} ELSE Children(i)
  <2>1. Range(Append(node_storage[n].children, child)) = Range(node_storage[n].children) \cup {child}
    BY <1>2, NodeTypes, RangeOfAppend
  <2> QED
    BY <1>2, <2>1 DEF Children
<1>4. Children(next)' = {}
  BY <1>2 DEF Children, NewNode, Range
<1>5. \A i \in DOMAIN node_storage :
         /\ Tried(i)' = IF i = n THEN Tried(n) \cup {a} ELSE Tried(i)
         /\ ChildNodes(i)' = IF i = n THEN ChildNodes(n) \cup {next} ELSE ChildNodes(i)
  BY <1>1, <1>3 DEF Tried, ChildNodes
<1>6. Tried(next)' = {} /\ ChildNodes(next)' = {}
  BY <1>4 DEF Tried, ChildNodes
<1> QED
  BY <1>3, <1>4, <1>5, <1>6 DEF child

\* The new node is nobody else's child, has none itself, and its edge is drawn
\* where the game goes.
LEMMA AddChildKeeps ==
    ASSUME TreeInv, NEW n \in DOMAIN node_storage, NEW a \in Legal[node_storage[n].game_state],
           ~IsTerminal(n), a \notin Tried(n), ToMove(n) # Chance => WideningAllows(n),
           AddChild(n, a), UNCHANGED iterations
    PROVE  TreeInv'
<1> PICK next : next = Len(node_storage) + 1
  OBVIOUS
<1> DEFINE child == [action |-> a, node |-> next]
           state == Apply[node_storage[n].game_state][a]
<1>1. TypeOK /\ NodeInv(n)
  BY DEF TreeInv
<1>2. /\ Len(node_storage) \in Nat /\ Len(node_storage) >= 1
      /\ DOMAIN node_storage = 1 .. Len(node_storage)
  BY <1>1, NodeTypes DEF TypeOK
<1>3. /\ node_storage' \in Seq(Nodes) /\ Len(node_storage') = next
      /\ \A i \in DOMAIN node_storage :
            /\ node_storage'[i].game_state = node_storage[i].game_state
            /\ node_storage'[i].num_visits = node_storage[i].num_visits
            /\ node_storage'[i].children = IF i = n THEN Append(node_storage[n].children, child)
                                                   ELSE node_storage[i].children
      /\ node_storage'[next] = NewNode(state)
      /\ path' = Append(path, next) /\ child \in Edges /\ state \in Positions
  BY <1>1, AddChildEffect
<1>4. child.action = a /\ child.node = next
  OBVIOUS
<1>5. DOMAIN node_storage' = 1 .. next /\ DOMAIN node_storage' = DOMAIN node_storage \cup {next}
  BY <1>2, <1>3
<1>6. TypeOK'
  <2>1. path \in Seq(DOMAIN node_storage')
    BY <1>1, <1>5 DEF TypeOK
  <2>2. /\ path' \in Seq(DOMAIN node_storage') /\ Len(path') >= 1 /\ path'[1] = RootIndex
    BY <2>1, <1>1, <1>3, <1>5 DEF TypeOK
  <2>3. selected' \in BOOLEAN /\ iterations' \in Nat
    BY <1>1 DEF AddChild, TypeOK
  <2> QED
    BY <1>2, <1>3, <2>2, <2>3 DEF TypeOK
<1>7. \A i \in DOMAIN node_storage :
         Children(i)' = IF i = n THEN Children(n) \cup {child} ELSE Children(i)
  BY <1>1, AddChildKids
<1>8. Children(next)' = {} /\ Len(node_storage'[next].children) = 0
  BY <1>3 DEF Children, NewNode, Range
<1>9. \A i \in DOMAIN node_storage :
         /\ Tried(i)' = IF i = n THEN Tried(n) \cup {a} ELSE Tried(i)
         /\ ChildNodes(i)' = IF i = n THEN ChildNodes(n) \cup {next} ELSE ChildNodes(i)
  BY <1>1, AddChildKids
<1>10. Tried(next)' = {} /\ ChildNodes(next)' = {}
  BY <1>1, AddChildKids
<1> HIDE DEF child, state
<1>11. \A i \in DOMAIN node_storage : (IsTerminal(i)' <=> IsTerminal(i)) /\ ToMove(i)' = ToMove(i)
  BY <1>3 DEF IsTerminal, ToMove
<1>12. \A i \in DOMAIN node_storage : EdgesLead(i)'
  <2> SUFFICES ASSUME NEW i \in DOMAIN node_storage, NEW c \in Children(i)'
               PROVE  /\ c.node \in i + 1 .. next
                      /\ c.action \in Legal[node_storage[i].game_state]
                      /\ node_storage'[c.node].game_state = Apply[node_storage[i].game_state][c.action]
    BY <1>3 DEF EdgesLead
  <2>1. CASE c \in Children(i)
    <3>1. /\ c.node \in i + 1 .. Len(node_storage)
          /\ c.action \in Legal[node_storage[i].game_state]
          /\ node_storage[c.node].game_state = Apply[node_storage[i].game_state][c.action]
      BY <2>1 DEF TreeInv, NodeInv, EdgesLead
    <3>2. c.node \in DOMAIN node_storage /\ c.node \in i + 1 .. next
      BY <1>2, <3>1
    <3> QED
      BY <1>3, <3>1, <3>2
  <2>2. CASE i = n /\ c = child
    BY <1>2, <1>3, <1>4, <2>2 DEF NewNode, state
  <2> QED
    BY <1>7, <2>1, <2>2
<1>12a. /\ Len(node_storage'[n].children) = Len(node_storage[n].children) + 1
       /\ Len(node_storage[n].children) \in Nat
  <2>1. node_storage[n].children \in Seq(Edges)
    BY <1>1, NodeTypes
  <2>2. Len(Append(node_storage[n].children, child)) = Len(node_storage[n].children) + 1
    BY <1>3, <2>1
  <2>3. node_storage'[n].children = Append(node_storage[n].children, child)
    BY <1>3
  <2> QED
    BY <2>1, <2>2, <2>3
<1>13. \A i \in DOMAIN node_storage : TriedOnce(i)'
  <2> SUFFICES ASSUME NEW i \in DOMAIN node_storage PROVE TriedOnce(i)'
    OBVIOUS
  <2>1. IsFiniteSet(Tried(i)) /\ Cardinality(Tried(i)) = Len(node_storage[i].children)
    BY DEF TreeInv, NodeInv, TriedOnce
  <2>2. CASE i = n
    <3>1. /\ IsFiniteSet(Tried(n) \cup {a})
          /\ Cardinality(Tried(n) \cup {a}) = Len(node_storage[n].children) + 1
      BY <2>1, <2>2, FS_AddElement
    <3>2. Len(node_storage'[n].children) = Len(node_storage[n].children) + 1
      BY <1>12a
    <3> QED
      BY <1>9, <2>2, <3>1, <3>2 DEF TriedOnce
  <2>3. CASE i # n
    BY <1>3, <1>9, <2>1, <2>3 DEF TriedOnce
  <2> QED
    BY <2>2, <2>3
<1>14. \A i \in DOMAIN node_storage : EndsAtTerminal(i)'
  BY <1>7, <1>11 DEF TreeInv, NodeInv, EndsAtTerminal
<1>15. \A i \in DOMAIN node_storage : Within(i)'
  <2> SUFFICES ASSUME NEW i \in DOMAIN node_storage PROVE Within(i)'
    OBVIOUS
  <2>1. CASE i = n
    <3> DEFINE older == Len(node_storage'[n].children) - 1
    <3>1. older = Len(node_storage[n].children) /\ older \in Nat
      BY <1>12a
    <3>2. node_storage'[n].num_visits = node_storage[n].num_visits /\ ToMove(n)' = ToMove(n)
      BY <1>3, <1>11
    <3> HIDE DEF older
    <3>3. ToMove(n) # Chance => older = 0 \/ older * older < SquaredC * node_storage[n].num_visits
      BY <3>1 DEF WideningAllows
    <3>4. ToMove(n)' # Chance /\ older > 0 => older * older < SquaredC * node_storage'[n].num_visits
      BY <3>1, <3>2, <3>3
    <3> QED
      BY <2>1, <3>4 DEF Within, older
  <2>2. CASE i # n
    <3>1. /\ node_storage'[i].children = node_storage[i].children
          /\ node_storage'[i].num_visits = node_storage[i].num_visits
          /\ ToMove(i)' = ToMove(i)
      BY <1>3, <1>11, <2>2
    <3> DEFINE older == Len(node_storage[i].children) - 1
    <3>2. Within(i)
      BY DEF TreeInv, NodeInv
    <3>3. ToMove(i) # Chance /\ older > 0 => older * older < SquaredC * node_storage[i].num_visits
      BY <3>2 DEF Within
    <3>4. Len(node_storage'[i].children) - 1 = older
      BY <3>1
    <3> HIDE DEF older
    <3>5. ToMove(i)' # Chance /\ Len(node_storage'[i].children) - 1 > 0 =>
              (Len(node_storage'[i].children) - 1) * (Len(node_storage'[i].children) - 1)
                  < SquaredC * node_storage'[i].num_visits
      BY <3>1, <3>3, <3>4
    <3> QED
      BY <3>5, Zenon DEF Within
  <2> QED
    BY <2>1, <2>2
<1>16. NodeInv(next)'
  <2>1. EdgesLead(next)' /\ EndsAtTerminal(next)' /\ Within(next)'
    BY <1>8 DEF EdgesLead, EndsAtTerminal, Within
  <2>2. TriedOnce(next)'
    BY <1>8, <1>10, FS_EmptySet DEF TriedOnce
  <2> QED
    BY <2>1, <2>2 DEF NodeInv
<1>17. \A m \in DOMAIN node_storage : Parents(m)' = Parents(m)
  <2> SUFFICES ASSUME NEW m \in DOMAIN node_storage PROVE Parents(m)' = Parents(m)
    OBVIOUS
  <2>1. m # next
    BY <1>2
  <2>2. \A i \in DOMAIN node_storage : m \in ChildNodes(i)' <=> m \in ChildNodes(i)
    BY <1>9, <2>1
  <2> QED
    BY <1>5, <1>10, <2>2 DEF Parents
<1>18. Parents(next)' = {n}
  <2>1. \A i \in DOMAIN node_storage : next \notin ChildNodes(i)
    <3> SUFFICES ASSUME NEW i \in DOMAIN node_storage, NEW c \in Children(i), c.node = next
                 PROVE  FALSE
      BY DEF ChildNodes
    <3>1. c.node \in i + 1 .. Len(node_storage)
      BY DEF TreeInv, NodeInv, EdgesLead
    <3> QED
      BY <1>2, <3>1
  <2> QED
    BY <1>5, <1>9, <1>10, <2>1 DEF Parents
<1>19. \A m \in DOMAIN node_storage' \ {RootIndex} : \E p \in DOMAIN node_storage' : Parents(m)' = {p}
  BY <1>5, <1>17, <1>18 DEF TreeInv
<1>20. \A i \in DOMAIN node_storage' : NodeInv(i)'
  BY <1>5, <1>12, <1>13, <1>14, <1>15, <1>16 DEF NodeInv
<1> QED
  BY <1>6, <1>19, <1>20 DEF TreeInv

\* The path goes on inside the tree.
LEMMA PathGoesOn ==
    ASSUME TypeOK, NEW c \in DOMAIN node_storage
    PROVE  LET longer == Append(path, c)
           IN  /\ longer \in Seq(DOMAIN node_storage) /\ Len(longer) >= 1
               /\ longer[1] = RootIndex
  BY DEF TypeOK

LEMMA DescendKeeps ==
    ASSUME TreeInv, NEW n \in DOMAIN node_storage, NEW c \in DOMAIN node_storage, Descend(n, c)
    PROVE  TreeInv'
<1>1. TypeOK
  BY DEF TreeInv
<1>2. PICK exhausted \in BOOLEAN :
         node_storage' = [node_storage EXCEPT ![n].untried_exhausted = exhausted]
  <2> DEFINE asked == ~node_storage[n].untried_exhausted /\ WideningAllows(n)
             exhausted == node_storage[n].untried_exhausted \/ asked
  <2>1. node_storage' = [node_storage EXCEPT ![n].untried_exhausted = exhausted]
    BY DEF Descend
  <2>2. exhausted \in BOOLEAN
    OBVIOUS
  <2> HIDE DEF exhausted
  <2> QED
    BY <2>1, <2>2
<1>3. [node_storage[n] EXCEPT !.untried_exhausted = exhausted] \in Nodes
  BY <1>1, NodeTypes DEF Nodes
<1>4. node_storage' \in Seq(Nodes) /\ Len(node_storage') = Len(node_storage)
  BY <1>1, <1>2, <1>3 DEF TypeOK
<1>5. \A i \in DOMAIN node_storage :
         /\ node_storage'[i].game_state = node_storage[i].game_state
         /\ node_storage'[i].children = node_storage[i].children
         /\ node_storage'[i].num_visits = node_storage[i].num_visits
  <2> SUFFICES ASSUME NEW i \in DOMAIN node_storage
               PROVE  /\ node_storage'[i].game_state = node_storage[i].game_state
                      /\ node_storage'[i].children = node_storage[i].children
                      /\ node_storage'[i].num_visits = node_storage[i].num_visits
    OBVIOUS
  <2>1. node_storage[i] \in Nodes
    BY <1>1, NodeTypes
  <2> QED
    BY <1>2, <2>1 DEF Nodes
<1>6. DOMAIN node_storage' = DOMAIN node_storage
  BY <1>2
<1>7. TypeOK'
  BY <1>1, <1>4, <1>6, PathGoesOn DEF TypeOK, Descend
<1>8. \A i \in DOMAIN node_storage : node_storage'[i].num_visits >= node_storage[i].num_visits
  BY <1>1, <1>5, NodeTypes
<1> QED
  BY <1>4, <1>5, <1>7, <1>8, SameTree

Times(i) == Cardinality({k \in DOMAIN path : path[k] = i})

\* Backpropagation counts a node up by the times it is on the path.
LEMMA BackpropagateEffect ==
    ASSUME TypeOK, NEW outcome \in Players \cup {Draw}, Simulate(outcome)
    PROVE  /\ node_storage' \in Seq(Nodes) /\ Len(node_storage') = Len(node_storage)
           /\ \A i \in DOMAIN node_storage :
                 /\ Times(i) \in Nat
                 /\ node_storage'[i].game_state = node_storage[i].game_state
                 /\ node_storage'[i].children = node_storage[i].children
                 /\ node_storage'[i].untried_exhausted = node_storage[i].untried_exhausted
                 /\ node_storage'[i].num_visits = node_storage[i].num_visits + Times(i)
                 /\ \A p \in Players : node_storage'[i].total_value[p] =
                       node_storage[i].total_value[p] + Times(i) * Score(outcome, p)
<1> DEFINE values(i) == [p \in Players |-> node_storage[i].total_value[p]
                                             + Times(i) * Score(outcome, p)]
           backed(i) == [node_storage[i] EXCEPT !.num_visits = @ + Times(i),
                                                !.total_value = values(i)]
<1>2. node_storage' = [i \in DOMAIN node_storage |-> backed(i)]
  BY DEF Simulate, Backpropagate, Times
<1>3. ASSUME NEW i \in DOMAIN node_storage
      PROVE  /\ backed(i) \in Nodes /\ Times(i) \in Nat
             /\ backed(i).game_state = node_storage[i].game_state
             /\ backed(i).children = node_storage[i].children
             /\ backed(i).untried_exhausted = node_storage[i].untried_exhausted
             /\ backed(i).num_visits = node_storage[i].num_visits + Times(i)
             /\ backed(i).total_value = values(i)
  <2>1. Times(i) \in Nat
    <3>1. DOMAIN path = 1 .. Len(path) /\ Len(path) \in Int
      BY DEF TypeOK
    <3>2. IsFiniteSet(DOMAIN path)
      BY <3>1, FS_Interval
    <3>3. IsFiniteSet({k \in DOMAIN path : path[k] = i})
      BY <3>2, FS_Subset
    <3> QED
      BY <3>3, FS_CardinalityType DEF Times
  <2>2. node_storage[i] \in Nodes
    BY NodeTypes
  <2>3. \A p \in Players : Times(i) * Score(outcome, p) \in Int
    BY <2>1 DEF Score
  <2>4. values(i) \in [Players -> Int]
    BY <2>2, <2>3 DEF Nodes
  <2> HIDE DEF values
  <2> DEFINE visited == [node_storage[i] EXCEPT !.num_visits = @ + Times(i)]
  <2>5. node_storage[i].num_visits + Times(i) \in Nat
    BY <2>1, <2>2 DEF Nodes
  <2>6. /\ visited \in Nodes /\ visited.game_state = node_storage[i].game_state
        /\ visited.children = node_storage[i].children
        /\ visited.untried_exhausted = node_storage[i].untried_exhausted
        /\ visited.num_visits = node_storage[i].num_visits + Times(i)
    BY <2>2, <2>5 DEF Nodes
  <2>7. backed(i) = [visited EXCEPT !.total_value = values(i)]
    OBVIOUS
  <2> HIDE DEF visited
  <2> HIDE DEF backed
  <2>8. /\ backed(i) \in Nodes /\ backed(i).game_state = visited.game_state
        /\ backed(i).children = visited.children /\ backed(i).num_visits = visited.num_visits
        /\ backed(i).untried_exhausted = visited.untried_exhausted
        /\ backed(i).total_value = values(i)
    BY <2>4, <2>6, <2>7 DEF Nodes
  <2> QED
    BY <2>1, <2>6, <2>8
<1> HIDE DEF backed
<1>4. node_storage' \in Seq(Nodes) /\ Len(node_storage') = Len(node_storage)
  <2>1. DOMAIN node_storage = 1 .. Len(node_storage) /\ Len(node_storage) \in Nat
    BY NodeTypes
  <2>2. node_storage' = [i \in 1 .. Len(node_storage) |-> backed(i)]
    BY <1>2, <2>1
  <2>3. \A i \in 1 .. Len(node_storage) : backed(i) \in Nodes
    BY <1>3, <2>1
  <2> HIDE DEF values
  <2>4. node_storage' \in Seq(Nodes)
    BY <2>1, <2>2, <2>3
  <2>5. DOMAIN node_storage' = 1 .. Len(node_storage)
    BY <2>2
  <2> QED
    BY <2>1, <2>4, <2>5
<1>5. \A i \in DOMAIN node_storage : node_storage'[i] = backed(i)
  BY <1>2
<1>6. \A i : \A p \in Players :
         values(i)[p] = node_storage[i].total_value[p] + Times(i) * Score(outcome, p)
  OBVIOUS
<1> HIDE DEF values
<1> QED
  BY <1>3, <1>4, <1>5, <1>6

\* So it only counts up.
LEMMA SimulateKeeps ==
    ASSUME TreeInv, NEW outcome \in Players \cup {Draw}, Simulate(outcome)
    PROVE  TreeInv'
<1>1. TypeOK
  BY DEF TreeInv
<1>2. /\ node_storage' \in Seq(Nodes) /\ Len(node_storage') = Len(node_storage)
      /\ \A i \in DOMAIN node_storage :
            /\ node_storage'[i].game_state = node_storage[i].game_state
            /\ node_storage'[i].children = node_storage[i].children
            /\ node_storage'[i].num_visits = node_storage[i].num_visits + Times(i)
            /\ Times(i) \in Nat
  BY <1>1, BackpropagateEffect
<1>3. \A i \in DOMAIN node_storage : node_storage'[i].num_visits >= node_storage[i].num_visits
  <2> TAKE i \in DOMAIN node_storage
  <2>1. node_storage[i].num_visits \in Nat /\ Times(i) \in Nat
    BY <1>1, <1>2, NodeTypes
  <2> QED
    BY <1>2, <2>1
<1>4. DOMAIN node_storage' = DOMAIN node_storage
  <2>1. DOMAIN node_storage' = 1 .. Len(node_storage')
    BY <1>2
  <2> QED
    BY <1>1, <1>2, <2>1, NodeTypes
<1>5. TypeOK'
  <2>1. 1 \in DOMAIN node_storage'
    BY <1>1, <1>4, NodeTypes DEF TypeOK
  <2>2. path' \in Seq(DOMAIN node_storage') /\ Len(path') >= 1 /\ path'[1] = RootIndex
    <3>1. path' = <<1>>
      BY DEF Simulate, RootIndex
    <3> QED
      BY <2>1, <3>1 DEF RootIndex
  <2>3. selected' \in BOOLEAN /\ iterations' \in Nat
    <3>1. selected' = FALSE /\ iterations' = iterations + 1
      BY DEF Simulate
    <3>2. iterations \in Nat
      BY <1>1 DEF TypeOK
    <3>3. selected' \in BOOLEAN
      BY <3>1, Zenon
    <3>4. iterations' \in Nat
      BY <3>1, <3>2
    <3> QED
      BY <3>3, <3>4
  <2> QED
    BY <1>1, <1>2, <2>2, <2>3 DEF TypeOK
<1> QED
  BY <1>2, <1>3, <1>5, SameTree

LEMMA SampleChanceKeeps ==
    ASSUME TreeInv, NEW n \in DOMAIN node_storage, NEW a \in Legal[node_storage[n].game_state],
           SampleChance(n, a)
    PROVE  TreeInv'
<1>1. TypeOK /\ NodeInv(n)
  BY DEF TreeInv
<1>2. CASE a \in Tried(n)
  <2>1. PICK child \in Children(n) : path' = Append(path, child.node)
    BY <1>2 DEF SampleChance
  <2>2. UNCHANGED <<node_storage, selected, iterations>>
    BY <1>2 DEF SampleChance
  <2>3. child.node \in DOMAIN node_storage
    BY <1>1, NodeTypes DEF NodeInv, EdgesLead
  <2>4. TypeOK'
    BY <1>1, <2>1, <2>2, <2>3, PathGoesOn DEF TypeOK
  <2> QED
    BY <2>2, <2>4, TreeStays
<1>3. CASE a \notin Tried(n)
  BY <1>3, AddChildKeeps DEF SampleChance
<1> QED
  BY <1>2, <1>3

LEMMA NextTree == TreeInv /\ [Next]_vars => TreeInv'
<1> SUFFICES ASSUME TreeInv, [Next]_vars PROVE TreeInv'
  OBVIOUS
<1>1. ASSUME NEW n \in DOMAIN node_storage, StopAtTerminal(n) \/ UNCHANGED vars PROVE TreeInv'
  <2>1. UNCHANGED <<node_storage, path, iterations>> /\ selected' \in BOOLEAN
    BY <1>1 DEF StopAtTerminal, vars, TreeInv, TypeOK
  <2>2. TypeOK'
    BY <2>1 DEF TreeInv, TypeOK
  <2> QED
    BY <2>1, <2>2, TreeStays
<1>2. ASSUME NEW n \in DOMAIN node_storage, NEW a \in Legal[node_storage[n].game_state],
             Expand(n, a)
      PROVE  TreeInv'
  BY <1>2, AddChildKeeps DEF Expand, Untried
<1>3. ASSUME NEW n \in DOMAIN node_storage, NEW c \in DOMAIN node_storage, Descend(n, c)
      PROVE  TreeInv'
  BY <1>3, DescendKeeps
<1>4. ASSUME NEW n \in DOMAIN node_storage, NEW a \in Legal[node_storage[n].game_state],
             SampleChance(n, a)
      PROVE  TreeInv'
  BY <1>4, SampleChanceKeeps
<1>5. ASSUME NEW outcome \in Players \cup {Draw}, Simulate(outcome) PROVE TreeInv'
  BY <1>5, SimulateKeeps
<1>6. RootIndex \in DOMAIN node_storage
  BY NodeTypes DEF TreeInv, TypeOK, RootIndex
<1> QED
  BY <1>1, <1>2, <1>3, <1>4, <1>5, <1>6 DEF Next

\* The strengthening is inductive: besides its shape, every node but the root has
\* one parent in the storage, older than itself.
THEOREM SearchKeepsTree == Spec => []TreeInv
  BY InitTree, NextTree, PTL DEF Spec

\* Whatever is drawn, rolled and rolled out, node_storage is one tree whose edges
\* follow the rules, without two children for one action, and no decision node
\* is ever wider than its visits allow.
THEOREM AlwaysOneTree == Spec => []TreeShape
<1>1. TreeInv => TreeShape
  <2> SUFFICES ASSUME TreeInv PROVE TreeShape
    OBVIOUS
  <2>1. ASSUME NEW m \in DOMAIN node_storage \ {RootIndex}
        PROVE  Cardinality({n \in DOMAIN node_storage : m \in ChildNodes(n)}) = 1
    <3>1. PICK p \in DOMAIN node_storage : Parents(m) = {p}
      BY DEF TreeInv
    <3>2. Cardinality(Parents(m)) = 1
      BY <3>1, FS_Singleton
    <3> QED
      BY <3>2 DEF Parents
  <2> QED
    BY <2>1 DEF TreeInv, NodeInv, EdgesLead, TriedOnce, EndsAtTerminal, Within, TreeShape
<1> QED
  BY <1>1, SearchKeepsTree, PTL

-----------------------------------------------------------------------------
\* The picker's loop: the first won child, else a child that is not lost, else
\* its initial value.
LEMMA PickedFrom ==
    ASSUME TreeInv, NEW n \in DOMAIN node_storage, NEW c \in BestChildren(n)
    PROVE  \/ c \in ChildNodes(n) /\ WinFor(n, c)
           \/ /\ c \in ChildNodes(n) /\ ~CountsAsLoss(n, c)
              /\ \A w \in ChildNodes(n) : ~WinFor(n, w)
           \/ c = RootIndex /\ \A d \in ChildNodes(n) : CountsAsLoss(n, d)
<1> DEFINE kids == node_storage[n].children
           inOrder == [i \in DOMAIN kids |-> kids[i].node]
           I == {i \in 1 .. Len(inOrder) : CountsAsWin(n, inOrder[i])}
           finite == {d \in Range(inOrder) : ~CountsAsLoss(n, d)}
<1>1. TypeOK /\ NodeInv(n)
  BY DEF TreeInv
<1>2. DOMAIN kids = 1 .. Len(kids) /\ Len(kids) \in Nat /\ Len(inOrder) = Len(kids)
  <2>1. kids \in Seq(Edges)
    BY <1>1, NodeTypes
  <2>2. DOMAIN kids = 1 .. Len(kids) /\ Len(kids) \in Nat
    BY <2>1
  <2>3. \A i \in 1 .. Len(kids) : kids[i].node \in Nat
    <3>1. \A i \in 1 .. Len(kids) : kids[i] \in Edges
      BY <2>1, <2>2
    <3> HIDE DEF kids
    <3> QED
      BY <3>1 DEF Edges
  <2> HIDE DEF kids
  <2>4. inOrder = [i \in 1 .. Len(kids) |-> kids[i].node]
    BY <2>2
  <2>5. inOrder \in Seq(Nat) /\ Len(inOrder) = Len(kids)
    BY <2>2, <2>3, <2>4
  <2> QED
    BY <2>2, <2>5
<1>3. ChildNodes(n) = {inOrder[i] : i \in 1 .. Len(inOrder)}
  <2>1. \A i \in 1 .. Len(inOrder) : inOrder[i] = kids[i].node
    BY <1>2
  <2>2. Children(n) = {kids[i] : i \in 1 .. Len(inOrder)}
    BY <1>2 DEF Children, Range
  <2> HIDE DEF kids, inOrder
  <2>3. \A d : d \in ChildNodes(n) <=> \E i \in 1 .. Len(inOrder) : d = kids[i].node
    BY <2>2 DEF ChildNodes
  <2> QED
    BY <2>1, <2>3
<1>4. \A d : CountsAsWin(n, d) <=> WinFor(n, d)
  BY DEF CountsAsWin, WinFor
<1>5. c \in IF I # {} THEN {inOrder[Min(I)]} ELSE IF finite # {} THEN finite ELSE {RootIndex}
  <2>1. I # {} => Min(I) # 0
    <3>1. I \in SUBSET Nat /\ I \subseteq 1 .. Len(inOrder)
      BY <1>2
    <3> HIDE DEF I, inOrder
    <3>2. I # {} => Min(I) \in I
      BY <3>1, MinIsIn
    <3> QED
      BY <1>2, <3>1, <3>2
  <2> QED
    BY <2>1 DEF BestChildren, SelectInSeq
<1> HIDE DEF I, finite, inOrder
<1>6. CASE I # {}
  <2>1. Min(I) \in I
    <3>1. I \in SUBSET Nat
      BY <1>2 DEF I
    <3> QED
      BY <1>6, <3>1, MinIsIn
  <2>2. c = inOrder[Min(I)]
    BY <1>5, <1>6
  <2> QED
    BY <1>3, <1>4, <2>1, <2>2 DEF I
<1>7. CASE I = {}
  <2>1. \A w \in ChildNodes(n) : ~WinFor(n, w)
    BY <1>3, <1>4, <1>7 DEF I
  <2>2. c \in finite \/ (c = RootIndex /\ finite = {})
    BY <1>5, <1>7
  <2>3. c \in finite => c \in ChildNodes(n) /\ ~CountsAsLoss(n, c)
    BY <1>2, <1>3 DEF finite, Range, inOrder
  <2>4. finite = {} => \A d \in ChildNodes(n) : CountsAsLoss(n, d)
    <3>1. \A d \in ChildNodes(n) : d \in Range(inOrder)
      <4>1. DOMAIN inOrder = 1 .. Len(inOrder)
        BY <1>2 DEF inOrder
      <4> QED
        BY <1>3, <4>1 DEF Range
    <3> QED
      BY <3>1 DEF finite
  <2> QED
    BY <2>1, <2>2, <2>3, <2>4
<1> QED
  BY <1>6, <1>7

LEMMA BestIsDecisive ==
    ASSUME TreeInv, NEW n \in DOMAIN node_storage, NEW c \in BestChildren(n), c # RootIndex
    PROVE  /\ c \in ChildNodes(n) /\ ~LossFor(n, c)
           /\ (\E w \in ChildNodes(n) : WinFor(n, w)) => WinFor(n, c)
  BY PickedFrom DEF CountsAsLoss, CountsAsWin, LossFor, WinFor

\* A step of the search that goes on to a node which is somebody's child goes on
\* from that node.
LEMMA NextIsDecisive == TreeInv /\ [Next]_vars => DecisiveStep
<1> SUFFICES ASSUME TreeInv, [Next]_vars,
                    NEW n \in DOMAIN node_storage, ToMove(n) # Chance,
                    NEW c \in ChildNodes(n), c \in Range(path'), c \notin Range(path)
             PROVE  ~LossFor(n, c) /\ ((\E w \in ChildNodes(n) : WinFor(n, w)) => WinFor(n, c))
  BY DEF DecisiveStep
<1>1. TypeOK /\ n \in Nat /\ n >= 1 /\ Len(node_storage) \in Nat
  BY NodeTypes DEF TreeInv
<1>2. c \in DOMAIN node_storage /\ c # RootIndex
  <2>1. PICK child \in Children(n) : child.node = c
    BY DEF ChildNodes
  <2>2. child.node \in n + 1 .. Len(node_storage)
    BY DEF TreeInv, NodeInv, EdgesLead
  <2> QED
    BY <1>1, <2>1, <2>2, NodeTypes DEF RootIndex
<1>3. ASSUME NEW p \in DOMAIN node_storage, c \in ChildNodes(p) PROVE p = n
  <2>1. p \in Parents(c) /\ n \in Parents(c)
    BY <1>3 DEF Parents
  <2>2. \E q \in DOMAIN node_storage : Parents(c) = {q}
    BY <1>2 DEF TreeInv
  <2> QED
    BY <2>1, <2>2
<1>4. ASSUME NEW d \in Nat, path' = Append(path, d) PROVE c = d
  <2>1. path \in Seq(Nat)
    BY <1>1, NodeTypes DEF TypeOK
  <2>2. Range(path') = Range(path) \cup {d}
    BY <1>4, <2>1, RangeOfAppend
  <2> QED
    BY <2>2
<1>5. ASSUME NEW m \in DOMAIN node_storage, NEW a, AddChild(m, a) PROVE FALSE
  <2>1. path' = Append(path, Len(node_storage) + 1)
    BY <1>5 DEF AddChild
  <2>2. c = Len(node_storage) + 1
    BY <1>1, <1>4, <2>1
  <2> QED
    BY <1>1, <1>2, <2>2, NodeTypes
<1>6. ASSUME NEW m \in DOMAIN node_storage, NEW d \in DOMAIN node_storage, Descend(m, d)
      PROVE  c \in BestChildren(n)
  <2>1. d \in BestChildren(m) /\ path' = Append(path, d) /\ d \in Nat
    BY <1>1, <1>6, NodeTypes DEF Descend
  <2>2. c = d
    BY <1>4, <2>1
  <2>3. c \in ChildNodes(m)
    BY <1>2, <2>1, <2>2, BestIsDecisive
  <2> QED
    BY <1>3, <2>1, <2>2, <2>3
<1>7. ASSUME NEW m \in DOMAIN node_storage, NEW a, SampleChance(m, a) PROVE FALSE
  <2>1. PICK child \in Children(m) : path' = Append(path, child.node)
    BY <1>5, <1>7 DEF SampleChance
  <2>2. child.node \in m + 1 .. Len(node_storage) /\ m \in Nat
    BY <1>1, NodeTypes DEF TreeInv, NodeInv, EdgesLead
  <2>3. c = child.node
    BY <1>4, <2>1, <2>2
  <2>4. m = n
    BY <1>3, <2>3 DEF ChildNodes
  <2> QED
    BY <1>7, <2>4 DEF SampleChance
<1>8. ASSUME NEW outcome, Simulate(outcome) PROVE FALSE
  <2>1. path' = <<RootIndex>>
    BY <1>8 DEF Simulate
  <2>2. Range(path') = {RootIndex}
    BY <2>1 DEF Range
  <2> QED
    BY <1>2, <2>2
<1>9. ASSUME UNCHANGED path PROVE FALSE
  BY <1>9
<1>10. CASE \E m, d \in DOMAIN node_storage : Descend(m, d)
  BY <1>2, <1>6, <1>10, BestIsDecisive
<1> QED
  BY <1>5, <1>7, <1>8, <1>9, <1>10 DEF Next, StopAtTerminal, Expand, vars

\* Whatever the game and the bounds on the search: once a player has found a winning
\* move the search goes back to no other, and it never goes back to a lost one.
THEOREM DecisionsAreDecisive == Spec => [][DecisiveStep]_vars
  BY SearchKeepsTree, NextIsDecisive, PTL DEF Spec
-----------------------------------------------------------------------------
\* Visits and values add up.  The picker's initial value, the root, is let into
\* the path when every child is lost, and the root is then counted twice: what
\* adds up does so in a search that never comes back to the root.
RootOnlyOnce == \A k \in DOMAIN path : path[k] = RootIndex => k = 1

PathGoesDown ==
    /\ \A k \in DOMAIN path : k + 1 \in DOMAIN path => path[k + 1] \in ChildNodes(path[k])
    /\ \A j, k \in DOMAIN path : j < k => path[j] < path[k]

\* The node an iteration has just made, before its playout is counted.
Fresh(n) ==
    /\ selected /\ n = Last(path)
    /\ Visited[n] = 0 /\ \A p \in Players : Valued(p)[n] = 0
    /\ ChildNodes(n) = {}

\* In the middle of an iteration everything adds up but the node just made.
PassedOn ==
    /\ PathGoesDown
    /\ \A n \in DOMAIN node_storage :
          selected /\ n = Last(path) /\ ~IsTerminal(n) => n # RootIndex /\ Fresh(n)
    /\ \A n \in DOMAIN node_storage \ {RootIndex} : Fresh(n) \/ AddsUp(n)
    /\ RootAddsUp

LEMMA SumsAgree ==
    ASSUME NEW f, NEW S
    PROVE  SumFunctionOnSet(f, S) = SumOver(f, S)
  BY Zenon DEF SumFunctionOnSet, FoldFunctionOnSet, SumOver, MapThenSumSet

LEMMA PathType ==
    ASSUME TypeOK
    PROVE  /\ Len(path) \in Nat /\ Len(path) >= 1 /\ DOMAIN path = 1 .. Len(path)
           /\ \A k \in DOMAIN path : path[k] \in DOMAIN node_storage
           /\ path[1] = RootIndex /\ Last(path) = path[Len(path)]
  BY DEF TypeOK, Last

KidsTyped ==
    /\ \A n \in DOMAIN node_storage :
          /\ IsFiniteSet(ChildNodes(n)) /\ ChildNodes(n) \subseteq DOMAIN node_storage
          /\ \A c \in ChildNodes(n) : c > n /\ c # RootIndex
    /\ \A i \in DOMAIN node_storage :
          Visited[i] \in Nat /\ \A p \in Players : Valued(p)[i] \in Int

LEMMA KidsType == TreeInv => KidsTyped
<1> SUFFICES ASSUME TreeInv PROVE KidsTyped
  OBVIOUS
<1>1. Len(node_storage) \in Nat /\ DOMAIN node_storage = 1 .. Len(node_storage)
  BY NodeTypes DEF TreeInv
<1>2. \A n \in DOMAIN node_storage : \A c \in ChildNodes(n) : c \in n + 1 .. Len(node_storage)
  BY DEF TreeInv, NodeInv, EdgesLead, ChildNodes
<1>3. \A n \in DOMAIN node_storage :
         \A c \in ChildNodes(n) : c \in 1 .. Len(node_storage) /\ c > n /\ c # 1
  BY <1>1, <1>2
<1>4. \A n \in DOMAIN node_storage : IsFiniteSet(ChildNodes(n))
  <2>1. IsFiniteSet(1 .. Len(node_storage))
    BY <1>1, FS_Interval
  <2> QED
    BY <1>3, <2>1, FS_Subset
<1>5. ASSUME NEW i \in DOMAIN node_storage
      PROVE  Visited[i] \in Nat /\ \A p \in Players : Valued(p)[i] \in Int
  <2>1. node_storage[i] \in Nodes
    BY NodeTypes DEF TreeInv
  <2> QED
    BY <2>1 DEF Nodes, Visited, Valued
<1> QED
  BY <1>1, <1>3, <1>4, <1>5 DEF RootIndex, KidsTyped

LEMMA KidsTypeNext == TreeInv' => KidsTyped'
  BY KidsType, PTL

\* Until a playout is counted nodes keep what they are, and a child that comes
\* has no visit.
GrowsUnvisited ==
    /\ DOMAIN node_storage \subseteq DOMAIN node_storage'
    /\ \A i \in DOMAIN node_storage :
          /\ node_storage'[i].game_state = node_storage[i].game_state
          /\ node_storage'[i].num_visits = node_storage[i].num_visits
          /\ node_storage'[i].total_value = node_storage[i].total_value
          /\ ChildNodes(i) \subseteq ChildNodes(i)'
          /\ \A c \in ChildNodes(i)' \ ChildNodes(i) :
                Visited'[c] = 0 /\ \A p \in Players : Valued(p)'[c] = 0

\* So the sums over the children stay.
LEMMA SumsStay ==
    ASSUME TreeInv, TreeInv', GrowsUnvisited, NEW n \in DOMAIN node_storage
    PROVE  /\ Visited'[n] = Visited[n] /\ \A p \in Players : Valued(p)'[n] = Valued(p)[n]
           /\ SumFunctionOnSet(Visited', ChildNodes(n)') = SumFunctionOnSet(Visited, ChildNodes(n))
           /\ \A p \in Players : SumFunctionOnSet(Valued(p)', ChildNodes(n)')
                                   = SumFunctionOnSet(Valued(p), ChildNodes(n))
           /\ IsTerminal(n)' <=> IsTerminal(n)
<1> DEFINE kids == ChildNodes(n)
           kids2 == ChildNodes(n)'
<1>1. /\ IsFiniteSet(kids) /\ kids \subseteq DOMAIN node_storage
      /\ IsFiniteSet(kids2) /\ kids2 \subseteq DOMAIN node_storage'
      /\ \A i \in DOMAIN node_storage' :
            Visited'[i] \in Int /\ \A p \in Players : Valued(p)'[i] \in Int
  <2>1. n \in DOMAIN node_storage'
    BY DEF GrowsUnvisited
  <2>2. KidsTyped /\ KidsTyped'
    BY KidsType, KidsTypeNext
  <2> QED
    BY <2>1, <2>2 DEF KidsTyped
<1>2. \A i \in DOMAIN node_storage :
         Visited'[i] = Visited[i] /\ \A p \in Players : Valued(p)'[i] = Valued(p)[i]
  BY DEF GrowsUnvisited, Visited, Valued
<1>3. IsTerminal(n)' <=> IsTerminal(n)
  BY DEF GrowsUnvisited, IsTerminal
<1>4. kids \in SUBSET kids2
  BY DEF GrowsUnvisited
<1> HIDE DEF kids, kids2
<1>5. ASSUME NEW f, NEW g, \A i \in kids : g[i] = f[i],
             \A i \in kids2 : g[i] \in Int, \A i \in kids2 \ kids : g[i] = 0
      PROVE  SumFunctionOnSet(g, kids2) = SumFunctionOnSet(f, kids)
  <2>1. SumOver(g, kids) = SumOver(g, kids2)
    BY <1>1, <1>4, <1>5, SumWider
  <2>2. SumOver(g, kids) = SumOver(f, kids)
    BY <1>1, <1>5, SumSame
  <2> QED
    BY <2>1, <2>2, SumsAgree
<1>6. SumFunctionOnSet(Visited', kids2) = SumFunctionOnSet(Visited, kids)
  <2>1. /\ \A i \in kids : Visited'[i] = Visited[i]
        /\ \A i \in kids2 : Visited'[i] \in Int
        /\ \A i \in kids2 \ kids : Visited'[i] = 0
    BY <1>1, <1>2 DEF GrowsUnvisited, kids, kids2
  <2> QED
    BY <1>5, <2>1
<1>7. ASSUME NEW p \in Players
      PROVE  SumFunctionOnSet(Valued(p)', kids2) = SumFunctionOnSet(Valued(p), kids)
  <2>1. /\ \A i \in kids : Valued(p)'[i] = Valued(p)[i]
        /\ \A i \in kids2 : Valued(p)'[i] \in Int
        /\ \A i \in kids2 \ kids : Valued(p)'[i] = 0
    BY <1>1, <1>2 DEF GrowsUnvisited, kids, kids2
  <2> QED
    BY <1>5, <2>1
<1> QED
  BY <1>2, <1>3, <1>6, <1>7 DEF kids, kids2
\* So what added up still does.
LEMMA StillAddsUp ==
    ASSUME TreeInv, TreeInv', GrowsUnvisited, NEW n \in DOMAIN node_storage
    PROVE  /\ AddsUp(n) => AddsUp(n)'
           /\ UNCHANGED iterations /\ RootAddsUp => RootAddsUp'
<1>1. AddsUp(n) => AddsUp(n)'
  <2>1. node_storage'[n].game_state = node_storage[n].game_state
    BY DEF GrowsUnvisited
  <2>2. /\ Visited'[n] = Visited[n] /\ \A p \in Players : Valued(p)'[n] = Valued(p)[n]
        /\ SumFunctionOnSet(Visited', ChildNodes(n)') = SumFunctionOnSet(Visited, ChildNodes(n))
        /\ \A p \in Players : SumFunctionOnSet(Valued(p)', ChildNodes(n)')
                                = SumFunctionOnSet(Valued(p), ChildNodes(n))
        /\ IsTerminal(n)' <=> IsTerminal(n)
    BY SumsStay
  <2> QED
    BY <2>1, <2>2 DEF AddsUp
<1>2. UNCHANGED iterations /\ RootAddsUp => RootAddsUp'
  <2>1. RootIndex \in DOMAIN node_storage
    BY NodeTypes DEF TreeInv, TypeOK, RootIndex
  <2>2. /\ Visited'[RootIndex] = Visited[RootIndex]
        /\ SumFunctionOnSet(Visited', ChildNodes(RootIndex)')
              = SumFunctionOnSet(Visited, ChildNodes(RootIndex))
        /\ IsTerminal(RootIndex)' <=> IsTerminal(RootIndex)
    BY <2>1, SumsStay
  <2> QED
    BY <2>2 DEF RootAddsUp
<1> QED
  BY <1>1, <1>2

\* The path goes on to a child of its last node.
LEMMA PathGoesFurther ==
    ASSUME TypeOK, PathGoesDown, NEW last, last = Last(path),
           NEW c \in Nat, path' = Append(path, c), c > last, c \in ChildNodes(last)',
           \A i \in DOMAIN node_storage : ChildNodes(i) \subseteq ChildNodes(i)'
    PROVE  PathGoesDown' /\ Last(path') = c
<1>1. /\ Len(path) \in Nat /\ Len(path) >= 1 /\ DOMAIN path = 1 .. Len(path)
      /\ \A k \in DOMAIN path : path[k] \in DOMAIN node_storage
      /\ Last(path) = path[Len(path)]
  BY PathType
<1>2. \A k \in DOMAIN path : path[k] \in Nat
  BY <1>1, NodeTypes
<1>3. /\ Len(path') = Len(path) + 1 /\ DOMAIN path' = 1 .. Len(path) + 1
      /\ \A k \in 1 .. Len(path) : path'[k] = path[k]
      /\ path'[Len(path) + 1] = c
  <2>1. path \in Seq(Nat)
    BY NodeTypes DEF TypeOK
  <2> QED
    BY <2>1
<1>4. ASSUME NEW k \in DOMAIN path', k + 1 \in DOMAIN path', NEW i, i = path'[k]
      PROVE  path'[k + 1] \in ChildNodes(i)'
  <2>1. CASE k = Len(path)
    <3>1. i = last /\ path'[k + 1] = c
      BY <1>1, <1>3, <1>4, <2>1
    <3> QED
      BY <3>1
  <2>2. CASE k # Len(path)
    <3>1. k \in DOMAIN path /\ k + 1 \in DOMAIN path /\ k \in 1 .. Len(path) /\ k + 1 \in 1 .. Len(path)
      BY <1>1, <1>3, <1>4, <2>2
    <3>2. path[k + 1] \in ChildNodes(path[k])
      BY <3>1 DEF PathGoesDown
    <3>3. i \in DOMAIN node_storage /\ i = path[k]
      BY <1>1, <1>3, <1>4, <3>1
    <3> QED
      BY <1>3, <3>1, <3>2, <3>3
  <2> QED
    BY <2>1, <2>2
<1>5. ASSUME NEW j \in DOMAIN path', NEW k \in DOMAIN path', j < k PROVE path'[j] < path'[k]
  <2>1. j \in DOMAIN path /\ j \in 1 .. Len(path)
    BY <1>1, <1>3, <1>5
  <2>2. path[j] <= Last(path)
    <3>1. Len(path) \in DOMAIN path
      BY <1>1
    <3>2. j < Len(path) => path[j] < path[Len(path)]
      BY <2>1, <3>1 DEF PathGoesDown
    <3> QED
      BY <1>1, <1>2, <2>1, <3>1, <3>2
  <2>3. CASE k = Len(path) + 1
    BY <1>1, <1>2, <1>3, <2>1, <2>2, <2>3 DEF Last
  <2>4. CASE k # Len(path) + 1
    <3>1. k \in DOMAIN path /\ k \in 1 .. Len(path)
      BY <1>1, <1>3, <2>4
    <3> QED
      BY <1>3, <1>5, <2>1, <3>1 DEF PathGoesDown
  <2> QED
    BY <2>3, <2>4
<1>6. Last(path') = c
  BY <1>3 DEF Last
<1>7. \A k \in DOMAIN path' : k + 1 \in DOMAIN path' => (path[k + 1] \in ChildNodes(path[k]))'
  BY <1>4 DEF ChildNodes, Children
<1> QED
  BY <1>5, <1>6, <1>7 DEF PathGoesDown
\* One step of select() that makes a node or goes on to a child: what adds up.
LEMMA AddChildPasses ==
    ASSUME TreeInv, TreeInv', PassedOn, ~selected,
           NEW n \in DOMAIN node_storage, NEW a \in Legal[node_storage[n].game_state],
           n = Last(path), AddChild(n, a), UNCHANGED iterations
    PROVE  PassedOn'
<1> PICK next : next = Len(node_storage) + 1
  OBVIOUS
<1> DEFINE state == Apply[node_storage[n].game_state][a]
<1>1. /\ TypeOK /\ Len(node_storage) \in Nat /\ DOMAIN node_storage = 1 .. Len(node_storage)
      /\ next \in Nat /\ next > n /\ next \notin DOMAIN node_storage /\ next # RootIndex
  BY NodeTypes DEF TreeInv, TypeOK, RootIndex
<1>2. /\ Len(node_storage') = next /\ node_storage' \in Seq(Nodes)
      /\ \A i \in DOMAIN node_storage :
            /\ node_storage'[i].game_state = node_storage[i].game_state
            /\ node_storage'[i].num_visits = node_storage[i].num_visits
            /\ node_storage'[i].total_value = node_storage[i].total_value
      /\ node_storage'[next] = NewNode(state) /\ path' = Append(path, next)
  BY <1>1, AddChildEffect
<1>3. DOMAIN node_storage' = DOMAIN node_storage \cup {next}
  BY <1>1, <1>2
<1>4. /\ \A i \in DOMAIN node_storage :
            ChildNodes(i)' = IF i = n THEN ChildNodes(n) \cup {next} ELSE ChildNodes(i)
      /\ ChildNodes(next)' = {}
  BY <1>1, AddChildKids
<1>5. Visited'[next] = 0 /\ \A p \in Players : Valued(p)'[next] = 0
  BY <1>2, <1>3 DEF Visited, Valued, NewNode
<1>6. GrowsUnvisited
  BY <1>2, <1>3, <1>4, <1>5 DEF GrowsUnvisited
<1>7. PathGoesDown' /\ Last(path') = next
  <2>1. next \in ChildNodes(n)' /\ \A i \in DOMAIN node_storage : ChildNodes(i) \subseteq ChildNodes(i)'
    BY <1>4
  <2> QED
    BY <1>1, <1>2, <2>1, PathGoesFurther DEF PassedOn
<1>8. selected'
  BY DEF AddChild
<1>9. Fresh(next)'
  BY <1>4, <1>5, <1>7, <1>8 DEF Fresh
<1>10. \A m \in DOMAIN node_storage \ {RootIndex} : AddsUp(m)'
  <2>1. \A m \in DOMAIN node_storage \ {RootIndex} : AddsUp(m)
    BY DEF PassedOn, Fresh
  <2> QED
    BY <1>6, <2>1, StillAddsUp
<1>11. RootAddsUp'
  BY <1>6, StillAddsUp DEF PassedOn
<1>12. \A m : m = Last(path') => m # RootIndex /\ Fresh(m)'
  BY <1>1, <1>7, <1>9
<1> QED
  BY <1>3, <1>7, <1>9, <1>10, <1>11, <1>12 DEF PassedOn

LEMMA DescentPasses ==
    ASSUME TreeInv, TreeInv', PassedOn, ~selected, UNCHANGED <<selected, iterations>>,
           NEW n \in DOMAIN node_storage, NEW c \in ChildNodes(n), n = Last(path),
           path' = Append(path, c),
           DOMAIN node_storage' = DOMAIN node_storage,
           \A i \in DOMAIN node_storage :
              /\ node_storage'[i].game_state = node_storage[i].game_state
              /\ node_storage'[i].num_visits = node_storage[i].num_visits
              /\ node_storage'[i].total_value = node_storage[i].total_value
              /\ node_storage'[i].children = node_storage[i].children
    PROVE  PassedOn'
<1>1. \A i \in DOMAIN node_storage : ChildNodes(i)' = ChildNodes(i)
  BY DEF ChildNodes, Children
<1>2. GrowsUnvisited
  BY <1>1 DEF GrowsUnvisited
<1>3. c \in Nat /\ c > n
  <2>1. ChildNodes(n) \subseteq DOMAIN node_storage /\ c > n
    BY KidsType DEF KidsTyped
  <2> QED
    BY <2>1, NodeTypes DEF TreeInv
<1>4. PathGoesDown'
  BY <1>1, <1>3, PathGoesFurther DEF PassedOn, TreeInv
<1>5. \A m \in DOMAIN node_storage \ {RootIndex} : AddsUp(m)'
  <2>1. \A m \in DOMAIN node_storage \ {RootIndex} : AddsUp(m)
    BY DEF PassedOn, Fresh
  <2> QED
    BY <1>2, <2>1, StillAddsUp
<1>6. RootAddsUp'
  <2>1. RootIndex \in DOMAIN node_storage
    BY NodeTypes DEF TreeInv, TypeOK, RootIndex
  <2> QED
    BY <1>2, <2>1, StillAddsUp DEF PassedOn
<1> QED
  BY <1>4, <1>5, <1>6 DEF PassedOn
\* Backpropagation counts one visit of a node: it is on the path once or never.
LEMMA TimesOnce ==
    ASSUME TypeOK, PathGoesDown, NEW i
    PROVE  /\ \A k \in DOMAIN path : path[k] = i => Times(i) = 1
           /\ (\A k \in DOMAIN path : path[k] # i) => Times(i) = 0
<1>1. ASSUME NEW k \in DOMAIN path, path[k] = i PROVE Times(i) = 1
  <2>1. ASSUME NEW j \in DOMAIN path, path[j] = i PROVE j = k
    <3>1. j \in Nat /\ k \in Nat
      BY PathType
    <3>2. path[j] \in Nat /\ path[k] \in Nat
      BY PathType, NodeTypes
    <3>3. ~(j < k) /\ ~(k < j)
      BY <1>1, <2>1, <3>2 DEF PathGoesDown
    <3> QED
      BY <3>1, <3>3
  <2>2. {j \in DOMAIN path : path[j] = i} = {k}
    BY <1>1, <2>1
  <2> QED
    BY <2>2, FS_Singleton DEF Times
<1>2. ASSUME \A k \in DOMAIN path : path[k] # i PROVE Times(i) = 0
  <2>1. {j \in DOMAIN path : path[j] = i} = {}
    BY <1>2
  <2> QED
    BY <2>1, FS_EmptySet DEF Times
<1> QED
  BY <1>1, <1>2

\* How an iteration's path can lie to a node: it passes on to one child, it ends
\* there, or it goes elsewhere.
PassesTo(n, c) ==
    /\ Times(n) = 1 /\ n # Last(path)
    /\ c \in ChildNodes(n) /\ Times(c) = 1 /\ \A d \in ChildNodes(n) \ {c} : Times(d) = 0
EndsIn(n) == Times(n) = 1 /\ n = Last(path) /\ \A d \in ChildNodes(n) : Times(d) = 0
Misses(n) == Times(n) = 0 /\ n # Last(path) /\ \A d \in ChildNodes(n) : Times(d) = 0

LEMMA PathLies ==
    ASSUME TreeInv, PathGoesDown, NEW n \in DOMAIN node_storage
    PROVE  /\ (\E c : PassesTo(n, c)) \/ EndsIn(n) \/ Misses(n)
           /\ Times(RootIndex) = 1
<1>1. /\ TypeOK /\ Len(path) \in Nat /\ Len(path) >= 1 /\ DOMAIN path = 1 .. Len(path)
      /\ \A k \in DOMAIN path : path[k] \in DOMAIN node_storage
      /\ path[1] = RootIndex /\ Last(path) = path[Len(path)]
      /\ 1 \in DOMAIN path /\ Len(path) \in DOMAIN path
  BY PathType DEF TreeInv
<1>2. \A i \in DOMAIN node_storage : i \in Nat
  BY <1>1, NodeTypes
<1>3. /\ \A i : \A k \in DOMAIN path : path[k] = i => Times(i) = 1
      /\ \A i : (\A k \in DOMAIN path : path[k] # i) => Times(i) = 0
  BY <1>1, TimesOnce
<1>4. ASSUME NEW j \in DOMAIN path, NEW k \in DOMAIN path, path[j] = path[k] PROVE j = k
  <2>1. j \in Nat /\ k \in Nat /\ path[j] \in Nat /\ path[k] \in Nat
    BY <1>1, <1>2
  <2>2. ~(j < k) /\ ~(k < j)
    BY <1>4, <2>1 DEF PathGoesDown
  <2> QED
    BY <2>1, <2>2
\* A child on the path comes right after its parent.
<1>5. ASSUME NEW c \in ChildNodes(n), NEW k \in DOMAIN path, path[k] = c
      PROVE  k - 1 \in DOMAIN path /\ path[k - 1] = n
  <2>1. c # RootIndex /\ c \in DOMAIN node_storage
    BY KidsType DEF KidsTyped
  <2>2. k - 1 \in DOMAIN path /\ (k - 1) + 1 = k
    BY <1>1, <1>5, <2>1
  <2>3. c \in ChildNodes(path[k - 1]) /\ path[k - 1] \in DOMAIN node_storage
    BY <1>1, <1>5, <2>2 DEF PathGoesDown
  <2>4. PICK p \in DOMAIN node_storage : Parents(c) = {p}
    BY <2>1 DEF TreeInv
  <2>5. n \in Parents(c) /\ path[k - 1] \in Parents(c)
    BY <2>3 DEF Parents
  <2> QED
    BY <2>2, <2>4, <2>5
<1>6. CASE \E k \in DOMAIN path : path[k] = n /\ k # Len(path)
  <2>1. PICK k \in DOMAIN path : path[k] = n /\ k # Len(path)
    BY <1>6
  <2>2. k + 1 \in DOMAIN path /\ k \in Nat
    BY <1>1, <2>1
  <2> DEFINE c == path[k + 1]
  <2>3. c \in ChildNodes(n)
    BY <2>1, <2>2 DEF PathGoesDown
  <2>4. ASSUME NEW d \in ChildNodes(n) \ {c} PROVE Times(d) = 0
    <3> SUFFICES ASSUME NEW j \in DOMAIN path, path[j] = d PROVE FALSE
      BY <1>3
    <3>1. j - 1 \in DOMAIN path /\ path[j - 1] = n
      BY <1>5
    <3>2. j - 1 = k
      BY <1>4, <2>1, <3>1
    <3>3. j = k + 1
      BY <1>1, <2>2, <3>2
    <3> QED
      BY <3>3
  <2>5. n # Last(path)
    BY <1>1, <1>4, <2>1
  <2>6. Times(n) = 1 /\ Times(c) = 1
    BY <1>3, <2>1, <2>2
  <2> QED
    BY <1>1, <1>3, <2>3, <2>4, <2>5, <2>6 DEF PassesTo
<1>7. CASE ~\E k \in DOMAIN path : path[k] = n /\ k # Len(path)
  <2>1. ASSUME NEW d \in ChildNodes(n) PROVE Times(d) = 0
    <3> SUFFICES ASSUME NEW j \in DOMAIN path, path[j] = d PROVE FALSE
      BY <1>3
    <3>1. j - 1 \in DOMAIN path /\ path[j - 1] = n /\ j \in 1 .. Len(path)
      BY <1>1, <1>5
    <3> QED
      BY <1>1, <1>7, <3>1
  <2>2. CASE n = Last(path)
    BY <1>1, <1>3, <2>1, <2>2 DEF EndsIn
  <2>3. CASE n # Last(path)
    BY <1>1, <1>3, <1>7, <2>1, <2>3 DEF Misses
  <2> QED
    BY <1>1, <1>3, <2>2, <2>3
<1> QED
  BY <1>6, <1>7

\* What is added up over the children grows by what the path brings to them.
LEMMA SumsGrow ==
    ASSUME TreeInv, NEW n \in DOMAIN node_storage, NEW f, NEW g, NEW s \in Int,
           \A d \in ChildNodes(n) :
              f[d] \in Int /\ Times(d) \in Nat /\ g[d] = f[d] + Times(d) * s
    PROVE  /\ \A c : PassesTo(n, c) =>
                 SumFunctionOnSet(g, ChildNodes(n)) = SumFunctionOnSet(f, ChildNodes(n)) + s
           /\ EndsIn(n) \/ Misses(n) =>
                 SumFunctionOnSet(g, ChildNodes(n)) = SumFunctionOnSet(f, ChildNodes(n))
           /\ SumFunctionOnSet(f, ChildNodes(n)) \in Int
<1> DEFINE kids == ChildNodes(n)
<1>1. IsFiniteSet(kids)
  BY KidsType DEF KidsTyped
<1>2. \A d \in kids : (Times(d) = 0 => g[d] = f[d]) /\ (Times(d) = 1 => g[d] = f[d] + s)
  <2> TAKE d \in kids
  <2>1. f[d] \in Int /\ g[d] = f[d] + Times(d) * s
    OBVIOUS
  <2>2. ASSUME Times(d) = 0 PROVE g[d] = f[d]
    BY <2>1, <2>2
  <2>3. ASSUME Times(d) = 1 PROVE g[d] = f[d] + s
    BY <2>1, <2>3
  <2> QED
    BY <2>2, <2>3
<1>3. \A d \in kids : f[d] \in Int
  OBVIOUS
<1>4. ASSUME NEW c, PassesTo(n, c) PROVE SumFunctionOnSet(g, kids) = SumFunctionOnSet(f, kids) + s
  <2>1. c \in kids /\ g[c] = f[c] + s /\ \A d \in kids \ {c} : g[d] = f[d]
    BY <1>2, <1>4 DEF PassesTo
  <2> HIDE DEF kids
  <2>2. \A d \in kids : f[d] \in Int /\ g[d] \in Int
    BY <1>3, <2>1
  <2>3. SumOver(g, kids) = SumOver(f, kids) - f[c] + g[c]
    BY <1>1, <2>1, <2>2, SumChange
  <2>4. SumOver(f, kids) \in Int /\ f[c] \in Int
    BY <1>1, <1>3, <2>1, SumType
  <2>5. SumOver(g, kids) = SumOver(f, kids) + s
    BY <2>1, <2>3, <2>4
  <2> QED
    BY <2>5, SumsAgree
<1>5. ASSUME EndsIn(n) \/ Misses(n) PROVE SumFunctionOnSet(g, kids) = SumFunctionOnSet(f, kids)
  <2>1. \A d \in kids : g[d] = f[d]
    BY <1>2, <1>5 DEF EndsIn, Misses
  <2> HIDE DEF kids
  <2> QED
    BY <1>1, <2>1, SumSame, SumsAgree
<1>6. SumFunctionOnSet(f, kids) \in Int
  <2> HIDE DEF kids
  <2> QED
    BY <1>1, <1>3, SumType, SumsAgree
<1> QED
  BY <1>4, <1>5, <1>6
\* Counting a playout: a node passes its visit and its score on to a child, or
\* keeps them, being the new one or a finished game.
LEMMA SimulatePasses ==
    ASSUME TreeInv, TreeInv', PassedOn, NEW outcome \in Players \cup {Draw}, Simulate(outcome)
    PROVE  PassedOn'
<1> DEFINE score(p) == Score(outcome, p)
<1>1. /\ TypeOK /\ PathGoesDown /\ selected
      /\ Len(node_storage) \in Nat /\ DOMAIN node_storage = 1 .. Len(node_storage)
      /\ RootIndex \in DOMAIN node_storage
      /\ path' = <<RootIndex>> /\ ~selected' /\ iterations' = iterations + 1
      /\ iterations \in Nat
  BY NodeTypes DEF TreeInv, TypeOK, PassedOn, Simulate, RootIndex
<1>2. /\ Len(node_storage') = Len(node_storage)
      /\ \A i \in DOMAIN node_storage :
            /\ Times(i) \in Nat
            /\ node_storage'[i].game_state = node_storage[i].game_state
            /\ node_storage'[i].children = node_storage[i].children
            /\ node_storage'[i].num_visits = node_storage[i].num_visits + Times(i)
            /\ \A p \in Players : node_storage'[i].total_value[p] =
                  node_storage[i].total_value[p] + Times(i) * score(p)
  BY <1>1, BackpropagateEffect
<1>3. DOMAIN node_storage' = DOMAIN node_storage
  BY <1>1, <1>2, NodeTypes DEF TreeInv, TypeOK
<1>4. ASSUME NEW i \in DOMAIN node_storage
      PROVE  /\ ChildNodes(i)' = ChildNodes(i) /\ (IsTerminal(i)' <=> IsTerminal(i))
             /\ Visited'[i] = Visited[i] + Times(i)
             /\ \A p \in Players : Valued(p)'[i] = Valued(p)[i] + Times(i) * score(p)
             /\ Visited[i] \in Nat /\ Times(i) \in Nat
             /\ \A p \in Players : Valued(p)[i] \in Int
  <2>1. ChildNodes(i)' = ChildNodes(i) /\ (IsTerminal(i)' <=> IsTerminal(i))
    BY <1>2 DEF ChildNodes, Children, IsTerminal
  <2>2. Visited'[i] = Visited[i] + Times(i)
    BY <1>2, <1>3 DEF Visited
  <2>3. \A p \in Players : Valued(p)'[i] = Valued(p)[i] + Times(i) * score(p)
    BY <1>2, <1>3 DEF Valued
  <2> QED
    BY <1>2, <2>1, <2>2, <2>3, KidsType DEF KidsTyped
<1>5. \A p \in Players : score(p) \in Int
  BY DEF Score
<1> HIDE DEF score
<1>6. ASSUME NEW n \in DOMAIN node_storage, NEW f, NEW g, NEW s \in Int,
             \A i \in DOMAIN node_storage : f[i] \in Int /\ g[i] = f[i] + Times(i) * s
      PROVE  /\ \A c : PassesTo(n, c) =>
                   SumFunctionOnSet(g, ChildNodes(n)) = SumFunctionOnSet(f, ChildNodes(n)) + s
             /\ EndsIn(n) \/ Misses(n) =>
                   SumFunctionOnSet(g, ChildNodes(n)) = SumFunctionOnSet(f, ChildNodes(n))
             /\ SumFunctionOnSet(f, ChildNodes(n)) \in Int
  <2>1. ChildNodes(n) \subseteq DOMAIN node_storage
    BY KidsType DEF KidsTyped
  <2>2. \A d \in ChildNodes(n) :
           f[d] \in Int /\ Times(d) \in Nat /\ g[d] = f[d] + Times(d) * s
    BY <1>4, <1>6, <2>1
  <2> QED
    BY <2>2, SumsGrow
\* The sums of the visits and of the values, before and after.
<1>7. ASSUME NEW n \in DOMAIN node_storage
      PROVE  /\ \A c : PassesTo(n, c) =>
                   SumFunctionOnSet(Visited', ChildNodes(n))
                     = SumFunctionOnSet(Visited, ChildNodes(n)) + 1
             /\ EndsIn(n) \/ Misses(n) =>
                   SumFunctionOnSet(Visited', ChildNodes(n)) = SumFunctionOnSet(Visited, ChildNodes(n))
             /\ SumFunctionOnSet(Visited, ChildNodes(n)) \in Int
  <2>1. \A i \in DOMAIN node_storage : Visited[i] \in Int /\ Visited'[i] = Visited[i] + Times(i) * 1
    BY <1>4
  <2> QED
    BY <1>6, <2>1
<1>8. ASSUME NEW n \in DOMAIN node_storage, NEW p \in Players
      PROVE  /\ \A c : PassesTo(n, c) =>
                   SumFunctionOnSet(Valued(p)', ChildNodes(n))
                     = SumFunctionOnSet(Valued(p), ChildNodes(n)) + score(p)
             /\ EndsIn(n) \/ Misses(n) =>
                   SumFunctionOnSet(Valued(p)', ChildNodes(n))
                     = SumFunctionOnSet(Valued(p), ChildNodes(n))
             /\ SumFunctionOnSet(Valued(p), ChildNodes(n)) \in Int
  <2>1. \A i \in DOMAIN node_storage :
           Valued(p)[i] \in Int /\ Valued(p)'[i] = Valued(p)[i] + Times(i) * score(p)
    BY <1>4
  <2> QED
    BY <1>5, <1>6, <2>1
<1>9. PathGoesDown'
  BY <1>1 DEF PathGoesDown
<1>10. ASSUME NEW n \in DOMAIN node_storage
       PROVE  /\ Times(n) = 0 =>
                    Visited'[n] = Visited[n] /\ \A p \in Players : Valued(p)'[n] = Valued(p)[n]
              /\ Times(n) = 1 =>
                    /\ Visited'[n] = Visited[n] + 1
                    /\ \A p \in Players : Valued(p)'[n] = Valued(p)[n] + score(p)
  <2>1. ASSUME NEW p \in Players
        PROVE  /\ Times(n) = 0 => Valued(p)'[n] = Valued(p)[n]
               /\ Times(n) = 1 => Valued(p)'[n] = Valued(p)[n] + score(p)
    <3>1. /\ Valued(p)'[n] = Valued(p)[n] + Times(n) * score(p)
          /\ Valued(p)[n] \in Int /\ score(p) \in Int
      BY <1>4, <1>5
    <3>2. ASSUME Times(n) = 0 PROVE Valued(p)'[n] = Valued(p)[n]
      BY <3>1, <3>2
    <3>3. ASSUME Times(n) = 1 PROVE Valued(p)'[n] = Valued(p)[n] + score(p)
      BY <3>1, <3>3
    <3> QED
      BY <3>2, <3>3
  <2> QED
    BY <1>4, <2>1
<1>11. ASSUME NEW n \in DOMAIN node_storage,
              Visited'[n] >= 1,
              ~IsTerminal(n) => Visited'[n] = SumFunctionOnSet(Visited', ChildNodes(n)) + 1,
              ~IsTerminal(n) => \E o \in Players \cup {Draw} : \A p \in Players :
                 Valued(p)'[n] = SumFunctionOnSet(Valued(p)', ChildNodes(n)) + Score(o, p),
              IsTerminal(n) => \A p \in Players : Valued(p)'[n] =
                 Visited'[n] * Score(Result[node_storage[n].game_state], p)
       PROVE  AddsUp(n)'
  <2>1. /\ ChildNodes(n)' = ChildNodes(n) /\ (IsTerminal(n)' <=> IsTerminal(n))
        /\ node_storage'[n].game_state = node_storage[n].game_state
    BY <1>2, <1>4
  <2> QED
    BY <1>11, <2>1 DEF AddsUp
<1>12. ASSUME NEW n \in DOMAIN node_storage \ {RootIndex} PROVE AddsUp(n)'
  <2>1. Fresh(n) \/ AddsUp(n)
    BY DEF PassedOn
  <2>2. Visited[n] \in Nat /\ \A p \in Players : Valued(p)[n] \in Int /\ score(p) \in Int
    BY <1>4, <1>5
  <2>3. CASE \E c : PassesTo(n, c)
    <3>1. PICK c : PassesTo(n, c)
      BY <2>3
    <3>2. Times(n) = 1 /\ AddsUp(n)
      BY <2>1, <3>1 DEF PassesTo, Fresh
    <3>3. ~IsTerminal(n)
      BY <3>1 DEF PassesTo, TreeInv, NodeInv, EndsAtTerminal, ChildNodes
    <3>4. Visited'[n] >= 1 /\ Visited'[n] = SumFunctionOnSet(Visited', ChildNodes(n)) + 1
      BY <1>7, <1>10, <2>2, <3>1, <3>2, <3>3 DEF AddsUp
    <3>5. PICK o \in Players \cup {Draw} : \A p \in Players :
             Valued(p)[n] = SumFunctionOnSet(Valued(p), ChildNodes(n)) + Score(o, p)
      BY <3>2, <3>3 DEF AddsUp
    <3>6. \A p \in Players : Score(o, p) \in Int
      BY DEF Score
    <3>7. \A p \in Players :
             Valued(p)'[n] = SumFunctionOnSet(Valued(p)', ChildNodes(n)) + Score(o, p)
      BY <1>8, <1>10, <2>2, <3>1, <3>2, <3>5, <3>6
    <3> QED
      BY <1>11, <3>3, <3>4, <3>7
  <2>4. CASE Misses(n)
    <3>1. Times(n) = 0 /\ AddsUp(n)
      BY <2>1, <2>4 DEF Misses, Fresh
    <3>2. /\ Visited'[n] = Visited[n] /\ \A p \in Players : Valued(p)'[n] = Valued(p)[n]
          /\ SumFunctionOnSet(Visited', ChildNodes(n)) = SumFunctionOnSet(Visited, ChildNodes(n))
          /\ \A p \in Players : SumFunctionOnSet(Valued(p)', ChildNodes(n))
                                  = SumFunctionOnSet(Valued(p), ChildNodes(n))
      BY <1>7, <1>8, <1>10, <2>4, <3>1
    <3> QED
      BY <1>11, <3>1, <3>2 DEF AddsUp
  <2>5. CASE EndsIn(n) /\ ~IsTerminal(n)
    <3>1. /\ Times(n) = 1 /\ ChildNodes(n) = {} /\ Visited[n] = 0
          /\ \A p \in Players : Valued(p)[n] = 0
      BY <1>1, <2>5 DEF PassedOn, EndsIn, Fresh
    <3>2. \A f : SumFunctionOnSet(f, ChildNodes(n)) = 0
      BY <3>1, SumsAgree, SumOfNone
    <3>3. Visited'[n] = 1 /\ \A p \in Players : Valued(p)'[n] = score(p)
      BY <1>10, <2>2, <3>1
    <3>4. \A p \in Players :
             Valued(p)'[n] = SumFunctionOnSet(Valued(p)', ChildNodes(n)) + Score(outcome, p)
      BY <2>2, <3>2, <3>3 DEF score
    <3> QED
      BY <1>11, <2>5, <3>2, <3>3, <3>4
  <2>6. CASE EndsIn(n) /\ IsTerminal(n)
    <3> DEFINE result == Result[node_storage[n].game_state]
    <3>1. Times(n) = 1 /\ outcome = result
      BY <2>6 DEF EndsIn, Simulate, Outcomes
    <3>2. \A p \in Players : Valued(p)[n] = Visited[n] * score(p)
      BY <2>1, <2>2, <2>6, <3>1 DEF Fresh, AddsUp, score
    <3>3. Visited'[n] = Visited[n] + 1
      BY <1>10, <3>1
    <3>4. ASSUME NEW p \in Players PROVE Valued(p)'[n] = Visited'[n] * Score(result, p)
      <4>1. Valued(p)'[n] = Visited[n] * score(p) + score(p)
        BY <1>10, <3>1, <3>2
      <4>2. score(p) \in {0, 1, -1} /\ Score(result, p) = score(p)
        BY <3>1 DEF score, Score
      <4>3. (Visited[n] + 1) * score(p) = Visited[n] * score(p) + score(p)
        BY <2>2, <4>2
      <4> QED
        BY <3>3, <4>1, <4>2, <4>3
    <3> QED
      BY <1>11, <2>2, <2>6, <3>3, <3>4
  <2> QED
    BY <2>3, <2>4, <2>5, <2>6, PathLies DEF PassedOn
<1>13. RootAddsUp'
  <2>1. Visited'[RootIndex] = iterations'
    BY <1>1, <1>10, PathLies DEF PassedOn, RootAddsUp
  <2>2. ASSUME ~IsTerminal(RootIndex)
        PROVE  SumFunctionOnSet(Visited', ChildNodes(RootIndex)) = iterations'
    <3>1. \E c : PassesTo(RootIndex, c)
      <4>1. Times(RootIndex) = 1
        BY <1>1, PathLies
      <4>2. RootIndex # Last(path)
        BY <1>1, <2>2 DEF PassedOn
      <4> QED
        BY <1>1, <4>1, <4>2, PathLies DEF EndsIn, Misses
    <3>2. SumFunctionOnSet(Visited, ChildNodes(RootIndex)) = iterations
      BY <2>2 DEF PassedOn, RootAddsUp
    <3> QED
      BY <1>1, <1>7, <3>1, <3>2
  <2>3. ChildNodes(RootIndex)' = ChildNodes(RootIndex) /\ (IsTerminal(RootIndex)' <=> IsTerminal(RootIndex))
    BY <1>1, <1>4
  <2> QED
    BY <2>1, <2>2, <2>3 DEF RootAddsUp
<1> QED
  BY <1>1, <1>3, <1>9, <1>12, <1>13 DEF PassedOn
LEMMA InitPasses == Init => PassedOn
<1> SUFFICES ASSUME Init PROVE PassedOn
  OBVIOUS
<1>1. /\ DOMAIN node_storage = {1} /\ node_storage[1] = NewNode(Start)
      /\ path = <<1>> /\ ~selected /\ iterations = 0
  BY DEF Init, RootIndex
<1>2. PathGoesDown
  BY <1>1 DEF PathGoesDown
<1>3. Visited[1] = 0
  BY <1>1 DEF Visited, NewNode
<1>4. ChildNodes(1) = {}
  BY <1>1 DEF ChildNodes, Children, NewNode, Range
<1>5. SumFunctionOnSet(Visited, ChildNodes(1)) = 0
  BY <1>4, SumsAgree, SumOfNone
<1> QED
  BY <1>1, <1>2, <1>3, <1>5 DEF PassedOn, RootAddsUp, RootIndex

LEMMA SampleChancePasses ==
    ASSUME TreeInv, TreeInv', PassedOn, NEW n \in DOMAIN node_storage,
           NEW a \in Legal[node_storage[n].game_state], SampleChance(n, a)
    PROVE  PassedOn'
<1>1. ~selected /\ n = Last(path) /\ UNCHANGED iterations
  BY DEF SampleChance, Selecting
<1>2. CASE a \in Tried(n)
  <2>1. PICK child \in Children(n) : path' = Append(path, child.node)
    BY <1>2 DEF SampleChance
  <2>2. UNCHANGED <<node_storage, selected>> /\ child.node \in ChildNodes(n)
    BY <1>2 DEF SampleChance, ChildNodes
  <2> QED
    BY <1>1, <2>1, <2>2, DescentPasses
<1>3. CASE a \notin Tried(n)
  BY <1>1, <1>3, AddChildPasses DEF SampleChance
<1> QED
  BY <1>2, <1>3

\* What Descend(n, c) leaves of the nodes.
LEMMA DescendEffect ==
    ASSUME TypeOK, NEW n \in DOMAIN node_storage, NEW c, Descend(n, c)
    PROVE  /\ DOMAIN node_storage' = DOMAIN node_storage
           /\ \A i \in DOMAIN node_storage :
                 /\ node_storage'[i].game_state = node_storage[i].game_state
                 /\ node_storage'[i].num_visits = node_storage[i].num_visits
                 /\ node_storage'[i].total_value = node_storage[i].total_value
                 /\ node_storage'[i].children = node_storage[i].children
                 /\ i # n => node_storage'[i] = node_storage[i]
<1>1. PICK exhausted : node_storage' = [node_storage EXCEPT ![n].untried_exhausted = exhausted]
  BY DEF Descend
<1>2. DOMAIN node_storage' = DOMAIN node_storage
  BY <1>1
<1>3. ASSUME NEW i \in DOMAIN node_storage
      PROVE  /\ node_storage'[i].game_state = node_storage[i].game_state
             /\ node_storage'[i].num_visits = node_storage[i].num_visits
             /\ node_storage'[i].total_value = node_storage[i].total_value
             /\ node_storage'[i].children = node_storage[i].children
             /\ i # n => node_storage'[i] = node_storage[i]
  <2>1. node_storage[i] \in Nodes
    BY NodeTypes
  <2> QED
    BY <1>1, <2>1 DEF Nodes
<1> QED
  BY <1>2, <1>3

LEMMA DescendPasses ==
    ASSUME TreeInv, TreeInv', PassedOn, NEW n \in DOMAIN node_storage,
           NEW c \in DOMAIN node_storage, Descend(n, c), c # RootIndex
    PROVE  PassedOn'
<1>1. ~selected /\ n = Last(path) /\ UNCHANGED <<selected, iterations>> /\ path' = Append(path, c)
  BY DEF Descend, Selecting
<1>2. c \in ChildNodes(n)
  BY PickedFrom DEF Descend
<1>3. /\ DOMAIN node_storage' = DOMAIN node_storage
      /\ \A i \in DOMAIN node_storage :
            /\ node_storage'[i].game_state = node_storage[i].game_state
            /\ node_storage'[i].num_visits = node_storage[i].num_visits
            /\ node_storage'[i].total_value = node_storage[i].total_value
            /\ node_storage'[i].children = node_storage[i].children
  BY DescendEffect DEF TreeInv
<1> QED
  BY <1>1, <1>2, <1>3, DescentPasses

\* The root comes into the path again only where Descend falls back on it.
LEMMA RootComesLast ==
    ASSUME TreeInv, RootOnlyOnce', NEW c \in DOMAIN node_storage, path' = Append(path, c)
    PROVE  c # RootIndex
<1>1. path \in Seq(Nat) /\ Len(path) >= 1 /\ Len(path) \in Nat /\ c \in Nat
  BY NodeTypes DEF TreeInv, TypeOK
<1>2. Len(path) + 1 \in DOMAIN path' /\ path'[Len(path) + 1] = c
  BY <1>1
<1> QED
  BY <1>1, <1>2 DEF RootOnlyOnce

LEMMA NextPasses ==
    ASSUME TreeInv, TreeInv', PassedOn, RootOnlyOnce', [Next]_vars
    PROVE  PassedOn'
<1>1. ASSUME NEW n \in DOMAIN node_storage, StopAtTerminal(n) PROVE PassedOn'
  <2>1. /\ UNCHANGED <<node_storage, path, iterations>> /\ ~selected /\ n = Last(path)
        /\ IsTerminal(n)
    BY <1>1 DEF StopAtTerminal, Selecting
  <2>2. GrowsUnvisited
    BY <2>1 DEF GrowsUnvisited, ChildNodes, Children
  <2>3. \A m \in DOMAIN node_storage \ {RootIndex} : AddsUp(m)'
    BY <2>1, <2>2, StillAddsUp DEF PassedOn, Fresh
  <2>4. RootAddsUp' /\ PathGoesDown'
    BY <2>1, <2>2, StillAddsUp DEF PassedOn, PathGoesDown, ChildNodes, Children
  <2>5. IsTerminal(n)' /\ Last(path') = n /\ DOMAIN node_storage' = DOMAIN node_storage
    BY <2>1 DEF IsTerminal
  <2> QED
    BY <2>3, <2>4, <2>5 DEF PassedOn
<1>2. CASE UNCHANGED vars
  <2>1. UNCHANGED <<node_storage, path, selected, iterations>>
    BY <1>2 DEF vars
  <2>2. GrowsUnvisited
    BY <2>1 DEF GrowsUnvisited, ChildNodes, Children
  <2>3. /\ \A n : (Fresh(n)' <=> Fresh(n)) /\ (IsTerminal(n)' <=> IsTerminal(n))
        /\ PathGoesDown' /\ Last(path') = Last(path)
    BY <2>1 DEF PassedOn, PathGoesDown, Fresh, Visited, Valued, ChildNodes, Children, IsTerminal
  <2>4. RootIndex \in DOMAIN node_storage
    BY NodeTypes DEF TreeInv, TypeOK, RootIndex
  <2>5. (\A n \in DOMAIN node_storage : AddsUp(n) => AddsUp(n)') /\ RootAddsUp'
    BY <2>1, <2>2, <2>4, StillAddsUp DEF PassedOn
  <2> QED
    BY <2>1, <2>3, <2>5 DEF PassedOn
<1>3. ASSUME NEW n \in DOMAIN node_storage, NEW a \in Legal[node_storage[n].game_state], Expand(n, a)
      PROVE  PassedOn'
  BY <1>3, AddChildPasses DEF Expand, Selecting
<1>4. ASSUME NEW n \in DOMAIN node_storage, NEW c \in DOMAIN node_storage, Descend(n, c)
      PROVE  PassedOn'
  <2>1. path' = Append(path, c)
    BY <1>4 DEF Descend
  <2> QED
    BY <1>4, <2>1, RootComesLast, DescendPasses
<1>5. ASSUME NEW n \in DOMAIN node_storage, NEW a \in Legal[node_storage[n].game_state],
             SampleChance(n, a)
      PROVE  PassedOn'
  BY <1>5, SampleChancePasses
<1>6. ASSUME NEW outcome \in Players \cup {Draw}, Simulate(outcome) PROVE PassedOn'
  BY <1>6, SimulatePasses
<1> QED
  BY <1>1, <1>2, <1>3, <1>4, <1>5, <1>6 DEF Next

\* A search that never comes back to its root counts every iteration once there
\* and shares it out among the root's children: the root's visits are the
\* iterations, and the sum of its children's.
THEOREM RootCountsEach == Spec /\ []RootOnlyOnce => []RootCountsIterations
<1>1. PassedOn => RootCountsIterations
  BY DEF PassedOn, RootCountsIterations
<1> QED
  BY <1>1, SearchKeepsTree, InitPasses, NextPasses, PTL DEF Spec

\* Every visit a node below the root ever had made the node or went on to one of
\* its children, and so did every score: the averages that UCB compares are the
\* averages over the playouts through a node, for any game and widening.
THEOREM VisitsAndValuesConserved == Spec /\ []RootOnlyOnce => []Conserved
<1>1. PassedOn => Conserved
  BY DEF PassedOn, Conserved, Idle, Fresh
<1> QED
  BY <1>1, SearchKeepsTree, InitPasses, NextPasses, PTL DEF Spec
-----------------------------------------------------------------------------
\* In a game without a move by which the mover loses outright, as no action of a
\* player of Risk, Pig or tic-tac-toe is, the search never comes back to its root.
NoMoveLoses ==
    \A s \in Positions : \A a \in Legal[s] :
        Result[s] = Ongoing /\ Mover[s] # Chance =>
            Result[Apply[s][a]] \notin Players \ {Mover[s]}

\* A node whose generator has run dry has a child to go on to.
Exhausted(n) == node_storage[n].untried_exhausted => Children(n) # {}
KeepsBelow == RootOnlyOnce /\ \A n \in DOMAIN node_storage : Exhausted(n)

LEMMA GoesOnBelow ==
    ASSUME TreeInv, KeepsBelow, NoMoveLoses, NEW n \in DOMAIN node_storage, NEW c, Descend(n, c)
    PROVE  Children(n) # {} /\ c # RootIndex
<1>1. /\ TypeOK /\ ~IsTerminal(n) /\ ToMove(n) # Chance /\ c \in BestChildren(n)
      /\ node_storage[n].game_state \in Positions /\ node_storage[n].children \in Seq(Edges)
  BY NodeTypes DEF TreeInv, Descend
<1>2. Children(n) # {}
  <2>1. CASE node_storage[n].untried_exhausted
    BY <2>1 DEF KeepsBelow, Exhausted
  <2>2. CASE ~WideningAllows(n)
    <3>1. Len(node_storage[n].children) # 0
      BY <2>2 DEF WideningAllows
    <3>2. node_storage[n].children[1] \in Range(node_storage[n].children)
      BY <1>1, <3>1 DEF Range
    <3> QED
      BY <3>2 DEF Children
  <2>3. CASE ~node_storage[n].untried_exhausted /\ WideningAllows(n)
    <3>1. Untried(n) = {} \/ Tried(n) # {}
      BY <2>3 DEF Descend
    <3>2. Legal[node_storage[n].game_state] # {}
      BY <1>1, GameAssumption DEF IsTerminal
    <3>3. Tried(n) # {}
      BY <3>1, <3>2 DEF Untried
    <3> QED
      BY <3>3 DEF Tried
  <2> QED
    BY <2>1, <2>2, <2>3
<1>3. ASSUME c = RootIndex PROVE FALSE
  <2>1. PICK child : child \in Children(n)
    BY <1>2
  <2>2. child.node \in ChildNodes(n)
    BY <2>1 DEF ChildNodes
  <2>3. c \notin ChildNodes(n)
    BY <1>3, KidsType DEF KidsTyped
  <2>4. CountsAsLoss(n, child.node)
    BY <1>1, <2>2, <2>3, PickedFrom
  <2>5. /\ child.action \in Legal[node_storage[n].game_state]
        /\ node_storage[child.node].game_state = Apply[node_storage[n].game_state][child.action]
    BY <2>1 DEF TreeInv, NodeInv, EdgesLead
  <2>6. Result[node_storage[child.node].game_state] \notin Players \ {ToMove(n)}
    BY <1>1, <2>5 DEF NoMoveLoses, IsTerminal, ToMove
  <2> QED
    BY <2>4, <2>6 DEF CountsAsLoss, CountsAsWin
<1> QED
  BY <1>2, <1>3

\* The path stays below the root when it goes on to another node.
LEMMA PathBelow ==
    ASSUME TypeOK, RootOnlyOnce, NEW c \in Nat, c # RootIndex, path' = Append(path, c)
    PROVE  RootOnlyOnce'
<1>1. path \in Seq(Nat)
  BY NodeTypes DEF TypeOK
<1>2. /\ DOMAIN path' = DOMAIN path \cup {Len(path) + 1} /\ path'[Len(path) + 1] = c
      /\ \A k \in DOMAIN path : path'[k] = path[k]
  BY <1>1
<1> QED
  BY <1>2 DEF RootOnlyOnce

LEMMA AddChildBelow ==
    ASSUME TreeInv, KeepsBelow, NEW n \in DOMAIN node_storage,
           NEW a \in Legal[node_storage[n].game_state], AddChild(n, a)
    PROVE  KeepsBelow'
<1> PICK next : next = Len(node_storage) + 1
  OBVIOUS
<1> DEFINE state == Apply[node_storage[n].game_state][a]
<1>1. /\ TypeOK /\ Len(node_storage) \in Nat /\ Len(node_storage) >= 1
      /\ DOMAIN node_storage = 1 .. Len(node_storage)
  BY NodeTypes DEF TreeInv, TypeOK
<1>2. /\ node_storage' \in Seq(Nodes) /\ Len(node_storage') = next
      /\ \A i \in DOMAIN node_storage :
            node_storage'[i].untried_exhausted = node_storage[i].untried_exhausted
      /\ node_storage'[next] = NewNode(state) /\ path' = Append(path, next)
  BY <1>1, AddChildEffect
<1>3. \A i \in DOMAIN node_storage : Children(i) \subseteq Children(i)'
  <2>1. \A i \in DOMAIN node_storage :
           Children(i)' = IF i = n THEN Children(n) \cup {[action |-> a, node |-> next]}
                                   ELSE Children(i)
    BY <1>1, AddChildKids
  <2> QED
    BY <2>1
<1>4. RootOnlyOnce'
  BY <1>1, <1>2, PathBelow DEF KeepsBelow, RootIndex
<1>5. \A i \in DOMAIN node_storage : Exhausted(i)'
  BY <1>2, <1>3 DEF KeepsBelow, Exhausted
<1>6. Exhausted(next)'
  BY <1>2 DEF Exhausted, NewNode
<1>7. DOMAIN node_storage' = DOMAIN node_storage \cup {next}
  BY <1>1, <1>2
<1> QED
  BY <1>4, <1>5, <1>6, <1>7 DEF KeepsBelow

LEMMA NextBelow == NoMoveLoses /\ TreeInv /\ KeepsBelow /\ [Next]_vars => KeepsBelow'
<1> SUFFICES ASSUME NoMoveLoses, TreeInv, KeepsBelow, [Next]_vars PROVE KeepsBelow'
  OBVIOUS
<1>1. ASSUME NEW n \in DOMAIN node_storage, StopAtTerminal(n) \/ UNCHANGED vars PROVE KeepsBelow'
  BY <1>1 DEF StopAtTerminal, vars, KeepsBelow, RootOnlyOnce, Exhausted, Children
<1>2. ASSUME NEW n \in DOMAIN node_storage, NEW a \in Legal[node_storage[n].game_state], Expand(n, a)
      PROVE  KeepsBelow'
  BY <1>2, AddChildBelow DEF Expand
<1>3. ASSUME NEW n \in DOMAIN node_storage, NEW c \in DOMAIN node_storage, Descend(n, c)
      PROVE  KeepsBelow'
  <2>1. Children(n) # {} /\ c # RootIndex
    BY <1>3, GoesOnBelow
  <2>2. /\ DOMAIN node_storage' = DOMAIN node_storage
        /\ \A i \in DOMAIN node_storage :
              /\ node_storage'[i].children = node_storage[i].children
              /\ i # n => node_storage'[i] = node_storage[i]
    BY <1>3, DescendEffect DEF TreeInv
  <2>3. RootOnlyOnce'
    <3>1. c \in Nat /\ path' = Append(path, c)
      BY <1>3, NodeTypes DEF TreeInv, Descend
    <3> QED
      BY <2>1, <3>1, PathBelow DEF TreeInv, KeepsBelow
  <2>4. \A i \in DOMAIN node_storage : Exhausted(i)'
    BY <2>1, <2>2 DEF KeepsBelow, Exhausted, Children
  <2> QED
    BY <2>2, <2>3, <2>4 DEF KeepsBelow
<1>4. ASSUME NEW n \in DOMAIN node_storage, NEW a \in Legal[node_storage[n].game_state],
             SampleChance(n, a)
      PROVE  KeepsBelow'
  <2>1. CASE a \in Tried(n)
    <3>1. PICK child \in Children(n) : path' = Append(path, child.node)
      BY <1>4, <2>1 DEF SampleChance
    <3>2. child.node \in ChildNodes(n)
      BY DEF ChildNodes
    <3>3. child.node \in Nat /\ child.node # RootIndex
      BY <3>2, KidsType, NodeTypes DEF KidsTyped, TreeInv
    <3>4. RootOnlyOnce'
      BY <3>1, <3>3, PathBelow DEF TreeInv, KeepsBelow
    <3>5. UNCHANGED node_storage
      BY <1>4, <2>1 DEF SampleChance
    <3> QED
      BY <3>4, <3>5 DEF KeepsBelow, Exhausted, Children
  <2>2. CASE a \notin Tried(n)
    BY <1>4, <2>2, AddChildBelow DEF SampleChance
  <2> QED
    BY <2>1, <2>2
<1>5. ASSUME NEW outcome \in Players \cup {Draw}, Simulate(outcome) PROVE KeepsBelow'
  <2>1. /\ Len(node_storage') = Len(node_storage) /\ node_storage' \in Seq(Nodes)
        /\ \A i \in DOMAIN node_storage :
              /\ node_storage'[i].children = node_storage[i].children
              /\ node_storage'[i].untried_exhausted = node_storage[i].untried_exhausted
    BY <1>5, BackpropagateEffect DEF TreeInv
  <2>2. DOMAIN node_storage' = DOMAIN node_storage
    BY <2>1, NodeTypes DEF TreeInv
  <2>3. path' = <<RootIndex>>
    BY <1>5 DEF Simulate
  <2>4. RootOnlyOnce'
    BY <2>3 DEF RootOnlyOnce
  <2> QED
    BY <2>1, <2>2, <2>4 DEF KeepsBelow, Exhausted, Children
<1>6. RootIndex \in DOMAIN node_storage
  BY NodeTypes DEF TreeInv, TypeOK, RootIndex
<1> QED
  BY <1>1, <1>2, <1>3, <1>4, <1>5, <1>6 DEF Next

\* So what the two theorems above ask of the search is given by such a game.
THEOREM NeverBackToTheRoot == ASSUME NoMoveLoses PROVE Spec => []RootOnlyOnce
<1>1. Init => KeepsBelow
  <2> SUFFICES ASSUME Init PROVE KeepsBelow
    OBVIOUS
  <2>1. /\ DOMAIN node_storage = {1} /\ node_storage[1] = NewNode(Start) /\ path = <<1>>
    BY DEF Init, RootIndex
  <2> QED
    BY <2>1 DEF KeepsBelow, RootOnlyOnce, Exhausted, NewNode
<1>2. KeepsBelow => RootOnlyOnce
  BY DEF KeepsBelow
<1>3. TreeInv /\ KeepsBelow /\ [Next]_vars => KeepsBelow'
  BY NextBelow
<1> QED
  BY <1>1, <1>2, <1>3, SearchKeepsTree, PTL DEF Spec

\* In such a game visits and values add up without condition.
THEOREM SearchAddsUp == ASSUME NoMoveLoses PROVE Spec => []RootCountsIterations /\ []Conserved
  BY NeverBackToTheRoot, RootCountsEach, VisitsAndValuesConserved, PTL
-----------------------------------------------------------------------------
\* The answer.  A lost child of the root is visited by the iteration that made it
\* and by no other, while every iteration visits some child of the root: after
\* more iterations than there are moves, one that is not lost is ahead.
DecidesAtRoot == IsFiniteSet(Legal[Start]) /\ Mover[Start] # Chance

LostOnce ==
    \A c \in ChildNodes(RootIndex) : LossFor(RootIndex, c) => Visited[c] + Times(c) <= 1
AllGoDown ==
    ~IsTerminal(RootIndex) =>
        /\ SumFunctionOnSet(Visited, ChildNodes(RootIndex)) >= iterations
        /\ \/ Last(path) = RootIndex /\ ~selected
           \/ \E k \in DOMAIN path : path[k] \in ChildNodes(RootIndex)
AnswerInv == node_storage[RootIndex].game_state = Start /\ LostOnce /\ AllGoDown

LEMMA TimesType ==
    ASSUME TypeOK, NEW i
    PROVE  Times(i) \in Nat /\ \A k \in DOMAIN path : path[k] = i => Times(i) >= 1
<1> DEFINE at == {k \in DOMAIN path : path[k] = i}
<1>1. IsFiniteSet(at)
  <2>1. DOMAIN path = 1 .. Len(path) /\ Len(path) \in Int
    BY DEF TypeOK
  <2>2. IsFiniteSet(DOMAIN path)
    BY <2>1, FS_Interval
  <2> QED
    BY <2>2, FS_Subset
<1>2. Times(i) = Cardinality(at)
  BY DEF Times
<1>3. \A k \in DOMAIN path : path[k] = i => at # {}
  OBVIOUS
<1> HIDE DEF at
<1>4. Cardinality(at) \in Nat /\ (at # {} => Cardinality(at) # 0)
  BY <1>1, FS_CardinalityType, FS_EmptySet
<1> QED
  BY <1>2, <1>3, <1>4

\* A node that comes into the path is on it once more, the others as before.
LEMMA TimesGoOn ==
    ASSUME TypeOK, NEW c \in Nat, path' = Append(path, c), NEW i
    PROVE  /\ i # c => Times(i)' = Times(i)
           /\ c \notin DOMAIN node_storage => Times(c)' = 1
           /\ DOMAIN path \subseteq DOMAIN path' /\ Last(path') = c
           /\ \A k \in DOMAIN path : path'[k] = path[k]
           /\ \E k \in DOMAIN path' : path'[k] = c
<1>1. path \in Seq(Nat) /\ Len(path) \in Nat
  BY NodeTypes DEF TypeOK
<1>2. /\ DOMAIN path' = DOMAIN path \cup {Len(path) + 1} /\ Len(path) + 1 \notin DOMAIN path
      /\ path'[Len(path) + 1] = c /\ Len(path') = Len(path) + 1
      /\ \A k \in DOMAIN path : path'[k] = path[k]
  BY <1>1
<1>3. i # c => {k \in DOMAIN path' : path'[k] = i} = {k \in DOMAIN path : path[k] = i}
  BY <1>2
<1>4. c \notin DOMAIN node_storage => {k \in DOMAIN path' : path'[k] = c} = {Len(path) + 1}
  BY <1>2, PathType
<1>5. c \notin DOMAIN node_storage => Cardinality({k \in DOMAIN path' : path'[k] = c}) = 1
  BY <1>4, FS_Singleton
<1> QED
  BY <1>2, <1>3, <1>5 DEF Times, Last

\* A step of select() that goes from the node `last` on to the node c.
LEMMA GoesOnDown ==
    ASSUME TreeInv, TreeInv', AnswerInv, GrowsUnvisited, ~selected, UNCHANGED iterations,
           NEW c \in Nat, path' = Append(path, c),
           selected' => c # RootIndex,
           Last(path) = RootIndex => c \in ChildNodes(RootIndex)' \cup {RootIndex},
           c \in ChildNodes(RootIndex)' \ ChildNodes(RootIndex) => c \notin DOMAIN node_storage,
           ChildNodes(RootIndex)' \subseteq ChildNodes(RootIndex) \cup {c},
           c \in ChildNodes(RootIndex) => ~LossFor(RootIndex, c)
    PROVE  AnswerInv'
<1>1. /\ RootIndex \in DOMAIN node_storage /\ RootIndex \in DOMAIN node_storage'
      /\ TypeOK /\ KidsTyped
  BY NodeTypes, KidsType DEF TreeInv, TypeOK, RootIndex, GrowsUnvisited
<1>2. /\ SumFunctionOnSet(Visited', ChildNodes(RootIndex)')
             = SumFunctionOnSet(Visited, ChildNodes(RootIndex))
      /\ IsTerminal(RootIndex)' <=> IsTerminal(RootIndex)
  BY <1>1, SumsStay
<1>3. node_storage'[RootIndex].game_state = Start
  BY <1>1 DEF AnswerInv, GrowsUnvisited
<1>4. ASSUME NEW d \in ChildNodes(RootIndex)', LossFor(RootIndex, d)'
      PROVE  Visited'[d] + Times(d)' <= 1
  <2>1. CASE d \in ChildNodes(RootIndex)
    <3>1. d \in DOMAIN node_storage
      BY <1>1, <2>1 DEF KidsTyped
    <3>2. Visited'[d] = Visited[d] /\ (LossFor(RootIndex, d)' <=> LossFor(RootIndex, d))
      BY <1>1, <3>1 DEF GrowsUnvisited, Visited, LossFor, ToMove
    <3>3. d # c
      BY <1>4, <2>1, <3>2
    <3>4. Times(d)' = Times(d)
      BY <1>1, <3>3, TimesGoOn
    <3> QED
      BY <1>4, <2>1, <3>2, <3>4 DEF AnswerInv, LostOnce
  <2>2. CASE d \notin ChildNodes(RootIndex)
    <3>1. d = c /\ c \notin DOMAIN node_storage
      BY <2>2
    <3>2. Times(d)' = 1
      BY <1>1, <3>1, TimesGoOn
    <3>3. Visited'[d] = 0
      BY <1>1, <2>2 DEF GrowsUnvisited
    <3> QED
      BY <3>2, <3>3
  <2> QED
    BY <2>1, <2>2
<1>5. LostOnce'
  BY <1>4 DEF LostOnce
<1>6. ASSUME ~IsTerminal(RootIndex)
      PROVE  \/ Last(path') = RootIndex /\ ~selected'
             \/ \E k \in DOMAIN path' : path'[k] \in ChildNodes(RootIndex)'
  <2>1. CASE Last(path) = RootIndex
    BY <1>1, <2>1, TimesGoOn
  <2>2. CASE Last(path) # RootIndex
    <3>1. PICK k \in DOMAIN path : path[k] \in ChildNodes(RootIndex)
      BY <1>6, <2>2 DEF AnswerInv, AllGoDown
    <3>2. k \in DOMAIN path' /\ path'[k] = path[k]
      BY <1>1, TimesGoOn
    <3>3. ChildNodes(RootIndex) \subseteq ChildNodes(RootIndex)'
      BY <1>1 DEF GrowsUnvisited
    <3> QED
      BY <3>1, <3>2, <3>3
  <2> QED
    BY <2>1, <2>2
<1>7. AllGoDown'
  BY <1>2, <1>6 DEF AnswerInv, AllGoDown
<1> QED
  BY <1>3, <1>5, <1>7 DEF AnswerInv

LEMMA AddChildAnswers ==
    ASSUME TreeInv, TreeInv', AnswerInv, ~selected, UNCHANGED iterations,
           NEW n \in DOMAIN node_storage, NEW a \in Legal[node_storage[n].game_state],
           n = Last(path), AddChild(n, a)
    PROVE  AnswerInv'
<1> PICK next : next = Len(node_storage) + 1
  OBVIOUS
<1> DEFINE state == Apply[node_storage[n].game_state][a]
<1>1. /\ TypeOK /\ Len(node_storage) \in Nat /\ DOMAIN node_storage = 1 .. Len(node_storage)
      /\ next \in Nat /\ next \notin DOMAIN node_storage /\ next # RootIndex
      /\ RootIndex \in DOMAIN node_storage
  BY NodeTypes DEF TreeInv, TypeOK, RootIndex
<1>2. /\ Len(node_storage') = next /\ node_storage' \in Seq(Nodes)
      /\ \A i \in DOMAIN node_storage :
            /\ node_storage'[i].game_state = node_storage[i].game_state
            /\ node_storage'[i].num_visits = node_storage[i].num_visits
            /\ node_storage'[i].total_value = node_storage[i].total_value
      /\ node_storage'[next] = NewNode(state) /\ path' = Append(path, next)
  BY <1>1, AddChildEffect
<1>3. DOMAIN node_storage' = DOMAIN node_storage \cup {next}
  BY <1>1, <1>2
<1>4. \A i \in DOMAIN node_storage :
          ChildNodes(i)' = IF i = n THEN ChildNodes(n) \cup {next} ELSE ChildNodes(i)
  BY <1>1, AddChildKids
<1>5. Visited'[next] = 0 /\ \A p \in Players : Valued(p)'[next] = 0
  BY <1>2, <1>3 DEF Visited, Valued, NewNode
<1>6. GrowsUnvisited
  BY <1>2, <1>3, <1>4, <1>5 DEF GrowsUnvisited
<1>7. next \notin ChildNodes(RootIndex)
  BY <1>1, KidsType DEF KidsTyped
<1>8. /\ ChildNodes(RootIndex)' \subseteq ChildNodes(RootIndex) \cup {next}
      /\ n = RootIndex => next \in ChildNodes(RootIndex)'
  BY <1>1, <1>4
<1> QED
  BY <1>1, <1>2, <1>6, <1>7, <1>8, GoesOnDown

\* Only from the root does the search go on to a child of the root.
LEMMA OneParent ==
    ASSUME TreeInv, NEW n \in DOMAIN node_storage, NEW m \in DOMAIN node_storage,
           NEW c \in ChildNodes(n), c \in ChildNodes(m)
    PROVE  n = m
<1>1. c \in DOMAIN node_storage \ {RootIndex}
  BY KidsType DEF KidsTyped
<1>2. PICK p \in DOMAIN node_storage : Parents(c) = {p}
  BY <1>1 DEF TreeInv
<1>3. n \in Parents(c) /\ m \in Parents(c)
  BY DEF Parents
<1> QED
  BY <1>2, <1>3

LEMMA DescendAnswers ==
    ASSUME TreeInv, TreeInv', AnswerInv, NEW n \in DOMAIN node_storage,
           NEW c \in DOMAIN node_storage, Descend(n, c)
    PROVE  AnswerInv'
<1>1. /\ ~selected /\ ~selected' /\ n = Last(path) /\ UNCHANGED iterations
      /\ path' = Append(path, c) /\ c \in BestChildren(n)
  BY DEF Descend, Selecting
<1>2. /\ DOMAIN node_storage' = DOMAIN node_storage
      /\ \A i \in DOMAIN node_storage :
            /\ node_storage'[i].game_state = node_storage[i].game_state
            /\ node_storage'[i].num_visits = node_storage[i].num_visits
            /\ node_storage'[i].total_value = node_storage[i].total_value
            /\ node_storage'[i].children = node_storage[i].children
  BY DescendEffect DEF TreeInv
<1>3. \A i \in DOMAIN node_storage : ChildNodes(i)' = ChildNodes(i)
  BY <1>2 DEF ChildNodes, Children
<1>4. GrowsUnvisited
  BY <1>2, <1>3 DEF GrowsUnvisited
<1>5. c \in Nat /\ RootIndex \in DOMAIN node_storage
  BY NodeTypes DEF TreeInv, TypeOK, RootIndex
<1>6. c # RootIndex => c \in ChildNodes(n) /\ ~LossFor(n, c)
  BY <1>1, BestIsDecisive
<1>7. c \in ChildNodes(RootIndex) => ~LossFor(RootIndex, c)
  <2>1. c \in ChildNodes(RootIndex) => c # RootIndex
    BY <1>5, KidsType DEF KidsTyped
  <2> QED
    BY <1>5, <1>6, <2>1, OneParent
<1> QED
  BY <1>1, <1>3, <1>4, <1>5, <1>6, <1>7, GoesOnDown

LEMMA SampleChanceAnswers ==
    ASSUME TreeInv, TreeInv', AnswerInv, DecidesAtRoot, NEW n \in DOMAIN node_storage,
           NEW a \in Legal[node_storage[n].game_state], SampleChance(n, a)
    PROVE  AnswerInv'
<1>1. ~selected /\ n = Last(path) /\ UNCHANGED iterations /\ ToMove(n) = Chance
  BY DEF SampleChance, Selecting
<1>2. CASE a \in Tried(n)
  <2>1. PICK child \in Children(n) : path' = Append(path, child.node)
    BY <1>2 DEF SampleChance
  <2> DEFINE c == child.node
  <2>2. UNCHANGED <<node_storage, selected>> /\ c \in ChildNodes(n)
    BY <1>2 DEF SampleChance, ChildNodes
  <2>3. GrowsUnvisited /\ ChildNodes(RootIndex)' = ChildNodes(RootIndex)
    BY <2>2 DEF GrowsUnvisited, ChildNodes, Children
  <2>4. n # RootIndex
    BY <1>1 DEF DecidesAtRoot, AnswerInv, ToMove
  <2>5. c \in Nat /\ RootIndex \in DOMAIN node_storage
    BY <2>2, KidsType, NodeTypes DEF KidsTyped, TreeInv, TypeOK, RootIndex
  <2>6. c \notin ChildNodes(RootIndex)
    BY <2>2, <2>4, <2>5, OneParent
  <2> HIDE DEF c
  <2>7. path' = Append(path, c) /\ ~selected'
    BY <1>1, <2>1, <2>2 DEF c
  <2> QED
    BY <1>1, <2>3, <2>4, <2>5, <2>6, <2>7, GoesOnDown
<1>3. CASE a \notin Tried(n)
  BY <1>1, <1>3, AddChildAnswers DEF SampleChance
<1> QED
  BY <1>2, <1>3

\* A playout counts one child of the root, at least once.
LEMMA SimulateAnswers ==
    ASSUME TreeInv, TreeInv', AnswerInv, NEW outcome \in Players \cup {Draw}, Simulate(outcome)
    PROVE  AnswerInv'
<1> DEFINE kids == ChildNodes(RootIndex)
<1>1. /\ TypeOK /\ selected /\ RootIndex \in DOMAIN node_storage
      /\ path' = <<RootIndex>> /\ ~selected' /\ iterations' = iterations + 1 /\ iterations \in Nat
      /\ IsFiniteSet(kids) /\ kids \subseteq DOMAIN node_storage /\ RootIndex \notin kids
  BY NodeTypes, KidsType DEF TreeInv, TypeOK, Simulate, RootIndex, KidsTyped
<1>2. /\ Len(node_storage') = Len(node_storage) /\ node_storage' \in Seq(Nodes)
      /\ \A i \in DOMAIN node_storage :
            /\ Times(i) \in Nat
            /\ node_storage'[i].game_state = node_storage[i].game_state
            /\ node_storage'[i].children = node_storage[i].children
            /\ node_storage'[i].num_visits = node_storage[i].num_visits + Times(i)
  BY <1>1, BackpropagateEffect
<1>3. DOMAIN node_storage' = DOMAIN node_storage
  BY <1>1, <1>2, NodeTypes DEF TypeOK
<1>4. \A i \in DOMAIN node_storage :
          Visited'[i] = Visited[i] + Times(i) /\ Visited[i] \in Nat /\ Times(i) \in Nat
  BY <1>2, <1>3, KidsType DEF Visited, KidsTyped
<1>5. ChildNodes(RootIndex)' = kids /\ (IsTerminal(RootIndex)' <=> IsTerminal(RootIndex))
  BY <1>1, <1>2 DEF ChildNodes, Children, IsTerminal
<1>6. \A d \in kids : Times(d)' = 0
  <2> SUFFICES ASSUME NEW d \in kids  PROVE Times(d)' = 0
    OBVIOUS
  <2>1. {k \in DOMAIN path' : path'[k] = d} = {}
    BY <1>1
  <2>2. Cardinality({k \in DOMAIN path' : path'[k] = d}) = 0
    BY <2>1, FS_EmptySet
  <2> QED
    BY <2>2 DEF Times
<1>7. \A d \in kids : LossFor(RootIndex, d)' <=> LossFor(RootIndex, d)
  BY <1>1, <1>2 DEF LossFor, ToMove
<1>8. LostOnce'
  <2> SUFFICES ASSUME NEW d \in kids, LossFor(RootIndex, d)  PROVE Visited'[d] + Times(d)' <= 1
    BY <1>5, <1>7 DEF LostOnce
  <2> QED
    BY <1>1, <1>4, <1>6 DEF AnswerInv, LostOnce
<1>9. ASSUME ~IsTerminal(RootIndex)
      PROVE  SumFunctionOnSet(Visited', kids) >= iterations + 1
  <2>1. PICK k \in DOMAIN path : path[k] \in kids
    BY <1>1, <1>9 DEF AnswerInv, AllGoDown
  <2> DEFINE times == [d \in kids |-> Times(d)]
             e == path[k]
  <2>2. e \in kids /\ times[e] >= 1
    BY <1>1, <2>1, TimesType
  <2>3. \A d \in kids : Visited[d] \in Int /\ times[d] \in Int /\ times[d] \in Nat
                        /\ Visited'[d] = Visited[d] + times[d]
    BY <1>1, <1>4
  <2> HIDE DEF times, kids, e
  <2>4. SumOver(Visited', kids) = SumOver(Visited, kids) + SumOver(times, kids)
    BY <1>1, <2>3, SumPlus
  <2>5. times[e] <= SumOver(times, kids)
    BY <1>1, <2>2, <2>3, SumBounds
  <2>6. SumOver(Visited, kids) \in Int /\ SumOver(times, kids) \in Int
    BY <1>1, <2>3, SumType
  <2>7. SumFunctionOnSet(Visited, kids) >= iterations
    BY <1>9 DEF AnswerInv, AllGoDown, kids
  <2>8. times[e] \in Int
    BY <2>2, <2>3
  <2> QED
    BY <1>1, <2>2, <2>4, <2>5, <2>6, <2>7, <2>8, SumsAgree
<1>10. AllGoDown'
  <2>1. Last(path') = RootIndex
    BY <1>1 DEF Last
  <2> QED
    BY <1>1, <1>5, <1>9, <2>1 DEF AllGoDown
<1> QED
  BY <1>1, <1>2, <1>8, <1>10 DEF AnswerInv

LEMMA NextAnswers ==
    ASSUME DecidesAtRoot, TreeInv, TreeInv', AnswerInv, [Next]_vars
    PROVE  AnswerInv'
<1>1. ASSUME NEW n \in DOMAIN node_storage, StopAtTerminal(n) PROVE AnswerInv'
  <2>1. UNCHANGED <<node_storage, path, iterations>> /\ n = Last(path) /\ IsTerminal(n)
    BY <1>1 DEF StopAtTerminal, Selecting
  <2>2. LostOnce'
    BY <2>1 DEF AnswerInv, LostOnce, Times, Visited, LossFor, ToMove, ChildNodes, Children
  <2>3. AllGoDown'
    BY <2>1 DEF AnswerInv, AllGoDown, IsTerminal, Visited, ChildNodes, Children
  <2> QED
    BY <2>1, <2>2, <2>3 DEF AnswerInv
<1>2. CASE UNCHANGED vars
  BY <1>2 DEF vars, AnswerInv, LostOnce, AllGoDown, Times, Visited, LossFor, ToMove, IsTerminal,
              ChildNodes, Children
<1>3. ASSUME NEW n \in DOMAIN node_storage, NEW a \in Legal[node_storage[n].game_state], Expand(n, a)
      PROVE  AnswerInv'
  BY <1>3, AddChildAnswers DEF Expand, Selecting
<1>4. ASSUME NEW n \in DOMAIN node_storage, NEW c \in DOMAIN node_storage, Descend(n, c)
      PROVE  AnswerInv'
  BY <1>4, DescendAnswers
<1>5. ASSUME NEW n \in DOMAIN node_storage, NEW a \in Legal[node_storage[n].game_state],
             SampleChance(n, a)
      PROVE  AnswerInv'
  BY <1>5, SampleChanceAnswers
<1>6. ASSUME NEW outcome \in Players \cup {Draw}, Simulate(outcome) PROVE AnswerInv'
  BY <1>6, SimulateAnswers
<1> QED
  BY <1>1, <1>2, <1>3, <1>4, <1>5, <1>6 DEF Next

\* The move visited most has been visited twice, which no lost one has.
LEMMA AnswerWins == DecidesAtRoot /\ TreeInv /\ AnswerInv => AnswerIsNoLoss
<1> SUFFICES ASSUME DecidesAtRoot, TreeInv, AnswerInv,
                    iterations > Cardinality(Legal[Start]), ~IsTerminal(RootIndex)
             PROVE  Result[Apply[Start][BestAction]] \notin Players \ {ToMove(RootIndex)}
  BY DEF AnswerIsNoLoss
<1> DEFINE kids == ChildNodes(RootIndex)
           children == node_storage[RootIndex].children
<1>1. /\ TypeOK /\ RootIndex \in DOMAIN node_storage /\ NodeInv(RootIndex) /\ KidsTyped
      /\ children \in Seq(Edges) /\ Len(children) \in Nat /\ DOMAIN children = 1 .. Len(children)
      /\ iterations \in Nat /\ node_storage[RootIndex].game_state = Start
  BY NodeTypes, KidsType DEF TreeInv, TypeOK, RootIndex, AnswerInv
<1>2. IsFiniteSet(kids) /\ \A d \in kids : Visited[d] \in Nat /\ Times(d) \in Nat
  BY <1>1, TimesType DEF KidsTyped
<1>3. kids = {children[i].node : i \in 1 .. Len(children)}
  BY <1>1 DEF ChildNodes, Children, Range
<1>4. Cardinality(kids) <= Cardinality(Legal[Start])
  <2> DEFINE edges == Children(RootIndex)
  <2>1. Tried(RootIndex) \subseteq Legal[Start]
    BY <1>1 DEF NodeInv, EdgesLead, Tried
  <2>2. /\ Cardinality(Tried(RootIndex)) = Len(children)
        /\ Cardinality(Tried(RootIndex)) <= Cardinality(Legal[Start])
    BY <1>1, <2>1, FS_Subset DEF NodeInv, TriedOnce, DecidesAtRoot
  <2>3. Cardinality(kids) <= Len(children)
    <3> DEFINE numbers == 1 .. Len(children)
               f == [i \in numbers |-> children[i].node]
    <3>1. f \in Surjection(numbers, kids)
      BY <1>3 DEF Surjection
    <3>2. IsFiniteSet(numbers) /\ Cardinality(numbers) = Len(children)
      <4>1. 1 \in Int /\ Len(children) \in Int /\ (1 > Len(children) => Len(children) = 0)
            /\ Len(children) - 1 + 1 = Len(children)
        BY <1>1
      <4> QED
        BY <4>1, FS_Interval
    <3> HIDE DEF numbers, f, kids
    <3> QED
      BY <3>1, <3>2, FS_Surjection
  <2> HIDE DEF kids
  <2>4. /\ Cardinality(kids) \in Nat /\ Cardinality(Legal[Start]) \in Nat
    BY <1>2, FS_CardinalityType DEF DecidesAtRoot
  <2> QED
    BY <1>1, <2>2, <2>3, <2>4
<1>5. \E c \in kids : Visited[c] >= 2
  <2> SUFFICES ASSUME \A c \in kids : ~(Visited[c] >= 2)  PROVE FALSE
    OBVIOUS
  <2>1. \A c \in kids : Visited[c] \in Int /\ Visited[c] <= 1
    BY <1>2
  <2>2. SumFunctionOnSet(Visited, kids) >= iterations
    BY DEF AnswerInv, AllGoDown
  <2>3. \A c \in kids : Visited[c] \in Int
    BY <1>2
  <2> HIDE DEF kids
  <2>4. SumOver(Visited, kids) <= Cardinality(kids) /\ SumOver(Visited, kids) \in Int
    BY <1>2, <2>1, <2>3, SumAtMost, SumType
  <2>5. /\ Cardinality(kids) \in Nat /\ Cardinality(Legal[Start]) \in Nat
    BY <1>2, FS_CardinalityType DEF DecidesAtRoot
  <2> QED
    BY <1>1, <1>4, <2>2, <2>4, <2>5, SumsAgree
<1> DEFINE Most(child) == \A c \in {k.node : k \in Range(children)} : Visits(child.node) >= Visits(c)
           I == {i \in 1 .. Len(children) : Most(children[i])}
<1>6. {k.node : k \in Range(children)} = kids
  BY DEF ChildNodes, Children
<1>7. \A d \in kids : Visits(d) = Visited[d]
  BY <1>1 DEF Visits, Visited, KidsTyped
<1>8. I # {}
  <2>1. PICK m \in kids : \A d \in kids : Visited[d] <= Visited[m]
    <3>1. kids # {} /\ \A d \in kids : Visited[d] \in Int
      BY <1>2, <1>5
    <3> HIDE DEF kids
    <3> QED
      BY <1>2, <3>1, GreatestExists
  <2>2. PICK i \in 1 .. Len(children) : children[i].node = m
    BY <1>3
  <2>3. \A c \in kids : Visits(children[i].node) >= Visits(c)
    BY <1>2, <1>7, <2>1, <2>2
  <2> QED
    BY <1>6, <2>2, <2>3
<1>9. Min(I) \in I
  <2>1. I \in SUBSET Nat
    BY <1>1
  <2> HIDE DEF I
  <2> QED
    BY <1>8, <2>1, MinIsIn
<1>10. BestAction = children[Min(I)].action
  <2>1. BestAction = children[SelectInSeq(children, Most)].action
    BY DEF BestAction
  <2>2. SelectInSeq(children, Most) = Min(I)
    BY <1>8 DEF SelectInSeq
  <2> QED
    BY <2>1, <2>2
<1> DEFINE best == children[Min(I)]
<1>11. best \in Children(RootIndex) /\ best.node \in kids /\ Visited[best.node] >= 2
  <2>1. Min(I) \in 1 .. Len(children) /\ \A c \in kids : Visits(best.node) >= Visits(c)
    BY <1>6, <1>9
  <2>2. best \in Children(RootIndex) /\ best.node \in kids
    BY <1>1, <1>3, <2>1 DEF Children, Range
  <2>3. PICK c \in kids : Visited[c] >= 2
    BY <1>5
  <2> HIDE DEF best, kids
  <2>4. Visited[best.node] >= Visited[c] /\ Visited[best.node] \in Nat /\ Visited[c] \in Nat
    BY <1>2, <1>7, <2>1, <2>2, <2>3
  <2> QED
    BY <2>2, <2>3, <2>4
<1> HIDE DEF best
<1>12. ~LossFor(RootIndex, best.node)
  BY <1>2, <1>11 DEF AnswerInv, LostOnce
<1>13. node_storage[best.node].game_state = Apply[Start][best.action]
  BY <1>1, <1>11 DEF NodeInv, EdgesLead
<1> QED
  BY <1>10, <1>12, <1>13 DEF LossFor, best

\* Asked where a player decides among finitely many moves, the search goes back to
\* no move that loses outright, to no other once it has found one that wins, and
\* answers none that loses outright after more iterations than there are moves:
\* in any game, the ones whose mover may lose at once included.
THEOREM SelectionAlwaysDecides == ASSUME DecidesAtRoot PROVE Spec => SelectionDecides
<1>1. Init => AnswerInv
  <2> SUFFICES ASSUME Init PROVE AnswerInv
    OBVIOUS
  <2>1. /\ node_storage[1] = NewNode(Start) /\ path = <<1>> /\ ~selected /\ iterations = 0
    BY DEF Init, RootIndex
  <2>2. ChildNodes(1) = {} /\ Last(path) = 1
    BY <2>1 DEF ChildNodes, Children, NewNode, Range, Last
  <2>3. SumFunctionOnSet(Visited, ChildNodes(1)) = 0
    BY <2>2, SumsAgree, SumOfNone
  <2> QED
    BY <2>1, <2>2, <2>3 DEF AnswerInv, LostOnce, AllGoDown, NewNode, RootIndex
<1>2. TreeInv /\ TreeInv' /\ AnswerInv /\ [Next]_vars => AnswerInv'
  BY NextAnswers
<1>3. TreeInv /\ AnswerInv => AnswerIsNoLoss
  BY AnswerWins
<1> QED
  BY <1>1, <1>2, <1>3, SearchKeepsTree, DecisionsAreDecisive, PTL DEF Spec, SelectionDecides
=============================================================================
