---------------------------- MODULE MCTournament ----------------------------
EXTENDS RiskTournament

\* The first seat wins on the last move allowed, the second at once, and a win
\* the move cap does not wait for.
SomeGames == { [moves |-> 2, result |-> 0], [moves |-> 1, result |-> 1],
               [moves |-> 3, result |-> 0] }

Section == <<"[policy]">>
Called(name) == <<"name", name>>
Is(type) == <<"type", type>>
Names == << <<"a", " ">>, <<"a", ".">> >>
SomeConfigs == {
    \* two players whose names make the same file name
    <<Section, Called(Names[1]), Is("mcts"), <<"tree_proposer", "smart">>,
      Section, Called(Names[2]), Is("random")>>,
    \* keys before a section, rollouts that would stall, an unknown rollout, no type
    <<Is("mcts"), Section>>,
    <<Section, Called(Names[1]), Is("mcts"), <<"proposer", "atk">>, Section, Called(Names[2]), Is("random")>>,
    <<Section, Called(Names[1]), Is("mcts"), <<"rollout", "fast">>, Section, Called(Names[2]), Is("random")>>,
    <<Section, Called(Names[1]), Section, Called(Names[2]), Is("random")>>,
    <<Section, Called(Names[1]), Is("random")>>}
=============================================================================
