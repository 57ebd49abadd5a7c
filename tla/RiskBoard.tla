------------------------------ MODULE RiskBoard ------------------------------
(***************************************************************************)
(* The board the rules are played on (risk_board.h): each country's        *)
(* neighbours and each continent's countries, written out by hand twice    *)
(* over with their counts, and the edges and masks computed from them.     *)
(***************************************************************************)
EXTENDS Integers, Sequences, FiniteSets, FiniteSetsExt, TLC

VARIABLE country      \* the country looked at

\* A row's array has room for every neighbour; past the initializers it holds
\* the first country of the enumeration.
Padding == "Afghanistan"
Padded(list, room) == list \o [i \in 1..room - Len(list) |-> Padding]
Entry(count, list) == [count |-> count, neighbors |-> Padded(list, 6)]
Land(bonus, count, list) == [bonus |-> bonus, count |-> count, countries |-> Padded(list, 12)]

\* The rows of kBoard, in two halves.
RowsToKamchatka ==
    [Afghanistan |-> Entry(5, <<"China", "India", "Middle_East", "Ukraine", "Ural">>),
     Alaska |-> Entry(3, <<"Alberta", "Kamchatka", "Northwest_Territory">>),
     Alberta |-> Entry(4, <<"Alaska", "Northwest_Territory", "Ontario", "Western_United_States">>),
     Argentina |-> Entry(2, <<"Brazil", "Peru">>),
     Brazil |-> Entry(4, <<"Argentina", "North_Africa", "Peru", "Venezuela">>),
     Central_Africa |-> Entry(3, <<"East_Africa", "North_Africa", "South_Africa">>),
     Central_America |-> Entry(3, <<"Eastern_United_States", "Venezuela", "Western_United_States">>),
     China |-> Entry(6, <<"Afghanistan", "India", "Mongolia", "Siberia", "Southeast_Asia", "Ural">>),
     East_Africa |-> Entry(6, <<"Central_Africa", "Egypt", "Madagascar", "Middle_East", "North_Africa",
            "South_Africa">>),
     Eastern_Australia |-> Entry(2, <<"New_Guinea", "Western_Australia">>),
     Eastern_Canada |-> Entry(3, <<"Eastern_United_States", "Greenland", "Ontario">>),
     Eastern_United_States |-> Entry(4, <<"Central_America", "Eastern_Canada", "Ontario", "Western_United_States">>),
     Egypt |-> Entry(4, <<"East_Africa", "Middle_East", "North_Africa", "Southern_Europe">>),
     Great_Britain |-> Entry(4, <<"Iceland", "Northern_Europe", "Scandinavia", "Western_Europe">>),
     Greenland |-> Entry(4, <<"Eastern_Canada", "Iceland", "Northwest_Territory", "Ontario">>),
     Iceland |-> Entry(3, <<"Great_Britain", "Greenland", "Scandinavia">>),
     India |-> Entry(4, <<"Afghanistan", "China", "Middle_East", "Southeast_Asia">>),
     Indonesia |-> Entry(3, <<"New_Guinea", "Southeast_Asia", "Western_Australia">>),
     Irkutsk |-> Entry(4, <<"Kamchatka", "Mongolia", "Siberia", "Yakutsk">>),
     Japan |-> Entry(2, <<"Kamchatka", "Mongolia">>),
     Kamchatka |-> Entry(5, <<"Alaska", "Irkutsk", "Japan", "Mongolia", "Yakutsk">>)]

RowsFromMadagascar ==
    [Madagascar |-> Entry(2, <<"East_Africa", "South_Africa">>),
     Middle_East |-> Entry(6, <<"Afghanistan", "East_Africa", "Egypt", "India", "Southern_Europe",
            "Ukraine">>),
     Mongolia |-> Entry(5, <<"China", "Irkutsk", "Japan", "Kamchatka", "Siberia">>),
     New_Guinea |-> Entry(2, <<"Eastern_Australia", "Indonesia">>),
     North_Africa |-> Entry(6, <<"Brazil", "Central_Africa", "East_Africa", "Egypt", "Southern_Europe",
            "Western_Europe">>),
     Northern_Europe |-> Entry(5, <<"Great_Britain", "Scandinavia", "Southern_Europe", "Ukraine",
            "Western_Europe">>),
     Northwest_Territory |-> Entry(4, <<"Alaska", "Alberta", "Greenland", "Ontario">>),
     Ontario |-> Entry(6, <<"Alberta", "Eastern_Canada", "Eastern_United_States", "Greenland",
            "Northwest_Territory", "Western_United_States">>),
     Peru |-> Entry(3, <<"Argentina", "Brazil", "Venezuela">>),
     Scandinavia |-> Entry(4, <<"Great_Britain", "Iceland", "Northern_Europe", "Ukraine">>),
     Siberia |-> Entry(5, <<"China", "Irkutsk", "Mongolia", "Ural", "Yakutsk">>),
     South_Africa |-> Entry(3, <<"Central_Africa", "East_Africa", "Madagascar">>),
     Southeast_Asia |-> Entry(3, <<"China", "India", "Indonesia">>),
     Southern_Europe |-> Entry(6, <<"Egypt", "Middle_East", "North_Africa", "Northern_Europe", "Ukraine",
            "Western_Europe">>),
     Ukraine |-> Entry(6, <<"Afghanistan", "Middle_East", "Northern_Europe", "Scandinavia",
            "Southern_Europe", "Ural">>),
     Ural |-> Entry(4, <<"Afghanistan", "China", "Siberia", "Ukraine">>),
     Venezuela |-> Entry(3, <<"Brazil", "Central_America", "Peru">>),
     Western_Australia |-> Entry(2, <<"Eastern_Australia", "Indonesia">>),
     Western_Europe |-> Entry(4, <<"Great_Britain", "North_Africa", "Northern_Europe", "Southern_Europe">>),
     Western_United_States |-> Entry(4, <<"Alberta", "Central_America", "Eastern_United_States", "Ontario">>),
     Yakutsk |-> Entry(3, <<"Irkutsk", "Kamchatka", "Siberia">>)]

kBoard == RowsToKamchatka @@ RowsFromMadagascar

kContinents ==
    [Africa |-> Land(3, 6, <<"Central_Africa", "East_Africa", "Egypt", "Madagascar", "North_Africa",
            "South_Africa">>),
     Asia |-> Land(7, 12, <<"Afghanistan", "China", "India", "Irkutsk", "Japan", "Kamchatka",
            "Middle_East", "Mongolia", "Siberia", "Southeast_Asia", "Ural",
            "Yakutsk">>),
     Australia |-> Land(2, 4, <<"Eastern_Australia", "Indonesia", "New_Guinea", "Western_Australia">>),
     Europe |-> Land(5, 7, <<"Great_Britain", "Iceland", "Northern_Europe", "Scandinavia",
            "Southern_Europe", "Ukraine", "Western_Europe">>),
     North_America |-> Land(5, 9, <<"Alaska", "Alberta", "Central_America", "Eastern_Canada",
            "Eastern_United_States", "Greenland", "Northwest_Territory", "Ontario",
            "Western_United_States">>),
     South_America |-> Land(2, 4, <<"Argentina", "Brazil", "Peru", "Venezuela">>)]

Country == DOMAIN kBoard
Continent == DOMAIN kContinents

\* VisitAllNeighborEdges, and kAllNeighborEdges that it fills.
\* mutant: the last neighbour of each country is not visited
Visited_ButLast(src) == {kBoard[src].neighbors[i] : i \in 1..kBoard[src].count - 1}
Visited(src) == {kBoard[src].neighbors[i] : i \in 1..kBoard[src].count}
kAllNeighborEdges == UNION {{src} \X Visited(src) : src \in Country}

\* _CountEdges counts the visits, listed twice or not.
CountEdges == MapThenSumSet(LAMBDA src : kBoard[src].count, Country)

\* Bit masks, as the sets of their bits.
kNeighborMasks == [src \in Country |-> {e[2] : e \in {x \in kAllNeighborEdges : x[1] = src}}]
kContinentMasks ==
    [c \in Continent |-> {kContinents[c].countries[i] : i \in 1..kContinents[c].count}]

BoardInit == country \in Country
BoardNext == country' \in kNeighborMasks[country]

-----------------------------------------------------------------------------
\* Every border is written in the rows of both its countries, once each, and no
\* country borders itself; each country is in exactly one continent; and the
\* continents' counts leave nobody out.  An edge written in one row only would
\* let armies attack one way and never back.
BoardIsAMap ==
    /\ country \notin kNeighborMasks[country]
    /\ \A other \in kNeighborMasks[country] : country \in kNeighborMasks[other]
    /\ Cardinality(kNeighborMasks[country]) = kBoard[country].count
    /\ CountEdges = 164 /\ Cardinality(kAllNeighborEdges) = 164
    /\ Cardinality({c \in Continent : country \in kContinentMasks[c]}) = 1
    /\ MapThenSumSet(LAMBDA c : kContinents[c].count, Continent) = Cardinality(Country)
    /\ Cardinality(Country) = 42
=============================================================================
