------------------------------ MODULE Placements ------------------------------
(***************************************************************************)
(* The ways to spread n armies over k territories (core/util): counting    *)
(* them, naming each by a rank, listing them one after another, and drawing*)
(* them one by one without replacement.  A placement is the sequence of    *)
(* the bins' counts; it is worked out from the positions of the k - 1 bars *)
(* among n + k - 1 slots.                                                  *)
(***************************************************************************)
EXTENDS Integers, Sequences, FiniteSets, FiniteSetsExt, SequencesExt, Functions

CONSTANTS DrawnSizes, ListedSizes     \* the <<n, k>> drawn from, and listed

ASSUME PlacementsAssumption == DrawnSizes \cup ListedSizes \subseteq Nat \X (Nat \ {0})

VARIABLES size,        \* <<n_, k_>>
          num_drawn, swapped,     \* IndexActionSampler
          drawn,       \* the placements handed out
          sequence,    \* StarsAndBars::Iterator: 0 is an army, 1 a bar
          is_end, shown    \* whether it is at its end; the placements it passed

placementVars == <<size, num_drawn, swapped, drawn, sequence, is_end, shown>>
samplerVars == <<num_drawn, swapped, drawn>>
iteratorVars == <<sequence, is_end, shown>>
n_ == size[1]
k_ == size[2]

exact_binomial(n, k) ==
    LET small == IF k > n \div 2 THEN n - k ELSE k
        result[i \in 0..small] == IF i = 0 THEN 1 ELSE (result[i - 1] * (n - i + 1)) \div i
    IN  IF k > n THEN 0 ELSE result[small]

SpaceSize == exact_binomial(n_ + k_ - 1, k_ - 1)

BinCounts(n, k, bars) ==
    LET walls == <<0>> \o bars \o <<n + k>>
    IN  [bin \in 1..k |-> walls[bin + 1] - walls[bin] - 1]

(* Lexicographic unranking: the next bar goes to the first position whose  *)
(* continuations reach past the rank.                                      *)
skipped(slots, remaining, start, p) ==
    LET count == [q \in start..p - 1 |-> exact_binomial(slots - q, remaining)]
    IN  MapThenSumSet(LAMBDA q : count[q], start..p - 1)
NextBar(slots, remaining, placed) ==
    LET p == Min({q \in placed.start..slots :
                     placed.rank < skipped(slots, remaining, placed.start, q + 1)})
    IN  [bars |-> Append(placed.bars, p), start |-> p + 1,
         rank |-> placed.rank - skipped(slots, remaining, placed.start, p)]
PlacedBars(slots, num_bars, rank) ==
    LET placed[i \in 0..num_bars] ==
            IF i = 0 THEN [bars |-> <<>>, start |-> 1, rank |-> rank]
            ELSE NextBar(slots, num_bars - i, placed[i - 1])
    IN  placed[num_bars].bars
unrank(rank) == BinCounts(n_, k_, PlacedBars(n_ + k_ - 1, k_ - 1, rank))

(* sample_stars_and_bars: any k - 1 of the slots, in the order of the slots*)
(* (std::sample keeps it); no bar to draw when there is one bin.           *)
sampled == {bars \in [1..k_ - 1 -> 1..n_ + k_ - 1] :
               \A i, j \in DOMAIN bars : i < j => bars[i] < bars[j]}
sample_stars_and_bars == {BinCounts(n_, k_, bars) : bars \in sampled}

(* Iterator::UpdateUrns and operator++, with std::next_permutation.        *)
Urns(s) == [urn \in 1..k_ |->
               Cardinality({i \in DOMAIN s : s[i] = 0 /\
                   Cardinality({j \in 1..i - 1 : s[j] = 1}) = urn - 1})]

Ascents(s) == {i \in 1..Len(s) - 1 : s[i] < s[i + 1]}
next_permutation(s) ==
    LET i == Max(Ascents(s))
        j == Max({l \in DOMAIN s : s[l] > s[i]})
        t == [s EXCEPT ![i] = s[j], ![j] = s[i]]
    IN  SubSeq(t, 1, i) \o Reverse(SubSeq(t, i + 1, Len(s)))
(* Mutant of Advanced: the tail stays in descending order. *)
Advanced_NoReverse(s) ==
    LET i == Max(Ascents(s))
        j == Max({l \in DOMAIN s : s[l] > s[i]})
    IN  [s EXCEPT ![i] = s[j], ![j] = s[i]]
Advanced(s) == next_permutation(s)

PlacementsInit ==
    /\ size \in DrawnSizes \cup ListedSizes
    /\ num_drawn = 0 /\ swapped = <<>> /\ drawn = {}
    /\ sequence = [i \in 1..n_ |-> 0] \o [i \in 1..k_ - 1 |-> 1]
    /\ is_end = FALSE /\ shown = <<Urns(sequence)>>

(* IndexActionSampler::at and next: a Fisher-Yates shuffle that remembers  *)
(* only the places it has touched.                                         *)
at(index) == IF index \in DOMAIN swapped THEN swapped[index] ELSE index
MovedDown_Raw == num_drawn      \* mutant of MovedDown
MovedDown == at(num_drawn)

Draw ==
    /\ size \in DrawnSizes /\ num_drawn < SpaceSize
    /\ \E j \in num_drawn..SpaceSize - 1 :
           /\ drawn' = drawn \cup {unrank(at(j))}
           /\ swapped' = [i \in DOMAIN swapped \cup {j} |-> IF i = j THEN MovedDown ELSE at(i)]
    /\ num_drawn' = num_drawn + 1
    /\ UNCHANGED <<size, iteratorVars>>

Increment ==
    /\ size \in ListedSizes /\ ~is_end /\ num_drawn = 0
    /\ IF Ascents(sequence) # {}
       THEN /\ sequence' = Advanced(sequence) /\ shown' = Append(shown, Urns(sequence'))
            /\ UNCHANGED is_end
       ELSE is_end' = TRUE /\ UNCHANGED <<sequence, shown>>
    /\ UNCHANGED <<size, samplerVars>>

PlacementsNext == Draw \/ Increment

PlacementsSpec == PlacementsInit /\ [][PlacementsNext]_placementVars

-----------------------------------------------------------------------------
AllPlacements == {bins \in [1..k_ -> 0..n_] : FoldFunction(+, 0, bins) = n_}

(* Draws without replacement never repeat a placement and run out exactly  *)
(* when every placement has been handed out, whatever the shuffle swapped. *)
EachPlacementOnce ==
    /\ Cardinality(drawn) = num_drawn /\ drawn \subseteq AllPlacements
    /\ num_drawn = SpaceSize => drawn = AllPlacements

(* The list shows the placements in the order of their ranks, backwards,   *)
(* and ends after the last; the direct sampler can return just the same.   *)
ListIsRanksBackwards ==
    /\ size \in ListedSizes =>
           /\ \A i \in DOMAIN shown : i <= SpaceSize /\ shown[i] = unrank(SpaceSize - i)
           /\ is_end => Len(shown) = SpaceSize
    /\ sample_stars_and_bars = AllPlacements
=============================================================================
