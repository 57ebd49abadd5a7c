---------------------------- MODULE MCRiskMatch ----------------------------
EXTENDS RiskMatch

CONSTANTS t1, t2, t3

Path3 == [t \in {t1, t2, t3} |-> IF t = t2 THEN {t1, t3} ELSE {t2}]
Pair == {{t1, t2}}
BonusOne == [c \in Pair |-> 1]

\* The person first with an outside seat, in the middle without one, and last
\* with one that decides its own defences.
SomeMatches == { [human |-> 0, outside |-> 1, fast |-> TRUE],
                 [human |-> 1, outside |-> -1, fast |-> FALSE],
                 [human |-> 2, outside |-> 0, fast |-> FALSE] }
=============================================================================
