--------------------------- MODULE MCRiskSession ---------------------------
EXTENDS RiskSession, RiskProposer

CONSTANTS t1, t2, t3

\* A path of three territories, one continent at its end.
Path3 == [t \in {t1, t2, t3} |-> IF t = t2 THEN {t1, t3} ELSE {t2}]
Pair == {{t1, t2}}
BonusOne == [c \in Pair |-> 1]
=============================================================================
