---------------------------- MODULE MCJudgeService ----------------------------
\* Model-checking instances of JudgeService.
EXTENDS JudgeService

CONSTANTS r1, r2, r3

OneJudged == {r1}
TwoHunts == {r2, r3}
\* the first test stands alone, the others form a group
Grouped == [t \in Tests |-> IF t = 1 THEN None ELSE "g"]
Worth == [t \in Tests |-> t]
=============================================================================
