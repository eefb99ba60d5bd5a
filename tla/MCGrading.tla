----------------------------- MODULE MCGrading ------------------------------
\* Model-checking instances of Grading.
EXTENDS Grading

CONSTANTS s1, s2, w1, w2

One == {s1}
Two == {s1, s2}
Second == {s2}
Nobody == {}
TwoWorkers == {w1, w2}
Results == {"OK", "WA"}
Logs == {"CE"}
=============================================================================
