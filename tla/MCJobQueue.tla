----------------------------- MODULE MCJobQueue -----------------------------
\* Model-checking instance of JobQueue.
EXTENDS JobQueue

CONSTANTS j1, j2, w1, w2

TwoJobs == {j1, j2}
TwoWorkers == {w1, w2}
Second == {j2}
Half == {50}
=============================================================================
