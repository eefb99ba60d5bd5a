--------------------------- MODULE MCAuthoringRuns ---------------------------
\* Model-checking instances of AuthoringRuns.
EXTENDS AuthoringRuns

CONSTANTS s1, s2

One == {s1}
Two == {s1, s2}
=============================================================================
