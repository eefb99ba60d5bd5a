--------------------------- MODULE MCContestBoard ---------------------------
\* Model-checking instances of ContestBoard.
EXTENDS ContestBoard

CONSTANTS ann, bob, guest, sum, r1, r2

Everybody == {ann, bob, guest}
Ranked == {ann, bob}
Names == (ann :> 2) @@ (bob :> 3) @@ (guest :> 1)
OneProblem == {sum}
TwoReaders == {r1, r2}

Submission(u, p, minute, verdict, score) ==
  [user |-> u, problem |-> p, minute |-> minute, verdict |-> verdict, score |-> score]

\* A wrong answer in the minute of the solve and a judge failure after it;
\* bob ties with the guest, who may be registered later.
Three == {Submission(ann, sum, 5, "WA", 30), Submission(ann, sum, 5, "OK", 100),
          Submission(ann, sum, 9, "XX", 0)}
One == {Submission(ann, sum, 5, "OK", 100)}
=============================================================================
