---------------------------- MODULE MCPackageBuild ----------------------------
(* Two files, a build and an edit; subtasks switched on and never planned.   *)
EXTENDS PackageBuild, TLC

CONSTANTS generator, solution, b1, e1

Subtask(g, p, n, deps) == [group |-> g, points |-> p, tests |-> n, deps |-> deps]
MCPlans == {<<Subtask("1", 30, 1, {"0"}), Subtask("2", 40, 1, {"1"})>>}
MCSettings == {[on |-> TRUE,  plan |-> <<>>, table |-> <<>>]}
\* Up to three subtasks; 98 leaves the last group less than no test.
MCPlanSpace ==
    LET rows(g) == {Subtask(g, p, n, {}) : p \in {0, 1, 40, 98}, n \in {1, 2}}
    IN  {NormalisePoints(plan) : plan \in
            {<<a>> : a \in rows("1")} \cup {<<a, b>> : a \in rows("1"), b \in rows("2")}
            \cup {<<a, b, c>> : a \in rows("1"), b \in rows("2"), c \in rows("3")}}
===============================================================================
