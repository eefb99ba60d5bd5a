------------------------------- MODULE Subtasks -------------------------------
(* The arithmetic of subtasks: the plan of an LLM made to add up, the table  *)
(* the statement shows, the groups read back from such a table, and the      *)
(* tests of a built package dealt out to the groups.                         *)
EXTENDS Integers, Sequences, SequencesExt, FiniteSetsExt

(* A plan is a sequence of [group, points, tests, deps]; a table a sequence  *)
(* of rows [group, points, deps], the points NoPoints in the samples' row.      *)
NoPoints == -1

\* Python's round of a / b, for b > 0: to the nearest, a tie to the even one.
RoundDiv(a, b) ==
    LET q == a \div b
        r == a % b
    IN  IF 2 * r > b \/ (2 * r = b /\ q % 2 = 1) THEN q + 1 ELSE q

Max1(n) == IF n > 1 THEN n ELSE 1
SumUpTo(n, Val(_)) == MapThenSumSet(Val, 1..n)

(* The points are scaled to 100; the last subtask takes what rounding left.  *)
NormalisePoints(plan) ==
    LET n     == Len(plan)
        total == SumUpTo(n, LAMBDA i : plan[i].points)
        scaled(i) == Max1(RoundDiv(plan[i].points * 100, total))
    IN  IF total = 100 \/ total <= 0 THEN plan
        ELSE [i \in 1..n |->
                [plan[i] EXCEPT !.points =
                    IF i < n THEN scaled(i)
                    ELSE Max1(100 - SumUpTo(n - 1, scaled))]]

SubtasksToGroups(plan) ==
    [i \in DOMAIN plan |-> [group  |-> plan[i].group, points |-> plan[i].points,
                            deps   |-> plan[i].deps,  tests  |-> plan[i].tests]]

(* The table: a row for the samples, then one for every subtask.             *)
RenderScoring(plan) ==
    <<[group |-> "0", points |-> NoPoints, deps |-> {}]>> \o
    [i \in DOMAIN plan |-> [group |-> plan[i].group, points |-> plan[i].points,
                            deps  |-> plan[i].deps]]

ParseScoringGroups(table) ==
    LET scored == SelectSeq(table, LAMBDA row : row.group # "0" /\ row.points # NoPoints)
    IN  [i \in DOMAIN scored |-> [group |-> scored[i].group, points |-> scored[i].points,
                                  deps  |-> scored[i].deps,  tests  |-> 0]]

\* Mutant: the remainder of the planned numbers goes to no group.
SliceCountsAsPlanned(groups, total) ==
    LET n       == Len(groups)
        planned == SumUpTo(n, LAMBDA i : groups[i].tests)
        points  == SumUpTo(n, LAMBDA i : groups[i].points)
        share(i) == Max1(RoundDiv(total * groups[i].points,
                                  IF points = 0 THEN n ELSE points))
    IN  IF planned # 0 /\ planned <= total
        THEN [i \in 1..n |-> groups[i].tests]
        ELSE [i \in 1..n |-> IF i < n THEN share(i)
                             ELSE total - SumUpTo(n - 1, share)]

(* How many of total tests each group gets: the plan's numbers when they     *)
(* fit, else in proportion to the points.  The last group takes the rest,    *)
(* which is negative when the ones before were given more than there is.     *)
SliceCounts(groups, total) ==
    LET n       == Len(groups)
        planned == SumUpTo(n, LAMBDA i : groups[i].tests)
        points  == SumUpTo(n, LAMBDA i : groups[i].points)
        share(i) == Max1(RoundDiv(total * groups[i].points,
                                  IF points = 0 THEN n ELSE points))
    IN  IF planned # 0 /\ planned <= total
        THEN [i \in 1..n |-> groups[i].tests + (IF i = n THEN total - planned ELSE 0)]
        ELSE [i \in 1..n |-> IF i < n THEN share(i)
                             ELSE total - SumUpTo(n - 1, share)]

(* The tests indices[..] that fall to group i: a slice, empty past the end.  *)
SliceOf(groups, indices, i) ==
    LET counts == SliceCounts(groups, Len(indices))
        before == SumUpTo(i - 1, LAMBDA k : counts[k])
    IN  {indices[k] : k \in {x \in DOMAIN indices : before < x /\ x <= before + counts[i]}}
===============================================================================
