------------------------------- MODULE TestPlan -------------------------------
(* The plan of a problem's tests: what is accepted of a user or a model, the *)
(* script made of it, the tests of Polygon handed out to its groups, and the *)
(* plan read back from Polygon.                                              *)
EXTENDS Integers, Sequences, SequencesExt, FiniteSetsExt

CONSTANTS
    PlanSpace,      \* the plans asked for
    MaxTests,       \* MAX_TESTS: tests of a plan
    MaxCaseCount,   \* MAX_CASE_COUNT: tests of one generator call
    MaxManual       \* bound: tests of the problem that the script does not make

(* A plan is [useGroups, groups]; a group is [name, points, deps, cases,     *)
(* samples], its cases the numbers of tests of the successive generator      *)
(* calls.  A testset is the sequence of its tests, each "sample", "manual"   *)
(* or "script".                                                              *)
SumOver(S, Val(_)) == MapThenSumSet(Val, S)
TestCount(g) == SumOver(DOMAIN g.cases, LAMBDA c : g.cases[c])
NamesBefore(groups, i) == {groups[k].name : k \in 1..i - 1}

(* The checks of normalize_plan, all but those of spelling.                  *)
Accepted(plan) ==
    LET gs      == plan.groups
        samples == {i \in DOMAIN gs : gs[i].samples}
        made    == DOMAIN gs \ samples
    IN  /\ made # {} /\ Cardinality(samples) <= 1
        /\ \A i \in DOMAIN gs : gs[i].name \notin NamesBefore(gs, i)
                                /\ gs[i].deps \subseteq NamesBefore(gs, i)
                                /\ gs[i].points >= 0
        /\ \A i \in samples : gs[i].points = 0
        /\ \A i \in made : gs[i].cases # <<>> /\ \A c \in DOMAIN gs[i].cases : gs[i].cases[c] \in 1..MaxCaseCount
        /\ ~plan.useGroups => Cardinality(made) = 1
        /\ SumOver(made, LAMBDA i : TestCount(gs[i])) <= MaxTests

NormalizePlan(plan) ==
    IF plan.useGroups THEN plan
    ELSE [plan EXCEPT !.groups =
            [i \in DOMAIN plan.groups |-> [plan.groups[i] EXCEPT !.points = 0, !.deps = {}]]]

Generated(plan) == SelectSeq(plan.groups, LAMBDA g : ~g.samples)

(* The group of each generated test; its last argument is its number here.   *)
ExpandLines(plan) ==
    LET gs == Generated(plan)
    IN  FlattenSeq([i \in DOMAIN gs |-> [k \in 1..TestCount(gs[i]) |-> gs[i].name]])

(* One list per case, counting on from the tests of the cases before it.     *)
BuildScript(plan) ==
    LET gs    == Generated(plan)
        cases == FlattenSeq([i \in DOMAIN gs |->
                    [c \in DOMAIN gs[i].cases |-> [group |-> gs[i].name, count |-> gs[i].cases[c]]]])
    IN  [k \in DOMAIN cases |-> [group |-> cases[k].group, count |-> cases[k].count,
                                 seed  |-> SumOver(1..k - 1, LAMBDA j : cases[j].count)]]

(* What Polygon makes of a script: the tests of its lists, in order.         *)
ScriptTests(script) ==
    FlattenSeq([k \in DOMAIN script |->
        [i \in 1..script[k].count |-> <<script[k].group, script[k].seed + i>>]])

OfKind(tests, kinds) == {i \in DOMAIN tests : tests[i] \in kinds}
(* The place of test i among the generated ones.                             *)
Place(tests, i) == Cardinality({k \in OfKind(tests, {"script"}) : k <= i})

(* Samples go to the samples group, other manual tests to the last one, the  *)
(* generated tests in order to the lines of the script.                      *)
GroupOf(plan, tests, i) ==
    LET samples == {k \in DOMAIN plan.groups : plan.groups[k].samples}
    IN  IF tests[i] = "script" THEN ExpandLines(plan)[Place(tests, i)]
        ELSE IF tests[i] = "sample" /\ samples # {}
             THEN plan.groups[CHOOSE k \in samples : TRUE].name
             ELSE Last(Generated(plan)).name

(* All the points of a group sit on its last test; nobody depends on a group *)
(* that has no test.                                                         *)
Assign(plan, tests) ==
    LET in(g)    == {i \in DOMAIN tests : GroupOf(plan, tests, i) = g.name}
        groups   == ToSet(plan.groups)
        scored   == {g \in groups : in(g) # {}}
        empty    == {g.name : g \in groups \ scored}
    IN  [groups |-> [n \in {g.name : g \in groups} |-> {i \in DOMAIN tests : GroupOf(plan, tests, i) = n}],
         points |-> [i \in DOMAIN tests |->
                        LET g == CHOOSE h \in scored : i \in in(h)
                        IN  IF i = Max(in(g)) THEN g.points ELSE 0],
         deps   |-> [n \in {g.name : g \in groups} |->
                        (CHOOSE g \in groups : g.name = n).deps \ empty]]

(* What the editor is shown of a testset with groups, by their first tests.  *)
PlanFromSnapshot(tests, set) ==
    LET shown    == {n \in DOMAIN set.groups : set.groups[n] # {}}
        order    == SetToSortSeq(shown, LAMBDA m, n : Min(set.groups[m]) < Min(set.groups[n]))
    IN  [i \in DOMAIN order |-> LET own == set.groups[order[i]] IN
            [name |-> order[i], points |-> SumOver(own, LAMBDA t : set.points[t]),
             deps |-> set.deps[order[i]], samples |-> \A t \in own : tests[t] = "sample",
             count |-> Cardinality(own)]]

-----------------------------------------------------------------------------
(* Properties.                                                               *)

Plans == {NormalizePlan(plan) : plan \in {p \in PlanSpace : Accepted(p)}}
(* The testsets a plan's script and up to MaxManual other tests may give.    *)
Testsets(plan) ==
    LET n == Len(ExpandLines(plan))
    IN  {t \in UNION {[1..k -> {"script", "sample", "manual"}] : k \in n..n + MaxManual} :
            Cardinality(OfKind(t, {"script"})) = n}
Cases == UNION {{<<plan, tests>> : tests \in Testsets(plan)} : plan \in Plans}

(* The script makes the very tests the assignment counts on, each with a     *)
(* number of its own (build_script and expand_lines are written twice).      *)
Mismatched ==
    {plan \in Plans : ScriptTests(BuildScript(plan)) #
                         [i \in DOMAIN ExpandLines(plan) |-> <<ExpandLines(plan)[i], i>>]}
LinesAreTheScript == Mismatched = {}

(* Every test is in one group, a generated one in the group that made it,    *)
(* and the points of a group's tests are the group's (assign: all of the     *)
(* group's points on one test).                                              *)
WorthTheirPoints(plan, tests) ==
        LET set == Assign(plan, tests) IN
        /\ \A t \in DOMAIN tests : \E n \in DOMAIN set.groups :
              \A m \in DOMAIN set.groups : t \in set.groups[m] <=> m = n
        /\ \A g \in ToSet(plan.groups) :
              /\ SumOver(set.groups[g.name], LAMBDA t : set.points[t])
                    = IF set.groups[g.name] = {} THEN 0 ELSE g.points
              /\ ~g.samples => Cardinality(set.groups[g.name] \cap OfKind(tests, {"script"})) = TestCount(g)
Misscored == {c \in Cases : ~WorthTheirPoints(c[1], c[2])}
GroupsAreWorthTheirPoints == Misscored = {}

(* No group depends on one that has no tests, which Polygon does not know.   *)
DependOnTests(plan, tests) ==
    LET set == Assign(plan, tests)
    IN  \A n \in DOMAIN set.deps : \A d \in set.deps[n] : set.groups[d] # {}
Dangling == {c \in Cases : ~DependOnTests(c[1], c[2])}
DepsExist == Dangling = {}

(* A plan applied to a testset whose samples come first, and have a group,   *)
(* is the plan the editor reads back from it.                                *)
ReadBack(plan, tests) ==
        LET set  == Assign(plan, tests)
            kept == SelectSeq(plan.groups, LAMBDA g : set.groups[g.name] # {})
        IN  /\ \E g \in ToSet(plan.groups) : g.samples
            /\ OfKind(tests, {"manual"}) = {}
            /\ \A i, j \in DOMAIN tests : tests[i] = "sample" /\ tests[j] # "sample" => i < j
            /\ Head(plan.groups).samples
            => PlanFromSnapshot(tests, set) =
                 [i \in DOMAIN kept |->
                    [name |-> kept[i].name, points |-> kept[i].points, samples |-> kept[i].samples,
                     deps |-> set.deps[kept[i].name], count |-> Cardinality(set.groups[kept[i].name])]]
Misread == {c \in Cases : ~ReadBack(c[1], c[2])}
PlanIsReadBack == Misread = {}
===============================================================================
