----------------------------- MODULE EjudgePlan -----------------------------
(***************************************************************************)
(* How a Polygon package becomes an ejudge problem with the same scores.   *)
(* The export orders the groups as gvaluer, the program that scores runs   *)
(* on the ejudge host, accepts them, renumbers the tests so that a group   *)
(* is a range, and writes valuer.cfg (api/user/ejudge/convert.py); gvaluer *)
(* then reads one verdict at a time and tells ejudge which test to run     *)
(* next (assets/gvaluer.cpp).  A test passes or fails: partial points of a *)
(* checker are left out, and points are integers (others are refused).     *)
(***************************************************************************)
EXTENDS Naturals, Sequences, FiniteSets, SequencesExt, FiniteSetsExt

CONSTANTS
    NoGroup,      \* a test outside every group
    SafeNames,    \* the names of groups valuer.cfg can hold
    PlanPackages  \* the packages examined

(***************************************************************************)
(* A package: its tests in Polygon's order, each with its group and points *)
(* and the groups it declares, each with its policy, its feedback and the  *)
(* groups it depends on.                                                   *)
(***************************************************************************)
HasGroups(p) == \E i \in DOMAIN p.tests : p.tests[i].group # NoGroup
HasPoints(p) == \E i \in DOMAIN p.tests : p.tests[i].points > 0

Default == [policy |-> "complete-group", feedback |-> "complete", deps |-> {}]
PolicyOf(p, g) == IF g \in DOMAIN p.groups THEN p.groups[g] ELSE Default

Feedback(p, g) ==
    CASE PolicyOf(p, g).feedback = "none" -> "hidden"
      [] PolicyOf(p, g).feedback \in {"points", "icpc"} -> "brief"
      [] OTHER -> "full"

Hidden(p, g) == Feedback(p, g) = "hidden"

Appearance(p) ==
    FoldLeft(LAMBDA seen, t : IF Contains(seen, t.group) THEN seen ELSE Append(seen, t.group),
             <<>>, p.tests)

FirstOf(seen, g) == CHOOSE i \in DOMAIN seen : seen[i] = g
Tested(p) == {p.tests[i].group : i \in DOMAIN p.tests}
Deps(p, g) == PolicyOf(p, g).deps \cap Tested(p)

(***************************************************************************)
(* group_order: the export refuses a package with a dependency on a group  *)
(* that does not exist, with a visible group behind a hidden one or with a *)
(* cycle; otherwise the next group is one whose dependencies are placed,   *)
(* a visible one if there is any, the earliest in Polygon's order.         *)
(***************************************************************************)
DepsAreKnown(p) ==
    \A g \in Tested(p) :
        /\ PolicyOf(p, g).deps \subseteq Tested(p) \union DOMAIN p.groups
        /\ ~Hidden(p, g) => \A d \in Deps(p, g) : ~Hidden(p, d)

Before(p, seen, g, h) ==
    \/ ~Hidden(p, g) /\ Hidden(p, h)
    \/ Hidden(p, g) = Hidden(p, h) /\ FirstOf(seen, g) <= FirstOf(seen, h)

Placed(p, seen, done) ==
    LET ready == {g \in ToSet(seen) \ ToSet(done) : Deps(p, g) \subseteq ToSet(done)}
    IN  IF ready = {} THEN done
        ELSE Append(done, CHOOSE g \in ready : \A h \in ready : Before(p, seen, g, h))

GroupOrder(p) ==
    LET seen == Appearance(p)
    IN  FoldLeft(LAMBDA done, g : Placed(p, seen, done), <<>>, seen)

OrderTests(p) ==
    IF ~HasGroups(p) THEN p.tests
    ELSE LET order == GroupOrder(p)
         IN  FlattenSeq([i \in DOMAIN order |-> SelectSeq(p.tests, LAMBDA t : t.group = order[i])])

Exportable(p) ==
    HasGroups(p) =>
        /\ \A i \in DOMAIN p.tests : p.tests[i].group # NoGroup
        /\ DepsAreKnown(p)
        /\ Len(GroupOrder(p)) = Len(Appearance(p))

(***************************************************************************)
(* valuer_groups: every group as a range of the renumbered tests.  gvaluer *)
(* reads names of letters, digits and underscores, so another name becomes *)
(* g<N>; when that name is taken, every group gets such a name.            *)
(***************************************************************************)
Numbered(i) == "g" \o ToString(i - 1)

(* mutant: the made-up names may be taken *)
NamesMadeUp(order) ==
    [i \in DOMAIN order |-> IF order[i] \in SafeNames THEN order[i] ELSE Numbered(i)]

ValuerNames(order) ==
    LET safe == [i \in DOMAIN order |-> IF order[i] \in SafeNames THEN order[i] ELSE Numbered(i)]
    IN  IF IsInjective(safe) THEN safe ELSE [i \in DOMAIN order |-> Numbered(i)]

PointsOf(p, g) == [i \in {j \in DOMAIN p.tests : p.tests[j].group = g} |-> p.tests[i].points]
SumOf(f) == MapThenSumSet(LAMBDA i : f[i], DOMAIN f)
Size(p, g) == Cardinality(DOMAIN PointsOf(p, g))

Whole(p) == [name |-> "0", first |-> 1, last |-> Len(p.tests), score |-> 100,
             each |-> FALSE, requires |-> {}, offline |-> FALSE]

ValuerGroup(p, order, names, i) ==
    LET g      == order[i]
        start  == MapThenSumSet(LAMBDA j : Size(p, order[j]), 1..(i - 1))
        points == PointsOf(p, g)
        each   == PolicyOf(p, g).policy = "each-test"
    IN  [name |-> names[i], first |-> start + 1, last |-> start + Size(p, g),
         score |-> IF each THEN Max(Range(points)) ELSE SumOf(points),
         each |-> each,
         requires |-> {names[j] : j \in {k \in DOMAIN order : order[k] \in Deps(p, g)}},
         offline |-> Hidden(p, g)]

ValuerGroups(p) ==
    IF HasGroups(p)
    THEN LET order == GroupOrder(p)
             names == ValuerNames(order)
         IN  [i \in DOMAIN order |-> ValuerGroup(p, order, names, i)]
    ELSE IF HasPoints(p) THEN <<>> ELSE << Whole(p) >>

SetsMarked(groups) ==
    LET online == SelectSeq(groups, LAMBDA g : ~g.offline)
    IN  [i \in DOMAIN groups |->
            IF Len(online) > 0 /\ groups[i].name = Last(online).name
            THEN {online[j].name : j \in DOMAIN online} ELSE {}]

GroupScores(g) ==
    [i \in 1..(g.last - g.first + 1) |->
        IF g.each \/ i = g.last - g.first + 1 THEN g.score ELSE 0]

TestScoreList(p) ==
    LET groups == ValuerGroups(p)
    IN  IF groups = <<>> THEN [i \in DOMAIN p.tests |-> p.tests[i].points]
        ELSE FlattenSeq([i \in DOMAIN groups |-> GroupScores(groups[i])])

WorthOf(g) == g.score * (IF g.each THEN g.last - g.first + 1 ELSE 1)

FullScore(p) ==
    LET groups == ValuerGroups(p)
    IN  IF groups = <<>> THEN SumOf([i \in DOMAIN p.tests |-> p.tests[i].points])
        ELSE SumOf([i \in DOMAIN groups |-> WorthOf(groups[i])])

-----------------------------------------------------------------------------
(***************************************************************************)
(* gvaluer: the checks of valuer.cfg it makes before anything else, the    *)
(* test it asks for after each verdict and the scores it prints.           *)
(***************************************************************************)
NamesUpTo(groups, i) == {groups[j].name : j \in 1..i}

Parses(groups) ==
    /\ groups # <<>>
    /\ \A i \in DOMAIN groups :
        /\ groups[i].first <= groups[i].last
        /\ i > 1 => groups[i].first = groups[i - 1].last + 1
        /\ groups[i].requires \subseteq NamesUpTo(groups, i - 1)
        /\ SetsMarked(groups)[i] \subseteq NamesUpTo(groups, i)
        /\ i > 1 /\ groups[i - 1].offline => groups[i].offline

FindGroup(groups, name) == groups[CHOOSE i \in DOMAIN groups :
    groups[i].name = name /\ \A j \in 1..(i - 1) : groups[j].name # name]

IsPassed(st, g) == st.passed[g.first] = g.last - g.first + 1

MeetsRequirements(groups, st, g) == \A r \in g.requires : IsPassed(st, FindGroup(groups, r))

NextTest(groups, st) ==
    FoldLeft(LAMBDA test, g : IF g.first = test /\ ~MeetsRequirements(groups, st, g)
                              THEN g.last + 1 ELSE test, st.test, groups)

(* the verdict of one test; a group is known by its first test *)
Valued(groups, st, ok) ==
    LET g  == CHOOSE h \in ToSet(groups) : h.first <= st.test /\ st.test <= h.last
        st1 == IF ok THEN [st EXCEPT !.passed[g.first] = @ + 1,
                                     !.total[g.first] = @ + (IF g.each THEN g.score ELSE 0),
                                     !.test = @ + 1]
               ELSE IF g.each THEN [st EXCEPT !.test = @ + 1]
               ELSE [st EXCEPT !.test = g.last + 1]
    IN  IF st1.test <= g.last THEN st1 ELSE [st1 EXCEPT !.test = NextTest(groups, st1)]

Judged(groups, tests, verdict) ==
    FoldLeft(LAMBDA st, i : IF st.test > Len(tests) THEN st
                            ELSE Valued(groups, st, verdict[tests[st.test].index]),
             [test |-> 1, passed |-> [i \in DOMAIN tests |-> 0], total |-> [i \in DOMAIN tests |-> 0]],
             tests)

CalcScore(st, g) ==
    IF g.each THEN st.total[g.first] ELSE IF IsPassed(st, g) THEN g.score ELSE 0

(* without valuer.cfg ejudge itself adds the scores of the passed tests *)
EjudgeScore(groups, tests, verdict, visible) ==
    IF groups = <<>> THEN SumOf([i \in {j \in DOMAIN tests : verdict[j]} |-> tests[i].points])
    ELSE LET st == Judged(groups, tests, verdict)
         IN  SumOf([i \in {j \in DOMAIN groups : visible => ~groups[j].offline} |-> CalcScore(st, groups[i])])

-----------------------------------------------------------------------------
(***************************************************************************)
(* What Polygon gives a solution with these verdicts: a group counts only  *)
(* when every group it depends on is passed; a complete group is worth its *)
(* points when all its tests pass, a group of the policy each-test the     *)
(* points of the tests that pass.                                          *)
(***************************************************************************)
PassedGroups(p, verdict) ==
    UNION {G \in SUBSET Tested(p) :
        \A g \in G : Deps(p, g) \subseteq G /\ \A i \in DOMAIN PointsOf(p, g) : verdict[i]}

PolygonPoints(p, verdict, g) ==
    IF ~(Deps(p, g) \subseteq PassedGroups(p, verdict)) THEN 0
    ELSE IF PolicyOf(p, g).policy = "each-test"
    THEN SumOf([i \in {j \in DOMAIN PointsOf(p, g) : verdict[j]} |-> p.tests[i].points])
    ELSE IF g \in PassedGroups(p, verdict) THEN SumOf(PointsOf(p, g)) ELSE 0

PolygonScore(p, verdict, visible) ==
    IF HasGroups(p)
    THEN MapThenSumSet(LAMBDA g : PolygonPoints(p, verdict, g), {g \in Tested(p) : visible => ~Hidden(p, g)})
    ELSE IF HasPoints(p) THEN SumOf([i \in {j \in DOMAIN p.tests : verdict[j]} |-> p.tests[i].points])
    ELSE IF \A i \in DOMAIN p.tests : verdict[i] THEN 100 ELSE 0

(* tests of one each-test group with different points are exported as the dearest one, with a warning *)
ScoresCarryOver(p) ==
    \A g \in DOMAIN p.groups : p.groups[g].policy = "each-test" => Cardinality(Range(PointsOf(p, g))) <= 1

(***************************************************************************)
(* Every package the export accepts gives a valuer.cfg gvaluer reads, with *)
(* each test in its group's range exactly once and with score lists that   *)
(* add up; and whatever tests a solution passes, gvaluer, which skips      *)
(* tests and groups, gives the points Polygon gives, to the jury and to    *)
(* the participant (convert.py:3-19).                                      *)
(***************************************************************************)
ScoredAsOnPolygon ==
    \A p \in {q \in PlanPackages : Exportable(q)} :
        LET groups == ValuerGroups(p)
            tests  == OrderTests(p)
        IN  /\ HasGroups(p) => Parses(groups) /\ IsInjective([i \in DOMAIN groups |-> groups[i].name])
            /\ Len(tests) = Len(p.tests) /\ ToSet(tests) = ToSet(p.tests)
            /\ Len(TestScoreList(p)) = Len(tests)
            /\ SumOf(TestScoreList(p)) = FullScore(p)
            /\ ScoresCarryOver(p) => \A verdict \in [DOMAIN p.tests -> BOOLEAN] :
                /\ EjudgeScore(groups, tests, verdict, FALSE) = PolygonScore(p, verdict, FALSE)
                /\ EjudgeScore(groups, tests, verdict, TRUE) = PolygonScore(p, verdict, TRUE)
                /\ EjudgeScore(groups, tests, verdict, FALSE) <= FullScore(p)
=============================================================================
