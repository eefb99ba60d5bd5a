-------------------------- MODULE MCContestExport --------------------------
(* A small host: one contest of people, two problems whose packages want one *)
(* name; and packages of one to three groups whose tests alternate.          *)
EXTENDS ContestExport, EjudgePlan

CONSTANTS a, b, j1, j2
MCSymmetry == Permutations(Jobs)
MCWanted == [p \in Problems |-> "sum"]
MCRequests ==
    {[kind |-> "publish", problem |-> a, contest |-> Unset, mode |-> "push"],
     [kind |-> "publish", problem |-> b, contest |-> Unset, mode |-> "pull"],
     [kind |-> "export", problem |-> a, contest |-> 1, mode |-> "push"],
     [kind |-> "publish", problem |-> b, contest |-> 1, mode |-> "push"]}

(* with the second group in the second place its safe name is the first one's name *)
MCNames == <<"g1", "a b", "x">>
MCPatterns == {<<1, 2, 1, 3>>, <<1, 2, 2, 1>>, <<1, 1>>}
MCGroup(i, n) ==
    [policy : IF i = 3 THEN {"complete-group"} ELSE {"complete-group", "each-test"},
     feedback : {"none", "complete"}, deps : SUBSET ({MCNames[k] : k \in 1..n} \ {MCNames[i]})]
MCGroupings(n) == {f \in [1..n -> UNION {MCGroup(i, n) : i \in 1..n}] : \A i \in 1..n : f[i] \in MCGroup(i, n)}
MCPackage(f, gs) ==
    [tests |-> [i \in DOMAIN f |-> [index |-> i, group |-> MCNames[f[i]],
                                    points |-> IF gs[f[i]].policy = "each-test" THEN 2 ELSE i]],
     groups |-> [g \in {MCNames[i] : i \in DOMAIN gs} |-> gs[CHOOSE i \in DOMAIN gs : MCNames[i] = g]]]

(* no groups; a test outside the groups; a group nobody declared; a dependency on a group without tests *)
MCTest(i, g, points) == [index |-> i, group |-> g, points |-> points]
MCOdd ==
    {[tests |-> <<MCTest(1, g, 1), MCTest(2, h, w)>>,
      groups |-> ("x" :> [policy |-> "complete-group", feedback |-> "points", deps |-> {d}]) @@ e] :
        g \in {NoGroup, "x"}, h \in {NoGroup, "x", "y"}, w \in 0..1, d \in {"y", "z"},
        e \in {<<>>, "z" :> [policy |-> "each-test", feedback |-> "none", deps |-> {}]}}
    \union {[tests |-> <<MCTest(1, NoGroup, 0), MCTest(2, NoGroup, 0)>>, groups |-> <<>>]}

MCPackages ==
    MCOdd \union UNION {{MCPackage(f, gs) : gs \in MCGroupings(Cardinality({f[i] : i \in DOMAIN f}))} : f \in MCPatterns}

(* Every package is scored by gvaluer as on Polygon (convert.py); which is     *)
(* looked at once, before the first job.                                      *)
ScoringIsFaithful == ExportInit => ScoredAsOnPolygon
=============================================================================
