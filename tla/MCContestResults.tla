-------------------------- MODULE MCContestResults --------------------------
(* Two participants, two tasks; ann sends a task twice (once in practice).  *)
EXTENDS ContestResults, TLC

CONSTANTS ann, bob, r1, r2, c1, c2

Entry(w, t, part, sc, ok, l) ==
    [who |-> w, task |-> t, part |-> part, score |-> sc, ok |-> ok, lang |-> l]
MCHistory == << Entry(ann, "A", "contest", 1, FALSE, "GNU G++17"),
                Entry(bob, "A", "contest", 2, TRUE, "GNU G++20"),
                Entry(ann, "A", "practice", 2, TRUE, "GNU G++17"),
                Entry(ann, "B", "contest", 1, TRUE, "PyPy 3") >>
MCName == (ann :> "Ann") @@ (bob :> "Bob")
MCPatterns == << [langs |-> {"PyPy 3"}, name |-> "PyPy"],
                 [langs |-> {"GNU G++17", "GNU G++20"}, name |-> "C++"],
                 [langs |-> {"PyPy 3", "Python 3"}, name |-> "Python"] >>
MCPercent == [pr \in Subs \X Subs |->
                 IF {pr[1], pr[2]} = {2, 3} THEN 95
                 ELSE IF {pr[1], pr[2]} = {1, 2} THEN 90
                 ELSE 10]
MCOptions == {[onlyOk |-> FALSE, tasks |-> {}, langs |-> {}],
              [onlyOk |-> TRUE, tasks |-> {"A"}, langs |-> {"C++"}]}
MCHeld == {<<"cf", TRUE>>, <<"yandex", FALSE>>}
=============================================================================
