------------------------- MODULE MCAuthoringProblem ---------------------------
(* One background sync, which a second run that is a chat may meet; plans of *)
(* a group of samples and two groups of tests, over small testsets.          *)
EXTENDS AuthoringProblem, TLC

CONSTANTS b1

MCMeets == {<<2, "chat">>}
Group(n, p, deps, cases, samples) ==
    [name |-> n, points |-> p, deps |-> deps, cases |-> cases, samples |-> samples]
MCPlanSpace ==
    {[useGroups |-> u, groups |-> gs] : u \in BOOLEAN, gs \in
        {<<Group("1", p, {}, c, FALSE)>> : p \in {0, 40}, c \in {<<1>>, <<2, 1>>}}
        \cup {<<Group("0", 0, {}, <<>>, TRUE), Group("1", 30, d, c, FALSE), Group("2", 70, e, <<1>>, FALSE)>> :
                d \in SUBSET {"0"}, e \in SUBSET {"0", "1"}, c \in {<<1>>, <<2>>, <<1, 1>>}}
        \cup {<<Group("1", 30, {}, <<1>>, FALSE), Group("0", 0, d, <<>>, TRUE)>> : d \in SUBSET {"1"}}}
===============================================================================
