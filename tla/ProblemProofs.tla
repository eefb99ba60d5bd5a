--------------------------- MODULE ProblemProofs ----------------------------
(***************************************************************************)
(* What holds of a problem on Polygon and of the runs that work on it, for *)
(* any items edited by the user, any number of runs, builds and failures:  *)
(* the action properties and the invariant of AuthoringProblem that do not *)
(* fold over plans.  They rest on one inductive invariant (Whole), in      *)
(* which a part may use the ones before it:                                *)
(*   Typed          the types;                                             *)
(*   StagesAsked    the stages of a run, and its edits, are within what it *)
(*                  was asked;                                             *)
(*   StatementKept  what a merge of the statement has read is not blank    *)
(*                  where the statement is not;                            *)
(*   RunSyncs       the run syncs exactly when it opens, reads or closes;  *)
(*   OwnHolds       every reading of the lists, and the snapshot, hold     *)
(*                  what runs wrote, so that none of it is announced;      *)
(*   UserNumbers    what the user writes next is in no reading yet;        *)
(*   OutsideHolds   what the user wrote in peace and a reading holds is    *)
(*                  announced, or will be when the reading is stored;      *)
(*   MainStays      no run loses the main solution that it found.          *)
(* The last four are claimed as far as the code keeps them: while no call  *)
(* failed, for a run's own changes also no sync was under way when it      *)
(* began, and for the user's no build ran.                                 *)
(***************************************************************************)
EXTENDS AuthoringProblem, TLAPS

\* What is in the problem and in what is known of it.
AllStamps == {Old, None} \cup {By(k, n) : k \in {"run", "user"}, n \in Nat}
Values == [by : AllStamps, tag : Tags]
Views == [Items -> [by : AllStamps, tag : Tags, read : BOOLEAN]]
Edits == [item : Items \ {"tests", "spare"}, tag : Tags]
Syncs == [pc : {"none", "read"}, announce : BOOLEAN, previous : Views \cup {None},
          taken : Views \cup {None}]
Working == {"stage", "resync", "ask", "direct", "apply"}
Syncing == {"opening", "resync", "closing"}
StageNames == {"edit", "repair", "statement", "solution", "plan", "planOff", "generators", "script",
               "tests", "scoring", "brute"}
Runs == [pc : {"none", "opening", "decide", "closing"} \cup Working,
         kind : {"chat", "groups", "generate", "build", "whole", None},
         stages : Seq(StageNames), todo : SUBSET Edits, allowed : SUBSET Targets,
         current : [Sections -> AllStamps] \cup Edits \cup {None},
         snap : Views \cup {None}, stale : BOOLEAN, changed : BOOLEAN, erred : BOOLEAN]

Typed ==
    /\ polygon \in [Items -> Values] /\ snapshot \in Views
    /\ sync \in [Background \cup {"run"} -> Syncs]
    /\ \A t \in DOMAIN sync : sync[t].pc = "read" => sync[t].previous \in Views
    /\ run \in Runs
    /\ counts \in [runs : Nat, builds : Nat, edits : Nat, failures : Nat]
    /\ asks \in Seq(SUBSET Targets) /\ Len(asks) = counts.runs
    /\ plan \in [run : 1..counts.runs, groups : BOOLEAN] \cup {None}
    /\ announced \in SUBSET (Items \X AllStamps) /\ outside \in SUBSET (Items \X AllStamps)
    /\ overlapped \in BOOLEAN

\* What a stage, begun as it should, may change.
Needs(stage) == CASE stage = "repair" -> Repaired
                  [] stage \in {"edit", "plan", "planOff"} -> {}
                  [] stage = "tests" -> {"groups"}
                  [] stage \in {"statement", "scoring"} -> {"statement"}
                  [] stage \in {"solution", "brute"} -> {"solution"}
                  [] stage = "generators" -> {"generator"}
                  [] stage = "script" -> {"script"}
                  [] OTHER -> {}
Permitted == asks[counts.runs] \cup (IF HasPlan THEN {} ELSE Companions(asks[counts.runs]))
\* After the plan nothing but what follows from it.
PlanLeads(stages) ==
    \A j, k \in DOMAIN stages :
        /\ stages[j] \in {"plan", "planOff"} /\ j < k =>
              stages[k] \in {"generators", "script", "tests", "scoring", "brute"}
        /\ stages[j] = stages[k] => j = k
StagesAsked ==
    /\ run.pc \in Working =>
         /\ counts.runs > 0 /\ PlanLeads(run.stages)
         /\ \A k \in DOMAIN run.stages :
              /\ Needs(run.stages[k]) \subseteq asks[counts.runs]
              /\ run.stages[k] = "edit" => Len(run.stages) = 1 /\ run.pc \in {"ask", "apply"}
              /\ run.stages[k] = "repair" => Len(run.stages) = 1
    /\ run.pc \in Working \ {"stage"} => run.stages # <<>>
    /\ run.pc \in {"resync", "ask", "apply"} =>
         /\ run.allowed \subseteq Permitted
         /\ run.stages[1] # "edit" /\ run.stages[1] # "repair" => run.allowed = Needs(run.stages[1])
         /\ run.stages[1] \notin {"plan", "planOff", "script", "tests"}
    /\ run.pc = "apply" =>
         /\ \A e \in run.todo : TargetOf(e.item) \in run.allowed
         /\ \A e, f \in run.todo : e.item = f.item => e = f
         /\ run.stages[1] \notin {"edit", "repair"} => \A e \in run.todo : e.item = ItemOf(run.stages[1])
    /\ run.pc # "none" => counts.runs > 0
    /\ run.snap = None => \/ run.pc \in {"none", "opening", "resync", "closing"}
                          \/ run.pc = "decide" /\ run.kind = "build"
                          \/ run.pc = "stage" /\ \A k \in DOMAIN run.stages : run.stages[k] = "repair"
    /\ run.pc \in {"opening", "decide"} => asks[counts.runs] = {}

\* The statement that is being merged.
Merging == run.pc = "apply" /\ StatementEdits # {} /\ run.current # None
CurrentIs ==
    run.current # None =>
        /\ run.pc = "apply"
        /\ StatementEdits # {} => run.current \in [Sections -> AllStamps]
        /\ StatementEdits = {} => /\ run.current \in run.todo /\ run.current.item \in Solutions
                                  /\ Demoted(run.current) # {}
                                  /\ \A f \in run.todo : f.item # "generator"
StatementKept ==
    /\ CurrentIs
    /\ \A s \in Sections : polygon[s].tag = None
    /\ Merging => \A s \in Sections : polygon[s].by # None => run.current[s] # None

IsRun(by) == by # None /\ by[1] = "run"
Matches(x, i) == x[i].by = polygon[i].by /\ x[i].tag = polygon[i].tag
Fresh(x) == \A i \in Items : IsRun(polygon[i].by) => Matches(x, i)
Reading(t) == t \in DOMAIN sync /\ sync[t].pc = "read"
Taken(t) == Reading(t) /\ sync[t].taken # None
RunSyncs == /\ run.pc \in Syncing <=> sync["run"].pc = "read"
            /\ Reading("run") => (sync["run"].announce <=> run.pc = "opening")
            /\ \A t \in Background : Reading(t) => sync[t].announce
            /\ run.pc \in {"none", "opening", "decide"} => ~run.changed
OwnAreKnown ==
    Quiet /\ ~overlapped =>
        /\ RunActive => \A t \in Background : ~Reading(t)
        /\ ~run.changed => Fresh(snapshot)
        /\ \A t \in DOMAIN sync :
             /\ Taken(t) => Fresh(sync[t].taken)
             /\ Reading(t) /\ sync[t].announce => Fresh(sync[t].previous)
             /\ Taken(t) /\ sync[t].announce =>
                  \A i \in Items : IsRun(sync[t].taken[i].by) =>
                     /\ sync[t].previous[i].by = sync[t].taken[i].by
                     /\ sync[t].previous[i].tag = sync[t].taken[i].tag

\* The user's changes are numbered, and nothing else is outside.
UpTo(by, k) == \A n \in Nat : by = By("user", n) => n <= k
Numbered(by) == UpTo(by, counts.edits)
UserNumbers ==
    Quiet =>
        /\ \A i \in Items : Numbered(polygon[i].by) /\ Numbered(snapshot[i].by)
        /\ \A a \in outside : Numbered(a[2]) /\ a[2] # None /\ ~IsRun(a[2])
        /\ Merging => \A s \in Sections : Numbered(run.current[s])
        /\ \A t \in DOMAIN sync, i \in Items :
             /\ Reading(t) => Numbered(sync[t].previous[i].by)
             /\ Taken(t) => Numbered(sync[t].taken[i].by)
Told(x) == \A a \in outside : x[a[1]].by = a[2] => a \in announced
OutsideIsKnown ==
    Quiet /\ counts.builds = 0 =>
        /\ Told(snapshot)
        /\ RunActive /\ run.pc # "opening" => Told(polygon)
        /\ Merging => \A s \in Sections : <<s, run.current[s]>> \in outside => <<s, run.current[s]>> \in announced
        /\ \A t \in DOMAIN sync :
             /\ Reading(t) /\ sync[t].announce => Told(sync[t].previous)
             /\ Taken(t) /\ ~sync[t].announce => Told(sync[t].taken)
        /\ Taken("run") => \A a \in outside : polygon[a[1]].by = a[2] => sync["run"].taken[a[1]].by = a[2]

SameTags(x) == \A i \in Items : x[i].tag = polygon[i].tag
Demoting == run.pc = "apply" /\ StatementEdits = {} /\ run.current # None
MainStays ==
    Quiet =>
        /\ polygon["spare"].tag # "MA"
        /\ Taken("run") => SameTags(sync["run"].taken)
        /\ run.pc \in {"opening", "decide", "ask"} => ~run.stale
        /\ run.snap # None =>
             /\ ~run.stale => SameTags(run.snap)
             /\ HasMain(run.snap) => HasMain(polygon) \/ Demoting
        /\ run.pc = "apply" => \A e \in run.todo : e.item \in Solutions =>
              (polygon[e.item].tag = "MA" => run.snap[e.item].tag = "MA")
-----------------------------------------------------------------------------
LEMMA ItemsAre ==
  /\ Items = {"legend", "scoring", "main", "extra", "spare", "generator", "script", "tests"}
  /\ Sections \subseteq Items /\ Solutions \subseteq Items /\ Sections \cap Solutions = {}
  /\ Targets = {"statement", "solution", "generator", "script", "groups"}
  /\ \A s \in Sections : TargetOf(s) = "statement"
  /\ \A s \in Solutions : TargetOf(s) = "solution"
  /\ TargetOf("generator") = "generator" /\ TargetOf("script") = "script"
  /\ TargetOf("tests") = "groups"
  <1>1. Items = {"legend", "scoring", "main", "extra", "spare", "generator", "script", "tests"}
    BY DEF Items, Sections, Files, Solutions
  <1>2. /\ \A s \in Sections : TargetOf(s) = "statement"
        /\ \A s \in Solutions : TargetOf(s) = "solution"
        /\ TargetOf("generator") = "generator" /\ TargetOf("script") = "script"
        /\ TargetOf("tests") = "groups"
    BY DEF TargetOf, Sections, Solutions
  <1>3. Targets = {"statement", "solution", "generator", "script", "groups"}
    BY <1>1, <1>2 DEF Targets, Sections, Solutions
  <1>4. QED
    BY <1>1, <1>2, <1>3 DEF Sections, Solutions

LEMMA StampsAre ==
  /\ Old \in AllStamps /\ None \in AllStamps /\ None \in Tags
  /\ {"MA", "TL", "TO", "OK"} \subseteq Tags
  /\ None \notin {"MA", "TL", "TO", "OK", Old}
  /\ \A k \in {"run", "user"}, n \in Nat : By(k, n) \in AllStamps /\ By(k, n) # None
  /\ \A n \in Nat : IsRun(By("run", n)) /\ ~IsRun(By("user", n))
  /\ Old[1] = "before" /\ ~IsRun(Old) /\ ~IsRun(None)
  /\ \A k, l \in {"run", "user"}, m, n \in Nat : By(k, m) = By(l, n) => k = l /\ m = n
  BY ValueAssumption DEF AllStamps, Tags, By, Old, IsRun

LEMMA IdleRun ==
  /\ NoRun \in Runs /\ NoSync \in Syncs
  /\ NoRun.pc = "none" /\ ~NoRun.changed /\ ~NoRun.stale /\ NoRun.snap = None /\ NoSync.pc = "none"
  /\ NoRun.todo = {} /\ NoRun.current = None
  BY DEF NoRun, NoSync, Runs, Syncs, Working

LEMMA MeTyped == ASSUME Typed PROVE Me = By("run", counts.runs) /\ Me \in AllStamps /\ Me # None
  BY StampsAre DEF Typed, Me

LEMMA BegunTyped ==
  ASSUME Typed, NEW t, NEW b \in BOOLEAN
  PROVE  /\ Begun(t, b) \in Syncs /\ Begun(t, b).pc = "read" /\ Begun(t, b).previous = snapshot
         /\ Begun(t, b).taken = None /\ Begun(t, b).announce = b
  BY DEF Typed, Begun, Syncs

LEMMA PlanStagesAre ==
  /\ PlanStages(TRUE) = <<"plan", "generators", "script", "tests", "scoring">>
  /\ PlanStages(FALSE) = <<"planOff", "generators", "script", "tests">>
  /\ PlanStages(TRUE) \in Seq(StageNames) /\ PlanStages(FALSE) \in Seq(StageNames)
  /\ Len(PlanStages(TRUE)) = 5 /\ Len(PlanStages(FALSE)) = 4
  /\ Len(PlanStages(TRUE)) > 0 /\ Len(PlanStages(FALSE)) > 0
  <1>1. PlanStages(TRUE) = <<"plan", "generators", "script", "tests", "scoring">>
    BY DEF PlanStages
  <1>2. PlanStages(FALSE) = <<"planOff", "generators", "script", "tests">>
    BY DEF PlanStages
  <1>3. <<"plan", "generators", "script", "tests", "scoring">> \in Seq(StageNames)
    BY DEF StageNames
  <1>4. <<"planOff", "generators", "script", "tests">> \in Seq(StageNames)
    BY DEF StageNames
  <1> DEFINE p == <<"plan", "generators", "script", "tests", "scoring">>
             o == <<"planOff", "generators", "script", "tests">>
  <1>5. Len(p) = 5 /\ Len(o) = 4
    OBVIOUS
  <1>6. PlanStages(TRUE) = p /\ PlanStages(FALSE) = o /\ p \in Seq(StageNames) /\ o \in Seq(StageNames)
    BY <1>1, <1>2, <1>3, <1>4
  <1>7. QED
    <2>1. Len(PlanStages(TRUE)) = 5 /\ Len(PlanStages(FALSE)) = 4
      BY <1>5, <1>6
    <2> HIDE DEF p, o
    <2>2. Len(PlanStages(TRUE)) > 0 /\ Len(PlanStages(FALSE)) > 0
      <3>1. \A n : n = 5 \/ n = 4 => n > 0
        OBVIOUS
      <3>2. QED
        BY <2>1, <3>1, Zenon
    <2>3. PlanStages(TRUE) \in Seq(StageNames) /\ PlanStages(FALSE) \in Seq(StageNames)
      BY <1>6
    <2>4. QED
      BY <1>1, <1>2, <2>1, <2>2, <2>3, Zenon

LEMMA Joined ==
  ASSUME NEW S, NEW p \in Seq(S), NEW q \in Seq(S)
  PROVE  /\ p \o q \in Seq(S) /\ Len(p \o q) = Len(p) + Len(q)
         /\ \A k \in 1..Len(p) : (p \o q)[k] = p[k]
         /\ \A k \in 1..Len(q) : (p \o q)[Len(p) + k] = q[k]
  OBVIOUS

LEMMA GenerateStagesAre ==
  ASSUME NEW g \in BOOLEAN
  PROVE  LET p == PlanStages(g)
             s == GenerateStages(g)
         IN  /\ s \in Seq(StageNames) /\ Len(s) = Len(p) + 3
             /\ s[1] = "statement" /\ s[2] = "solution" /\ s[Len(p) + 3] = "brute"
             /\ \A k \in 1..Len(p) : s[k + 2] = p[k]
  <1> DEFINE q == PlanStages(g)
             a == <<"statement", "solution">>
             b == <<"brute">>
  <1>1. /\ a \in Seq(StageNames) /\ Len(a) = 2 /\ a[1] = "statement" /\ a[2] = "solution"
        /\ b \in Seq(StageNames) /\ Len(b) = 1 /\ b[1] = "brute"
    BY DEF StageNames
  <1>2. GenerateStages(g) = a \o q \o b
    BY DEF GenerateStages
  <1>3. q \in Seq(StageNames)
    <2>1. g = TRUE \/ g = FALSE
      OBVIOUS
    <2>2. QED
      BY <2>1, PlanStagesAre
  <1> HIDE DEF q, a, b
  <1>4. /\ a \o q \in Seq(StageNames) /\ Len(a \o q) = 2 + Len(q)
        /\ \A k \in 1..2 : (a \o q)[k] = a[k]
        /\ \A k \in 1..Len(q) : (a \o q)[2 + k] = q[k]
    BY <1>1, <1>3, Joined, SMTT(40)
  <1> DEFINE r == a \o q
  <1>5. /\ r \in Seq(StageNames) /\ Len(r) = 2 + Len(q)
        /\ r[1] = a[1] /\ r[2] = a[2]
        /\ \A k \in 1..Len(q) : r[2 + k] = q[k]
    BY <1>4
  <1> HIDE DEF r
  <1>6. /\ r \o b \in Seq(StageNames) /\ Len(r \o b) = Len(r) + Len(b)
        /\ \A k \in 1..Len(r) : (r \o b)[k] = r[k]
        /\ \A k \in 1..Len(b) : (r \o b)[Len(r) + k] = b[k]
    <2>1. r \in Seq(StageNames) /\ b \in Seq(StageNames)
      BY <1>1, <1>5
    <2>2. QED
      BY <2>1, Joined, SMTT(60)
  <1>7. Len(q) \in Nat
    BY <1>3
  <1>8. \A k \in 1..Len(q) : (r \o b)[k + 2] = q[k]
    BY <1>5, <1>6, <1>7
  <1>9. /\ (r \o b)[1] = "statement" /\ (r \o b)[2] = "solution" /\ (r \o b)[Len(q) + 3] = "brute"
    BY <1>1, <1>5, <1>6, <1>7
  <1>10. GenerateStages(g) = r \o b
    BY <1>2 DEF r
  <1>11. QED
    BY <1>1, <1>5, <1>6, <1>8, <1>9, <1>10 DEF q

LEMMA StagesTyped == \A stages \in Stages : stages \in Seq(StageNames) /\ Len(stages) > 0
  <1> TAKE stages \in Stages
  <1>1. CASE stages = <<"edit">> \/ stages = <<"repair">>
    <2>1. "edit" \in StageNames /\ "repair" \in StageNames
      BY DEF StageNames
    <2>2. \A s \in StageNames : <<s>> \in Seq(StageNames) /\ Len(<<s>>) = 1
      OBVIOUS
    <2>3. stages \in Seq(StageNames) /\ Len(stages) = 1
      BY <1>1, <2>1, <2>2
    <2>4. QED
      BY <2>3
  <1>2. CASE \E g \in BOOLEAN : stages = PlanStages(g)
    <2>1. stages = PlanStages(TRUE) \/ stages = PlanStages(FALSE)
      BY <1>2
    <2>2. /\ stages \in Seq(StageNames)
          /\ Len(stages) > 0
      BY <2>1, PlanStagesAre
    <2>3. QED
      BY <2>2
  <1>3. CASE \E g \in BOOLEAN : stages = GenerateStages(g)
    <2>1. PICK g \in BOOLEAN : stages = GenerateStages(g)
      BY <1>3
    <2>2. Len(stages) = Len(PlanStages(g)) + 3 /\ stages \in Seq(StageNames)
      BY <2>1, GenerateStagesAre
    <2>3. Len(PlanStages(g)) \in Nat
      <3>1. g = TRUE \/ g = FALSE
        OBVIOUS
      <3>2. QED
        BY <3>1, PlanStagesAre
    <2>4. QED
      BY <2>2, <2>3
  <1>4. QED
    BY <1>1, <1>2, <1>3 DEF Stages

LEMMA StageGone ==
  ASSUME NEW stages \in Seq(StageNames), stages # <<>>
  PROVE  /\ Head(stages) = stages[1] /\ stages[1] \in StageNames /\ Tail(stages) \in Seq(StageNames)
         /\ 1 \in DOMAIN stages
         /\ Len(Tail(stages)) = Len(stages) - 1
         /\ \A k \in DOMAIN Tail(stages) : k + 1 \in DOMAIN stages /\ Tail(stages)[k] = stages[k + 1]
         /\ \A k \in DOMAIN stages : k = 1 \/ (k - 1 \in DOMAIN Tail(stages) /\ Tail(stages)[k - 1] = stages[k])
  OBVIOUS

LEMMA EntrySet ==
  ASSUME NEW S, NEW s \in Seq(S), NEW i, NEW v \in S
  PROVE  /\ [s EXCEPT ![i] = v] \in Seq(S) /\ Len([s EXCEPT ![i] = v]) = Len(s)
         /\ \A k \in DOMAIN s : [s EXCEPT ![i] = v][k] = IF k = i THEN v ELSE s[k]
  <1> DEFINE r == [s EXCEPT ![i] = v]
  <1>1. Len(s) \in Nat /\ s \in [1..Len(s) -> S]
    OBVIOUS
  <1>2. r \in [1..Len(s) -> S]
    BY <1>1
  <1>3. r \in Seq(S) /\ Len(r) = Len(s)
    BY <1>1, <1>2, SMT
  <1>4. QED
    BY <1>1, <1>3

\* The stages that ask the model.
LEMMA ItemOfStage ==
  /\ ItemOf("statement") = "legend" /\ ItemOf("solution") = "main"
  /\ ItemOf("generators") = "generator" /\ ItemOf("scoring") = "scoring" /\ ItemOf("brute") = "extra"
  /\ \A stage \in {"statement", "solution", "generators", "scoring", "brute"} :
       /\ ItemOf(stage) \in Items \ {"tests", "spare"} /\ Needs(stage) = {TargetOf(ItemOf(stage))}
       /\ TargetOf(ItemOf(stage)) \in Targets
  /\ Needs("repair") = Repaired /\ Needs("edit") = {} /\ Needs("plan") = {} /\ Needs("planOff") = {}
  /\ Needs("script") = {"script"} /\ Needs("tests") = {"groups"}
  /\ Needs("statement") = {"statement"} /\ Needs("solution") = {"solution"}
  /\ Needs("generators") = {"generator"} /\ Needs("scoring") = {"statement"}
  /\ Needs("brute") = {"solution"}
  <1>1. /\ ItemOf("statement") = "legend" /\ ItemOf("solution") = "main"
        /\ ItemOf("generators") = "generator" /\ ItemOf("scoring") = "scoring"
        /\ ItemOf("brute") = "extra"
    BY DEF ItemOf
  <1>2. /\ Needs("repair") = Repaired /\ Needs("edit") = {} /\ Needs("plan") = {} /\ Needs("planOff") = {}
        /\ Needs("script") = {"script"} /\ Needs("tests") = {"groups"}
        /\ Needs("statement") = {"statement"} /\ Needs("solution") = {"solution"}
        /\ Needs("generators") = {"generator"} /\ Needs("scoring") = {"statement"}
        /\ Needs("brute") = {"solution"}
    BY DEF Needs
  <1>3. QED
    BY <1>1, <1>2, ItemsAre DEF Sections, Solutions
-----------------------------------------------------------------------------
LEMMA TypedInit == Init => Typed
  <1> SUFFICES ASSUME Init PROVE Typed
    OBVIOUS
  <1>1. Empty \in [Items -> Values] /\ Filled \in [Items -> Values]
    BY StampsAre DEF Empty, Filled, Absent, Value, Values, Tags
  <1>2. polygon \in [Items -> Values]
    BY <1>1 DEF Init
  <1>3. snapshot \in Views
    BY <1>2 DEF Init, Seen, Values, Views
  <1>4. sync \in [Background \cup {"run"} -> Syncs] /\ \A t \in DOMAIN sync : sync[t].pc = "none"
    BY IdleRun DEF Init
  <1>5. asks \in Seq(SUBSET Targets) /\ Len(asks) = 0
    BY DEF Init
  <1>6. counts \in [runs : Nat, builds : Nat, edits : Nat, failures : Nat] /\ counts.runs = 0
    BY DEF Init
  <1>7. QED
    BY <1>2, <1>3, <1>4, <1>5, <1>6, IdleRun DEF Init, Typed

LEMMA BeginBackgroundTyped ==
  ASSUME Typed, NEW t \in Background, BeginBackground(t)
  PROVE  Typed'
  <1>1. Begun(t, TRUE) \in Syncs /\ Begun(t, TRUE).previous = snapshot
    BY BegunTyped
  <1>2. sync' \in [Background \cup {"run"} -> Syncs]
    BY <1>1 DEF BeginBackground, Typed
  <1>3. \A u \in DOMAIN sync' : sync'[u].pc = "read" => sync'[u].previous \in Views
    BY <1>1 DEF BeginBackground, Typed
  <1>4. QED
    BY <1>2, <1>3 DEF BeginBackground, Typed

LEMMA CountsTyped ==
  ASSUME Typed, Smooth \/ Failure
  PROVE  /\ counts' \in [runs : Nat, builds : Nat, edits : Nat, failures : Nat]
         /\ counts'.runs = counts.runs /\ counts'.builds = counts.builds
         /\ counts'.edits = counts.edits
         /\ Smooth => counts' = counts
         /\ Failure => counts'.failures = counts.failures + 1
  BY DEF Typed, Smooth, Failure

LEMMA ReadListsTyped ==
  ASSUME Typed, NEW t \in DOMAIN sync, ReadLists(t)
  PROVE  Typed'
  <1>1. PICK failed \in {{}} \cup {{c} : c \in Calls}, fetches \in BOOLEAN :
          /\ IF failed = {} /\ fetches THEN Smooth ELSE Failure
          /\ sync' = [sync EXCEPT ![t].taken =
               [i \in Items |-> IF \E c \in failed : i \in ItemsOf(c) THEN Seen(Absent, FALSE)
                                ELSE IF fetches THEN Fetched(i) ELSE Unfetched(t, i)]]
    BY DEF ReadLists
  <1> DEFINE view == [i \in Items |-> IF \E c \in failed : i \in ItemsOf(c) THEN Seen(Absent, FALSE)
                                ELSE IF fetches THEN Fetched(i) ELSE Unfetched(t, i)]
  <1>2. Smooth \/ Failure
    BY <1>1
  <1>3. \A i \in Items : Fetched(i) \in [by : AllStamps, tag : Tags, read : BOOLEAN]
    BY DEF Typed, Fetched, Seen, Values
  <1>4. \A i \in Items : Unfetched(t, i) \in [by : AllStamps, tag : Tags, read : BOOLEAN]
    <2> TAKE i \in Items
    <2>1. sync[t].previous \in Views /\ sync[t].previous[i].read \in BOOLEAN
      BY DEF Typed, ReadLists, Views
    <2>2. (polygon[i] # Absent /\ sync[t].previous[i].by = polygon[i].by /\ sync[t].previous[i].read) \in BOOLEAN
      BY <2>1
    <2>3. QED
      BY <2>2 DEF Typed, Unfetched, Seen, Values
  <1>5. Seen(Absent, FALSE) \in [by : AllStamps, tag : Tags, read : BOOLEAN]
    BY StampsAre DEF Seen, Absent, Value
  <1>6. view \in Views
    BY <1>3, <1>4, <1>5 DEF Views
  <1>7. sync' = [sync EXCEPT ![t].taken = view]
    BY <1>1
  <1> HIDE DEF view
  <1>8. sync' \in [Background \cup {"run"} -> Syncs]
    BY <1>6, <1>7, SMTT(30) DEF Typed, Syncs
  <1>9. \A u \in DOMAIN sync : sync'[u].pc = sync[u].pc /\ sync'[u].previous = sync[u].previous
    BY <1>7 DEF Typed, Syncs
  <1>10. QED
    BY <1>2, <1>8, <1>9, CountsTyped DEF ReadLists, Typed

LEMMA AfterIs ==
  ASSUME Typed, NEW taken \in Views
  PROVE  /\ After(run, taken) \in Runs
         /\ run.pc = "closing" => After(run, taken) = NoRun
         /\ run.pc \notin Syncing => After(run, taken) = run
         /\ run.pc \in {"opening", "resync"} =>
              /\ After(run, taken).pc = IF run.pc = "opening" THEN "decide" ELSE "ask"
              /\ After(run, taken).snap = taken
              /\ After(run, taken).stale = IF run.pc = "opening" THEN run.stale ELSE FALSE
              /\ After(run, taken).kind = run.kind /\ After(run, taken).stages = run.stages
              /\ After(run, taken).todo = run.todo /\ After(run, taken).allowed = run.allowed
              /\ After(run, taken).changed = run.changed
              /\ After(run, taken).current = run.current
  <1>1. CASE run.pc = "opening"
    BY <1>1, IdleRun DEF After, Typed, Runs, Working, Syncing
  <1>2. CASE run.pc = "resync"
    BY <1>2, IdleRun DEF After, Typed, Runs, Working, Syncing
  <1>3. CASE run.pc = "closing"
    BY <1>3, IdleRun DEF After, Typed, Runs, Working, Syncing
  <1>4. CASE run.pc \notin Syncing
    BY <1>4, IdleRun DEF After, Typed, Runs, Working, Syncing
  <1>5. QED
    BY <1>1, <1>2, <1>3, <1>4 DEF Syncing
-----------------------------------------------------------------------------
LEMMA StoreSnapshotTyped ==
  ASSUME Typed, NEW t \in DOMAIN sync, StoreSnapshot(t)
  PROVE  Typed'
  <1> DEFINE s == sync[t]
  <1>1. /\ s \in Syncs /\ s.pc = "read" /\ s.taken # None
        /\ snapshot' = s.taken
        /\ announced' = IF s.announce
                        THEN announced \cup {<<i, s.taken[i].by>> : i \in Changes(s.previous, s.taken)}
                        ELSE announced
        /\ sync' = [sync EXCEPT ![t] = NoSync]
        /\ run' = IF t = "run" THEN After(run, s.taken) ELSE run
    BY DEF StoreSnapshot, Typed
  <1> HIDE DEF s
  <1>2. s.taken \in Views
    BY <1>1 DEF Syncs
  <1>3. run' \in Runs
    BY <1>1, <1>2, AfterIs DEF Typed
  <1>4. sync' \in [Background \cup {"run"} -> Syncs]
    BY <1>1, IdleRun DEF Typed
  <1>5. \A u \in DOMAIN sync' : sync'[u].pc = "read" => sync'[u].previous \in Views
    BY <1>1, IdleRun DEF Typed
  <1>6. announced' \in SUBSET (Items \X AllStamps)
    <2>1. \A i \in Items : <<i, s.taken[i].by>> \in Items \X AllStamps
      BY <1>2 DEF Views
    <2>2. QED
      BY <1>1, <2>1 DEF Typed, Changes
  <1>7. snapshot' \in Views
    BY <1>1, <1>2
  <1>8. QED
    BY <1>3, <1>4, <1>5, <1>6, <1>7 DEF StoreSnapshot, Typed

LEMMA SyncFailsTyped ==
  ASSUME Typed, NEW t \in DOMAIN sync, SyncFails(t)
  PROVE  Typed'
  <1>1. /\ counts' \in [runs : Nat, builds : Nat, edits : Nat, failures : Nat]
        /\ counts'.runs = counts.runs
    BY CountsTyped DEF SyncFails
  <1>2. Begun(t, FALSE) \in Syncs /\ Begun(t, FALSE).previous \in Views
    BY BegunTyped DEF Typed
  <1>3. run' \in Runs
    <2>1. CASE t = "run" /\ run.pc # "closing"
      <3>1. run' = [run EXCEPT !.pc = "closing"]
        BY <2>1 DEF SyncFails, GoRun
      <3>2. QED
        BY <3>1 DEF Typed, Runs
    <2>2. CASE ~(t = "run" /\ run.pc # "closing")
      <3>1. run' = NoRun \/ run' = run
        BY <2>2 DEF SyncFails
      <3>2. QED
        BY <3>1, IdleRun DEF Typed
    <2>3. QED
      BY <2>1, <2>2
  <1>4. sync' \in [Background \cup {"run"} -> Syncs]
    BY <1>2, IdleRun DEF SyncFails, Typed
  <1>5. \A u \in DOMAIN sync' : sync'[u].pc = "read" => sync'[u].previous \in Views
    BY <1>2, IdleRun DEF SyncFails, Typed
  <1>6. QED
    BY <1>1, <1>3, <1>4, <1>5 DEF SyncFails, Typed

LEMMA UserEditsTyped ==
  ASSUME Typed, NEW i \in UserItems, UserEdits(i)
  PROVE  Typed'
  <1> DEFINE by == By("user", counts.edits + 1)
  <1>1. i \in Items /\ by \in AllStamps
    BY ValueAssumption, StampsAre DEF Typed
  <1>2. polygon' = [polygon EXCEPT ![i].by = by]
    BY DEF UserEdits
  <1>3. counts' = [counts EXCEPT !.edits = @ + 1]
    BY DEF UserEdits
  <1>4. outside' = IF RunActive THEN outside ELSE outside \cup {<<i, by>>}
    BY DEF UserEdits
  <1> HIDE DEF by
  <1>5. polygon' \in [Items -> Values]
    BY <1>1, <1>2 DEF Typed, Values
  <1>6. /\ counts' \in [runs : Nat, builds : Nat, edits : Nat, failures : Nat]
        /\ counts'.runs = counts.runs
    BY <1>3 DEF Typed
  <1>7. outside' \in SUBSET (Items \X AllStamps)
    BY <1>1, <1>4 DEF Typed
  <1>8. QED
    BY <1>5, <1>6, <1>7 DEF UserEdits, Typed

LEMMA ClosesTyped ==
  ASSUME Typed, Closes
  PROVE  /\ run' \in Runs /\ sync' \in [Background \cup {"run"} -> Syncs]
         /\ \A u \in DOMAIN sync' : sync'[u].pc = "read" => sync'[u].previous \in Views
  <1>1. Begun("run", FALSE) \in Syncs /\ Begun("run", FALSE).previous \in Views
    BY BegunTyped DEF Typed
  <1>2. run' \in Runs
    BY DEF Closes, GoRun, Typed, Runs
  <1>3. QED
    BY <1>1, <1>2 DEF Closes, Typed

LEMMA ClaimTyped ==
  ASSUME Typed, NEW k \in {"chat", "groups", "generate", "build"}, Claim(k)
  PROVE  Typed'
  <1>1. Begun("run", TRUE) \in Syncs /\ Begun("run", TRUE).previous \in Views
    BY BegunTyped DEF Typed
  <1>2. run' \in Runs
    <2>1. PICK q \in {"decide", "opening"} : run' = [NoRun EXCEPT !.pc = q, !.kind = k]
      BY DEF Claim
    <2>2. NoRun \in Runs
      BY IdleRun
    <2>3. QED
      BY <2>1, <2>2 DEF Runs
  <1>3. sync' \in [Background \cup {"run"} -> Syncs]
    BY <1>1 DEF Claim, Typed
  <1>4. \A u \in DOMAIN sync' : sync'[u].pc = "read" => sync'[u].previous \in Views
    BY <1>1 DEF Claim, Typed
  <1>5. /\ counts' \in [runs : Nat, builds : Nat, edits : Nat, failures : Nat]
        /\ counts'.runs = counts.runs + 1
    <2>1. PICK b \in {0, 1} : counts' = [counts EXCEPT !.runs = @ + 1, !.builds = @ + b]
      <3>1. (IF k = "build" THEN 1 ELSE 0) \in {0, 1}
        OBVIOUS
      <3>2. QED
        BY <3>1 DEF Claim
    <2>2. counts.runs \in Nat /\ counts.builds \in Nat /\ b \in Nat
      BY DEF Typed
    <2>3. counts.runs + 1 \in Nat /\ counts.builds + b \in Nat
      BY <2>2
    <2>4. QED
      BY <2>1, <2>3 DEF Typed
  <1>6. asks' \in Seq(SUBSET Targets) /\ Len(asks') = Len(asks) + 1
    <2>1. {} \in SUBSET Targets /\ asks \in Seq(SUBSET Targets) /\ asks' = Append(asks, {})
      BY DEF Claim, Typed
    <2> HIDE DEF Targets
    <2>2. QED
      BY <2>1
  <1>7. plan' \in [run : 1..counts'.runs, groups : BOOLEAN] \cup {None}
    BY <1>5 DEF Claim, Typed
  <1>8. overlapped' \in BOOLEAN
    BY DEF Claim, Typed
  <1>9. QED
    BY <1>2, <1>3, <1>4, <1>5, <1>6, <1>7, <1>8 DEF Claim, Typed
-----------------------------------------------------------------------------
\* The run's own steps.
RunMoves == UNCHANGED <<polygon, snapshot, plan, announced, outside, overlapped>>

GoesOn == run' = [run EXCEPT !.pc = "stage", !.stages = Tail(@)]

LEMMA RunMovesTyped ==
  ASSUME Typed, RunMoves, Smooth \/ Failure, run' \in Runs,
         UNCHANGED asks, UNCHANGED sync \/ Closes
  PROVE  Typed'
  <1>1. /\ counts' \in [runs : Nat, builds : Nat, edits : Nat, failures : Nat]
        /\ counts'.runs = counts.runs
    BY CountsTyped
  <1>2. CASE UNCHANGED sync
    BY <1>1, <1>2 DEF RunMoves, Typed
  <1>3. CASE Closes
    BY <1>1, <1>3, ClosesTyped DEF RunMoves, Typed
  <1>4. QED
    BY <1>2, <1>3

LEMMA DecideTyped ==
  ASSUME Typed, Decide
  PROVE  Typed'
  <1>1. RunMoves /\ Smooth
    BY DEF Decide, RunMoves
  <1>2. CASE run' = NoRun /\ UNCHANGED <<asks, sync>>
    BY <1>1, <1>2, IdleRun, RunMovesTyped
  <1>3. CASE Closes /\ UNCHANGED asks
    BY <1>1, <1>3, ClosesTyped, RunMovesTyped
  <1>4. CASE /\ run' = [run EXCEPT !.pc = "opening", !.kind = "generate"]
             /\ sync' = [sync EXCEPT !["run"] = Begun("run", TRUE)] /\ UNCHANGED asks
    <2>1. Begun("run", TRUE) \in Syncs /\ Begun("run", TRUE).previous \in Views
      BY BegunTyped DEF Typed
    <2>2. run' \in Runs
      BY <1>4 DEF Typed, Runs
    <2>3. /\ sync' \in [Background \cup {"run"} -> Syncs]
          /\ \A u \in DOMAIN sync' : sync'[u].pc = "read" => sync'[u].previous \in Views
      BY <1>4, <2>1 DEF Typed
    <2>4. counts' = counts
      BY <1>1 DEF Smooth
    <2>5. QED
      BY <1>1, <1>4, <2>2, <2>3, <2>4 DEF RunMoves, Typed
  <1>5. CASE /\ UNCHANGED sync
             /\ \E stages \in Stages, targets \in SUBSET Targets :
                   /\ Decides(stages, targets)
                   /\ run' = [run EXCEPT !.pc = IF stages = <<"edit">> THEN "ask" ELSE "stage",
                                         !.stages = stages, !.allowed = AllowedTargets(targets),
                                         !.kind = IF stages = <<"edit">> THEN @ ELSE "whole"]
                   /\ asks' = [asks EXCEPT ![counts.runs] = targets]
    <2>1. PICK stages \in Stages, targets \in SUBSET Targets :
             /\ run' = [run EXCEPT !.pc = IF stages = <<"edit">> THEN "ask" ELSE "stage",
                                   !.stages = stages, !.allowed = AllowedTargets(targets),
                                   !.kind = IF stages = <<"edit">> THEN @ ELSE "whole"]
             /\ asks' = [asks EXCEPT ![counts.runs] = targets]
      BY <1>5
    <2>2. AllowedTargets(targets) \in SUBSET Targets
      BY ItemsAre DEF AllowedTargets, Companions
    <2>3. stages \in Seq(StageNames)
      BY StagesTyped
    <2>4. run' \in Runs
      BY <2>1, <2>2, <2>3 DEF Typed, Runs, Working
    <2>5. asks' \in Seq(SUBSET Targets) /\ Len(asks') = Len(asks)
      <3>1. asks \in Seq(SUBSET Targets)
        BY DEF Typed
      <3> HIDE DEF Targets
      <3>2. QED
        BY <2>1, <3>1, EntrySet
    <2>6. counts' = counts
      BY <1>1 DEF Smooth
    <2>7. QED
      BY <1>1, <1>5, <2>4, <2>5, <2>6 DEF RunMoves, Typed
  <1>6. QED
    BY <1>2, <1>3, <1>4, <1>5 DEF Decide

LEMMA TailTyped ==
  ASSUME Typed, run.stages # <<>>,
         run' = [run EXCEPT !.pc = "stage", !.stages = Tail(@)]
  PROVE  run' \in Runs
  <1>1. Tail(run.stages) \in Seq(StageNames)
    BY StageGone DEF Typed, Runs
  <1>2. QED
    BY <1>1 DEF Typed, Runs, Working

LEMMA BeginStageTyped ==
  ASSUME Typed, StagesAsked, BeginStage
  PROVE  Typed'
  <1> DEFINE stage == Head(run.stages)
  <1>1. RunMoves /\ UNCHANGED asks /\ run.pc = "stage" /\ run.stages # <<>>
    BY DEF BeginStage, RunMoves
  <1>2. CASE Fails
    BY <1>1, <1>2, ClosesTyped, RunMovesTyped DEF Fails
  <1>3. CASE GoRun("direct") /\ Smooth /\ UNCHANGED sync
    <2>1. run' \in Runs
      BY <1>3 DEF GoRun, Typed, Runs, Working
    <2>2. QED
      BY <1>1, <1>3, <2>1, RunMovesTyped
  <1>4. CASE /\ Smooth
             /\ LET r == IF stage = "repair" THEN [run EXCEPT !.allowed = Repaired]
                         ELSE [run EXCEPT !.allowed = {TargetOf(ItemOf(stage))}]
                IN
                IF run.stale \/ stage \in {"scoring", "repair"}
                THEN /\ run' = [r EXCEPT !.pc = "resync"]
                     /\ sync' = [sync EXCEPT !["run"] = Begun("run", FALSE)]
                ELSE run' = [r EXCEPT !.pc = "ask"] /\ UNCHANGED sync
             /\ stage \notin {"plan", "planOff", "script", "tests"}
    <2>1. PICK a \in SUBSET Targets :
            \/ /\ run' = [[run EXCEPT !.allowed = a] EXCEPT !.pc = "resync"]
               /\ sync' = [sync EXCEPT !["run"] = Begun("run", FALSE)]
            \/ run' = [[run EXCEPT !.allowed = a] EXCEPT !.pc = "ask"] /\ UNCHANGED sync
      <3>1. CASE stage = "repair"
        BY <1>4, <3>1 DEF Repaired
      <3>2. CASE stage # "repair"
        <4>1. stage \in {"statement", "solution", "generators", "scoring", "brute"}
          <5>1. stage = run.stages[1] /\ stage \in StageNames /\ 1 \in DOMAIN run.stages
            BY <1>1, StageGone DEF Typed, Runs
          <5>2. stage # "edit"
            BY <1>1, <5>1 DEF StagesAsked, Working
          <5>3. QED
            BY <1>4, <3>2, <5>1, <5>2 DEF StageNames
        <4>2. {TargetOf(ItemOf(stage))} \in SUBSET Targets
          BY <4>1, ItemOfStage
        <4>3. QED
          BY <1>4, <3>2, <4>2
      <3>3. QED
        BY <3>1, <3>2
    <2>2. run' \in Runs
      <3> DEFINE r == [run EXCEPT !.allowed = a]
      <3>1. r \in Runs
        BY DEF Typed, Runs
      <3> HIDE DEF r
      <3>2. \A pc \in Working : [r EXCEPT !.pc = pc] \in Runs
        BY <3>1 DEF Runs
      <3>3. run' = [r EXCEPT !.pc = "resync"] \/ run' = [r EXCEPT !.pc = "ask"]
        BY <2>1 DEF r
      <3>4. QED
        BY <3>2, <3>3 DEF Working
    <2>3. Begun("run", FALSE) \in Syncs /\ Begun("run", FALSE).previous \in Views
      BY BegunTyped DEF Typed
    <2>4. /\ sync' \in [Background \cup {"run"} -> Syncs]
          /\ \A u \in DOMAIN sync' : sync'[u].pc = "read" => sync'[u].previous \in Views
      BY <2>1, <2>3, ZenonT(30) DEF Typed
    <2>5. counts' = counts
      BY <1>4 DEF Smooth
    <2>6. QED
      BY <1>1, <2>2, <2>4, <2>5 DEF RunMoves, Typed
  <1>5. QED
    BY <1>2, <1>3, <1>4 DEF BeginStage
-----------------------------------------------------------------------------
\* What a run knows of itself after a write, done or not.
LEMMA TriedIs ==
  ASSUME Typed, NEW todo \in SUBSET run.todo, Tried(todo)
  PROVE  /\ run' \in Runs /\ run'.pc = "apply" /\ run'.todo = todo /\ run'.current = None
         /\ run'.stages = run.stages /\ run'.allowed = run.allowed /\ run'.snap = run.snap
         /\ run'.kind = run.kind
         /\ Succeeded => run'.changed /\ run'.stale /\ run'.erred = run.erred
         /\ ~Succeeded => /\ run'.changed = run.changed /\ run'.stale = run.stale
  <1>1. run \in Runs /\ todo \in SUBSET Edits
    BY DEF Typed, Runs
  <1>2. CASE Succeeded
    <2>1. run' = [run EXCEPT !.todo = todo, !.changed = TRUE, !.stale = TRUE, !.erred = @,
                             !.pc = "apply", !.current = None]
      BY <1>1, <1>2 DEF Tried, Runs
    <2>2. QED
      BY <1>1, <1>2, <2>1 DEF Runs, Working
  <1>3. CASE ~Succeeded
    <2>1. run' = [run EXCEPT !.todo = todo, !.changed = @, !.stale = @, !.erred = TRUE,
                             !.pc = "apply", !.current = None]
      BY <1>1, <1>3 DEF Tried, Runs
    <2>2. QED
      BY <1>1, <1>3, <2>1 DEF Runs, Working
  <1>4. QED
    BY <1>2, <1>3

\* A write of the run, done or not.
LEMMA WrittenIs ==
  ASSUME Typed, NEW change, Written(change)
  PROVE  /\ Smooth \/ Failure
         /\ polygon' = change \/ (polygon' = polygon /\ Failure)
         /\ counts'.failures = 0 => counts' = counts /\ polygon' = change
         /\ Succeeded => Smooth /\ polygon' = change
         /\ Smooth => Succeeded
  <1>1. Smooth => Succeeded
    BY DEF Smooth, Succeeded
  <1>2. Failure => counts'.failures = counts.failures + 1 /\ counts.failures \in Nat
    BY CountsTyped DEF Typed
  <1>3. Smooth => counts' = counts
    BY DEF Smooth
  <1>4. QED
    BY <1>1, <1>2, <1>3 DEF Written, Succeeded

\* A write changes by and tag of some items to values of theirs.
LEMMA RunWritesTyped ==
  ASSUME Typed, Smooth \/ Failure, polygon' \in [Items -> Values], run' \in Runs,
         UNCHANGED <<snapshot, sync, plan, asks, announced, outside, overlapped>>
  PROVE  Typed'
  <1>1. /\ counts' \in [runs : Nat, builds : Nat, edits : Nat, failures : Nat]
        /\ counts'.runs = counts.runs
    BY CountsTyped
  <1>2. QED
    BY <1>1 DEF Typed

\* The edits a stage may have of the model.
Asked(stage) == IF stage \in {"edit", "repair"} THEN Answers
                ELSE {{Edit(ItemOf(stage), CASE stage = "solution" -> "MA"
                                             [] stage = "brute"    -> "TO"
                                             [] OTHER              -> None)}}
Asking == {"edit", "repair", "statement", "solution", "generators", "scoring", "brute"}

LEMMA EditsAre ==
  /\ \A i \in Items \ {"tests", "spare"}, t \in Tags : Edit(i, t) \in Edits
  /\ \A i, t : Edit(i, t).item = i /\ Edit(i, t).tag = t
  BY DEF Edits, Edit

LEMMA AskedIs ==
  ASSUME NEW stage \in Asking, NEW edits \in Asked(stage)
  PROVE  /\ edits \subseteq Edits /\ edits # {}
         /\ \A e, f \in edits : e.item = f.item => e = f
         /\ stage \notin {"edit", "repair"} => \A e \in edits : e.item = ItemOf(stage)
         /\ stage = "solution" => \A e \in edits : e.tag = "MA"
         /\ stage = "brute" => \A e \in edits : e.tag = "TO"
         /\ stage = "scoring" => \E e \in edits : e.item = "scoring"
  <1>1. CASE stage \in {"edit", "repair"}
    <2>1. edits \in Answers
      BY <1>1 DEF Asked
    <2>2. \A i \in Items \ {"tests", "spare"} : Edit(i, None) \in Edits
      BY EditsAre, StampsAre
    <2>3. \A i \in {"main", "extra"}, t \in {"MA", "TL"} : Edit(i, t) \in Edits
      BY EditsAre, StampsAre, ItemsAre
    <2>4. edits \subseteq Edits
      BY <2>1, <2>2, <2>3 DEF Answers
    <2>5. edits # {} /\ \A e, f \in edits : e.item = f.item => e = f
      BY <2>1 DEF Answers
    <2>6. QED
      BY <1>1, <2>4, <2>5
  <1>2. CASE stage \notin {"edit", "repair"}
    <2>1. ItemOf(stage) \in Items \ {"tests", "spare"}
      BY <1>2, ItemOfStage DEF Asking
    <2>2. PICK tag \in Tags : /\ edits = {Edit(ItemOf(stage), tag)}
                              /\ stage = "solution" => tag = "MA"
                              /\ stage = "brute" => tag = "TO"
      <3>1. CASE stage = "solution"
        BY <3>1, StampsAre DEF Asked
      <3>2. CASE stage = "brute"
        BY <3>2, StampsAre DEF Asked
      <3>3. CASE stage \notin {"solution", "brute"}
        BY <1>2, <3>3, StampsAre DEF Asked
      <3>4. QED
        BY <3>1, <3>2, <3>3
    <2>3. Edit(ItemOf(stage), tag) \in Edits
      BY <2>1, EditsAre
    <2>4. Edit(ItemOf(stage), tag).item = ItemOf(stage) /\ Edit(ItemOf(stage), tag).tag = tag
      BY EditsAre
    <2>5. stage = "scoring" => ItemOf(stage) = "scoring"
      BY ItemOfStage
    <2>6. QED
      BY <1>2, <2>2, <2>3, <2>4, <2>5
  <1>3. QED
    BY <1>1, <1>2

\* The stage at hand while the model is asked.
LEMMA StageAtHand ==
  ASSUME Typed, StagesAsked, run.pc \in {"resync", "ask", "apply"}
  PROVE  /\ run.stages \in Seq(StageNames) /\ run.stages # <<>> /\ 1 \in DOMAIN run.stages
         /\ Head(run.stages) = run.stages[1] /\ run.stages[1] \in Asking
  <1>1. run.stages \in Seq(StageNames) /\ run.stages # <<>>
    BY DEF Typed, Runs, StagesAsked, Working
  <1>2. 1 \in DOMAIN run.stages /\ Head(run.stages) = run.stages[1] /\ run.stages[1] \in StageNames
    BY <1>1, StageGone
  <1>3. run.stages[1] \notin {"plan", "planOff", "script", "tests"}
    BY DEF StagesAsked
  <1>4. QED
    BY <1>1, <1>2, <1>3 DEF StageNames, Asking

LEMMA AskModelTyped ==
  ASSUME Typed, StagesAsked, AskModel
  PROVE  Typed'
  <1> DEFINE stage == Head(run.stages)
  <1>0. RunMoves /\ UNCHANGED asks /\ run.pc = "ask"
    BY DEF AskModel, RunMoves
  <1>1. stage \in Asking /\ run.stages # <<>>
    BY <1>0, StageAtHand
  <1>2. CASE stage = "brute" /\ Failure /\ UNCHANGED sync
             /\ run' = [run EXCEPT !.pc = "stage", !.stages = Tail(@)]
    BY <1>0, <1>1, <1>2, TailTyped, RunMovesTyped
  <1>3. CASE Fails \/ (Closes /\ Smooth)
    BY <1>0, <1>3, ClosesTyped, RunMovesTyped DEF Fails
  <1>4. CASE /\ Smooth /\ UNCHANGED sync
             /\ \E edits \in Asked(stage) :
                run' = [run EXCEPT !.pc = "apply", !.todo = Within(edits), !.erred = FALSE]
    <2>1. PICK edits \in Asked(stage) :
            run' = [run EXCEPT !.pc = "apply", !.todo = Within(edits), !.erred = FALSE]
      BY <1>4
    <2>2. Within(edits) \in SUBSET Edits
      BY <1>1, AskedIs DEF Within
    <2>3. run' \in Runs
      BY <2>1, <2>2 DEF Typed, Runs, Working
    <2>4. QED
      BY <1>0, <1>4, <2>3, RunMovesTyped
  <1>5. QED
    BY <1>2, <1>3, <1>4 DEF AskModel, Asked
-----------------------------------------------------------------------------
LEMMA ReadStatementTyped ==
  ASSUME Typed, ReadStatement
  PROVE  Typed'
  <1>1. RunMoves /\ UNCHANGED asks /\ UNCHANGED sync
    BY DEF ReadStatement, RunMoves
  <1>2. CASE run' = [run EXCEPT !.current = [s \in Sections |-> polygon[s].by]] /\ Smooth
    <2>1. [s \in Sections |-> polygon[s].by] \in [Sections -> AllStamps]
      BY ItemsAre DEF Typed, Values
    <2>2. run' \in Runs
      BY <1>2, <2>1 DEF Typed, Runs
    <2>3. QED
      BY <1>1, <1>2, <2>2, RunMovesTyped
  <1>3. CASE run' = [run EXCEPT !.todo = @ \ StatementEdits, !.erred = TRUE] /\ Failure
    <2>1. run' \in Runs
      BY <1>3 DEF Typed, Runs
    <2>2. QED
      BY <1>1, <1>3, <2>1, RunMovesTyped
  <1>4. QED
    BY <1>2, <1>3 DEF ReadStatement

\* What a save of the statement makes of its sections.
LEMMA SaveStatementIs ==
  ASSUME Typed, StatementKept, SaveStatement
  PROVE  \E legend, scoring \in AllStamps :
           /\ legend = (IF "legend" \in {e.item : e \in StatementEdits} THEN Me ELSE run.current["legend"])
           /\ scoring = (IF "scoring" \in {e.item : e \in StatementEdits} THEN Me
                         ELSE IF run.current["scoring"] # None THEN run.current["scoring"]
                              ELSE polygon["scoring"].by)
           /\ Written([polygon EXCEPT !["legend"].by = legend, !["scoring"].by = scoring])
           /\ polygon' \in [Items -> Values]
           /\ \A i \in Items \ Sections : polygon'[i] = polygon[i]
           /\ \A i \in Items : polygon'[i].tag = polygon[i].tag
           /\ \/ polygon' = polygon /\ Failure
              \/ /\ polygon' = [polygon EXCEPT !["legend"].by = legend, !["scoring"].by = scoring]
                 /\ polygon'["legend"].by = legend /\ polygon'["scoring"].by = scoring
           /\ counts'.failures = 0 => polygon'["legend"].by = legend /\ polygon'["scoring"].by = scoring
  <1> DEFINE legend == IF "legend" \in {e.item : e \in StatementEdits} THEN Me ELSE run.current["legend"]
             scoring == IF "scoring" \in {e.item : e \in StatementEdits} THEN Me
                         ELSE IF run.current["scoring"] # None THEN run.current["scoring"]
                              ELSE polygon["scoring"].by
             change == [polygon EXCEPT !["legend"].by = legend, !["scoring"].by = scoring]
  <1>1. Written(change) /\ Merging
    BY DEF SaveStatement, Merging
  <1>2. run.current["legend"] \in AllStamps /\ run.current["scoring"] \in AllStamps
    BY <1>1 DEF StatementKept, CurrentIs, Merging, Sections
  <1>3. polygon["scoring"].by \in AllStamps
    BY ItemsAre DEF Typed, Values
  <1>4. legend \in AllStamps /\ scoring \in AllStamps
    BY <1>2, <1>3, MeTyped
  <1> HIDE DEF legend, scoring
  <1>5. /\ change \in [Items -> Values]
        /\ \A i \in Items \ Sections : change[i] = polygon[i]
        /\ change["legend"].by = legend /\ change["scoring"].by = scoring
        /\ \A i \in Items : change[i].tag = polygon[i].tag
    BY <1>4, ItemsAre DEF Typed, Values, Sections
  <1> HIDE DEF change
  <1>6. \/ polygon' = change
        \/ polygon' = polygon /\ Failure
    BY <1>1, WrittenIs
  <1>7. counts'.failures = 0 => polygon' = change
    BY <1>1, WrittenIs
  <1>8. polygon' \in [Items -> Values]
    BY <1>5, <1>6 DEF Typed
  <1>9. /\ \A i \in Items \ Sections : polygon'[i] = polygon[i]
        /\ \A i \in Items : polygon'[i].tag = polygon[i].tag
    BY <1>5, <1>6
  <1>10. \/ polygon' = polygon /\ Failure
         \/ /\ polygon' = change
            /\ polygon'["legend"].by = legend /\ polygon'["scoring"].by = scoring
    BY <1>5, <1>6
  <1>11. counts'.failures = 0 => polygon'["legend"].by = legend /\ polygon'["scoring"].by = scoring
    BY <1>5, <1>7
  <1>12. QED
    BY <1>1, <1>4, <1>8, <1>9, <1>10, <1>11 DEF legend, scoring, change

LEMMA SaveStatementTyped ==
  ASSUME Typed, StatementKept, SaveStatement
  PROVE  Typed'
  <1>1. polygon' \in [Items -> Values] /\ (Smooth \/ Failure)
    BY SaveStatementIs, WrittenIs
  <1>2. run' \in Runs
    <2>1. run.todo \ StatementEdits \in SUBSET run.todo
      OBVIOUS
    <2>2. QED
      BY <2>1, TriedIs DEF SaveStatement
  <1>3. QED
    BY <1>1, <1>2, RunWritesTyped DEF SaveStatement

LEMMA SaveFileIs ==
  ASSUME Typed, NEW e \in run.todo, SaveFile(e)
  PROVE  /\ e \in Edits /\ e.item \in Items \ (Sections \cup Solutions)
         /\ polygon' \in [Items -> Values]
         /\ \A i \in Items \ {e.item} : polygon'[i] = polygon[i]
         /\ polygon'[e.item].tag = polygon[e.item].tag
         /\ \/ polygon' = polygon /\ Failure
            \/ polygon' = [polygon EXCEPT ![e.item].by = Me] /\ polygon'[e.item].by = Me
         /\ counts'.failures = 0 => polygon'[e.item].by = Me
         /\ Smooth \/ Failure
         /\ Rest(e.item) \in SUBSET run.todo
  <1>1. e \in Edits /\ e.item \in Items \ (Sections \cup Solutions)
    BY DEF SaveFile, Typed, Runs, Edits
  <1> DEFINE change == [polygon EXCEPT ![e.item].by = Me]
  <1>2. /\ change \in [Items -> Values] /\ change[e.item].by = Me
        /\ \A i \in Items \ {e.item} : change[i] = polygon[i]
        /\ change[e.item].tag = polygon[e.item].tag
    BY <1>1, MeTyped DEF Typed, Values
  <1>3. Written(change)
    BY DEF SaveFile
  <1> HIDE DEF change
  <1>4. /\ Smooth \/ Failure
        /\ polygon' = change \/ (polygon' = polygon /\ Failure)
        /\ counts'.failures = 0 => polygon' = change
    BY <1>3, WrittenIs
  <1>5. QED
    BY <1>1, <1>2, <1>4 DEF Typed, Rest, change

LEMMA SaveFileTyped ==
  ASSUME Typed, NEW e \in run.todo, SaveFile(e)
  PROVE  Typed'
  <1>1. polygon' \in [Items -> Values] /\ (Smooth \/ Failure) /\ Rest(e.item) \in SUBSET run.todo
    BY SaveFileIs
  <1>2. run' \in Runs
    BY <1>1, TriedIs DEF SaveFile
  <1>3. QED
    BY <1>1, <1>2, RunWritesTyped DEF SaveFile
-----------------------------------------------------------------------------
LEMMA PlacedIs ==
  ASSUME Typed, NEW e \in run.todo, run.snap # None, e.item \in Solutions
  PROVE  /\ e \in Edits /\ e.item \in Items \ {"spare"}
         /\ Placed(e).item \in Solutions /\ Placed(e).item \in Items /\ Placed(e).tag \in Tags
         /\ Placed(e).item # e.item => /\ Placed(e).item = "spare" /\ Placed(e).tag # "MA"
                                       /\ run.snap[e.item].tag = "MA"
         /\ Placed(e).item = e.item => run.snap[e.item].tag # "MA" \/ Placed(e).tag = "MA"
         /\ run.snap \in Views
  <1>1. e \in Edits /\ e.item \in Items \ {"spare"} /\ e.tag \in Tags /\ run.snap \in Views
    BY DEF Typed, Runs, Edits
  <1> DEFINE has == run.snap[e.item].tag
             tag == IF e.tag # None THEN e.tag ELSE IF has # None THEN has ELSE "OK"
             item == IF has = "MA" /\ tag # "MA" THEN "spare" ELSE e.item
  <1>2. has \in Tags
    BY <1>1 DEF Views
  <1>3. tag \in Tags
    BY <1>1, <1>2, StampsAre
  <1>4. Placed(e).item = item /\ Placed(e).tag = tag
    BY EditsAre DEF Placed
  <1>5. "spare" \in Solutions /\ Solutions \subseteq Items
    BY ItemsAre DEF Solutions
  <1> HIDE DEF tag
  <1>6. QED
    BY <1>1, <1>3, <1>4, <1>5

LEMMA DemoteIs ==
  ASSUME Typed, StagesAsked, NEW e \in run.todo, Demote(e)
  PROVE  /\ e.item \in Solutions /\ e \in Edits /\ run.snap \in Views
         /\ Demoted(e) \subseteq Solutions /\ Demoted(e) # {} /\ e.item \notin Demoted(e)
         /\ polygon' \in [Items -> Values]
         /\ \A i \in Items \ Demoted(e) : polygon'[i] = polygon[i]
         /\ \/ polygon' = polygon /\ Failure
            \/ \A i \in Demoted(e) : polygon'[i] = Value(Me, "OK")
         /\ Smooth \/ Failure
         /\ run' \in Runs /\ run'.pc = "apply" /\ run'.todo = run.todo /\ run'.current = e
         /\ run'.stages = run.stages /\ run'.allowed = run.allowed /\ run'.snap = run.snap
         /\ run'.kind = run.kind
         /\ Succeeded => run'.changed /\ run'.stale /\ run'.erred = run.erred
         /\ ~Succeeded => run'.changed = run.changed /\ run'.stale = run.stale
         /\ counts'.failures = 0 => Succeeded
  <1> DEFINE change == [i \in Items |-> IF i \in Demoted(e) THEN Value(Me, "OK") ELSE polygon[i]]
  <1>1. Written(change) /\ e.item \in Solutions /\ Demoted(e) # {} /\ run.pc = "apply"
    BY DEF Demote
  <1>2. run.snap # None
    BY <1>1 DEF StagesAsked
  <1>3. e \in Edits /\ run.snap \in Views
    BY <1>1, <1>2, PlacedIs
  <1>4. Demoted(e) \subseteq Solutions /\ e.item \notin Demoted(e) /\ Solutions \subseteq Items
    BY ItemsAre DEF Demoted
  <1>5. Value(Me, "OK") \in Values
    BY MeTyped, StampsAre DEF Value, Values
  <1>6. /\ change \in [Items -> Values]
        /\ \A i \in Items \ Demoted(e) : change[i] = polygon[i]
        /\ \A i \in Demoted(e) : change[i] = Value(Me, "OK")
    BY <1>4, <1>5 DEF Typed
  <1> HIDE DEF change
  <1>7. /\ Smooth \/ Failure
        /\ polygon' = change \/ (polygon' = polygon /\ Failure)
        /\ counts'.failures = 0 => counts' = counts
        /\ counts' = counts => Succeeded
    BY <1>1, WrittenIs DEF Succeeded
  <1>8. run \in Runs
    BY DEF Typed
  <1>9. run' = [run EXCEPT !.current = e, !.changed = @ \/ Succeeded, !.stale = @ \/ Succeeded,
                           !.erred = @ \/ ~Succeeded]
    BY <1>8 DEF Demote, Runs
  <1>10. CASE Succeeded
    <2>1. run' = [run EXCEPT !.current = e, !.changed = TRUE, !.stale = TRUE, !.erred = @]
      BY <1>8, <1>9, <1>10 DEF Runs
    <2>2. QED
      BY <1>1, <1>3, <1>4, <1>6, <1>7, <1>8, <1>10, <2>1 DEF Typed, Runs
  <1>11. CASE ~Succeeded
    <2>1. run' = [run EXCEPT !.current = e, !.changed = @, !.stale = @, !.erred = TRUE]
      BY <1>8, <1>9, <1>11 DEF Runs
    <2>2. QED
      BY <1>1, <1>3, <1>4, <1>6, <1>7, <1>8, <1>11, <2>1, ZenonT(30) DEF Typed, Runs
  <1>12. QED
    BY <1>10, <1>11

LEMMA SaveSolutionIs ==
  ASSUME Typed, StagesAsked, NEW e \in run.todo, SaveSolution(e)
  PROVE  LET p == Placed(e) IN
         /\ e.item \in Solutions /\ e \in Edits /\ run.snap \in Views
         /\ p.item \in Solutions /\ p.item \in Items
         /\ polygon' \in [Items -> Values]
         /\ \A i \in Items \ {p.item} : polygon'[i] = polygon[i]
         /\ \/ polygon' = polygon /\ (Failure \/ Refused(p))
            \/ polygon'[p.item] = Value(Me, p.tag)
         /\ Smooth \/ Failure
         /\ run' \in Runs /\ run'.pc = "apply" /\ run'.todo = Rest(e.item) /\ run'.current = None
         /\ run'.stages = run.stages /\ run'.allowed = run.allowed /\ run'.snap = run.snap
         /\ run'.kind = run.kind /\ Rest(e.item) \subseteq run.todo
         /\ (run'.changed = run.changed /\ run'.stale = run.stale) \/ (run'.changed /\ run'.stale)
         /\ counts'.failures = 0 /\ polygon' # polygon => run'.changed /\ run'.stale
         /\ counts'.failures = 0 /\ ~Refused(p) => run'.changed /\ run'.stale
  <1> DEFINE p == Placed(e)
             change == [polygon EXCEPT ![p.item] = Value(Me, p.tag)]
  <1>1. e.item \in Solutions /\ run.pc = "apply"
    BY DEF SaveSolution
  <1>2. run.snap # None
    BY <1>1 DEF StagesAsked
  <1>3. /\ e \in Edits /\ run.snap \in Views
        /\ p.item \in Solutions /\ p.item \in Items /\ p.tag \in Tags
    BY <1>1, <1>2, PlacedIs
  <1>4. Rest(e.item) \in SUBSET run.todo /\ run.todo \subseteq Edits
    BY DEF Rest, Typed, Runs
  <1> HIDE DEF p
  <1>5. CASE Refused(p)
    <2>1. run' = [run EXCEPT !.todo = Rest(e.item), !.erred = TRUE, !.current = None]
      BY <1>5 DEF SaveSolution, p
    <2>2. polygon' = polygon /\ Smooth
      BY <1>5 DEF SaveSolution, p, Smooth
    <2>3. /\ run' \in Runs /\ run'.pc = "apply" /\ run'.todo = Rest(e.item) /\ run'.current = None
          /\ run'.stages = run.stages /\ run'.allowed = run.allowed /\ run'.snap = run.snap
          /\ run'.kind = run.kind /\ run'.changed = run.changed /\ run'.stale = run.stale
      BY <1>1, <1>4, <2>1 DEF Typed, Runs
    <2>4. polygon \in [Items -> Values]
      BY DEF Typed
    <2>5. QED
      BY <1>1, <1>3, <1>4, <1>5, <2>2, <2>3, <2>4 DEF p
  <1>6. CASE ~Refused(p)
    <2>1. Written(change) /\ Tried(Rest(e.item))
      BY <1>6 DEF SaveSolution, p
    <2>2. Value(Me, p.tag) \in Values
      BY <1>3, MeTyped DEF Value, Values
    <2>3. /\ change \in [Items -> Values] /\ change[p.item] = Value(Me, p.tag)
          /\ \A i \in Items \ {p.item} : change[i] = polygon[i]
      BY <1>3, <2>2 DEF Typed
    <2> HIDE DEF change
    <2>4. /\ Smooth \/ Failure
          /\ polygon' = change \/ (polygon' = polygon /\ Failure)
          /\ counts'.failures = 0 => Succeeded
      BY <2>1, WrittenIs DEF Succeeded
    <2>5. /\ run' \in Runs /\ run'.pc = "apply" /\ run'.todo = Rest(e.item) /\ run'.current = None
          /\ run'.stages = run.stages /\ run'.allowed = run.allowed /\ run'.snap = run.snap
          /\ run'.kind = run.kind
          /\ Succeeded => run'.changed /\ run'.stale
          /\ ~Succeeded => run'.changed = run.changed /\ run'.stale = run.stale
      BY <1>4, <2>1, TriedIs
    <2>6. polygon \in [Items -> Values]
      BY DEF Typed
    <2>7. /\ polygon' \in [Items -> Values]
          /\ \A i \in Items \ {p.item} : polygon'[i] = polygon[i]
          /\ (polygon' = polygon /\ Failure) \/ polygon'[p.item] = Value(Me, p.tag)
      BY <2>3, <2>4, <2>6
    <2>8. /\ (run'.changed = run.changed /\ run'.stale = run.stale) \/ (run'.changed /\ run'.stale)
          /\ counts'.failures = 0 => run'.changed /\ run'.stale
      BY <2>4, <2>5
    <2>9. QED
      BY <1>1, <1>3, <1>4, <2>4, <2>5, <2>7, <2>8 DEF p
  <1>7. QED
    BY <1>5, <1>6

LEMMA DemoteTyped ==
  ASSUME Typed, StagesAsked, NEW e \in run.todo, Demote(e)
  PROVE  Typed'
  <1>1. polygon' \in [Items -> Values] /\ (Smooth \/ Failure) /\ run' \in Runs
    BY DemoteIs
  <1>2. QED
    BY <1>1, RunWritesTyped DEF Demote

LEMMA SaveSolutionTyped ==
  ASSUME Typed, StagesAsked, NEW e \in run.todo, SaveSolution(e)
  PROVE  Typed'
  <1>1. polygon' \in [Items -> Values] /\ (Smooth \/ Failure) /\ run' \in Runs
    BY SaveSolutionIs
  <1>2. QED
    BY <1>1, RunWritesTyped DEF SaveSolution
-----------------------------------------------------------------------------
LEMMA StepsOn ==
  ASSUME Typed, run.stages # <<>>, GoesOn
  PROVE  /\ run' \in Runs /\ run'.pc = "stage" /\ run'.stages = Tail(run.stages)
         /\ run'.snap = run.snap /\ run'.stale = run.stale /\ run'.changed = run.changed
         /\ run'.kind = run.kind /\ run'.todo = run.todo
  <1>1. Tail(run.stages) \in Seq(StageNames) /\ run \in Runs
    BY StageGone DEF Typed, Runs
  <1>2. QED
    BY <1>1 DEF GoesOn, Runs, Working

LEMMA EndStageTyped ==
  ASSUME Typed, StagesAsked, EndStage
  PROVE  Typed'
  <1>1. /\ RunMoves /\ UNCHANGED asks /\ run.pc = "apply" /\ run.todo = {} /\ Smooth
        /\ Closes \/ (GoesOn /\ UNCHANGED sync)
    BY DEF EndStage, RunMoves, Smooth, GoesOn
  <1>2. CASE Closes
    BY <1>1, <1>2, ClosesTyped, RunMovesTyped
  <1>3. CASE GoesOn /\ UNCHANGED sync
    BY <1>1, <1>3, StageAtHand, StepsOn, RunMovesTyped
  <1>4. QED
    BY <1>1, <1>2, <1>3

LEMMA StorePlanTyped ==
  ASSUME Typed, StagesAsked, StorePlan
  PROVE  Typed'
  <1>1. run.pc = "direct" /\ GoesOn /\ plan' = [run |-> counts.runs, groups |-> Head(run.stages) = "plan"]
    BY DEF StorePlan, GoesOn
  <1>2. run.stages # <<>> /\ counts.runs > 0
    BY <1>1 DEF StagesAsked, Working
  <1>3. run' \in Runs
    BY <1>1, <1>2, StepsOn
  <1>4. plan' \in [run : 1..counts.runs, groups : BOOLEAN]
    BY <1>1, <1>2 DEF Typed
  <1>5. QED
    BY <1>3, <1>4 DEF StorePlan, Typed

\* What the direct calls make of the script and the tests.
LEMMA SetupTestsetIs ==
  ASSUME Typed, StagesAsked, SetupTestset
  PROVE  LET i == run.stages[1] IN
         /\ i \in {"script", "tests"} /\ 1 \in DOMAIN run.stages /\ Head(run.stages) = i
         /\ run.pc = "direct" /\ run.stages # <<>>
         /\ polygon' \in [Items -> Values]
         /\ \A j \in Items \ {i} : polygon'[j] = polygon[j]
         /\ polygon'[i].tag = polygon[i].tag
         /\ polygon'[i] = polygon[i] \/ polygon'[i].by = Me
         /\ \/ /\ polygon'[i].by = Me /\ Smooth /\ UNCHANGED sync
               /\ run' \in Runs /\ run'.pc = "stage" /\ run'.stages = Tail(run.stages)
               /\ run'.changed /\ run'.stale /\ run'.snap = run.snap /\ run'.current = run.current
            \/ Fails
  <1> DEFINE i == run.stages[1]
             change == [polygon EXCEPT ![i].by = Me]
  <1>1. run.pc = "direct" /\ Head(run.stages) \in {"script", "tests"}
    BY DEF SetupTestset
  <1>2. run.stages # <<>> /\ run.stages \in Seq(StageNames) /\ run \in Runs
    BY <1>1 DEF StagesAsked, Working, Typed, Runs
  <1>3. /\ 1 \in DOMAIN run.stages /\ Head(run.stages) = i /\ Tail(run.stages) \in Seq(StageNames)
    BY <1>2, StageGone
  <1> HIDE DEF i
  <1>4. i \in Items /\ i \in {"script", "tests"}
    BY <1>1, <1>3, ItemsAre
  <1>5. /\ change \in [Items -> Values] /\ change[i].by = Me /\ change[i].tag = polygon[i].tag
        /\ \A j \in Items \ {i} : change[j] = polygon[j]
    BY <1>4, MeTyped DEF Typed, Values
  <1> HIDE DEF change
  <1>6. CASE /\ polygon' = change /\ Smooth
             /\ run' = [run EXCEPT !.pc = "stage", !.stages = Tail(@), !.changed = TRUE, !.stale = TRUE]
             /\ UNCHANGED sync
    <2>1. /\ run' \in Runs /\ run'.pc = "stage" /\ run'.stages = Tail(run.stages)
          /\ run'.changed /\ run'.stale /\ run'.snap = run.snap /\ run'.current = run.current
      BY <1>2, <1>3, <1>6 DEF Runs, Working
    <2>2. polygon' = change /\ Smooth /\ UNCHANGED sync
      BY <1>6
    <2>3. QED
      BY <1>1, <1>2, <1>3, <1>4, <1>5, <2>1, <2>2 DEF i
  <1>7. CASE polygon' \in {polygon, change} /\ Fails
    <2>1. polygon \in [Items -> Values]
      BY DEF Typed
    <2>2. QED
      BY <1>1, <1>2, <1>3, <1>4, <1>5, <1>7, <2>1 DEF i
  <1>8. QED
    BY <1>3, <1>6, <1>7 DEF SetupTestset, change

LEMMA SetupTestsetTyped ==
  ASSUME Typed, StagesAsked, SetupTestset
  PROVE  Typed'
  <1>1. polygon' \in [Items -> Values]
    BY SetupTestsetIs
  <1>2. UNCHANGED <<snapshot, plan, asks, announced, outside, overlapped>>
    BY DEF SetupTestset
  <1>3. CASE Smooth /\ UNCHANGED sync /\ run' \in Runs
    BY <1>1, <1>2, <1>3, RunWritesTyped
  <1>4. CASE Fails
    <2>1. /\ run' \in Runs /\ sync' \in [Background \cup {"run"} -> Syncs]
          /\ \A u \in DOMAIN sync' : sync'[u].pc = "read" => sync'[u].previous \in Views
      BY <1>4, ClosesTyped DEF Fails
    <2>2. /\ counts' \in [runs : Nat, builds : Nat, edits : Nat, failures : Nat]
          /\ counts'.runs = counts.runs
      BY <1>4, CountsTyped DEF Fails
    <2>3. QED
      BY <1>1, <1>2, <2>1, <2>2 DEF Typed
  <1>5. QED
    BY <1>3, <1>4, SetupTestsetIs

LEMMA ConcludeTyped ==
  ASSUME Typed, Conclude
  PROVE  Typed'
  <1>1. RunMoves /\ UNCHANGED asks /\ Smooth
    BY DEF Conclude, RunMoves, Smooth
  <1>2. (run' = NoRun /\ UNCHANGED sync) \/ Closes
    BY DEF Conclude
  <1>3. QED
    BY <1>1, <1>2, IdleRun, ClosesTyped, RunMovesTyped

LEMMA NextIs ==
  ASSUME Next
  PROVE  \/ \E t \in Background : BeginBackground(t)
         \/ \E t \in DOMAIN sync : ReadLists(t) \/ StoreSnapshot(t) \/ SyncFails(t)
         \/ \E i \in UserItems : polygon[i] # Absent /\ UserEdits(i)
         \/ \E k \in {"chat", "groups", "generate", "build"} : Claim(k)
         \/ Decide \/ BeginStage \/ AskModel \/ ReadStatement \/ SaveStatement
         \/ \E e \in run.todo : SaveFile(e) \/ Demote(e) \/ SaveSolution(e)
         \/ EndStage \/ StorePlan \/ SetupTestset \/ Conclude
  BY DEF Next

LEMMA TypedNext ==
  ASSUME Typed, StagesAsked, StatementKept, [Next]_vars
  PROVE  Typed'
  <1>1. CASE UNCHANGED vars
    BY <1>1 DEF vars, Typed
  <1>2. CASE Next
    BY <1>2, NextIs, BeginBackgroundTyped, ReadListsTyped, StoreSnapshotTyped, SyncFailsTyped,
       UserEditsTyped, ClaimTyped, DecideTyped, BeginStageTyped, AskModelTyped, ReadStatementTyped,
       SaveStatementTyped, SaveFileTyped, DemoteTyped, SaveSolutionTyped, EndStageTyped,
       StorePlanTyped, SetupTestsetTyped, ConcludeTyped
  <1>3. QED
    BY <1>1, <1>2
-----------------------------------------------------------------------------
-----------------------------------------------------------------------------
\* A run keeps to what it was asked.
LEMMA StagesInit == Init => StagesAsked
  BY IdleRun DEF Init, StagesAsked, Working, NoRun

LEMMA StagesKept ==
  ASSUME Typed, StagesAsked, run'.pc = run.pc, run'.stages = run.stages,
         run'.allowed = run.allowed, run'.snap = run.snap, run'.kind = run.kind,
         run'.todo \subseteq run.todo, UNCHANGED <<asks, plan>>, counts'.runs = counts.runs
  PROVE  StagesAsked'
  <1>1. Permitted' = Permitted
    BY DEF Permitted, HasPlan
  <1>2. QED
    BY <1>1 DEF StagesAsked, PlanLeads

LEMMA StagesIdle ==
  ASSUME run' = NoRun
  PROVE  StagesAsked'
  BY IdleRun DEF StagesAsked, Working

LEMMA ClosesIs ==
  ASSUME Typed, Closes
  PROVE  /\ run'.pc = "closing" /\ run'.snap = run.snap /\ run'.stale = run.stale
         /\ run'.changed = run.changed /\ run'.current = run.current
         /\ \A t \in DOMAIN sync \ {"run"} : sync'[t] = sync[t]
         /\ DOMAIN sync' = DOMAIN sync /\ sync'["run"] = Begun("run", FALSE)
  BY DEF Closes, GoRun, Typed, Runs

LEMMA StagesClosed ==
  ASSUME Typed, run'.pc = "closing", counts'.runs = counts.runs, counts.runs > 0
  PROVE  StagesAsked'
  BY DEF StagesAsked, Working

LEMMA StagesOn ==
  ASSUME Typed, StagesAsked, run.pc \in {"ask", "apply", "direct"}, run'.pc = "stage",
         run'.stages = Tail(run.stages), run'.snap = run.snap, UNCHANGED asks,
         counts'.runs = counts.runs
  PROVE  StagesAsked'
  <1> DEFINE old == run.stages
             new == Tail(run.stages)
  <1>1. old \in Seq(StageNames) /\ old # <<>> /\ run.pc \in Working
    BY DEF Typed, Runs, StagesAsked, Working
  <1>2. /\ new \in Seq(StageNames) /\ Len(new) = Len(old) - 1
        /\ \A k \in DOMAIN new : k + 1 \in DOMAIN old /\ new[k] = old[k + 1] /\ k \in Nat
        /\ Len(old) \in Nat
    BY <1>1, StageGone
  <1>3. PlanLeads(old) /\ \A k \in DOMAIN old : /\ Needs(old[k]) \subseteq asks[counts.runs]
                                                /\ old[k] \in {"edit", "repair"} => Len(old) = 1
    BY <1>1 DEF StagesAsked
  <1> HIDE DEF old, new
  <1>4. PlanLeads(new)
    <2>1. \A j, k \in DOMAIN new : /\ j < k => j + 1 < k + 1
                                   /\ j + 1 = k + 1 => j = k
      BY <1>2
    <2>2. QED
      BY <1>2, <1>3, <2>1 DEF PlanLeads
  <1>5. \A k \in DOMAIN new : /\ Needs(new[k]) \subseteq asks[counts.runs]
                              /\ new[k] \notin {"edit", "repair"}
    <2>1. \A k \in DOMAIN new : Len(old) # 1
      BY <1>2
    <2>2. QED
      BY <1>2, <1>3, <2>1
  <1>6. run'.snap # None
    BY DEF StagesAsked
  <1>7. run'.stages = new
    BY DEF new
  <1>8. counts.runs > 0
    BY <1>1 DEF StagesAsked
  <1>9. QED
    BY <1>4, <1>5, <1>6, <1>7, <1>8 DEF StagesAsked, Working

LEMMA StagesSyncs ==
  ASSUME Typed, StagesAsked, RunSyncs, NEW t \in DOMAIN sync, ReadLists(t) \/ StoreSnapshot(t) \/ SyncFails(t)
  PROVE  StagesAsked'
  <1>1. CASE ReadLists(t)
    BY <1>1, StagesKept, CountsTyped DEF ReadLists
  <1>2. CASE StoreSnapshot(t)
    <2>1. CASE t # "run"
      BY <1>2, <2>1, StagesKept DEF StoreSnapshot
    <2>2. CASE t = "run"
      <3>1. /\ sync["run"].taken \in Views /\ sync["run"].taken # None /\ run.pc \in Syncing
            /\ run' = After(run, sync["run"].taken) /\ UNCHANGED <<asks, counts, plan>>
        BY <1>2, <2>2 DEF StoreSnapshot, Typed, Syncs, RunSyncs
      <3>2. CASE run.pc = "closing"
        BY <3>1, <3>2, AfterIs, StagesIdle
      <3>3. CASE run.pc = "opening"
        <4>1. run'.pc = "decide" /\ run'.snap # None /\ run'.stages = run.stages
          BY <3>1, <3>3, AfterIs
        <4>2. QED
          BY <3>1, <3>3, <4>1 DEF StagesAsked, Working
      <3>4. CASE run.pc = "resync"
        <4>1. /\ run'.pc = "ask" /\ run'.snap # None /\ run'.stages = run.stages
              /\ run'.allowed = run.allowed /\ run'.todo = run.todo
          BY <3>1, <3>4, AfterIs
        <4>2. Permitted' = Permitted
          BY <3>1 DEF Permitted, HasPlan
        <4>3. QED
          BY <3>1, <3>4, <4>1, <4>2 DEF StagesAsked, Working, PlanLeads
      <3>5. QED
        BY <3>1, <3>2, <3>3, <3>4 DEF Syncing
    <2>3. QED
      BY <2>1, <2>2
  <1>3. CASE SyncFails(t)
    <2>1. counts'.runs = counts.runs /\ UNCHANGED <<asks, plan>>
      BY <1>3, CountsTyped DEF SyncFails
    <2>2. CASE t = "run" /\ run.pc # "closing"
      <3>1. run'.pc = "closing" /\ run.pc \in Syncing
        BY <1>3, <2>2 DEF SyncFails, GoRun, Typed, Runs, RunSyncs
      <3>2. counts.runs > 0
        BY <3>1 DEF StagesAsked, Syncing
      <3>3. QED
        BY <2>1, <3>1, <3>2, StagesClosed
    <2>3. CASE ~(t = "run" /\ run.pc # "closing")
      <3>1. run' = NoRun \/ run' = run
        BY <1>3, <2>3 DEF SyncFails
      <3>2. QED
        BY <2>1, <3>1, StagesIdle, StagesKept
    <2>4. QED
      BY <2>2, <2>3
  <1>4. QED
    BY <1>1, <1>2, <1>3
-----------------------------------------------------------------------------
\* The stages a run is given do what it was asked, the plan first.
LEMMA PlanStagesLead ==
  ASSUME NEW g \in BOOLEAN
  PROVE  LET p == PlanStages(g) IN
         /\ p \in Seq(StageNames) /\ Len(p) \in {4, 5}
         /\ p[1] \in {"plan", "planOff"}
         /\ \A k \in DOMAIN p : k # 1 => p[k] \in {"generators", "script", "tests", "scoring"}
         /\ \A j, k \in DOMAIN p : p[j] = p[k] => j = k
  <1>1. CASE g = TRUE
    <2> DEFINE p == <<"plan", "generators", "script", "tests", "scoring">>
    <2>1. /\ p[1] \in {"plan", "planOff"} /\ Len(p) \in {4, 5}
          /\ \A k \in DOMAIN p : k # 1 => p[k] \in {"generators", "script", "tests", "scoring"}
          /\ \A j, k \in DOMAIN p : p[j] = p[k] => j = k
      OBVIOUS
    <2>2. PlanStages(g) = p /\ PlanStages(g) \in Seq(StageNames)
      BY <1>1, PlanStagesAre
    <2> HIDE DEF p
    <2>3. QED
      BY <2>1, <2>2
  <1>2. CASE g = FALSE
    <2> DEFINE p == <<"planOff", "generators", "script", "tests">>
    <2>1. /\ p[1] \in {"plan", "planOff"} /\ Len(p) \in {4, 5}
          /\ \A k \in DOMAIN p : k # 1 => p[k] \in {"generators", "script", "tests", "scoring"}
          /\ \A j, k \in DOMAIN p : p[j] = p[k] => j = k
      OBVIOUS
    <2>2. PlanStages(g) = p /\ PlanStages(g) \in Seq(StageNames)
      BY <1>2, PlanStagesAre
    <2> HIDE DEF p
    <2>3. QED
      BY <2>1, <2>2
  <1>3. QED
    BY <1>1, <1>2

LEMMA PlanStagesNeed ==
  \A stage \in {"plan", "planOff", "generators", "script", "tests", "scoring"} :
     Needs(stage) \subseteq Targets \ {"solution"}
  BY ItemOfStage, ItemsAre

LEMMA GenerateStagesLead ==
  ASSUME NEW g \in BOOLEAN
  PROVE  LET p == GenerateStages(g) IN
         /\ p \in Seq(StageNames) /\ Len(p) > 1
         /\ PlanLeads(p)
         /\ \A k \in DOMAIN p : p[k] \notin {"edit", "repair"} /\ Needs(p[k]) \subseteq Targets
  <1> DEFINE q == PlanStages(g)
             p == GenerateStages(g)
             n == Len(q)
  <1>1. /\ q \in Seq(StageNames) /\ n \in Nat /\ n > 1
        /\ q[1] \in {"plan", "planOff"}
        /\ \A k \in DOMAIN q : k # 1 => q[k] \in {"generators", "script", "tests", "scoring"}
        /\ \A j, k \in DOMAIN q : q[j] = q[k] => j = k
        /\ DOMAIN q = 1..n
    BY PlanStagesLead
  <1>2. /\ p \in Seq(StageNames) /\ Len(p) = n + 3 /\ p[1] = "statement" /\ p[2] = "solution"
        /\ p[n + 3] = "brute" /\ \A k \in 1..n : p[k + 2] = q[k]
    BY GenerateStagesAre
  <1> HIDE DEF p, q, n
  <1>3. DOMAIN p = 1..(n + 3)
    BY <1>2
  <1>4. \A k \in DOMAIN p : \/ k = 1 /\ p[k] = "statement"
                            \/ k = 2 /\ p[k] = "solution"
                            \/ k = n + 3 /\ p[k] = "brute"
                            \/ k = 3 /\ p[k] = q[1]
                            \/ /\ k \in 4..(n + 2) /\ k - 2 \in DOMAIN q /\ k - 2 # 1 /\ p[k] = q[k - 2]
    <2> TAKE k \in DOMAIN p
    <2>1. k \in 3..(n + 2) => k - 2 \in 1..n /\ p[k] = q[k - 2]
      <3>1. k \in 3..(n + 2) => k - 2 \in 1..n /\ (k - 2) + 2 = k
        BY <1>1
      <3>2. QED
        BY <1>2, <3>1
    <2>2. QED
      BY <1>1, <1>2, <1>3, <2>1
  <1>5. \A k \in DOMAIN p : /\ k \in {1, 2} => p[k] \in {"statement", "solution"}
                            /\ k = 3 => p[k] \in {"plan", "planOff"}
                            /\ k \in Nat
                            /\ k > 3 => p[k] \in {"generators", "script", "tests", "scoring", "brute"}
    BY <1>1, <1>3, <1>4
  <1>6. \A j, k \in DOMAIN p : p[j] = p[k] => j = k
    <2> SUFFICES ASSUME NEW j \in DOMAIN p, NEW k \in DOMAIN p, p[j] = p[k]
                 PROVE  j = k
      OBVIOUS
    <2>1. CASE j \in 4..(n + 2) /\ k \in 4..(n + 2)
      <3>1. /\ j - 2 \in DOMAIN q /\ p[j] = q[j - 2]
            /\ k - 2 \in DOMAIN q /\ p[k] = q[k - 2]
        BY <1>1, <1>4, <2>1
      <3>2. \A x, y \in DOMAIN q : q[x] = q[y] => x = y
        BY <1>1
      <3>3. q[j - 2] = q[k - 2]
        BY <3>1
      <3>4. j - 2 = k - 2
        BY <3>1, <3>2, <3>3, Zenon
      <3>5. QED
        BY <2>1, <3>4
    <2>2. CASE ~(j \in 4..(n + 2) /\ k \in 4..(n + 2))
      BY <1>1, <1>3, <1>4, <2>2, SMTT(30)
    <2>3. QED
      BY <2>1, <2>2
  <1>7. PlanLeads(p)
    <2>1. \A j \in DOMAIN p : p[j] \in {"plan", "planOff"} => j = 3
      BY <1>5, <1>3
    <2>2. QED
      BY <1>5, <1>6, <2>1 DEF PlanLeads
  <1>8. \A k \in DOMAIN p : p[k] \notin {"edit", "repair"} /\ Needs(p[k]) \subseteq Targets
    <2>1. \A k \in DOMAIN p : p[k] \in {"statement", "solution", "plan", "planOff", "generators",
                                        "script", "tests", "scoring", "brute"}
      BY <1>3, <1>5
    <2>2. QED
      BY <2>1, ItemOfStage, ItemsAre
  <1>9. QED
    BY <1>1, <1>2, <1>7, <1>8 DEF p

LEMMA DecidesIs ==
  ASSUME NEW stages \in Stages, NEW targets \in SUBSET Targets, Decides(stages, targets)
  PROVE  /\ PlanLeads(stages)
         /\ \A k \in DOMAIN stages : /\ Needs(stages[k]) \subseteq targets
                                     /\ stages[k] \in {"edit", "repair"} => Len(stages) = 1
                                     /\ stages[k] = "edit" => stages = <<"edit">>
         /\ run.kind = "build" => stages = <<"repair">>
         /\ stages = <<"edit">> => stages[1] = "edit" /\ Len(stages) = 1
         /\ \A k \in DOMAIN stages : stages[k] = "repair" => stages = <<"repair">>
  <1>1. CASE stages = <<"repair">> /\ targets = Repaired
    <2>1. DOMAIN stages = {1} /\ stages[1] = "repair" /\ Len(stages) = 1
      BY <1>1
    <2>2. QED
      BY <1>1, <2>1, ItemOfStage DEF PlanLeads
  <1>2. CASE stages = <<"edit">> /\ run.kind = "chat"
    <2>1. DOMAIN stages = {1} /\ stages[1] = "edit" /\ Len(stages) = 1
      BY <1>2
    <2>2. QED
      BY <1>2, <2>1, ItemOfStage DEF PlanLeads
  <1>3. CASE /\ targets = Targets \ {"solution"} /\ run.kind \in {"chat", "groups"}
             /\ \E g \in BOOLEAN : stages = PlanStages(g)
    <2>1. PICK g \in BOOLEAN : stages = PlanStages(g)
      BY <1>3
    <2>2. /\ stages \in Seq(StageNames) /\ Len(stages) \in {4, 5}
          /\ stages[1] \in {"plan", "planOff"}
          /\ \A k \in DOMAIN stages : k # 1 => stages[k] \in {"generators", "script", "tests", "scoring"}
          /\ \A j, k \in DOMAIN stages : stages[j] = stages[k] => j = k
      BY <2>1, PlanStagesLead
    <2>3. \A k \in DOMAIN stages : stages[k] \in {"plan", "planOff", "generators", "script", "tests", "scoring"}
      BY <2>2
    <2>4. \A k \in DOMAIN stages : k \in Nat /\ k >= 1
      BY <2>2
    <2>5. PlanLeads(stages)
      BY <2>2, <2>4 DEF PlanLeads
    <2>6. stages # <<"edit">>
      BY <2>2
    <2>7. QED
      BY <1>3, <2>3, <2>5, <2>6, PlanStagesNeed
  <1>4. CASE /\ run.kind = "generate" /\ targets = Targets
             /\ \E g \in BOOLEAN : stages = GenerateStages(g)
    <2>1. PICK g \in BOOLEAN : stages = GenerateStages(g)
      BY <1>4
    <2>2. stages # <<"edit">>
      <3>1. Len(stages) > 1
        BY <2>1, GenerateStagesLead
      <3>2. stages = <<"edit">> => Len(stages) = 1
        OBVIOUS
      <3> DEFINE n == Len(stages)
                 alone == stages = <<"edit">>
      <3> HIDE DEF n, alone
      <3>3. n > 1 /\ (alone => n = 1)
        BY <3>1, <3>2 DEF n, alone
      <3>4. ~alone
        BY <3>3
      <3>5. QED
        BY <3>4 DEF alone
    <2>3. QED
      BY <1>4, <2>1, <2>2, GenerateStagesLead
  <1>5. QED
    BY <1>1, <1>2, <1>3, <1>4 DEF Decides
-----------------------------------------------------------------------------
LEMMA ClaimIs ==
  ASSUME Typed, NEW k \in {"chat", "groups", "generate", "build"}, Claim(k)
  PROVE  /\ run'.pc \in {"opening", "decide"} /\ run'.kind = k
         /\ run'.snap = None /\ ~run'.changed /\ ~run'.stale /\ run'.current = None /\ run'.todo = {}
         /\ k = "build" => run'.pc = "decide" /\ UNCHANGED sync
         /\ k # "build" => /\ run'.pc = "opening"
                           /\ sync' = [sync EXCEPT !["run"] = Begun("run", TRUE)]
         /\ counts'.runs = counts.runs + 1 /\ counts'.edits = counts.edits
         /\ counts'.failures = counts.failures
         /\ counts'.builds = IF k = "build" THEN counts.builds + 1 ELSE counts.builds
         /\ counts'.runs \in Nat /\ counts'.runs > 0
         /\ asks'[counts'.runs] = {} /\ Len(asks') = counts'.runs
         /\ \A n \in 1..counts.runs : asks'[n] = asks[n]
  <1>1. counts.runs \in Nat /\ counts.builds \in Nat /\ asks \in Seq(SUBSET Targets) /\ Len(asks) = counts.runs
    BY DEF Typed
  <1>2. counts' = [counts EXCEPT !.runs = @ + 1, !.builds = @ + (IF k = "build" THEN 1 ELSE 0)]
    BY DEF Claim
  <1>3. /\ counts'.runs = counts.runs + 1 /\ counts'.edits = counts.edits
        /\ counts'.failures = counts.failures
        /\ counts'.builds = IF k = "build" THEN counts.builds + 1 ELSE counts.builds
    BY <1>1, <1>2 DEF Typed
  <1>4. asks' = Append(asks, {})
    BY DEF Claim
  <1>5. /\ asks'[counts.runs + 1] = {} /\ Len(asks') = counts.runs + 1
        /\ \A n \in 1..counts.runs : asks'[n] = asks[n]
    <2> HIDE DEF Targets
    <2>1. QED
      BY <1>1, <1>4
  <1>6. /\ k = "build" => /\ UNCHANGED sync /\ run' = [NoRun EXCEPT !.pc = "decide", !.kind = k]
        /\ k # "build" => /\ run' = [NoRun EXCEPT !.pc = "opening", !.kind = k]
                          /\ sync' = [sync EXCEPT !["run"] = Begun("run", TRUE)]
    BY DEF Claim
  <1>7. /\ run'.pc = (IF k = "build" THEN "decide" ELSE "opening") /\ run'.kind = k
        /\ run'.snap = None /\ ~run'.changed /\ ~run'.stale /\ run'.current = None /\ run'.todo = {}
    BY <1>6, ZenonT(30) DEF NoRun
  <1>8. counts'.runs \in Nat /\ counts'.runs > 0
    BY <1>1, <1>3
  <1>9. asks'[counts'.runs] = {} /\ Len(asks') = counts'.runs
    BY <1>3, <1>5
  <1>10. run'.pc \in {"opening", "decide"} /\ (k = "build" => run'.pc = "decide")
         /\ (k # "build" => run'.pc = "opening")
    BY <1>7
  <1>11. /\ k = "build" => UNCHANGED sync
         /\ k # "build" => sync' = [sync EXCEPT !["run"] = Begun("run", TRUE)]
    BY <1>6
  <1> HIDE DEF Begun
  <1>12. QED
    BY <1>3, <1>5, <1>7, <1>8, <1>9, <1>10, <1>11

LEMMA StagesClaimed ==
  ASSUME Typed, NEW k \in {"chat", "groups", "generate", "build"}, Claim(k)
  PROVE  StagesAsked'
  BY ClaimIs DEF StagesAsked, Working

LEMMA StagesEdited ==
  ASSUME Typed, StagesAsked,
         (\E t \in Background : BeginBackground(t)) \/ (\E i \in UserItems : UserEdits(i))
  PROVE  StagesAsked'
  <1>1. UNCHANGED <<run, asks, plan>>
    BY DEF BeginBackground, UserEdits
  <1>2. counts'.runs = counts.runs
    <2>1. CASE counts' = counts
      BY <2>1
    <2>2. CASE counts' = [counts EXCEPT !.edits = @ + 1]
      BY <2>2 DEF Typed
    <2>3. QED
      BY <2>1, <2>2 DEF BeginBackground, UserEdits
  <1>3. QED
    BY <1>1, <1>2, StagesKept

\* What becomes of a run at its decision.
Decided(stages, targets) ==
    /\ stages \in Stages /\ targets \in SUBSET Targets /\ Decides(stages, targets)
    /\ UNCHANGED sync
    /\ run'.stages = stages /\ run'.allowed = AllowedTargets(targets)
    /\ run'.pc = (IF stages = <<"edit">> THEN "ask" ELSE "stage")
    /\ run'.snap = run.snap /\ run'.changed = run.changed /\ run'.stale = run.stale
    /\ run'.todo = run.todo /\ run'.current = run.current
    /\ asks'[counts.runs] = targets
    /\ \A n \in DOMAIN asks \ {counts.runs} : asks'[n] = asks[n]
Reopened == /\ run.kind = "chat" /\ ~HasContent(run.snap)
            /\ run'.pc = "opening" /\ run'.kind = "generate"
            /\ run'.snap = run.snap /\ run'.changed = run.changed /\ run'.stale = run.stale
            /\ run'.todo = run.todo /\ run'.current = run.current
            /\ sync' = [sync EXCEPT !["run"] = Begun("run", TRUE)] /\ UNCHANGED asks

LEMMA DecideIs ==
  ASSUME Typed, StagesAsked, Decide
  PROVE  /\ run.pc = "decide" /\ Smooth /\ counts.runs > 0
         /\ UNCHANGED <<polygon, snapshot, plan, announced, outside, overlapped>>
         /\ \/ run' = NoRun /\ UNCHANGED <<asks, sync>> /\ run.kind = "chat"
            \/ Closes /\ UNCHANGED asks /\ run.kind = "build"
            \/ Reopened
            \/ \E stages, targets : Decided(stages, targets)
  <1>1. run.pc = "decide" /\ Smooth /\ counts.runs > 0
    BY DEF Decide, StagesAsked
  <1>2. UNCHANGED <<polygon, snapshot, plan, announced, outside, overlapped>>
    BY DEF Decide
  <1>3. CASE /\ run.kind = "chat" /\ ~HasContent(run.snap)
             /\ run' = [run EXCEPT !.pc = "opening", !.kind = "generate"]
             /\ sync' = [sync EXCEPT !["run"] = Begun("run", TRUE)] /\ UNCHANGED asks
    <2>1. run \in Runs
      BY DEF Typed
    <2>2. Reopened
      BY <1>3, <2>1 DEF Runs, Reopened
    <2>3. QED
      BY <1>1, <1>2, <2>2
  <1>4. CASE /\ UNCHANGED sync
             /\ \E stages \in Stages, targets \in SUBSET Targets :
                /\ Decides(stages, targets)
                /\ run' = [run EXCEPT !.pc = IF stages = <<"edit">> THEN "ask" ELSE "stage",
                                      !.stages = stages, !.allowed = AllowedTargets(targets),
                                      !.kind = IF stages = <<"edit">> THEN @ ELSE "whole"]
                /\ asks' = [asks EXCEPT ![counts.runs] = targets]
    <2>1. PICK stages \in Stages, targets \in SUBSET Targets :
             /\ Decides(stages, targets)
             /\ run' = [run EXCEPT !.pc = IF stages = <<"edit">> THEN "ask" ELSE "stage",
                                   !.stages = stages, !.allowed = AllowedTargets(targets),
                                   !.kind = IF stages = <<"edit">> THEN @ ELSE "whole"]
             /\ asks' = [asks EXCEPT ![counts.runs] = targets]
      BY <1>4
    <2>2. /\ asks'[counts.runs] = targets
          /\ \A n \in DOMAIN asks \ {counts.runs} : asks'[n] = asks[n]
      <3>1. asks \in Seq(SUBSET Targets) /\ counts.runs \in DOMAIN asks
        BY <1>1 DEF Typed
      <3> HIDE DEF Targets
      <3>2. QED
        BY <2>1, <3>1
    <2>3. /\ run'.stages = stages /\ run'.allowed = AllowedTargets(targets)
          /\ run'.pc = (IF stages = <<"edit">> THEN "ask" ELSE "stage")
          /\ run'.snap = run.snap /\ run'.changed = run.changed /\ run'.stale = run.stale
          /\ run'.todo = run.todo /\ run'.current = run.current
      <3>1. run \in Runs
        BY DEF Typed
      <3> DEFINE a == AllowedTargets(targets)
                 p == IF stages = <<"edit">> THEN "ask" ELSE "stage"
                 q == IF stages = <<"edit">> THEN run.kind ELSE "whole"
      <3>2. run' = [run EXCEPT !.pc = p, !.stages = stages, !.allowed = a, !.kind = q]
        BY <2>1
      <3> HIDE DEF a, p, q
      <3>3. /\ run'.stages = stages /\ run'.allowed = a /\ run'.pc = p
            /\ run'.snap = run.snap /\ run'.changed = run.changed /\ run'.stale = run.stale
            /\ run'.todo = run.todo /\ run'.current = run.current
        BY <3>1, <3>2 DEF Runs
      <3>4. QED
        BY <3>3 DEF a, p
    <2>4. Decided(stages, targets)
      BY <1>4, <2>1, <2>2, <2>3 DEF Decided
    <2>5. QED
      BY <1>1, <1>2, <2>4
  <1>5. CASE (run.kind = "chat" /\ run' = NoRun /\ UNCHANGED <<asks, sync>>)
             \/ (run.kind = "build" /\ Closes /\ UNCHANGED asks)
    BY <1>1, <1>2, <1>5
  <1>6. QED
    BY <1>3, <1>4, <1>5 DEF Decide

LEMMA StagesDecided ==
  ASSUME Typed, StagesAsked, Decide
  PROVE  StagesAsked'
  <1>0. run.pc = "decide" /\ counts' = counts /\ counts.runs > 0 /\ UNCHANGED plan
    BY DecideIs DEF Smooth
  <1>1. CASE run' = NoRun
    BY <1>1, StagesIdle
  <1>2. CASE Closes
    BY <1>0, <1>2, ClosesIs, StagesClosed
  <1>3. CASE Reopened
    BY <1>0, <1>3 DEF Reopened, StagesAsked, Working
  <1>4. CASE \E stages, targets : Decided(stages, targets)
    <2>1. PICK stages, targets : Decided(stages, targets)
      BY <1>4
    <2> DEFINE alone == stages = <<"edit">>
    <2>2. /\ PlanLeads(stages)
          /\ \A k \in DOMAIN stages : /\ Needs(stages[k]) \subseteq targets
                                      /\ stages[k] \in {"edit", "repair"} => Len(stages) = 1
                                      /\ stages[k] = "edit" => alone
                                      /\ run.kind = "build" => stages[k] = "repair"
          /\ alone => stages[1] = "edit" /\ stages # <<>> /\ run.kind # "build"
      <3>1. \A k \in DOMAIN stages : stages = <<"repair">> => stages[k] = "repair"
        OBVIOUS
      <3>2. alone => stages # <<"repair">> /\ stages # <<>>
        OBVIOUS
      <3>3. QED
        BY <2>1, <3>1, <3>2, DecidesIs DEF Decided
    <2>3. /\ run'.stages = stages /\ run'.allowed = AllowedTargets(targets) /\ run'.snap = run.snap
          /\ run'.pc = (IF alone THEN "ask" ELSE "stage") /\ asks'[counts.runs] = targets
      BY <2>1 DEF Decided
    <2> HIDE DEF alone
    <2>4. AllowedTargets(targets) = Permitted'
      BY <1>0, <2>3 DEF AllowedTargets, Permitted, HasPlan
    <2>5. run.snap = None => run.kind = "build"
      BY <1>0 DEF StagesAsked
    <2>6. CASE alone
      <3>1. run'.pc = "ask" /\ run'.stages = stages /\ run'.stages[1] = "edit" /\ run'.snap # None
        BY <2>2, <2>3, <2>5, <2>6
      <3>2. QED
        BY <1>0, <2>2, <2>3, <2>4, <2>6, <3>1 DEF StagesAsked, Working, PlanLeads
    <2>7. CASE ~alone
      <3>1. run'.pc = "stage" /\ \A k \in DOMAIN stages : stages[k] # "edit"
        BY <2>2, <2>3, <2>7
      <3>2. QED
        BY <1>0, <2>2, <2>3, <2>5, <3>1 DEF StagesAsked, Working, PlanLeads
    <2>8. QED
      BY <2>6, <2>7
  <1>5. QED
    BY <1>1, <1>2, <1>3, <1>4, DecideIs
-----------------------------------------------------------------------------
\* What a run keeps while it goes from stage to stage.
RunKeeps == /\ run'.snap = run.snap /\ run'.stale = run.stale /\ run'.changed = run.changed
            /\ run'.current = run.current
RunStays == RunMoves /\ UNCHANGED asks

LEMMA BeginStageIs ==
  ASSUME Typed, StagesAsked, BeginStage
  PROVE  /\ run.pc = "stage" /\ run.stages # <<>> /\ 1 \in DOMAIN run.stages /\ RunStays
         /\ \/ Fails
            \/ /\ run'.pc = "direct" /\ run.stages[1] \in {"plan", "planOff", "script", "tests"}
               /\ RunKeeps /\ run'.stages = run.stages /\ run'.todo = run.todo
               /\ Smooth /\ UNCHANGED sync
            \/ /\ run.stages[1] \in Asking \ {"edit"} /\ Smooth
               /\ RunKeeps /\ run'.stages = run.stages /\ run'.todo = run.todo
               /\ run'.allowed = Needs(run.stages[1])
               /\ \/ run'.pc = "resync" /\ sync' = [sync EXCEPT !["run"] = Begun("run", FALSE)]
                  \/ /\ run'.pc = "ask" /\ UNCHANGED sync
                     /\ ~run.stale /\ run.stages[1] \notin {"scoring", "repair"}
  <1> DEFINE stage == Head(run.stages)
  <1>1. RunStays /\ run.pc = "stage" /\ run.stages # <<>> /\ run \in Runs
    BY DEF BeginStage, RunMoves, RunStays, Typed
  <1>2. 1 \in DOMAIN run.stages /\ stage = run.stages[1] /\ stage \in StageNames
    BY <1>1, StageGone DEF Runs
  <1>3. stage # "edit"
    BY <1>1, <1>2 DEF StagesAsked, Working
  <1>4. CASE Fails
    BY <1>1, <1>2, <1>4
  <1>5. CASE /\ stage \in {"plan", "planOff", "script", "tests"}
             /\ GoRun("direct") /\ Smooth /\ UNCHANGED sync
    <2>1. /\ run'.pc = "direct" /\ RunKeeps /\ run'.stages = run.stages /\ run'.todo = run.todo
      BY <1>1, <1>5 DEF GoRun, Runs, RunKeeps
    <2>2. QED
      BY <1>1, <1>2, <1>5, <2>1
  <1>6. CASE /\ stage \notin {"plan", "planOff", "script", "tests"}
             /\ Smooth
             /\ LET r == IF stage = "repair" THEN [run EXCEPT !.allowed = Repaired]
                         ELSE [run EXCEPT !.allowed = {TargetOf(ItemOf(stage))}]
                IN
                IF run.stale \/ stage \in {"scoring", "repair"}
                THEN /\ run' = [r EXCEPT !.pc = "resync"]
                     /\ sync' = [sync EXCEPT !["run"] = Begun("run", FALSE)]
                ELSE run' = [r EXCEPT !.pc = "ask"] /\ UNCHANGED sync
    <2>1. stage \in Asking
      BY <1>2, <1>6 DEF StageNames, Asking
    <2>2. \E p \in {"resync", "ask"} :
            /\ run' = [[run EXCEPT !.allowed = Needs(stage)] EXCEPT !.pc = p]
            /\ p = "resync" => sync' = [sync EXCEPT !["run"] = Begun("run", FALSE)]
            /\ p = "ask" => /\ UNCHANGED sync /\ ~run.stale /\ stage \notin {"scoring", "repair"}
      <3>1. CASE stage = "repair"
        <4>1. Needs(stage) = Repaired
          BY <3>1, ItemOfStage
        <4>2. QED
          BY <1>6, <3>1, <4>1
      <3>2. CASE stage # "repair"
        <4>1. Needs(stage) = {TargetOf(ItemOf(stage))}
          BY <1>3, <2>1, <3>2, ItemOfStage DEF Asking
        <4>2. QED
          BY <1>6, <3>2, <4>1
      <3>3. QED
        BY <3>1, <3>2
    <2>3. PICK p \in {"resync", "ask"} :
            /\ run' = [[run EXCEPT !.allowed = Needs(stage)] EXCEPT !.pc = p]
            /\ p = "resync" => sync' = [sync EXCEPT !["run"] = Begun("run", FALSE)]
            /\ p = "ask" => /\ UNCHANGED sync /\ ~run.stale /\ stage \notin {"scoring", "repair"}
      BY <2>2
    <2> DEFINE a == Needs(stage)
    <2> HIDE DEF a
    <2>4. /\ RunKeeps /\ run'.stages = run.stages /\ run'.todo = run.todo
          /\ run'.allowed = a /\ run'.pc = p
      <3>1. run' = [[run EXCEPT !.allowed = a] EXCEPT !.pc = p]
        BY <2>3 DEF a
      <3>2. QED
        BY <1>1, <3>1 DEF Runs, RunKeeps
    <2>5. run'.allowed = Needs(run.stages[1]) /\ Smooth /\ run.stages[1] \in Asking \ {"edit"}
      BY <1>2, <1>3, <1>6, <2>1, <2>4 DEF a
    <2>6. \/ run'.pc = "resync" /\ sync' = [sync EXCEPT !["run"] = Begun("run", FALSE)]
          \/ /\ run'.pc = "ask" /\ UNCHANGED sync
             /\ ~run.stale /\ run.stages[1] \notin {"scoring", "repair"}
      BY <1>2, <2>3, <2>4
    <2>7. QED
      BY <1>1, <1>2, <2>4, <2>5, <2>6
  <1>7. QED
    BY <1>4, <1>5, <1>6 DEF BeginStage

LEMMA AskModelIs ==
  ASSUME Typed, StagesAsked, AskModel
  PROVE  /\ run.pc = "ask" /\ RunStays /\ run.stages # <<>> /\ run.stages[1] \in Asking
         /\ \/ /\ run'.pc = "stage" /\ run'.stages = Tail(run.stages) /\ RunKeeps
               /\ UNCHANGED sync /\ Failure
            \/ Closes /\ (Smooth \/ Failure)
            \/ /\ run'.pc = "apply" /\ run'.stages = run.stages /\ run'.allowed = run.allowed
               /\ ~run'.erred /\ RunKeeps /\ UNCHANGED sync /\ Smooth
               /\ \E edits \in Asked(run.stages[1]) : run'.todo = Within(edits)
  <1> DEFINE stage == Head(run.stages)
  <1>1. RunStays /\ run.pc = "ask" /\ run \in Runs
    BY DEF AskModel, RunStays, RunMoves, Typed
  <1>2. stage = run.stages[1] /\ run.stages[1] \in Asking /\ run.stages # <<>>
    BY <1>1, StageAtHand
  <1>3. CASE /\ Failure /\ UNCHANGED sync
             /\ run' = [run EXCEPT !.pc = "stage", !.stages = Tail(@)]
    <2>1. run'.pc = "stage" /\ run'.stages = Tail(run.stages) /\ RunKeeps
      BY <1>1, <1>3 DEF Runs, RunKeeps
    <2>2. QED
      BY <1>1, <1>2, <1>3, <2>1
  <1>4. CASE Fails \/ (Closes /\ Smooth)
    BY <1>1, <1>2, <1>4 DEF Fails
  <1>5. CASE /\ Smooth /\ UNCHANGED sync
             /\ \E edits \in Asked(stage) :
                run' = [run EXCEPT !.pc = "apply", !.todo = Within(edits), !.erred = FALSE]
    <2>1. PICK edits \in Asked(stage) :
            run' = [run EXCEPT !.pc = "apply", !.todo = Within(edits), !.erred = FALSE]
      BY <1>5
    <2> DEFINE w == Within(edits)
    <2> HIDE DEF w
    <2>2. run' = [run EXCEPT !.pc = "apply", !.todo = w, !.erred = FALSE]
      BY <2>1 DEF w
    <2>3. /\ run'.pc = "apply" /\ run'.stages = run.stages /\ run'.allowed = run.allowed
          /\ ~run'.erred /\ RunKeeps /\ run'.todo = w
      BY <1>1, <2>2 DEF Runs, RunKeeps
    <2>4. \E x \in Asked(run.stages[1]) : run'.todo = Within(x)
      BY <1>2, <2>3 DEF w
    <2>5. QED
      BY <1>1, <1>2, <1>5, <2>3, <2>4
  <1>6. QED
    BY <1>3, <1>4, <1>5 DEF AskModel, Asked
-----------------------------------------------------------------------------
LEMMA ReadStatementIs ==
  ASSUME Typed, ReadStatement
  PROVE  /\ run.pc = "apply" /\ StatementEdits # {} /\ run.current = None /\ RunStays
         /\ UNCHANGED sync
         /\ run'.pc = "apply" /\ run'.stages = run.stages /\ run'.allowed = run.allowed
         /\ run'.snap = run.snap /\ run'.stale = run.stale /\ run'.changed = run.changed
         /\ run'.kind = run.kind
         /\ \/ /\ run'.current = [s \in Sections |-> polygon[s].by] /\ Smooth
               /\ run'.todo = run.todo /\ run'.erred = run.erred
            \/ /\ run'.todo = run.todo \ StatementEdits /\ run'.current = None /\ Failure
  <1>1. /\ run.pc = "apply" /\ StatementEdits # {} /\ run.current = None /\ RunStays /\ UNCHANGED sync
        /\ run \in Runs
    BY DEF ReadStatement, RunStays, RunMoves, Typed
  <1> DEFINE current == [s \in Sections |-> polygon[s].by]
             todo == run.todo \ StatementEdits
  <1>2. \/ run' = [run EXCEPT !.current = current] /\ Smooth
        \/ run' = [run EXCEPT !.todo = todo, !.erred = TRUE] /\ Failure
    BY DEF ReadStatement
  <1> HIDE DEF current, todo
  <1>3. /\ run'.pc = "apply" /\ run'.stages = run.stages /\ run'.allowed = run.allowed
        /\ run'.snap = run.snap /\ run'.stale = run.stale /\ run'.changed = run.changed
        /\ run'.kind = run.kind
        /\ \/ run'.current = current /\ Smooth /\ run'.todo = run.todo /\ run'.erred = run.erred
           \/ run'.todo = todo /\ run'.current = None /\ Failure
    BY <1>1, <1>2 DEF Runs
  <1>4. QED
    BY <1>1, <1>3 DEF current, todo

LEMMA EndStageIs ==
  ASSUME Typed, StagesAsked, EndStage
  PROVE  /\ run.pc = "apply" /\ run.todo = {} /\ RunStays /\ Smooth /\ run.stages # <<>>
         /\ \/ Closes /\ run.stages[1] = "generators" /\ run.erred
            \/ /\ run'.pc = "stage" /\ run'.stages = Tail(run.stages) /\ RunKeeps /\ UNCHANGED sync
               /\ run'.todo = {}
  <1>1. /\ run.pc = "apply" /\ run.todo = {} /\ RunStays /\ Smooth /\ run \in Runs
    BY DEF EndStage, RunStays, RunMoves, Smooth, Typed
  <1>2. run.stages # <<>> /\ Head(run.stages) = run.stages[1]
    BY <1>1, StageAtHand
  <1>3. CASE Closes /\ Head(run.stages) = "generators" /\ run.erred
    BY <1>1, <1>2, <1>3
  <1>4. CASE run' = [run EXCEPT !.pc = "stage", !.stages = Tail(@)] /\ UNCHANGED sync
    <2>1. run'.pc = "stage" /\ run'.stages = Tail(run.stages) /\ RunKeeps /\ run'.todo = run.todo
      BY <1>1, <1>4 DEF Runs, RunKeeps
    <2>2. QED
      BY <1>1, <1>2, <1>4, <2>1
  <1>5. QED
    BY <1>3, <1>4 DEF EndStage

LEMMA StorePlanIs ==
  ASSUME Typed, StagesAsked, StorePlan
  PROVE  /\ run.pc = "direct" /\ run.stages # <<>> /\ run.stages[1] \in {"plan", "planOff"}
         /\ run'.pc = "stage" /\ run'.stages = Tail(run.stages) /\ RunKeeps /\ run'.todo = run.todo
         /\ plan' = [run |-> counts.runs, groups |-> run.stages[1] = "plan"]
         /\ UNCHANGED <<polygon, snapshot, sync, asks, announced, outside, counts, overlapped>>
  <1>1. /\ run.pc = "direct" /\ run \in Runs /\ Head(run.stages) \in {"plan", "planOff"}
        /\ plan' = [run |-> counts.runs, groups |-> Head(run.stages) = "plan"]
        /\ UNCHANGED <<polygon, snapshot, sync, asks, announced, outside, counts, overlapped>>
        /\ run' = [run EXCEPT !.pc = "stage", !.stages = Tail(@)]
    BY DEF StorePlan, Typed
  <1>2. run.stages # <<>> /\ Head(run.stages) = run.stages[1]
    BY <1>1, StageGone DEF StagesAsked, Working, Runs
  <1>3. run'.pc = "stage" /\ run'.stages = Tail(run.stages) /\ RunKeeps /\ run'.todo = run.todo
    BY <1>1 DEF Runs, RunKeeps
  <1>4. QED
    BY <1>1, <1>2, <1>3

LEMMA StagesBegun ==
  ASSUME Typed, StagesAsked, BeginStage
  PROVE  StagesAsked'
  <1>1. /\ run.pc = "stage" /\ run.stages # <<>> /\ 1 \in DOMAIN run.stages
        /\ UNCHANGED <<asks, plan>> /\ counts.runs > 0
    BY BeginStageIs DEF RunStays, RunMoves, StagesAsked
  <1>2. CASE Fails
    BY <1>1, <1>2, CountsTyped, ClosesIs, StagesClosed DEF Fails
  <1>3. CASE /\ run'.pc = "direct" /\ run.stages[1] \in {"plan", "planOff", "script", "tests"}
             /\ RunKeeps /\ run'.stages = run.stages /\ Smooth
    <2>1. run'.snap # None
      BY <1>1, <1>3 DEF StagesAsked, RunKeeps
    <2>2. QED
      BY <1>1, <1>3, <2>1 DEF StagesAsked, Working, PlanLeads, Smooth
  <1>4. CASE /\ run.stages[1] \in Asking \ {"edit"} /\ Smooth
             /\ RunKeeps /\ run'.stages = run.stages
             /\ run'.allowed = Needs(run.stages[1])
             /\ \/ run'.pc = "resync"
                \/ run'.pc = "ask" /\ run.stages[1] # "repair"
    <2>1. run'.pc = "ask" => run'.snap # None
      BY <1>1, <1>4 DEF StagesAsked, RunKeeps
    <2>2. run.stages[1] \notin {"plan", "planOff", "script", "tests", "edit"}
      BY <1>4 DEF Asking
    <2>3. /\ counts'.runs = counts.runs /\ Permitted' = Permitted
          /\ run'.allowed \subseteq Permitted
      <3>1. Needs(run.stages[1]) \subseteq asks[counts.runs]
        BY <1>1 DEF StagesAsked, Working
      <3>2. QED
        BY <1>1, <1>4, <3>1 DEF Permitted, HasPlan, Smooth
    <2>4. PlanLeads(run.stages)
      BY <1>1 DEF StagesAsked, Working
    <2>5. QED
      BY <1>1, <1>4, <2>1, <2>2, <2>3, <2>4 DEF StagesAsked, Working, PlanLeads
  <1>5. QED
    BY <1>2, <1>3, <1>4, BeginStageIs

LEMMA StagesAnswered ==
  ASSUME Typed, StagesAsked, AskModel
  PROVE  StagesAsked'
  <1>1. /\ run.pc = "ask" /\ run.stages # <<>> /\ run.stages[1] \in Asking
        /\ UNCHANGED <<asks, plan>> /\ counts.runs > 0 /\ run.snap # None
    BY AskModelIs DEF RunStays, RunMoves, StagesAsked
  <1>2. CASE run'.pc = "stage" /\ run'.stages = Tail(run.stages) /\ RunKeeps /\ Failure
    BY <1>1, <1>2, CountsTyped, StagesOn DEF RunKeeps
  <1>3. CASE Closes /\ (Smooth \/ Failure)
    BY <1>1, <1>3, CountsTyped, ClosesIs, StagesClosed
  <1>4. CASE /\ run'.pc = "apply" /\ run'.stages = run.stages /\ run'.allowed = run.allowed
             /\ RunKeeps /\ Smooth
             /\ \E edits \in Asked(run.stages[1]) : run'.todo = Within(edits)
    <2>1. PICK edits \in Asked(run.stages[1]) : run'.todo = Within(edits)
      BY <1>4
    <2>2. /\ \A e \in run'.todo : TargetOf(e.item) \in run'.allowed
          /\ \A e, f \in run'.todo : e.item = f.item => e = f
          /\ run'.stages[1] \notin {"edit", "repair"} =>
                \A e \in run'.todo : e.item = ItemOf(run'.stages[1])
      BY <1>1, <1>4, <2>1, AskedIs DEF Within
    <2>3. counts'.runs = counts.runs /\ Permitted' = Permitted
      BY <1>1, <1>4 DEF Permitted, HasPlan, Smooth
    <2>4. QED
      BY <1>1, <1>4, <2>2, <2>3 DEF StagesAsked, Working, RunKeeps, PlanLeads
  <1>5. QED
    BY <1>2, <1>3, <1>4, AskModelIs

\* The steps that apply edits.
Applying == /\ run.pc = "apply" /\ run'.pc = "apply" /\ run'.stages = run.stages
            /\ run'.allowed = run.allowed /\ run'.snap = run.snap /\ run'.kind = run.kind
            /\ run'.todo \subseteq run.todo /\ (Smooth \/ Failure) /\ UNCHANGED <<asks, plan>>

LEMMA AppliesIs ==
  ASSUME Typed, StagesAsked, StatementKept,
         ReadStatement \/ SaveStatement
           \/ \E e \in run.todo : SaveFile(e) \/ Demote(e) \/ SaveSolution(e)
  PROVE  Applying
  <1>1. CASE ReadStatement
    BY <1>1, ReadStatementIs DEF RunStays, RunMoves, Applying
  <1>2. CASE SaveStatement
    <2>1. run.todo \ StatementEdits \in SUBSET run.todo
      OBVIOUS
    <2>2. Smooth \/ Failure
      BY <1>2, SaveStatementIs, WrittenIs
    <2>3. QED
      BY <1>2, <2>1, <2>2, TriedIs DEF SaveStatement, Applying
  <1>3. ASSUME NEW e \in run.todo, SaveFile(e)
        PROVE  Applying
    BY <1>3, SaveFileIs, TriedIs DEF SaveFile, Applying
  <1>4. ASSUME NEW e \in run.todo, Demote(e)
        PROVE  Applying
    BY <1>4, DemoteIs DEF Demote, Applying
  <1>5. ASSUME NEW e \in run.todo, SaveSolution(e)
        PROVE  Applying
    BY <1>5, SaveSolutionIs, ZenonT(30) DEF SaveSolution, Applying
  <1>6. QED
    BY <1>1, <1>2, <1>3, <1>4, <1>5

LEMMA StagesWritten ==
  ASSUME Typed, StagesAsked, StatementKept,
         ReadStatement \/ SaveStatement
           \/ \E e \in run.todo : SaveFile(e) \/ Demote(e) \/ SaveSolution(e)
  PROVE  StagesAsked'
  BY AppliesIs, CountsTyped, StagesKept DEF Applying

LEMMA StagesNext ==
  ASSUME Typed, StagesAsked, StatementKept, RunSyncs, [Next]_vars
  PROVE  StagesAsked'
  <1>1. CASE UNCHANGED vars
    BY <1>1, StagesKept DEF vars
  <1>2. CASE EndStage
    <2>1. run.pc = "apply" /\ counts'.runs = counts.runs /\ counts.runs > 0 /\ UNCHANGED asks
      BY <1>2, EndStageIs DEF Smooth, RunStays, StagesAsked
    <2>2. QED
      BY <1>2, <2>1, EndStageIs, ClosesIs, StagesClosed, StagesOn DEF RunKeeps
  <1>3. CASE StorePlan
    BY <1>3, StorePlanIs, StagesOn DEF RunKeeps
  <1>4. CASE SetupTestset
    <2>1. /\ run.pc = "direct" /\ UNCHANGED asks /\ counts.runs > 0
          /\ \/ Smooth /\ run'.pc = "stage" /\ run'.stages = Tail(run.stages) /\ run'.snap = run.snap
             \/ Fails
      BY <1>4, SetupTestsetIs DEF SetupTestset, StagesAsked
    <2>2. QED
      BY <2>1, CountsTyped, ClosesIs, StagesClosed, StagesOn DEF Fails
  <1>5. CASE Conclude
    <2>1. counts'.runs = counts.runs /\ counts.runs > 0
      BY <1>5 DEF Conclude, StagesAsked
    <2>2. QED
      BY <1>5, <2>1, StagesIdle, ClosesIs, StagesClosed DEF Conclude
  <1>6. QED
    BY <1>1, <1>2, <1>3, <1>4, <1>5, NextIs, StagesEdited, StagesSyncs, StagesClaimed, StagesDecided,
       StagesBegun, StagesAnswered, StagesWritten

\* A run changes what it was asked to change.
LEMMA AskedStep ==
  ASSUME Typed, StagesAsked, StatementKept, Next,
         NEW i \in Items, polygon'[i] # polygon[i], polygon'[i].by = Me
  PROVE  TargetOf(i) \in Permitted
  <1>1. CASE UNCHANGED polygon
    BY <1>1
  <1>2. ASSUME NEW j \in UserItems, UserEdits(j)
        PROVE  FALSE
    <2>1. /\ polygon \in [Items -> Values] /\ polygon' = [polygon EXCEPT ![j].by = By("user", counts.edits + 1)]
      BY <1>2 DEF UserEdits, Typed
    <2>2. polygon'[i].by = By("user", counts.edits + 1)
      BY <2>1 DEF Values
    <2>3. counts.edits + 1 \in Nat /\ counts.runs \in Nat
      BY DEF Typed
    <2>4. QED
      BY <2>2, <2>3, MeTyped, StampsAre
  <1>3. CASE SaveStatement
    <2>1. i \in Sections
      BY <1>3, SaveStatementIs
    <2>2. PICK e \in run.todo : e.item \in Sections
      BY <1>3 DEF SaveStatement, StatementEdits
    <2>3. TargetOf(e.item) \in run.allowed /\ run.allowed \subseteq Permitted
      BY <1>3 DEF SaveStatement, StagesAsked
    <2>4. QED
      BY <2>1, <2>2, <2>3, ItemsAre
  <1>4. ASSUME NEW e \in run.todo, SaveFile(e)
        PROVE  TargetOf(i) \in Permitted
    <2>1. i = e.item
      BY <1>4, SaveFileIs
    <2>2. QED
      BY <1>4, <2>1 DEF SaveFile, StagesAsked
  <1>5. ASSUME NEW e \in run.todo, Demote(e) \/ SaveSolution(e)
        PROVE  TargetOf(i) \in Permitted
    <2>1. i \in Solutions /\ e.item \in Solutions /\ run.pc = "apply"
      BY <1>5, DemoteIs, SaveSolutionIs DEF Demote, SaveSolution
    <2>2. TargetOf(e.item) \in run.allowed /\ run.allowed \subseteq Permitted
      BY <2>1 DEF StagesAsked
    <2>3. QED
      BY <2>1, <2>2, ItemsAre
  <1>6. CASE SetupTestset
    <2>1. /\ i = run.stages[1] /\ i \in {"script", "tests"} /\ 1 \in DOMAIN run.stages
          /\ run.pc = "direct"
      BY <1>6, SetupTestsetIs
    <2>2. Needs(i) \subseteq asks[counts.runs]
      BY <2>1 DEF StagesAsked, Working
    <2>3. QED
      BY <2>1, <2>2, ItemOfStage, ItemsAre DEF Permitted
  <1>7. QED
    BY <1>1, <1>2, <1>3, <1>4, <1>5, <1>6, NextIs DEF BeginBackground, ReadLists, StoreSnapshot,
       SyncFails, Claim, Decide, BeginStage, AskModel, ReadStatement, EndStage, StorePlan, Conclude
-----------------------------------------------------------------------------
\* No step but of a solution writes a tag.
LEMMA TagsStand ==
  ASSUME Typed, StagesAsked, StatementKept, [Next]_vars, NEW i \in Items \ Solutions
  PROVE  polygon'[i].tag = polygon[i].tag
  <1>1. CASE UNCHANGED polygon
    BY <1>1
  <1>2. ASSUME NEW j \in UserItems, UserEdits(j)
        PROVE  polygon'[i].tag = polygon[i].tag
    BY <1>2 DEF UserEdits, Typed, Values
  <1>3. CASE SaveStatement
    BY <1>3, SaveStatementIs
  <1>4. ASSUME NEW e \in run.todo, SaveFile(e)
        PROVE  polygon'[i].tag = polygon[i].tag
    BY <1>4, SaveFileIs
  <1>5. ASSUME NEW e \in run.todo, Demote(e)
        PROVE  polygon'[i].tag = polygon[i].tag
    BY <1>5, DemoteIs
  <1>6. ASSUME NEW e \in run.todo, SaveSolution(e)
        PROVE  polygon'[i].tag = polygon[i].tag
    BY <1>6, SaveSolutionIs
  <1>7. CASE SetupTestset
    BY <1>7, SetupTestsetIs
  <1>8. QED
    BY <1>1, <1>2, <1>3, <1>4, <1>5, <1>6, <1>7, NextIs DEF vars, BeginBackground, ReadLists,
       StoreSnapshot, SyncFails, Claim, Decide, BeginStage, AskModel, ReadStatement, EndStage,
       StorePlan, Conclude

\* A statement is merged while edits are applied, and only then.
LEMMA CurrentGone ==
  ASSUME run'.current = None
  PROVE  CurrentIs' /\ ~Merging'
  BY DEF CurrentIs, Merging

LEMMA NothingMerged ==
  ASSUME StatementKept, run.pc # "apply" \/ run.todo = {}
  PROVE  run.current = None
  BY DEF StatementKept, CurrentIs, StatementEdits

LEMMA MergeOver ==
  ASSUME Typed, StagesAsked, StatementKept, RunSyncs, Next
  PROVE  \/ run'.current = None
         \/ UNCHANGED <<run, polygon>>
         \/ \E i \in UserItems : polygon[i] # Absent /\ UserEdits(i)
         \/ ReadStatement
         \/ \E e \in run.todo : Demote(e)
  <1>1. ASSUME Closes, run.pc # "apply" \/ run.todo = {}
        PROVE  run'.current = None
    BY <1>1, ClosesIs, NothingMerged
  <1>2. ASSUME RunKeeps, run.pc # "apply" \/ run.todo = {}
        PROVE  run'.current = None
    BY <1>2, NothingMerged DEF RunKeeps
  <1>3. run' = NoRun => run'.current = None
    BY IdleRun
  <1>4. ASSUME NEW t \in DOMAIN sync, ReadLists(t) \/ StoreSnapshot(t) \/ SyncFails(t)
        PROVE  run'.current = None \/ UNCHANGED <<run, polygon>>
    <2>1. CASE run' = run
      BY <1>4, <2>1 DEF ReadLists, StoreSnapshot, SyncFails
    <2>2. CASE StoreSnapshot(t) /\ t = "run"
      <3>1. /\ sync["run"].taken \in Views /\ run.pc \in Syncing
            /\ run' = After(run, sync["run"].taken)
        BY <2>2 DEF StoreSnapshot, Typed, Syncs, RunSyncs
      <3>2. run.current = None
        BY <3>1, NothingMerged DEF Syncing
      <3>3. QED
        BY <1>3, <3>1, <3>2, AfterIs DEF Syncing
    <2>3. CASE SyncFails(t) /\ t = "run"
      <3>1. run.pc \in Syncing /\ (run' = NoRun \/ run' = [run EXCEPT !.pc = "closing"])
        BY <2>3 DEF SyncFails, RunSyncs, GoRun
      <3>2. run.current = None
        BY <3>1, NothingMerged DEF Syncing
      <3>3. QED
        BY <1>3, <3>1, <3>2 DEF Typed, Runs
    <2>4. QED
      BY <1>4, <2>1, <2>2, <2>3 DEF ReadLists, StoreSnapshot, SyncFails
  <1>5. CASE Decide
    <2>1. run.current = None
      BY <1>5, NothingMerged, DecideIs
    <2>2. QED
      BY <1>3, <1>5, <2>1, DecideIs, ClosesIs DEF Reopened, Decided
  <1>6. CASE BeginStage
    BY <1>1, <1>2, <1>6, BeginStageIs DEF Fails
  <1>7. CASE AskModel
    BY <1>1, <1>2, <1>7, AskModelIs
  <1>8. CASE SaveStatement
    <2>1. run.todo \ StatementEdits \in SUBSET run.todo
      OBVIOUS
    <2>2. QED
      BY <1>8, <2>1, TriedIs DEF SaveStatement
  <1>9. ASSUME NEW e \in run.todo, SaveFile(e)
        PROVE  run'.current = None
    BY <1>9, SaveFileIs, TriedIs DEF SaveFile
  <1>10. ASSUME NEW e \in run.todo, SaveSolution(e)
         PROVE  run'.current = None
    BY <1>10, SaveSolutionIs
  <1>11. CASE EndStage
    BY <1>1, <1>2, <1>11, EndStageIs
  <1>12. CASE StorePlan
    BY <1>2, <1>12, StorePlanIs
  <1>13. CASE SetupTestset
    <2>1. run.current = None
      BY <1>13, NothingMerged, SetupTestsetIs
    <2>2. QED
      BY <1>1, <1>13, <2>1, SetupTestsetIs DEF Fails
  <1>14. CASE Conclude
    BY <1>1, <1>3, <1>14 DEF Conclude
  <1>15. ASSUME NEW t \in Background, BeginBackground(t)
         PROVE  UNCHANGED <<run, polygon>>
    BY <1>15 DEF BeginBackground
  <1>16. QED
    BY <1>4, <1>5, <1>6, <1>7, <1>8, <1>9, <1>10, <1>11, <1>12, <1>13, <1>14, <1>15, NextIs, ClaimIs

LEMMA KeptInit == Init => StatementKept
  <1> SUFFICES ASSUME Init
               PROVE  StatementKept
    OBVIOUS
  <1>1. run.current = None
    BY IdleRun DEF Init
  <1>2. \A s \in Sections : polygon[s].tag = None
    BY ItemsAre DEF Init, Empty, Filled, Value, Absent, Sections
  <1>3. QED
    BY <1>1, <1>2 DEF StatementKept, CurrentIs, Merging

\* The user has no hand in what is not there.
LEMMA UserEditsIs ==
  ASSUME Typed, NEW i \in UserItems, UserEdits(i)
  PROVE  LET by == By("user", counts.edits + 1) IN
         /\ i \in Items /\ by \in AllStamps /\ by # None /\ ~IsRun(by)
         /\ polygon'[i].by = by /\ polygon'[i].tag = polygon[i].tag
         /\ \A j \in Items \ {i} : polygon'[j] = polygon[j]
         /\ \A j \in Items : polygon'[j].tag = polygon[j].tag
         /\ counts'.edits = counts.edits + 1 /\ counts'.runs = counts.runs
         /\ counts'.builds = counts.builds /\ counts'.failures = counts.failures
         /\ outside' = IF RunActive THEN outside ELSE outside \cup {<<i, by>>}
         /\ UNCHANGED <<snapshot, sync, run, plan, asks, announced, overlapped>>
  <1> DEFINE by == By("user", counts.edits + 1)
  <1>1. i \in Items
    BY ValueAssumption
  <1>2. counts.edits + 1 \in Nat
    BY DEF Typed
  <1>3. by \in AllStamps /\ by # None /\ ~IsRun(by)
    BY <1>2, StampsAre
  <1>4. /\ polygon' = [polygon EXCEPT ![i].by = by] /\ counts' = [counts EXCEPT !.edits = @ + 1]
        /\ outside' = IF RunActive THEN outside ELSE outside \cup {<<i, by>>}
        /\ UNCHANGED <<snapshot, sync, run, plan, asks, announced, overlapped>>
    BY DEF UserEdits
  <1> HIDE DEF by
  <1>5. /\ polygon'[i].by = by /\ polygon'[i].tag = polygon[i].tag
        /\ \A j \in Items \ {i} : polygon'[j] = polygon[j]
    BY <1>1, <1>4 DEF Typed, Values
  <1>6. /\ counts'.edits = counts.edits + 1 /\ counts'.runs = counts.runs
        /\ counts'.builds = counts.builds /\ counts'.failures = counts.failures
    BY <1>2, <1>4 DEF Typed
  <1>7. QED
    BY <1>1, <1>3, <1>4, <1>5, <1>6 DEF by

LEMMA KeptNext ==
  ASSUME Typed, StagesAsked, StatementKept, RunSyncs, [Next]_vars
  PROVE  StatementKept'
  <1>1. \A s \in Sections : polygon'[s].tag = None
    BY TagsStand, ItemsAre DEF StatementKept
  <1>2. CASE UNCHANGED <<run, polygon>>
    BY <1>1, <1>2 DEF StatementKept, CurrentIs, Merging, StatementEdits, Demoted, Placed
  <1>3. CASE run'.current = None
    BY <1>1, <1>3, CurrentGone DEF StatementKept
  <1>4. ASSUME NEW i \in UserItems, polygon[i] # Absent, UserEdits(i)
        PROVE  StatementKept'
    <2>1. run' = run /\ \A j \in Items \ {i} : polygon'[j] = polygon[j]
      BY <1>4, UserEditsIs
    <2>2. CurrentIs'
      BY <2>1 DEF StatementKept, CurrentIs, StatementEdits, Demoted, Placed
    <2>3. ASSUME Merging, NEW s \in Sections
          PROVE  run.current[s] # None \/ (polygon'[s].by = None)
      <3>1. CASE s = i
        <4>1. polygon[s].tag = None /\ polygon[s] \in Values
          BY ItemsAre DEF StatementKept, Typed
        <4>2. polygon[s].by # None
          BY <1>4, <3>1, <4>1 DEF Values, Absent, Value
        <4>3. QED
          BY <2>3, <4>2 DEF StatementKept
      <3>2. CASE s # i
        BY <2>1, <2>3, <3>2, ItemsAre DEF StatementKept
      <3>3. QED
        BY <3>1, <3>2
    <2>4. Merging' <=> Merging
      BY <2>1 DEF Merging, StatementEdits
    <2>5. QED
      BY <1>1, <2>1, <2>2, <2>3, <2>4 DEF StatementKept
  <1>5. CASE ReadStatement
    <2>1. /\ polygon' = polygon /\ run'.pc = "apply"
          /\ run'.current = None \/ (/\ run'.current = [s \in Sections |-> polygon[s].by]
                                     /\ run'.todo = run.todo /\ StatementEdits # {})
      BY <1>5, ReadStatementIs DEF RunStays, RunMoves
    <2>2. CASE /\ run'.current = [s \in Sections |-> polygon[s].by]
               /\ run'.todo = run.todo /\ StatementEdits # {}
      <3>1. run'.current \in [Sections -> AllStamps]
        BY <2>2, ItemsAre DEF Typed, Values
      <3>2. StatementEdits' # {}
        BY <2>2 DEF StatementEdits
      <3>3. \A s \in Sections : polygon'[s].by = run'.current[s]
        BY <2>1, <2>2
      <3>4. QED
        BY <1>1, <2>1, <3>1, <3>2, <3>3 DEF StatementKept, CurrentIs
    <2>3. QED
      BY <1>3, <2>1, <2>2
  <1>6. ASSUME NEW e \in run.todo, Demote(e)
        PROVE  StatementKept'
    <2>1. /\ e.item \in Solutions /\ run'.pc = "apply" /\ run'.todo = run.todo
          /\ run'.current = e /\ run'.snap = run.snap /\ Demoted(e) # {}
      BY <1>6, DemoteIs
    <2>2. /\ StatementEdits = {} /\ \A f \in run.todo : Rank(f.item) >= Rank(e.item)
      BY <1>6 DEF Demote, IsNext
    <2>3. Rank("generator") = 1 /\ Rank(e.item) = 2
      BY <2>1 DEF Rank, Solutions
    <2>4. \A f \in run.todo : f.item # "generator"
      BY <2>2, <2>3
    <2>5. StatementEdits' = {} /\ (Demoted(e))' = Demoted(e)
      BY <2>1, <2>2 DEF StatementEdits, Demoted, Placed
    <2>6. CurrentIs'
      <3>1. (Demoted(run.current))' = Demoted(e)
        BY <2>1 DEF Demoted, Placed
      <3>2. QED
        BY <2>1, <2>4, <2>5, <3>1 DEF CurrentIs
    <2>7. ~Merging'
      BY <2>5 DEF Merging
    <2>8. QED
      BY <1>1, <2>6, <2>7 DEF StatementKept
  <1>7. QED
    BY <1>2, <1>3, <1>4, <1>5, <1>6, MergeOver DEF vars
-----------------------------------------------------------------------------
\* Who writes to Polygon.
LEMMA Writers ==
  ASSUME Next
  PROVE  \/ UNCHANGED polygon
         \/ \E i \in UserItems : polygon[i] # Absent /\ UserEdits(i)
         \/ SaveStatement
         \/ \E e \in run.todo : SaveFile(e) \/ Demote(e) \/ SaveSolution(e)
         \/ SetupTestset
  BY NextIs DEF BeginBackground, ReadLists, StoreSnapshot, SyncFails, Claim, Decide, BeginStage,
     AskModel, ReadStatement, EndStage, StorePlan, Conclude

LEMMA NeverBlanked ==
  ASSUME Typed, StagesAsked, StatementKept, Next
  PROVE  StatementNeverBlanked
  <1> SUFFICES ASSUME NEW s \in Sections, polygon[s].by # None
               PROVE  polygon'[s].by # None
    BY DEF StatementNeverBlanked
  <1>0. s \in Items /\ s \notin Solutions /\ s \in {"legend", "scoring"}
    BY ItemsAre DEF Sections
  <1>1. CASE UNCHANGED polygon
    BY <1>1
  <1>2. ASSUME NEW i \in UserItems, UserEdits(i)
        PROVE  polygon'[s].by # None
    BY <1>0, <1>2, UserEditsIs
  <1>3. CASE SaveStatement
    <2>1. Merging
      BY <1>3 DEF SaveStatement, Merging
    <2>2. run.current[s] # None /\ Me # None
      BY <2>1, MeTyped DEF StatementKept
    <2>3. QED
      BY <1>0, <1>3, <2>2, SaveStatementIs
  <1>4. ASSUME NEW e \in run.todo, SaveFile(e) \/ Demote(e) \/ SaveSolution(e)
        PROVE  polygon'[s].by # None
    <2>1. polygon'[s] = polygon[s]
      BY <1>0, <1>4, SaveFileIs, DemoteIs, SaveSolutionIs
    <2>2. QED
      BY <2>1
  <1>5. CASE SetupTestset
    BY <1>0, <1>5, SetupTestsetIs
  <1>6. QED
    BY <1>1, <1>2, <1>3, <1>4, <1>5, Writers
-----------------------------------------------------------------------------
\* The syncs under way.
LEMMA SyncSet ==
  ASSUME Typed, NEW t \in Background \cup {"run"}, NEW v, sync' = [sync EXCEPT ![t] = v]
  PROVE  /\ DOMAIN sync' = DOMAIN sync /\ DOMAIN sync = Background \cup {"run"} /\ sync'[t] = v
         /\ \A u \in DOMAIN sync \ {t} : sync'[u] = sync[u]
  BY DEF Typed

LEMMA SyncsKept ==
  ASSUME RunSyncs, UNCHANGED sync, run.pc \in Syncing <=> run'.pc \in Syncing,
         run.pc = "opening" <=> run'.pc = "opening",
         run'.pc \in {"none", "opening", "decide"} => ~run'.changed
  PROVE  RunSyncs'
  BY DEF RunSyncs, Reading

LEMMA SyncsBegun ==
  ASSUME Typed, RunSyncs, NEW b \in BOOLEAN, sync' = [sync EXCEPT !["run"] = Begun("run", b)],
         run'.pc \in Syncing, b <=> run'.pc = "opening", run'.pc = "opening" => ~run'.changed
  PROVE  RunSyncs'
  <1>1. /\ DOMAIN sync' = DOMAIN sync /\ DOMAIN sync = Background \cup {"run"}
        /\ sync'["run"] = Begun("run", b) /\ \A u \in Background : sync'[u] = sync[u]
    BY SyncSet, ProblemAssumption
  <1>2. Begun("run", b).pc = "read" /\ Begun("run", b).announce = b
    BY BegunTyped
  <1>3. run'.pc \notin {"none", "decide"}
    BY DEF Syncing
  <1>4. QED
    BY <1>1, <1>2, <1>3 DEF RunSyncs, Reading

LEMMA ReadListsIs ==
  ASSUME Typed, NEW t \in DOMAIN sync, ReadLists(t)
  PROVE  /\ sync[t].pc = "read" /\ sync[t].taken = None
         /\ DOMAIN sync' = DOMAIN sync /\ t \in Background \cup {"run"}
         /\ sync'[t].pc = "read" /\ sync'[t].announce = sync[t].announce
         /\ sync'[t].previous = sync[t].previous
         /\ \A u \in DOMAIN sync \ {t} : sync'[u] = sync[u]
         /\ UNCHANGED <<polygon, snapshot, run, plan, asks, announced, outside, overlapped>>
         /\ Smooth \/ Failure
         /\ counts'.failures = 0 =>
              /\ Smooth
              /\ \A i \in Items : /\ sync'[t].taken[i].by = polygon[i].by
                                  /\ sync'[t].taken[i].tag = polygon[i].tag
  <1>1. /\ sync[t].pc = "read" /\ sync[t].taken = None /\ sync \in [Background \cup {"run"} -> Syncs]
        /\ UNCHANGED <<polygon, snapshot, run, plan, asks, announced, outside, overlapped>>
    BY DEF ReadLists, Typed
  <1>2. PICK failed \in {{}} \cup {{c} : c \in Calls}, fetches \in BOOLEAN :
         /\ IF failed = {} /\ fetches THEN Smooth ELSE Failure
         /\ sync' = [sync EXCEPT ![t].taken =
              [i \in Items |-> IF \E c \in failed : i \in ItemsOf(c) THEN Seen(Absent, FALSE)
                               ELSE IF fetches THEN Fetched(i) ELSE Unfetched(t, i)]]
    BY DEF ReadLists
  <1> DEFINE taken == [i \in Items |-> IF \E c \in failed : i \in ItemsOf(c) THEN Seen(Absent, FALSE)
                               ELSE IF fetches THEN Fetched(i) ELSE Unfetched(t, i)]
  <1>3. failed = {} /\ fetches => \A i \in Items : taken[i].by = polygon[i].by /\ taken[i].tag = polygon[i].tag
    BY DEF Fetched, Seen
  <1>4. Smooth \/ Failure
    BY <1>2
  <1>5. counts'.failures = 0 => failed = {} /\ fetches /\ Smooth
    <2>1. counts.failures \in Nat
      BY DEF Typed
    <2>2. Failure => counts'.failures = counts.failures + 1
      BY CountsTyped
    <2>3. Failure => counts'.failures # 0
      BY <2>1, <2>2
    <2>4. QED
      BY <1>2, <2>3
  <1>6. sync' = [sync EXCEPT ![t].taken = taken]
    BY <1>2
  <1> HIDE DEF taken
  <1>7. /\ DOMAIN sync' = DOMAIN sync /\ t \in Background \cup {"run"}
        /\ sync'[t].pc = sync[t].pc /\ sync'[t].announce = sync[t].announce
        /\ sync'[t].previous = sync[t].previous /\ sync'[t].taken = taken
        /\ \A u \in DOMAIN sync \ {t} : sync'[u] = sync[u]
    BY <1>1, <1>6 DEF Syncs
  <1>8. QED
    BY <1>1, <1>3, <1>4, <1>5, <1>7

LEMMA StoreSnapshotIs ==
  ASSUME Typed, RunSyncs, NEW t \in DOMAIN sync, StoreSnapshot(t)
  PROVE  LET s == sync[t] IN
         /\ s.pc = "read" /\ s.taken # None /\ s.taken \in Views /\ s.previous \in Views
         /\ snapshot' = s.taken
         /\ announced' = (IF s.announce
                          THEN announced \cup {<<i, s.taken[i].by>> : i \in Changes(s.previous, s.taken)}
                          ELSE announced)
         /\ DOMAIN sync' = DOMAIN sync /\ sync'[t] = NoSync /\ t \in Background \cup {"run"}
         /\ \A u \in DOMAIN sync \ {t} : sync'[u] = sync[u]
         /\ UNCHANGED <<polygon, plan, asks, outside, counts, overlapped>>
         /\ t # "run" => UNCHANGED run
         /\ t = "run" => /\ run.pc \in Syncing /\ run' = After(run, s.taken)
                         /\ run'.pc = CASE run.pc = "opening" -> "decide" [] run.pc = "resync" -> "ask"
                                        [] OTHER -> "none"
                         /\ run.pc = "closing" => run' = NoRun
                         /\ run.pc \in {"opening", "resync"} =>
                               run'.snap = s.taken /\ run'.changed = run.changed
                               /\ run'.todo = run.todo /\ run'.stages = run.stages
                               /\ run'.stale = (IF run.pc = "opening" THEN run.stale ELSE FALSE)
  <1> DEFINE s == sync[t]
  <1>1. /\ s.pc = "read" /\ s.taken # None /\ s.taken \in Views /\ s.previous \in Views
        /\ t \in Background \cup {"run"}
    BY DEF StoreSnapshot, Typed, Syncs
  <1>2. /\ snapshot' = s.taken
        /\ announced' = (IF s.announce
                         THEN announced \cup {<<i, s.taken[i].by>> : i \in Changes(s.previous, s.taken)}
                         ELSE announced)
        /\ sync' = [sync EXCEPT ![t] = NoSync]
        /\ run' = (IF t = "run" THEN After(run, s.taken) ELSE run)
        /\ UNCHANGED <<polygon, plan, asks, outside, counts, overlapped>>
    BY DEF StoreSnapshot
  <1>3. DOMAIN sync' = DOMAIN sync /\ sync'[t] = NoSync /\ \A u \in DOMAIN sync \ {t} : sync'[u] = sync[u]
    BY <1>1, <1>2, SyncSet
  <1>4. ASSUME t = "run"
        PROVE  /\ run.pc \in Syncing /\ run' = After(run, s.taken)
               /\ run'.pc = CASE run.pc = "opening" -> "decide" [] run.pc = "resync" -> "ask"
                              [] OTHER -> "none"
               /\ run.pc = "closing" => run' = NoRun
               /\ run.pc \in {"opening", "resync"} =>
                     run'.snap = s.taken /\ run'.changed = run.changed
                     /\ run'.todo = run.todo /\ run'.stages = run.stages
                     /\ run'.stale = (IF run.pc = "opening" THEN run.stale ELSE FALSE)
    <2>1. run.pc \in Syncing /\ run' = After(run, s.taken)
      BY <1>1, <1>2, <1>4 DEF RunSyncs
    <2>2. QED
      BY <1>1, <2>1, AfterIs, IdleRun DEF Syncing
  <1> HIDE DEF s
  <1>5. t # "run" => UNCHANGED run
    BY <1>2
  <1>6. QED
    BY <1>1, <1>2, <1>3, <1>4, <1>5 DEF s

LEMMA SyncFailsIs ==
  ASSUME Typed, RunSyncs, NEW t \in DOMAIN sync, SyncFails(t)
  PROVE  /\ sync[t].pc = "read" /\ Failure /\ counts'.failures > 0 /\ t \in Background \cup {"run"}
         /\ UNCHANGED <<polygon, snapshot, plan, asks, announced, outside, overlapped>>
         /\ \/ /\ t = "run" /\ run.pc \in {"opening", "resync"} /\ run'.pc = "closing"
               /\ run'.snap = run.snap /\ run'.changed = run.changed
               /\ sync' = [sync EXCEPT ![t] = Begun(t, FALSE)]
            \/ /\ t = "run" /\ run.pc = "closing" /\ run' = NoRun /\ sync' = [sync EXCEPT ![t] = NoSync]
            \/ t # "run" /\ UNCHANGED run /\ sync' = [sync EXCEPT ![t] = NoSync]
  <1>1. /\ sync[t].pc = "read" /\ Failure
        /\ UNCHANGED <<polygon, snapshot, plan, asks, announced, outside, overlapped>>
        /\ t \in Background \cup {"run"} /\ run \in Runs
    BY DEF SyncFails, Typed
  <1>2. counts'.failures > 0
    <2>1. counts.failures \in Nat /\ counts'.failures = counts.failures + 1
      BY <1>1, CountsTyped DEF Typed
    <2>2. QED
      BY <2>1
  <1>3. t = "run" => run.pc \in Syncing
    BY <1>1 DEF RunSyncs
  <1>4. CASE t = "run" /\ run.pc # "closing"
    <2>1. run' = [run EXCEPT !.pc = "closing"] /\ sync' = [sync EXCEPT ![t] = Begun(t, FALSE)]
      BY <1>4 DEF SyncFails, GoRun
    <2>2. run'.pc = "closing" /\ run'.snap = run.snap /\ run'.changed = run.changed
      BY <1>1, <2>1 DEF Runs
    <2>3. QED
      BY <1>1, <1>2, <1>3, <1>4, <2>1, <2>2 DEF Syncing
  <1>5. CASE ~(t = "run" /\ run.pc # "closing")
    BY <1>1, <1>2, <1>5 DEF SyncFails
  <1>6. QED
    BY <1>4, <1>5
-----------------------------------------------------------------------------
LEMMA SyncsInit == Init => RunSyncs
  BY IdleRun DEF Init, RunSyncs, Reading, Syncing

LEMMA SyncsClosed ==
  ASSUME Typed, RunSyncs, Closes
  PROVE  RunSyncs'
  BY ClosesIs, SyncsBegun DEF Closes, Syncing

LEMMA SyncsStep ==
  ASSUME Typed, RunSyncs, NEW t \in DOMAIN sync,
         ReadLists(t) \/ StoreSnapshot(t) \/ SyncFails(t)
  PROVE  RunSyncs'
  <1>1. CASE ReadLists(t)
    <2>1. /\ \A u \in DOMAIN sync : /\ sync'[u].pc = sync[u].pc
                                      /\ sync'[u].announce = sync[u].announce
          /\ DOMAIN sync' = DOMAIN sync /\ UNCHANGED run /\ DOMAIN sync = Background \cup {"run"}
      <3>1. DOMAIN sync = Background \cup {"run"}
        BY DEF Typed
      <3>2. UNCHANGED run
        BY <1>1 DEF ReadLists
      <3>3. QED
        BY <1>1, <3>1, <3>2, ReadListsIs
    <2>2. QED
      BY <2>1 DEF RunSyncs, Reading
  <1>2. CASE StoreSnapshot(t)
    <2>1. /\ DOMAIN sync' = DOMAIN sync /\ sync'[t] = NoSync /\ NoSync.pc = "none"
          /\ t \in Background \cup {"run"} /\ \A u \in DOMAIN sync \ {t} : sync'[u] = sync[u]
      BY <1>2, StoreSnapshotIs, IdleRun
    <2>2. CASE t # "run"
      <3>1. UNCHANGED run
        BY <1>2, <2>2, StoreSnapshotIs
      <3>2. "run" \in DOMAIN sync
        BY DEF Typed
      <3>3. QED
        BY <2>1, <2>2, <3>1, <3>2 DEF RunSyncs, Reading
    <2>3. CASE t = "run"
      <3>1. /\ run'.pc \notin Syncing
            /\ run'.pc \in {"none", "decide"} => ~run'.changed
        <4>1. CASE run.pc = "opening"
          BY <1>2, <2>3, <4>1, StoreSnapshotIs DEF RunSyncs, Syncing
        <4>2. CASE run.pc = "resync"
          BY <1>2, <2>3, <4>2, StoreSnapshotIs DEF Syncing
        <4>3. CASE run.pc = "closing"
          BY <1>2, <2>3, <4>3, StoreSnapshotIs, IdleRun DEF Syncing
        <4>4. QED
          BY <1>2, <2>3, <4>1, <4>2, <4>3, StoreSnapshotIs DEF Syncing
      <3>2. \A u \in Background : sync'[u] = sync[u]
        BY <2>1, <2>3, ProblemAssumption DEF Typed
      <3>3. QED
        BY <2>1, <2>3, <3>1, <3>2 DEF RunSyncs, Reading, Syncing
    <2>4. QED
      BY <2>2, <2>3
  <1>3. CASE SyncFails(t)
    <2>1. CASE t = "run" /\ run'.pc = "closing" /\ sync' = [sync EXCEPT ![t] = Begun(t, FALSE)]
      BY <2>1, SyncsBegun DEF Syncing
    <2>2. CASE t = "run" /\ run' = NoRun /\ sync' = [sync EXCEPT ![t] = NoSync]
      <3>1. sync'["run"] = NoSync /\ \A u \in Background : sync'[u] = sync[u]
        BY <2>2, SyncSet, ProblemAssumption
      <3>2. QED
        BY <2>2, <3>1, IdleRun, SyncSet DEF RunSyncs, Reading, Syncing
    <2>3. CASE t # "run" /\ UNCHANGED run /\ sync' = [sync EXCEPT ![t] = NoSync]
      <3>1. /\ DOMAIN sync' = DOMAIN sync /\ DOMAIN sync = Background \cup {"run"}
            /\ sync'[t] = NoSync /\ \A u \in DOMAIN sync \ {t} : sync'[u] = sync[u]
        BY <2>3, SyncSet DEF Typed
      <3>2. QED
        BY <2>3, <3>1, IdleRun DEF RunSyncs, Reading
    <2>4. QED
      BY <1>3, <2>1, <2>2, <2>3, SyncFailsIs
  <1>4. QED
    BY <1>1, <1>2, <1>3

LEMMA SyncsNext ==
  ASSUME Typed, StagesAsked, StatementKept, RunSyncs, [Next]_vars
  PROVE  RunSyncs'
  <1>1. ASSUME NEW t \in Background, BeginBackground(t)
        PROVE  RunSyncs'
    <2>1. /\ sync' = [sync EXCEPT ![t] = Begun(t, TRUE)] /\ UNCHANGED run
      BY <1>1 DEF BeginBackground
    <2>2. /\ DOMAIN sync' = DOMAIN sync /\ DOMAIN sync = Background \cup {"run"}
          /\ sync'[t] = Begun(t, TRUE) /\ \A u \in DOMAIN sync \ {t} : sync'[u] = sync[u]
      BY <2>1, SyncSet
    <2>3. QED
      BY <2>1, <2>2, BegunTyped, ProblemAssumption DEF RunSyncs, Reading
  <1>2. CASE UNCHANGED <<run, sync>>
    BY <1>2, SyncsKept DEF RunSyncs
  <1>3. ASSUME NEW k \in {"chat", "groups", "generate", "build"}, ~RunActive, Claim(k)
        PROVE  RunSyncs'
    <2>1. CASE k = "build"
      BY <1>3, <2>1, ClaimIs, SyncsKept DEF RunActive, Syncing
    <2>2. CASE k # "build"
      BY <1>3, <2>2, ClaimIs, SyncsBegun DEF Syncing
    <2>3. QED
      BY <2>1, <2>2
  <1>4. CASE Decide
    <2>1. CASE run' = NoRun /\ UNCHANGED sync
      BY <1>4, <2>1, DecideIs, IdleRun, SyncsKept DEF Syncing
    <2>2. CASE Reopened
      <3>1. run'.pc = "opening" /\ ~run'.changed /\ sync' = [sync EXCEPT !["run"] = Begun("run", TRUE)]
        BY <1>4, <2>2, DecideIs DEF Reopened, RunSyncs
      <3>2. QED
        BY <3>1, SyncsBegun DEF Syncing
    <2>3. ASSUME NEW stages, NEW targets, Decided(stages, targets)
          PROVE  RunSyncs'
      <3>1. UNCHANGED sync /\ run'.pc \in {"ask", "stage"} /\ run.pc = "decide"
        BY <1>4, <2>3, DecideIs DEF Decided
      <3>2. QED
        BY <3>1, SyncsKept DEF Syncing
    <2>4. QED
      BY <1>4, <2>1, <2>2, <2>3, DecideIs, SyncsClosed
  <1>5. CASE BeginStage
    <2>1. CASE /\ run'.pc = "resync" /\ sync' = [sync EXCEPT !["run"] = Begun("run", FALSE)]
      BY <2>1, SyncsBegun DEF Syncing
    <2>2. CASE run'.pc \in {"direct", "ask"} /\ UNCHANGED sync
      BY <1>5, <2>2, BeginStageIs, SyncsKept DEF Syncing
    <2>3. QED
      BY <1>5, <2>1, <2>2, BeginStageIs, SyncsClosed DEF Fails
  <1>6. CASE AskModel
    <2>1. CASE run'.pc \in {"stage", "apply"} /\ UNCHANGED sync
      BY <1>6, <2>1, AskModelIs, SyncsKept DEF Syncing
    <2>2. QED
      BY <1>6, <2>1, AskModelIs, SyncsClosed
  <1>7. CASE ReadStatement \/ SaveStatement
              \/ \E e \in run.todo : SaveFile(e) \/ Demote(e) \/ SaveSolution(e)
    <2>1. UNCHANGED sync
      BY <1>7 DEF ReadStatement, SaveStatement, SaveFile, Demote, SaveSolution
    <2>2. Applying
      BY <1>7, AppliesIs
    <2>3. QED
      BY <2>1, <2>2, SyncsKept DEF Applying, Syncing
  <1>8. CASE EndStage
    <2>1. CASE run'.pc = "stage" /\ UNCHANGED sync
      BY <1>8, <2>1, EndStageIs, SyncsKept DEF Syncing
    <2>2. QED
      BY <1>8, <2>1, EndStageIs, SyncsClosed
  <1>9. CASE StorePlan
    BY <1>9, StorePlanIs, SyncsKept DEF Syncing
  <1>10. CASE SetupTestset
    <2>1. CASE run'.pc = "stage" /\ UNCHANGED sync
      BY <1>10, <2>1, SetupTestsetIs, SyncsKept DEF Syncing
    <2>2. QED
      BY <1>10, <2>1, SetupTestsetIs, SyncsClosed DEF Fails
  <1>11. CASE Conclude
    <2>1. CASE run' = NoRun /\ UNCHANGED sync
      BY <1>11, <2>1, IdleRun, SyncsKept DEF Conclude, Syncing
    <2>2. QED
      BY <1>11, <2>1, SyncsClosed DEF Conclude
  <1>12. ASSUME NEW i \in UserItems, UserEdits(i)
         PROVE  RunSyncs'
    BY <1>2, <1>12 DEF UserEdits
  <1>13. CASE Next
    BY <1>1, <1>3, <1>4, <1>5, <1>6, <1>7, <1>8, <1>9, <1>10, <1>11, <1>12, <1>13, NextIs, SyncsStep
       DEF Claim
  <1>14. QED
    BY <1>2, <1>13 DEF vars
-----------------------------------------------------------------------------
\* Once a call failed, one has.
LEMMA FailureShows ==
  ASSUME Typed, Failure
  PROVE  counts'.failures > 0 /\ ~Quiet'
  <1>1. counts.failures \in Nat /\ counts'.failures = counts.failures + 1
    BY CountsTyped DEF Typed
  <1>2. QED
    BY <1>1 DEF Quiet

LEMMA CountsAre ==
  ASSUME Typed, StagesAsked, StatementKept, RunSyncs, [Next]_vars
  PROVE  \/ (Smooth \/ Failure) /\ UNCHANGED outside
         \/ \E i \in UserItems : UserEdits(i)
         \/ \E k \in {"chat", "groups", "generate", "build"} : Claim(k)
  <1>1. ASSUME NEW t \in DOMAIN sync, ReadLists(t) \/ StoreSnapshot(t) \/ SyncFails(t)
        PROVE  (Smooth \/ Failure) /\ UNCHANGED outside
    BY <1>1, ReadListsIs DEF StoreSnapshot, SyncFails, Smooth
  <1>2. CASE SaveStatement
    <2>1. UNCHANGED outside
      BY <1>2 DEF SaveStatement
    <2>2. Smooth \/ Failure
      BY <1>2, SaveStatementIs, WrittenIs
    <2>3. QED
      BY <2>1, <2>2
  <1>3. CASE SetupTestset
    <2>1. UNCHANGED outside
      BY <1>3 DEF SetupTestset
    <2>2. Smooth \/ Failure
      BY <1>3, SetupTestsetIs DEF Fails
    <2>3. QED
      BY <2>1, <2>2
  <1>4. ASSUME NEW e \in run.todo, SaveFile(e) \/ Demote(e) \/ SaveSolution(e)
        PROVE  (Smooth \/ Failure) /\ UNCHANGED outside
    <2>1. UNCHANGED outside
      BY <1>4 DEF SaveFile, Demote, SaveSolution
    <2>2. Smooth \/ Failure
      BY <1>4, SaveFileIs, DemoteIs, SaveSolutionIs
    <2>3. QED
      BY <2>1, <2>2
  <1>5. ASSUME NEW t \in Background, BeginBackground(t)
        PROVE  Smooth /\ UNCHANGED outside
    BY <1>5 DEF BeginBackground, Smooth
  <1>6. CASE StorePlan \/ Conclude \/ EndStage
    BY <1>6 DEF StorePlan, Conclude, EndStage, Smooth
  <1>7. CASE BeginStage \/ AskModel \/ ReadStatement
    BY <1>7, BeginStageIs, AskModelIs, ReadStatementIs DEF Fails, RunStays, RunMoves
  <1>8. CASE Next
    BY <1>1, <1>2, <1>3, <1>4, <1>5, <1>6, <1>7, <1>8, NextIs, DecideIs
  <1>9. CASE UNCHANGED vars
    BY <1>9 DEF vars, Smooth
  <1>10. QED
    BY <1>8, <1>9

LEMMA QuietHolds ==
  ASSUME Typed, StagesAsked, StatementKept, RunSyncs, [Next]_vars, Quiet'
  PROVE  Quiet
  <1>1. CASE Smooth
    BY <1>1 DEF Smooth, Quiet
  <1>2. CASE Failure
    BY <1>2, FailureShows
  <1>3. QED
    BY <1>1, <1>2, CountsAre, UserEditsIs, ClaimIs DEF Quiet

\* The steps of a run between its stages, and its writes.
BeginsSync == /\ run'.pc \in {"closing", "resync"}
              /\ sync' = [sync EXCEPT !["run"] = Begun("run", FALSE)]
Moves ==
    /\ run.pc \in Working \ {"resync"} /\ (Smooth \/ Failure)
    /\ UNCHANGED <<polygon, snapshot, announced, outside, overlapped, asks>>
    /\ \/ run' = NoRun /\ ~run.changed /\ UNCHANGED sync
       \/ /\ run'.snap = run.snap /\ run'.changed = run.changed /\ run'.stale = run.stale
          /\ \/ BeginsSync
             \/ run'.pc \in Working \ {"resync"} /\ UNCHANGED sync
Moving == BeginStage \/ AskModel \/ ReadStatement \/ EndStage \/ StorePlan \/ Conclude
Writing == \/ SaveStatement \/ SetupTestset
           \/ \E e \in run.todo : SaveFile(e) \/ Demote(e) \/ SaveSolution(e)

LEMMA MovesAre ==
  ASSUME Typed, StagesAsked, StatementKept, RunSyncs, Moving
  PROVE  Moves
  <1>1. ASSUME Closes, run.pc \in Working \ {"resync"}, Smooth \/ Failure,
               UNCHANGED <<polygon, snapshot, announced, outside, overlapped, asks>>
        PROVE  Moves
    BY <1>1, ClosesIs DEF Moves, BeginsSync, Closes
  <1>2. CASE BeginStage
    <2>1. /\ run.pc \in Working \ {"resync"}
          /\ UNCHANGED <<polygon, snapshot, announced, outside, overlapped, asks>>
      BY <1>2, BeginStageIs DEF RunStays, RunMoves, Working
    <2>2. QED
      BY <1>1, <1>2, <2>1, BeginStageIs DEF Moves, BeginsSync, RunKeeps, Working, Fails
  <1>3. CASE AskModel
    <2>1. /\ run.pc \in Working \ {"resync"}
          /\ UNCHANGED <<polygon, snapshot, announced, outside, overlapped, asks>>
      BY <1>3, AskModelIs DEF RunStays, RunMoves, Working
    <2>2. QED
      BY <1>1, <1>3, <2>1, AskModelIs DEF Moves, RunKeeps, Working
  <1>4. CASE ReadStatement
    BY <1>4, ReadStatementIs DEF Moves, RunStays, RunMoves, Working
  <1>5. CASE EndStage
    <2>1. /\ run.pc \in Working \ {"resync"} /\ Smooth
          /\ UNCHANGED <<polygon, snapshot, announced, outside, overlapped, asks>>
      BY <1>5, EndStageIs DEF RunStays, RunMoves, Working
    <2>2. QED
      BY <1>1, <1>5, <2>1, EndStageIs DEF Moves, RunKeeps, Working
  <1>6. CASE StorePlan
    BY <1>6, StorePlanIs DEF Moves, RunKeeps, Working, Smooth
  <1>7. CASE Conclude
    <2>1. /\ run.pc \in Working \ {"resync"} /\ Smooth
          /\ UNCHANGED <<polygon, snapshot, announced, outside, overlapped, asks>>
      BY <1>7 DEF Conclude, Working, Smooth
    <2>2. QED
      BY <1>1, <1>7, <2>1 DEF Conclude, Moves
  <1>8. QED
    BY <1>2, <1>3, <1>4, <1>5, <1>6, <1>7 DEF Moving

LEMMA WritesAre ==
  ASSUME Typed, StagesAsked, StatementKept, Writing
  PROVE  /\ run.pc \in {"apply", "direct"} /\ (Smooth \/ Failure)
         /\ UNCHANGED <<snapshot, plan, asks, announced, outside, overlapped>>
         /\ counts'.failures = 0 =>
              /\ Smooth /\ UNCHANGED sync /\ run'.pc \in {"apply", "stage"} /\ run'.snap = run.snap
              /\ \/ polygon' = polygon /\ run'.changed = run.changed /\ run'.stale = run.stale
                 \/ run'.changed /\ run'.stale
  <1>0. Failure => counts'.failures # 0
    BY FailureShows DEF Quiet
  <1>1. CASE SaveStatement
    <2>1. /\ run.pc = "apply" /\ Tried(run.todo \ StatementEdits)
          /\ UNCHANGED <<snapshot, plan, asks, announced, outside, overlapped, sync>>
      BY <1>1 DEF SaveStatement
    <2>2. run.todo \ StatementEdits \in SUBSET run.todo
      OBVIOUS
    <2>3. /\ (Smooth \/ Failure)
          /\ counts'.failures = 0 => Smooth /\ Succeeded
      BY <1>0, <1>1, SaveStatementIs, WrittenIs
    <2>4. QED
      BY <2>1, <2>2, <2>3, TriedIs
  <1>2. ASSUME NEW e \in run.todo, SaveFile(e)
        PROVE  /\ run.pc = "apply" /\ (Smooth \/ Failure)
               /\ UNCHANGED <<snapshot, plan, asks, announced, outside, overlapped, sync>>
               /\ run'.pc = "apply" /\ run'.snap = run.snap
               /\ counts'.failures = 0 => Smooth /\ run'.changed /\ run'.stale
    <2>1. /\ run.pc = "apply" /\ Tried(Rest(e.item))
          /\ UNCHANGED <<snapshot, plan, asks, announced, outside, overlapped, sync>>
      BY <1>2 DEF SaveFile
    <2>2. Rest(e.item) \in SUBSET run.todo /\ (Smooth \/ Failure)
      BY <1>2, SaveFileIs
    <2>3. Smooth => Succeeded
      BY DEF Smooth, Succeeded
    <2>4. QED
      BY <1>0, <2>1, <2>2, <2>3, TriedIs
  <1>3. ASSUME NEW e \in run.todo, Demote(e)
        PROVE  /\ run.pc = "apply" /\ (Smooth \/ Failure)
               /\ UNCHANGED <<snapshot, plan, asks, announced, outside, overlapped, sync>>
               /\ run'.pc = "apply" /\ run'.snap = run.snap
               /\ counts'.failures = 0 => Smooth /\ run'.changed /\ run'.stale
    <2>1. /\ run.pc = "apply"
          /\ UNCHANGED <<snapshot, plan, asks, announced, outside, overlapped, sync>>
      BY <1>3 DEF Demote
    <2>2. QED
      BY <1>0, <1>3, <2>1, DemoteIs
  <1>4. ASSUME NEW e \in run.todo, SaveSolution(e)
        PROVE  /\ run.pc = "apply" /\ (Smooth \/ Failure)
               /\ UNCHANGED <<snapshot, plan, asks, announced, outside, overlapped, sync>>
               /\ run'.pc = "apply" /\ run'.snap = run.snap
               /\ counts'.failures = 0 =>
                    /\ Smooth
                    /\ \/ polygon' = polygon /\ run'.changed = run.changed /\ run'.stale = run.stale
                       \/ run'.changed /\ run'.stale
    <2>1. /\ run.pc = "apply"
          /\ UNCHANGED <<snapshot, plan, asks, announced, outside, overlapped, sync>>
      BY <1>4 DEF SaveSolution
    <2>2. QED
      BY <1>0, <1>4, <2>1, SaveSolutionIs
  <1>5. CASE SetupTestset
    <2>1. UNCHANGED <<snapshot, plan, asks, announced, outside, overlapped>>
      BY <1>5 DEF SetupTestset
    <2>2. QED
      BY <1>0, <1>5, <2>1, SetupTestsetIs DEF Fails
  <1>6. QED
    BY <1>1, <1>2, <1>3, <1>4, <1>5 DEF Writing
-----------------------------------------------------------------------------
\* The service knows what its runs wrote.
OwnHolds == OwnAreKnown /\ OwnChangesAreQuiet

LEMMA OwnInit == Init => OwnHolds
  <1> SUFFICES ASSUME Init
               PROVE  OwnHolds
    OBVIOUS
  <1>1. \A i \in Items : polygon[i].by \in {Old, None}
    BY DEF Init, Empty, Filled, Value, Absent
  <1>2. Fresh(snapshot)
    <2>1. \A i \in Items : ~IsRun(polygon[i].by)
      BY <1>1, StampsAre
    <2>2. QED
      BY <2>1 DEF Fresh
  <1>3. \A t \in DOMAIN sync : ~Reading(t)
    BY IdleRun DEF Init, Reading
  <1>4. run.pc = "none" /\ announced = {}
    BY IdleRun DEF Init
  <1>5. QED
    BY <1>2, <1>3, <1>4 DEF OwnHolds, OwnAreKnown, OwnChangesAreQuiet, RunActive, Taken

\* Nothing of it changes while the problem and the snapshot stay.
LEMMA OwnStays ==
  ASSUME Typed, RunSyncs, OwnHolds, Quiet, ~overlapped, UNCHANGED <<polygon, snapshot, announced>>,
         RunActive' => RunActive, ~run'.changed => ~run.changed,
         \/ UNCHANGED sync
         \/ \E b \in BOOLEAN : /\ sync' = [sync EXCEPT !["run"] = Begun("run", b)]
                               /\ b => ~run.changed
  PROVE  OwnHolds'
  <1>1. \A i \in Items : polygon'[i] = polygon[i]
    OBVIOUS
  <1>2. OwnChangesAreQuiet'
    BY DEF OwnHolds, OwnChangesAreQuiet
  <1>3. CASE UNCHANGED sync
    BY <1>1, <1>2, <1>3 DEF OwnHolds, OwnAreKnown, Fresh, Matches, Taken, Reading
  <1>4. ASSUME NEW b \in BOOLEAN, sync' = [sync EXCEPT !["run"] = Begun("run", b)],
               b => ~run.changed
        PROVE  OwnHolds'
    <2>1. /\ DOMAIN sync' = DOMAIN sync /\ DOMAIN sync = Background \cup {"run"}
          /\ sync'["run"] = Begun("run", b)
          /\ \A u \in DOMAIN sync \ {"run"} : sync'[u] = sync[u]
      BY <1>4, SyncSet
    <2>2. /\ Begun("run", b).pc = "read" /\ Begun("run", b).announce = b
          /\ Begun("run", b).taken = None /\ Begun("run", b).previous = snapshot
      BY BegunTyped
    <2>3. b => Fresh(snapshot)
      BY <1>4 DEF OwnHolds, OwnAreKnown
    <2>4. QED
      BY <1>1, <1>2, <2>1, <2>2, <2>3, ProblemAssumption
         DEF OwnHolds, OwnAreKnown, Fresh, Matches, Taken, Reading
  <1>5. QED
    BY <1>3, <1>4
-----------------------------------------------------------------------------
LEMMA OwnBegun ==
  ASSUME Typed, RunSyncs, OwnHolds, NEW t \in Background, BeginBackground(t)
  PROVE  OwnHolds'
  <1> SUFFICES ASSUME Quiet', ~overlapped'
               PROVE  OwnHolds'
    BY DEF OwnHolds, OwnAreKnown, OwnChangesAreQuiet
  <1>1. /\ ~RunActive /\ sync' = [sync EXCEPT ![t] = Begun(t, TRUE)]
        /\ UNCHANGED <<polygon, snapshot, run, plan, asks, announced, outside, counts, overlapped>>
    BY DEF BeginBackground
  <1>2. Quiet /\ ~overlapped /\ ~run.changed /\ ~RunActive'
    BY <1>1 DEF Quiet, RunSyncs, RunActive
  <1>3. Fresh(snapshot)
    BY <1>2 DEF OwnHolds, OwnAreKnown
  <1>4. /\ DOMAIN sync' = DOMAIN sync /\ DOMAIN sync = Background \cup {"run"}
        /\ sync'[t] = Begun(t, TRUE) /\ \A u \in DOMAIN sync \ {t} : sync'[u] = sync[u]
    BY <1>1, SyncSet
  <1>5. Begun(t, TRUE).previous = snapshot /\ Begun(t, TRUE).taken = None
    BY BegunTyped
  <1>6. ASSUME NEW u \in DOMAIN sync, u # t
        PROVE  /\ Taken(u)' => Fresh(sync[u].taken)'
               /\ Reading(u)' /\ sync'[u].announce => Fresh(sync[u].previous)'
               /\ Taken(u)' /\ sync'[u].announce =>
                    \A i \in Items : IsRun(sync'[u].taken[i].by) =>
                       /\ sync'[u].previous[i].by = sync'[u].taken[i].by
                       /\ sync'[u].previous[i].tag = sync'[u].taken[i].tag
    BY <1>1, <1>2, <1>4, <1>6 DEF OwnHolds, OwnAreKnown, Taken, Reading, Fresh, Matches
  <1>7. Fresh(snapshot)' /\ Fresh(sync[t].previous)' /\ ~Taken(t)'
    BY <1>1, <1>3, <1>4, <1>5 DEF Fresh, Matches, Taken
  <1>8. OwnAreKnown'
    BY <1>2, <1>4, <1>6, <1>7 DEF OwnAreKnown
  <1>9. QED
    BY <1>1, <1>2, <1>8 DEF OwnHolds, OwnChangesAreQuiet

LEMMA OwnRead ==
  ASSUME Typed, RunSyncs, OwnHolds, NEW t \in DOMAIN sync, ReadLists(t)
  PROVE  OwnHolds'
  <1> SUFFICES ASSUME Quiet', ~overlapped'
               PROVE  OwnHolds'
    BY DEF OwnHolds, OwnAreKnown, OwnChangesAreQuiet
  <1>1. /\ sync[t].pc = "read" /\ DOMAIN sync' = DOMAIN sync
        /\ sync'[t].pc = "read" /\ sync'[t].announce = sync[t].announce
        /\ sync'[t].previous = sync[t].previous
        /\ \A u \in DOMAIN sync \ {t} : sync'[u] = sync[u]
        /\ UNCHANGED <<polygon, snapshot, run, plan, asks, announced, outside, overlapped>>
        /\ counts' = counts
        /\ \A i \in Items : /\ sync'[t].taken[i].by = polygon[i].by
                            /\ sync'[t].taken[i].tag = polygon[i].tag
    BY ReadListsIs DEF Quiet, Smooth
  <1>2. Quiet /\ ~overlapped
    BY <1>1 DEF Quiet
  <1>3. Fresh(sync[t].previous) \/ ~sync[t].announce
    BY <1>1, <1>2 DEF OwnHolds, OwnAreKnown, Reading
  <1>4. /\ \A i \in Items : IsRun(polygon[i].by) => Matches(sync'[t].taken, i)
        /\ sync[t].announce =>
             \A i \in Items : IsRun(sync'[t].taken[i].by) =>
                /\ sync[t].previous[i].by = sync'[t].taken[i].by
                /\ sync[t].previous[i].tag = sync'[t].taken[i].tag
    BY <1>1, <1>3 DEF Fresh, Matches
  <1>5. RunActive' => \A u \in Background : ~Reading(u)'
    BY <1>1, <1>2 DEF OwnHolds, OwnAreKnown, RunActive, Reading
  <1>6. ~run'.changed => Fresh(snapshot)'
    BY <1>1, <1>2 DEF OwnHolds, OwnAreKnown, Fresh, Matches
  <1>7. ASSUME NEW u \in DOMAIN sync, u # t
        PROVE  /\ Taken(u)' => Fresh(sync[u].taken)'
               /\ Reading(u)' /\ sync'[u].announce => Fresh(sync[u].previous)'
               /\ Taken(u)' /\ sync'[u].announce =>
                    \A i \in Items : IsRun(sync'[u].taken[i].by) =>
                       /\ sync'[u].previous[i].by = sync'[u].taken[i].by
                       /\ sync'[u].previous[i].tag = sync'[u].taken[i].tag
    BY <1>1, <1>2, <1>7 DEF OwnHolds, OwnAreKnown, Taken, Reading, Fresh, Matches
  <1>8. /\ Fresh(sync[t].taken)'
        /\ sync'[t].announce => Fresh(sync[t].previous)'
        /\ sync'[t].announce =>
             \A i \in Items : IsRun(sync'[t].taken[i].by) =>
                /\ sync'[t].previous[i].by = sync'[t].taken[i].by
                /\ sync'[t].previous[i].tag = sync'[t].taken[i].tag
    BY <1>1, <1>3, <1>4 DEF Fresh, Matches
  <1>9. OwnAreKnown'
    BY <1>1, <1>5, <1>6, <1>7, <1>8 DEF OwnAreKnown
  <1>10. QED
    BY <1>1, <1>2, <1>9 DEF OwnHolds, OwnChangesAreQuiet

LEMMA OwnStored ==
  ASSUME Typed, RunSyncs, OwnHolds, NEW t \in DOMAIN sync, StoreSnapshot(t)
  PROVE  OwnHolds'
  <1> SUFFICES ASSUME Quiet', ~overlapped'
               PROVE  OwnHolds'
    BY DEF OwnHolds, OwnAreKnown, OwnChangesAreQuiet
  <1> DEFINE s == sync[t]
  <1>1. /\ Taken(t) /\ snapshot' = s.taken /\ DOMAIN sync' = DOMAIN sync
        /\ sync'[t].pc = "none" /\ \A u \in DOMAIN sync \ {t} : sync'[u] = sync[u]
        /\ UNCHANGED <<polygon, counts, overlapped>>
    BY StoreSnapshotIs, IdleRun DEF Taken, Reading
  <1>2. Quiet /\ ~overlapped
    BY <1>1 DEF Quiet
  <1>3. Fresh(s.taken)
    BY <1>1, <1>2 DEF OwnHolds, OwnAreKnown
  <1>4. RunActive' => RunActive
    <2>1. t # "run" => UNCHANGED run
      BY StoreSnapshotIs
    <2>2. t = "run" => RunActive
      BY StoreSnapshotIs DEF RunActive, Syncing
    <2>3. QED
      BY <2>1, <2>2 DEF RunActive
  <1>5. OwnAreKnown'
    <2>1. ASSUME NEW u \in DOMAIN sync, u # t
          PROVE  /\ Taken(u)' => Fresh(sync[u].taken)'
                 /\ Reading(u)' /\ sync'[u].announce => Fresh(sync[u].previous)'
                 /\ Taken(u)' /\ sync'[u].announce =>
                      \A i \in Items : IsRun(sync'[u].taken[i].by) =>
                         /\ sync'[u].previous[i].by = sync'[u].taken[i].by
                         /\ sync'[u].previous[i].tag = sync'[u].taken[i].tag
      BY <1>1, <1>2, <2>1 DEF OwnHolds, OwnAreKnown, Taken, Reading, Fresh, Matches
    <2>2. ~Reading(t)' /\ ~Taken(t)'
      BY <1>1 DEF Taken, Reading
    <2>3. Fresh(snapshot)'
      BY <1>1, <1>3 DEF Fresh, Matches
    <2>4. RunActive' => \A u \in Background : ~Reading(u)'
      BY <1>1, <1>2, <1>4 DEF OwnHolds, OwnAreKnown, Reading
    <2>5. QED
      BY <1>1, <2>1, <2>2, <2>3, <2>4 DEF OwnAreKnown
  <1>6. ASSUME s.announce, NEW i \in Changes(s.previous, s.taken)
        PROVE  ~IsRun(s.taken[i].by)
    BY <1>1, <1>2, <1>6 DEF Changes, OwnHolds, OwnAreKnown
  <1>7. \A a \in announced' : ~IsRun(a[2])
    <2>1. \A a \in announced : ~IsRun(a[2])
      BY <1>2 DEF OwnHolds, OwnChangesAreQuiet, IsRun
    <2>2. ASSUME s.announce, NEW a \in {<<i, s.taken[i].by>> : i \in Changes(s.previous, s.taken)}
          PROVE  ~IsRun(a[2])
      BY <1>6, <2>2
    <2>3. \A a \in announced' : \/ a \in announced
                                \/ s.announce /\ a \in {<<i, s.taken[i].by>> : i \in Changes(s.previous, s.taken)}
      <3>1. announced' = (IF s.announce
                          THEN announced \cup {<<i, s.taken[i].by>> : i \in Changes(s.previous, s.taken)}
                          ELSE announced)
        BY DEF StoreSnapshot
      <3>2. QED
        BY <3>1
    <2>4. QED
      BY <2>1, <2>2, <2>3
  <1>8. OwnChangesAreQuiet'
    BY <1>7 DEF OwnChangesAreQuiet, IsRun
  <1>9. QED
    BY <1>5, <1>8 DEF OwnHolds

LEMMA OwnClaimed ==
  ASSUME Typed, RunSyncs, OwnHolds, NEW k \in {"chat", "groups", "generate", "build"}, Claim(k)
  PROVE  OwnHolds'
  <1> SUFFICES ASSUME Quiet', ~overlapped'
               PROVE  OwnHolds'
    BY DEF OwnHolds, OwnAreKnown, OwnChangesAreQuiet
  <1>1. /\ ~RunActive /\ UNCHANGED <<polygon, snapshot, announced>> /\ ~overlapped
        /\ \A t \in Background : sync[t].pc = "none"
    BY DEF Claim
  <1>2. Quiet /\ ~run.changed
    BY <1>1, ClaimIs DEF Quiet, RunActive, RunSyncs
  <1>3. Fresh(snapshot)
    BY <1>1, <1>2 DEF OwnHolds, OwnAreKnown
  <1>4. /\ DOMAIN sync' = DOMAIN sync /\ DOMAIN sync = Background \cup {"run"}
        /\ \A u \in Background : sync'[u] = sync[u]
        /\ sync'["run"] = sync["run"] \/ sync'["run"] = Begun("run", TRUE)
    <2>1. CASE UNCHANGED sync
      BY <2>1 DEF Typed
    <2>2. CASE sync' = [sync EXCEPT !["run"] = Begun("run", TRUE)]
      BY <2>2, SyncSet, ProblemAssumption
    <2>3. QED
      BY <2>1, <2>2, ClaimIs
  <1>5. Begun("run", TRUE).previous = snapshot /\ Begun("run", TRUE).taken = None
    BY BegunTyped
  <1>6. \A t \in Background : ~Reading(t)' /\ ~Taken(t)'
    BY <1>1, <1>4 DEF Reading, Taken
  <1>7. Fresh(snapshot)'
    BY <1>1, <1>3 DEF Fresh, Matches
  <1>8. /\ ~Taken("run")'
        /\ Reading("run")' => Fresh(sync["run"].previous)'
    <2>1. ~Reading("run")
      BY <1>1 DEF RunSyncs, RunActive, Syncing, Reading
    <2>2. CASE sync'["run"] = sync["run"]
      BY <1>4, <2>1, <2>2 DEF Reading, Taken
    <2>3. CASE sync'["run"] = Begun("run", TRUE)
      BY <1>1, <1>3, <1>5, <2>3 DEF Fresh, Matches, Taken
    <2>4. QED
      BY <1>4, <2>2, <2>3
  <1>9. OwnAreKnown'
    BY <1>4, <1>6, <1>7, <1>8 DEF OwnAreKnown
  <1>10. QED
    BY <1>1, <1>2, <1>9 DEF OwnHolds, OwnChangesAreQuiet

LEMMA OwnUserEdits ==
  ASSUME Typed, OwnHolds, NEW i \in UserItems, UserEdits(i)
  PROVE  OwnHolds'
  <1>1. /\ \A j \in Items : IsRun(polygon'[j].by) => polygon'[j] = polygon[j]
        /\ UNCHANGED <<snapshot, sync, run, announced, overlapped>> /\ (Quiet' => Quiet)
    BY UserEditsIs DEF Quiet
  <1>2. \A x : Fresh(x) => \A j \in Items : IsRun(polygon'[j].by) =>
                               x[j].by = polygon'[j].by /\ x[j].tag = polygon'[j].tag
    BY <1>1 DEF Fresh, Matches
  <1>3. QED
    BY <1>1, <1>2 DEF OwnHolds, OwnAreKnown, OwnChangesAreQuiet, RunActive, Taken, Reading, Fresh, Matches

LEMMA OwnWritten ==
  ASSUME Typed, StagesAsked, StatementKept, RunSyncs, OwnHolds, Writing
  PROVE  OwnHolds'
  <1> SUFFICES ASSUME Quiet', ~overlapped'
               PROVE  OwnHolds'
    BY DEF OwnHolds, OwnAreKnown, OwnChangesAreQuiet
  <1>1. /\ run.pc \in {"apply", "direct"} /\ UNCHANGED <<snapshot, announced, overlapped, sync>>
        /\ counts' = counts
        /\ \/ polygon' = polygon /\ run'.changed = run.changed
           \/ run'.changed
    BY WritesAre DEF Quiet, Smooth
  <1>2. Quiet /\ ~overlapped /\ RunActive
    BY <1>1 DEF Quiet, RunActive
  <1>3. CASE polygon' = polygon /\ run'.changed = run.changed
    BY <1>1, <1>2, <1>3, OwnStays
  <1>4. CASE run'.changed
    <2>1. \A t \in DOMAIN sync : ~Reading(t)
      <3>1. ~Reading("run")
        BY <1>1 DEF RunSyncs, Syncing, Reading
      <3>2. \A t \in Background : ~Reading(t)
        BY <1>2 DEF OwnHolds, OwnAreKnown
      <3>3. QED
        BY <3>1, <3>2 DEF Typed
    <2>2. \A t \in DOMAIN sync' : ~Reading(t)'
      BY <1>1, <2>1 DEF Reading
    <2>3. \A t \in Background : ~Reading(t)'
      BY <2>2 DEF Reading
    <2>4. QED
      BY <1>1, <1>2, <1>4, <2>2, <2>3 DEF OwnHolds, OwnAreKnown, OwnChangesAreQuiet, Taken
  <1>5. QED
    BY <1>1, <1>3, <1>4

LEMMA OwnNext ==
  ASSUME Typed, StagesAsked, StatementKept, RunSyncs, OwnHolds, [Next]_vars
  PROVE  OwnHolds'
  <1> SUFFICES ASSUME Quiet', ~overlapped'
               PROVE  OwnHolds'
    BY DEF OwnHolds, OwnAreKnown, OwnChangesAreQuiet
  <1>0. Quiet
    BY QuietHolds
  <1>1. CASE UNCHANGED vars
    BY <1>0, <1>1, OwnStays DEF vars, RunActive
  <1>2. CASE Moving
    <2>1. /\ UNCHANGED <<polygon, snapshot, announced>> /\ RunActive /\ ~overlapped
          /\ ~run'.changed => ~run.changed
          /\ UNCHANGED sync \/ sync' = [sync EXCEPT !["run"] = Begun("run", FALSE)]
      <3>1. Moves
        BY <1>2, MovesAre
      <3>2. run' = NoRun => ~run.changed
        BY <3>1, IdleRun DEF Moves
      <3>3. QED
        BY <3>1, IdleRun DEF Moves, RunActive, BeginsSync, Working
    <2>2. QED
      BY <1>0, <2>1, OwnStays
  <1>3. CASE Decide
    <2>1. /\ UNCHANGED <<polygon, snapshot, announced>> /\ RunActive /\ ~overlapped /\ ~run.changed
      BY <1>3, DecideIs DEF RunActive, RunSyncs
    <2>2. /\ UNCHANGED sync \/ sync' = [sync EXCEPT !["run"] = Begun("run", TRUE)]
                \/ sync' = [sync EXCEPT !["run"] = Begun("run", FALSE)]
      BY <1>3, DecideIs DEF Reopened, Decided, Closes
    <2>3. QED
      BY <1>0, <2>1, <2>2, OwnStays
  <1>4. ASSUME NEW t \in DOMAIN sync, SyncFails(t)
        PROVE  FALSE
    BY <1>4, FailureShows DEF SyncFails
  <1>5. CASE Next
    BY <1>2, <1>3, <1>4, <1>5, NextIs, OwnBegun, OwnRead, OwnStored, OwnClaimed, OwnUserEdits, OwnWritten
       DEF Moving, Writing
  <1>6. QED
    BY <1>1, <1>5
-----------------------------------------------------------------------------
\* The numbers of the user's changes.
LEMMA UpToGrows ==
  ASSUME NEW by, NEW k \in Nat, NEW l \in Nat, k <= l, UpTo(by, k)
  PROVE  UpTo(by, l)
  BY DEF UpTo

LEMMA RunsUpTo ==
  ASSUME NEW k \in Nat
  PROVE  /\ \A n \in Nat : UpTo(By("run", n), k)
         /\ UpTo(Old, k) /\ UpTo(None, k)
         /\ \A n \in Nat : UpTo(By("user", n), k) => n <= k
         /\ UpTo(By("user", k), k)
  <1>1. \A m, n \in Nat : By("run", m) # By("user", n)
    BY DEF By
  <1>2. \A n \in Nat : Old # By("user", n)
    BY DEF By, Old
  <1>3. \A n \in Nat : None # By("user", n)
    BY StampsAre
  <1>4. \A m, n \in Nat : By("user", m) = By("user", n) => m = n
    BY DEF By
  <1>5. QED
    BY <1>1, <1>2, <1>3, <1>4 DEF UpTo

\* What a step makes of the writer of an item.
LEMMA StampsWritten ==
  ASSUME Typed, StagesAsked, StatementKept, [Next]_vars, NEW i \in Items
  PROVE  \/ polygon'[i].by = polygon[i].by
         \/ Writing /\ polygon'[i].by = Me
         \/ Writing /\ i \in Sections /\ Merging /\ polygon'[i].by = run.current[i]
         \/ /\ \E j \in UserItems : UserEdits(j)
            /\ polygon'[i].by = By("user", counts.edits + 1)
  <1>1. CASE UNCHANGED polygon
    BY <1>1
  <1>2. ASSUME NEW j \in UserItems, UserEdits(j)
        PROVE  polygon'[i].by = polygon[i].by \/ polygon'[i].by = By("user", counts.edits + 1)
    BY <1>2, UserEditsIs
  <1>3. CASE SaveStatement
    <2>1. Merging /\ Writing
      BY <1>3 DEF SaveStatement, Merging, Writing
    <2>2. i \notin Sections => polygon'[i] = polygon[i]
      BY <1>3, SaveStatementIs
    <2>3. i \in Sections => polygon'[i].by \in {Me, run.current[i], polygon[i].by}
      BY <1>3, SaveStatementIs DEF Sections
    <2>4. QED
      BY <2>1, <2>2, <2>3
  <1>4. ASSUME NEW e \in run.todo, SaveFile(e)
        PROVE  polygon'[i].by = polygon[i].by \/ polygon'[i].by = Me
    BY <1>4, SaveFileIs
  <1>5. ASSUME NEW e \in run.todo, Demote(e)
        PROVE  polygon'[i].by = polygon[i].by \/ polygon'[i].by = Me
    BY <1>5, DemoteIs DEF Value
  <1>6. ASSUME NEW e \in run.todo, SaveSolution(e)
        PROVE  polygon'[i].by = polygon[i].by \/ polygon'[i].by = Me
    <2>1. CASE i = Placed(e).item
      <3>1. polygon' = polygon \/ polygon'[i] = Value(Me, Placed(e).tag)
        BY <1>6, <2>1, SaveSolutionIs
      <3>2. QED
        BY <3>1 DEF Value
    <2>2. CASE i # Placed(e).item
      BY <1>6, <2>2, SaveSolutionIs
    <2>3. QED
      BY <2>1, <2>2
  <1>7. CASE SetupTestset
    <2>1. polygon'[i].by = polygon[i].by \/ polygon'[i].by = Me
      <3>1. CASE i = run.stages[1]
        BY <1>7, <3>1, SetupTestsetIs
      <3>2. CASE i # run.stages[1]
        BY <1>7, <3>2, SetupTestsetIs
      <3>3. QED
        BY <3>1, <3>2
    <2>2. QED
      BY <1>7, <2>1 DEF Writing
  <1>8. QED
    BY <1>1, <1>2, <1>3, <1>4, <1>5, <1>6, <1>7, Writers DEF Writing, vars

LEMMA EditsGrow ==
  ASSUME Typed, StagesAsked, StatementKept, RunSyncs, [Next]_vars
  PROVE  /\ counts'.edits \in Nat /\ counts.edits \in Nat /\ counts'.edits >= counts.edits
         /\ \/ counts'.edits = counts.edits /\ UNCHANGED outside
            \/ \E i \in UserItems : UserEdits(i)
  <1>0. counts.edits \in Nat
    BY DEF Typed
  <1>1. \/ counts'.edits = counts.edits /\ UNCHANGED outside
        \/ counts'.edits = counts.edits + 1 /\ \E i \in UserItems : UserEdits(i)
    BY CountsAre, CountsTyped, UserEditsIs, ClaimIs DEF Smooth, Claim
  <1>2. QED
    BY <1>0, <1>1
-----------------------------------------------------------------------------
\* What a step makes of a sync.
Starts(t) == \E b \in BOOLEAN : sync'[t] = Begun(t, b)

LEMMA SyncsAre ==
  ASSUME Typed, StagesAsked, StatementKept, RunSyncs, [Next]_vars
  PROVE  /\ DOMAIN sync' = DOMAIN sync
         /\ \A t \in DOMAIN sync : \/ sync'[t] = sync[t] \/ sync'[t] = NoSync \/ Starts(t) \/ ReadLists(t)
         /\ UNCHANGED snapshot \/ \E t \in DOMAIN sync : StoreSnapshot(t)
  <1>0. DOMAIN sync = Background \cup {"run"}
    BY DEF Typed
  <1>1. ASSUME UNCHANGED sync
        PROVE  DOMAIN sync' = DOMAIN sync /\ \A t \in DOMAIN sync : sync'[t] = sync[t]
    BY <1>1
  <1>2. ASSUME NEW u \in DOMAIN sync, NEW b \in BOOLEAN, sync' = [sync EXCEPT ![u] = Begun(u, b)]
        PROVE  /\ DOMAIN sync' = DOMAIN sync
               /\ \A t \in DOMAIN sync : sync'[t] = sync[t] \/ Starts(t)
    BY <1>0, <1>2, SyncSet DEF Starts
  <1>3. ASSUME NEW u \in DOMAIN sync, sync' = [sync EXCEPT ![u] = NoSync]
        PROVE  /\ DOMAIN sync' = DOMAIN sync
               /\ \A t \in DOMAIN sync : sync'[t] = sync[t] \/ sync'[t] = NoSync
    BY <1>0, <1>3, SyncSet
  <1>4. ASSUME NEW u \in DOMAIN sync, ReadLists(u)
        PROVE  /\ DOMAIN sync' = DOMAIN sync /\ UNCHANGED snapshot
               /\ \A t \in DOMAIN sync : sync'[t] = sync[t] \/ ReadLists(t)
    BY <1>4, ReadListsIs
  <1>5. \/ UNCHANGED sync
        \/ \E u \in DOMAIN sync, b \in BOOLEAN : sync' = [sync EXCEPT ![u] = Begun(u, b)]
        \/ \E u \in DOMAIN sync : sync' = [sync EXCEPT ![u] = NoSync]
        \/ \E u \in DOMAIN sync : ReadLists(u)
    <2>0. "run" \in DOMAIN sync /\ Background \subseteq DOMAIN sync
      BY <1>0
    <2>1. CASE Moving
      BY <2>0, <2>1, MovesAre DEF Moves, BeginsSync
    <2>2. CASE Decide
      BY <2>0, <2>2, DecideIs DEF Reopened, Decided, Closes
    <2>3. ASSUME NEW k \in {"chat", "groups", "generate", "build"}, Claim(k)
          PROVE  UNCHANGED sync \/ sync' = [sync EXCEPT !["run"] = Begun("run", TRUE)]
      BY <2>3, ClaimIs
    <2>4. ASSUME NEW t \in Background, BeginBackground(t)
          PROVE  sync' = [sync EXCEPT ![t] = Begun(t, TRUE)]
      BY <2>4 DEF BeginBackground
    <2>5. ASSUME NEW t \in DOMAIN sync, StoreSnapshot(t)
          PROVE  sync' = [sync EXCEPT ![t] = NoSync]
      BY <2>5 DEF StoreSnapshot
    <2>6. ASSUME NEW t \in DOMAIN sync, SyncFails(t)
          PROVE  sync' = [sync EXCEPT ![t] = NoSync] \/ sync' = [sync EXCEPT ![t] = Begun(t, FALSE)]
      BY <2>6 DEF SyncFails
    <2>7. CASE SetupTestset
      BY <2>0, <2>7 DEF SetupTestset, Fails, Closes
    <2>8. ASSUME NEW e \in run.todo, SaveFile(e) \/ Demote(e) \/ SaveSolution(e)
          PROVE  UNCHANGED sync
      BY <2>8 DEF SaveFile, Demote, SaveSolution
    <2>9. CASE SaveStatement
      BY <2>9 DEF SaveStatement
    <2>10. ASSUME NEW i \in UserItems, UserEdits(i)
           PROVE  UNCHANGED sync
      BY <2>10 DEF UserEdits
    <2>11. CASE Next
      BY <2>0, <2>1, <2>2, <2>3, <2>4, <2>5, <2>6, <2>7, <2>8, <2>9, <2>10, <2>11, NextIs DEF Moving
    <2>12. CASE UNCHANGED vars
      BY <2>12 DEF vars
    <2>13. QED
      BY <2>11, <2>12
  <1>6. UNCHANGED snapshot \/ \E t \in DOMAIN sync : StoreSnapshot(t)
    BY NextIs DEF vars, BeginBackground, ReadLists, SyncFails, UserEdits, Claim, Decide, BeginStage,
       AskModel, ReadStatement, SaveStatement, SaveFile, Demote, SaveSolution, EndStage, StorePlan,
       SetupTestset, Conclude
  <1>7. QED
    BY <1>1, <1>2, <1>3, <1>4, <1>5, <1>6

LEMMA MergingIs ==
  ASSUME Typed, StagesAsked, StatementKept, RunSyncs, [Next]_vars, Merging'
  PROVE  \/ Merging /\ UNCHANGED run
         \/ ReadStatement /\ \A s \in Sections : run'.current[s] = polygon[s].by
  <1>1. run'.current # None
    BY DEF Merging
  <1>2. CASE UNCHANGED run
    BY <1>2 DEF Merging, StatementEdits
  <1>3. CASE ReadStatement
    <2>1. run'.current = [s \in Sections |-> polygon[s].by]
      BY <1>1, <1>3, ReadStatementIs
    <2>2. QED
      BY <1>3, <2>1
  <1>4. ASSUME NEW e \in run.todo, Demote(e)
        PROVE  FALSE
    <2>1. run'.todo = run.todo /\ StatementEdits = {}
      BY <1>4, DemoteIs DEF Demote, IsNext
    <2>2. QED
      BY <2>1 DEF Merging, StatementEdits
  <1>5. CASE UNCHANGED vars
    BY <1>2, <1>5 DEF vars
  <1>6. ASSUME NEW i \in UserItems, UserEdits(i)
        PROVE  UNCHANGED run
    BY <1>6 DEF UserEdits
  <1>7. QED
    BY <1>1, <1>2, <1>3, <1>4, <1>5, <1>6, MergeOver

LEMMA NumbersInit == Init => UserNumbers
  <1> SUFFICES ASSUME Init
               PROVE  UserNumbers
    OBVIOUS
  <1>1. \A i \in Items : polygon[i].by \in {Old, None} /\ snapshot[i].by = polygon[i].by
    BY DEF Init, Empty, Filled, Value, Absent, Seen
  <1>2. UpTo(Old, counts.edits) /\ UpTo(None, counts.edits)
    BY RunsUpTo DEF Init
  <1>3. \A t \in DOMAIN sync : ~Reading(t)
    BY IdleRun DEF Init, Reading
  <1>4. run.pc = "none" /\ outside = {}
    BY IdleRun DEF Init
  <1>5. QED
    BY <1>1, <1>2, <1>3, <1>4 DEF UserNumbers, Numbered, Taken, Merging

LEMMA NumbersNext ==
  ASSUME Typed, StagesAsked, StatementKept, RunSyncs, UserNumbers, [Next]_vars
  PROVE  UserNumbers'
  <1> SUFFICES ASSUME Quiet'
               PROVE  UserNumbers'
    BY DEF UserNumbers
  <1>0. Quiet
    BY QuietHolds
  <1>1. /\ counts.edits \in Nat /\ counts'.edits \in Nat /\ counts.edits <= counts'.edits
        /\ counts.runs \in Nat
    BY EditsGrow DEF Typed
  <1>2. ASSUME NEW by, Numbered(by)
        PROVE  UpTo(by, counts'.edits)
    BY <1>1, <1>2, UpToGrows DEF Numbered
  <1>3. ASSUME NEW i \in Items
        PROVE  UpTo(polygon'[i].by, counts'.edits)
    <2>1. CASE polygon'[i].by = polygon[i].by
      BY <1>0, <1>2, <2>1 DEF UserNumbers
    <2>2. CASE polygon'[i].by = Me
      BY <1>1, <2>2, MeTyped, RunsUpTo
    <2>3. CASE i \in Sections /\ Merging /\ polygon'[i].by = run.current[i]
      BY <1>0, <1>2, <2>3 DEF UserNumbers
    <2>4. CASE (\E j \in UserItems : UserEdits(j)) /\ polygon'[i].by = By("user", counts.edits + 1)
      BY <1>1, <2>4, UserEditsIs, RunsUpTo
    <2>5. QED
      BY <2>1, <2>2, <2>3, <2>4, StampsWritten
  <1>4. ASSUME NEW i \in Items
        PROVE  UpTo(snapshot'[i].by, counts'.edits)
    <2>1. CASE UNCHANGED snapshot
      BY <1>0, <1>2, <2>1 DEF UserNumbers
    <2>2. ASSUME NEW t \in DOMAIN sync, StoreSnapshot(t)
          PROVE  UpTo(snapshot'[i].by, counts'.edits)
      <3>1. Taken(t) /\ snapshot' = sync[t].taken
        BY <2>2, StoreSnapshotIs DEF Taken, Reading
      <3>2. QED
        BY <1>0, <1>2, <3>1 DEF UserNumbers
    <2>3. QED
      BY <2>1, <2>2, SyncsAre
  <1>5. ASSUME NEW a \in outside'
        PROVE  UpTo(a[2], counts'.edits) /\ a[2] # None /\ ~IsRun(a[2])
    <2>1. CASE a \in outside
      BY <1>0, <1>2, <2>1 DEF UserNumbers
    <2>2. CASE a \notin outside
      <3>1. PICK i \in UserItems : UserEdits(i)
        BY <2>2, EditsGrow
      <3> DEFINE by == By("user", counts.edits + 1)
      <3>2. /\ outside' = (IF RunActive THEN outside ELSE outside \cup {<<i, by>>})
            /\ by # None /\ ~IsRun(by) /\ counts'.edits = counts.edits + 1
        BY <3>1, UserEditsIs
      <3>3. UpTo(by, counts'.edits)
        BY <1>1, <3>2, RunsUpTo
      <3> HIDE DEF by
      <3>4. a = <<i, by>>
        BY <2>2, <3>2
      <3>5. QED
        BY <3>2, <3>3, <3>4
    <2>3. QED
      BY <2>1, <2>2
  <1>6. ASSUME Merging', NEW s \in Sections
        PROVE  UpTo(run'.current[s], counts'.edits)
    <2>1. CASE Merging /\ UNCHANGED run
      BY <1>0, <1>2, <2>1 DEF UserNumbers
    <2>2. CASE run'.current[s] = polygon[s].by
      BY <1>0, <1>2, <2>2, ItemsAre DEF UserNumbers
    <2>3. QED
      BY <1>6, <2>1, <2>2, MergingIs
  <1>7. ASSUME NEW t \in DOMAIN sync', NEW i \in Items
        PROVE  /\ Reading(t)' => UpTo(sync'[t].previous[i].by, counts'.edits)
               /\ Taken(t)' => UpTo(sync'[t].taken[i].by, counts'.edits)
    <2>0. t \in DOMAIN sync
      BY SyncsAre
    <2>1. CASE sync'[t] = sync[t]
      BY <1>0, <1>2, <2>0, <2>1 DEF UserNumbers, Taken, Reading
    <2>2. CASE sync'[t] = NoSync
      BY <2>2, IdleRun DEF Taken, Reading
    <2>3. CASE Starts(t)
      <3>1. sync'[t].previous = snapshot /\ sync'[t].taken = None
        BY <2>3, BegunTyped DEF Starts
      <3>2. QED
        BY <1>0, <1>2, <3>1 DEF UserNumbers, Taken
    <2>4. CASE ReadLists(t)
      <3>1. /\ Reading(t) /\ sync'[t].previous = sync[t].previous
            /\ sync'[t].taken[i].by = polygon[i].by
        BY <2>0, <2>4, ReadListsIs DEF Quiet, Reading
      <3>2. QED
        BY <1>0, <1>2, <2>0, <3>1 DEF UserNumbers
    <2>5. QED
      BY <2>0, <2>1, <2>2, <2>3, <2>4, SyncsAre
  <1>8. QED
    BY <1>3, <1>4, <1>5, <1>6, <1>7 DEF UserNumbers, Numbered
-----------------------------------------------------------------------------
\* What the user did while nothing ran has been told.
OutsideHolds == OutsideIsKnown /\ OutsideIsAnnounced

LEMMA OutsideInit == Init => OutsideHolds
  <1> SUFFICES ASSUME Init
               PROVE  OutsideHolds
    OBVIOUS
  <1>1. \A t \in DOMAIN sync : ~Reading(t)
    BY IdleRun DEF Init, Reading
  <1>2. run.pc = "none" /\ outside = {} /\ sync["run"].pc = "none"
    BY IdleRun DEF Init
  <1>3. QED
    BY <1>1, <1>2 DEF OutsideHolds, OutsideIsKnown, OutsideIsAnnounced, Told, Taken, Reading, Merging, RunActive

\* Announcements stay, and what is new outside is nowhere else yet.
LEMMA OutsideGrows ==
  ASSUME Typed, StagesAsked, StatementKept, RunSyncs, UserNumbers, [Next]_vars, Quiet,
         NEW x, \A i \in Items : Numbered(x[i].by), Told(x)
  PROVE  \A a \in outside' : x[a[1]].by = a[2] => a \in announced'
  <1>1. announced \subseteq announced'
    BY NextIs DEF vars, BeginBackground, ReadLists, StoreSnapshot, SyncFails, UserEdits, Claim, Decide,
       BeginStage, AskModel, ReadStatement, SaveStatement, SaveFile, Demote, SaveSolution, EndStage,
       StorePlan, SetupTestset, Conclude
  <1>2. ASSUME NEW a \in outside' \ outside
        PROVE  x[a[1]].by # a[2]
    <2>1. PICK i \in UserItems : UserEdits(i)
      BY <1>2, EditsGrow
    <2> DEFINE by == By("user", counts.edits + 1)
    <2>2. /\ i \in Items
          /\ outside' = (IF RunActive THEN outside ELSE outside \cup {<<i, by>>})
      BY <2>1, UserEditsIs
    <2>3. a[1] = i /\ a[2] = by
      BY <1>2, <2>2
    <2>4. counts.edits \in Nat /\ counts.edits + 1 \in Nat /\ ~(counts.edits + 1 <= counts.edits)
      BY DEF Typed
    <2>5. \A n \in Nat : x[i].by = By("user", n) => n <= counts.edits
      BY <2>2 DEF Numbered, UpTo
    <2>6. QED
      BY <2>3, <2>4, <2>5
  <1>3. QED
    BY <1>1, <1>2 DEF Told

LEMMA OutsideKept ==
  ASSUME Typed, StagesAsked, StatementKept, RunSyncs, UserNumbers, [Next]_vars, Quiet,
         NEW i \in Items, NEW by, Numbered(by), <<i, by>> \in outside => <<i, by>> \in announced
  PROVE  <<i, by>> \in outside' => <<i, by>> \in announced'
  <1> DEFINE x == [j \in Items |-> IF j = i THEN [by |-> by] ELSE [by |-> None]]
  <1>1. UpTo(None, counts.edits)
    BY EditsGrow, RunsUpTo
  <1>2. \A j \in Items : Numbered(x[j].by)
    BY <1>1 DEF Numbered
  <1>3. \A a \in outside : a[1] \in Items /\ a = <<a[1], a[2]>> /\ a[2] # None
    BY DEF Typed, UserNumbers
  <1>4. Told(x)
    BY <1>3 DEF Told
  <1>5. x[i].by = by
    OBVIOUS
  <1> HIDE DEF x
  <1>6. \A a \in outside' : x[a[1]].by = a[2] => a \in announced'
    BY <1>2, <1>4, OutsideGrows
  <1>7. QED
    BY <1>5, <1>6
-----------------------------------------------------------------------------
LEMMA BuildsStand ==
  ASSUME Typed, StagesAsked, StatementKept, RunSyncs, [Next]_vars, counts'.builds = 0
  PROVE  counts.builds = 0 /\ ~Claim("build")
  <1>1. counts.builds \in Nat
    BY DEF Typed
  <1>2. ASSUME NEW k \in {"chat", "groups", "generate", "build"}, Claim(k)
        PROVE  counts.builds = 0 /\ k # "build"
    <2>1. counts'.builds = IF k = "build" THEN counts.builds + 1 ELSE counts.builds
      BY <1>2, ClaimIs
    <2>2. QED
      BY <1>1, <2>1
  <1>3. ~Claim("build")
    BY <1>2
  <1>4. counts'.builds = counts.builds \/ \E k \in {"chat", "groups", "generate", "build"} : Claim(k)
    BY CountsAre, CountsTyped, UserEditsIs DEF Smooth
  <1>5. QED
    BY <1>2, <1>3, <1>4

\* A run has read the problem, or it did not begin now.
LEMMA ActiveIs ==
  ASSUME Typed, StagesAsked, StatementKept, RunSyncs, [Next]_vars, Quiet',
         RunActive', run'.pc # "opening"
  PROVE  \/ RunActive /\ run.pc # "opening"
         \/ Claim("build")
         \/ StoreSnapshot("run") /\ run.pc = "opening"
  <1>1. CASE UNCHANGED run
    BY <1>1 DEF RunActive
  <1>2. CASE Moving \/ Decide
    BY <1>2, MovesAre, DecideIs DEF Moves, RunActive, Working
  <1>3. CASE Writing
    BY <1>3, WritesAre DEF RunActive
  <1>4. ASSUME NEW t \in DOMAIN sync, ReadLists(t) \/ StoreSnapshot(t) \/ SyncFails(t)
        PROVE  UNCHANGED run \/ (t = "run" /\ StoreSnapshot(t) /\ run.pc \in Syncing)
    BY <1>4, StoreSnapshotIs, FailureShows DEF ReadLists, SyncFails
  <1>5. ASSUME NEW k \in {"chat", "groups", "generate", "build"}, Claim(k)
        PROVE  Claim("build")
    BY <1>5, ClaimIs
  <1>6. CASE Next
    BY <1>1, <1>2, <1>3, <1>4, <1>5, <1>6, NextIs DEF BeginBackground, UserEdits, Moving, Writing,
       RunActive, Syncing
  <1>7. QED
    BY <1>1, <1>6 DEF vars

LEMMA StoredIsTold ==
  ASSUME Typed, RunSyncs, OutsideHolds, Quiet, counts.builds = 0, NEW t \in DOMAIN sync, StoreSnapshot(t)
  PROVE  \A a \in outside' : sync[t].taken[a[1]].by = a[2] => a \in announced'
  <1> DEFINE s == sync[t]
  <1>1. /\ Reading(t) /\ Taken(t) /\ outside' = outside
        /\ announced' = (IF s.announce
                         THEN announced \cup {<<i, s.taken[i].by>> : i \in Changes(s.previous, s.taken)}
                         ELSE announced)
    BY DEF StoreSnapshot, Taken, Reading
  <1>2. SUFFICES ASSUME NEW a \in outside, s.taken[a[1]].by = a[2]
                 PROVE  a \in announced'
    BY <1>1
  <1>3. a[1] \in Items /\ a = <<a[1], a[2]>>
    BY DEF Typed
  <1>4. CASE s.announce
    <2>1. CASE s.previous[a[1]].by = a[2]
      BY <1>1, <1>4, <2>1 DEF OutsideHolds, OutsideIsKnown, Told
    <2>2. CASE s.previous[a[1]].by # a[2]
      <3>1. a[1] \in Changes(s.previous, s.taken)
        BY <1>2, <1>3, <2>2 DEF Changes
      <3>2. QED
        BY <1>1, <1>2, <1>3, <1>4, <3>1
    <2>3. QED
      BY <2>1, <2>2
  <1>5. CASE ~s.announce
    BY <1>1, <1>2, <1>5 DEF OutsideHolds, OutsideIsKnown, Told
  <1>6. QED
    BY <1>4, <1>5

\* What Polygon has of the changes outside, while a run is active.
LEMMA OutsideOnPolygon ==
  ASSUME Typed, StagesAsked, StatementKept, RunSyncs, UserNumbers, [Next]_vars, Quiet, RunActive,
         NEW a \in outside', polygon'[a[1]].by = a[2]
  PROVE  /\ a \in outside
         /\ \/ polygon[a[1]].by = a[2]
            \/ Writing /\ a[1] \in Sections /\ Merging /\ run.current[a[1]] = a[2]
  <1>1. a \in outside
    BY EditsGrow, UserEditsIs
  <1>2. /\ a[1] \in Items /\ ~IsRun(a[2]) /\ Numbered(a[2])
    BY <1>1 DEF Typed, UserNumbers
  <1>3. a[2] # Me
    BY <1>2, MeTyped, StampsAre DEF Typed
  <1>4. a[2] # By("user", counts.edits + 1)
    <2>1. counts.edits \in Nat /\ counts.edits + 1 \in Nat /\ ~(counts.edits + 1 <= counts.edits)
      BY DEF Typed
    <2>2. QED
      BY <1>2, <2>1 DEF Numbered, UpTo
  <1>5. QED
    BY <1>1, <1>2, <1>3, <1>4, StampsWritten

LEMMA OutsideNext ==
  ASSUME Typed, StagesAsked, StatementKept, RunSyncs, UserNumbers, OutsideHolds, [Next]_vars
  PROVE  OutsideHolds'
  <1> SUFFICES ASSUME Quiet', counts'.builds = 0
               PROVE  OutsideHolds'
    BY DEF OutsideHolds, OutsideIsKnown, OutsideIsAnnounced
  <1>0. Quiet /\ counts.builds = 0 /\ ~Claim("build")
    BY QuietHolds, BuildsStand
  <1>1. Told(snapshot)'
    <2>1. CASE UNCHANGED snapshot
      <3>1. \A a \in outside' : snapshot[a[1]].by = a[2] => a \in announced'
        BY <1>0, OutsideGrows DEF UserNumbers, OutsideHolds, OutsideIsKnown
      <3>2. QED
        BY <2>1, <3>1 DEF Told
    <2>2. ASSUME NEW t \in DOMAIN sync, StoreSnapshot(t)
          PROVE  Told(snapshot)'
      <3>1. snapshot' = sync[t].taken
        BY <2>2 DEF StoreSnapshot
      <3>2. QED
        BY <1>0, <2>2, <3>1, StoredIsTold DEF Told
    <2>3. QED
      BY <2>1, <2>2, SyncsAre
  <1>2. ASSUME RunActive', run'.pc # "opening"
        PROVE  Told(polygon)'
    <2>1. CASE RunActive /\ run.pc # "opening"
      <3>1. Told(polygon)
        BY <1>0, <2>1 DEF OutsideHolds, OutsideIsKnown
      <3>2. \A a \in outside' : polygon[a[1]].by = a[2] => a \in announced'
        BY <1>0, <3>1, OutsideGrows DEF UserNumbers
      <3>3. ASSUME NEW a \in outside', polygon'[a[1]].by = a[2]
            PROVE  a \in announced'
        <4>1. CASE polygon[a[1]].by = a[2]
          BY <3>2, <4>1
        <4>2. CASE a[1] \in Sections /\ Merging /\ run.current[a[1]] = a[2] /\ a \in outside
          <5>1. a = <<a[1], a[2]>> /\ a[1] \in Items
            BY <4>2 DEF Typed
          <5>2. Numbered(a[2])
            BY <1>0, <4>2 DEF UserNumbers
          <5>3. a \in announced
            BY <1>0, <4>2, <5>1 DEF OutsideHolds, OutsideIsKnown
          <5>4. QED
            BY <1>0, <3>3, <5>1, <5>2, <5>3, OutsideKept
        <4>3. QED
          BY <1>0, <2>1, <3>3, <4>1, <4>2, OutsideOnPolygon
      <3>4. QED
        BY <3>3 DEF Told
    <2>2. CASE StoreSnapshot("run") /\ run.pc = "opening"
      <3>1. /\ "run" \in DOMAIN sync /\ Taken("run") /\ UNCHANGED <<polygon, outside>>
        BY <2>2 DEF StoreSnapshot, Taken, Reading, Typed
      <3>2. \A a \in outside : polygon[a[1]].by = a[2] => sync["run"].taken[a[1]].by = a[2]
        BY <1>0, <3>1 DEF OutsideHolds, OutsideIsKnown
      <3>3. \A a \in outside' : sync["run"].taken[a[1]].by = a[2] => a \in announced'
        BY <1>0, <2>2, <3>1, StoredIsTold
      <3>4. QED
        BY <3>1, <3>2, <3>3 DEF Told
    <2>3. QED
      BY <1>0, <1>2, <2>1, <2>2, ActiveIs
  <1>3. ASSUME Merging', NEW s \in Sections
        PROVE  <<s, run'.current[s]>> \in outside' => <<s, run'.current[s]>> \in announced'
    <2>0. s \in Items
      BY ItemsAre
    <2>1. CASE Merging /\ UNCHANGED run
      BY <1>0, <2>0, <2>1, OutsideKept DEF UserNumbers, OutsideHolds, OutsideIsKnown
    <2>2. CASE ReadStatement /\ run'.current[s] = polygon[s].by
      <3>1. RunActive /\ run.pc # "opening"
        BY <2>2, ReadStatementIs DEF RunActive
      <3>2. \A a \in outside' : polygon[a[1]].by = a[2] => a \in announced'
        BY <1>0, <3>1, OutsideGrows DEF UserNumbers, OutsideHolds, OutsideIsKnown
      <3>3. QED
        BY <2>2, <3>2
    <2>3. QED
      BY <1>3, <2>1, <2>2, MergingIs
  <1>4. ASSUME NEW t \in DOMAIN sync'
        PROVE  /\ Reading(t)' /\ sync'[t].announce => Told(sync[t].previous)'
               /\ Taken(t)' /\ ~sync'[t].announce => Told(sync[t].taken)'
    <2>0. t \in DOMAIN sync
      BY SyncsAre
    <2>1. CASE sync'[t] = sync[t]
      <3>1. ASSUME Reading(t), sync[t].announce
            PROVE  \A a \in outside' : sync[t].previous[a[1]].by = a[2] => a \in announced'
        BY <1>0, <2>0, <3>1, OutsideGrows DEF UserNumbers, OutsideHolds, OutsideIsKnown
      <3>2. ASSUME Taken(t), ~sync[t].announce
            PROVE  \A a \in outside' : sync[t].taken[a[1]].by = a[2] => a \in announced'
        BY <1>0, <2>0, <3>2, OutsideGrows DEF UserNumbers, OutsideHolds, OutsideIsKnown
      <3>3. /\ Reading(t)' => Reading(t)
            /\ Taken(t)' => Taken(t)
        BY <2>0, <2>1 DEF Reading, Taken
      <3>4. QED
        BY <2>1, <3>1, <3>2, <3>3 DEF Told
    <2>2. CASE sync'[t] = NoSync
      BY <2>2, IdleRun DEF Taken, Reading
    <2>3. CASE Starts(t)
      <3>1. sync'[t].previous = snapshot /\ sync'[t].taken = None
        BY <2>3, BegunTyped DEF Starts
      <3>2. \A a \in outside' : snapshot[a[1]].by = a[2] => a \in announced'
        BY <1>0, OutsideGrows DEF UserNumbers, OutsideHolds, OutsideIsKnown
      <3>3. QED
        BY <3>1, <3>2 DEF Told, Taken
    <2>4. CASE ReadLists(t)
      <3>1. /\ Reading(t) /\ sync'[t].previous = sync[t].previous
            /\ sync'[t].announce = sync[t].announce /\ t \in Background \cup {"run"}
            /\ \A i \in Items : sync'[t].taken[i].by = polygon[i].by
        BY <2>0, <2>4, ReadListsIs DEF Quiet, Reading
      <3>2. ASSUME sync[t].announce
            PROVE  \A a \in outside' : sync[t].previous[a[1]].by = a[2] => a \in announced'
        BY <1>0, <2>0, <3>1, <3>2, OutsideGrows DEF UserNumbers, OutsideHolds, OutsideIsKnown
      <3>3. ASSUME ~sync[t].announce
            PROVE  \A a \in outside' : polygon[a[1]].by = a[2] => a \in announced'
        <4>1. RunActive /\ run.pc # "opening"
          BY <3>1, <3>3 DEF RunSyncs, Reading, RunActive, Syncing
        <4>2. QED
          BY <1>0, <4>1, OutsideGrows DEF UserNumbers, OutsideHolds, OutsideIsKnown
      <3>4. \A a \in outside' : a[1] \in Items
        <4>1. outside' = outside
          BY <2>4 DEF ReadLists
        <4>2. QED
          BY <4>1 DEF Typed
      <3>5. QED
        BY <3>1, <3>2, <3>3, <3>4 DEF Told
    <2>5. QED
      BY <2>0, <2>1, <2>2, <2>3, <2>4, SyncsAre
  <1>5. ASSUME Taken("run")', NEW a \in outside', polygon'[a[1]].by = a[2]
        PROVE  sync'["run"].taken[a[1]].by = a[2]
    <2>0. "run" \in DOMAIN sync
      BY DEF Typed
    <2>1. CASE sync'["run"] = sync["run"]
      <3>1. Taken("run") /\ RunActive /\ run.pc \in Syncing
        BY <1>5, <2>0, <2>1 DEF Taken, Reading, RunSyncs, RunActive, Syncing
      <3>2. ~Writing
        BY <3>1, WritesAre DEF Syncing
      <3>3. a \in outside /\ polygon[a[1]].by = a[2]
        BY <1>0, <1>5, <3>1, <3>2, OutsideOnPolygon
      <3>4. QED
        BY <1>0, <2>1, <3>1, <3>3 DEF OutsideHolds, OutsideIsKnown
    <2>2. CASE sync'["run"] = NoSync
      BY <1>5, <2>2, IdleRun DEF Taken, Reading
    <2>3. CASE Starts("run")
      BY <1>5, <2>3, BegunTyped DEF Starts, Taken
    <2>4. CASE ReadLists("run")
      <3>1. /\ UNCHANGED <<polygon, outside>>
            /\ \A i \in Items : sync'["run"].taken[i].by = polygon[i].by
        BY <2>0, <2>4, ReadListsIs DEF Quiet
      <3>2. a[1] \in Items
        BY <1>5, <3>1 DEF Typed
      <3>3. QED
        BY <1>5, <3>1, <3>2
    <2>5. QED
      BY <2>0, <2>1, <2>2, <2>3, <2>4, SyncsAre
  <1>6. OutsideIsKnown'
    BY <1>1, <1>2, <1>3, <1>4, <1>5 DEF OutsideIsKnown
  <1>7. OutsideIsAnnounced'
    BY <1>1 DEF OutsideIsAnnounced, Told
  <1>8. QED
    BY <1>6, <1>7 DEF OutsideHolds
-----------------------------------------------------------------------------
\* The main solution.
LEMMA MainInit == Init => MainStays
  <1> SUFFICES ASSUME Init
               PROVE  MainStays
    OBVIOUS
  <1>1. polygon["spare"].tag # "MA"
    BY ItemsAre, StampsAre DEF Init, Empty, Filled, Value, Absent
  <1>2. ~Reading("run")
    BY IdleRun DEF Init, Reading
  <1>3. run.pc = "none" /\ run.snap = None /\ ~run.stale
    BY IdleRun DEF Init
  <1>4. QED
    BY <1>1, <1>2, <1>3 DEF MainStays, Taken

\* Steps that leave the tags and what the run knows of them.
LEMMA MainKept ==
  ASSUME Typed, MainStays, Quiet, \A i \in Items : polygon'[i].tag = polygon[i].tag,
         Taken("run")' => SameTags(sync'["run"].taken),
         run'.snap = run.snap \/ run'.snap = None,
         run'.snap = None \/ (~run'.stale => ~run.stale), ~Demoting,
         run'.pc \in {"opening", "decide", "ask"} => ~run'.stale,
         run'.pc = "apply" => run.pc = "apply" /\ run'.todo \subseteq run.todo /\ run'.snap = run.snap
  PROVE  MainStays'
  <1>0. "spare" \in Items /\ Solutions \subseteq Items
    BY ItemsAre
  <1>1. polygon'["spare"].tag # "MA"
    BY <1>0 DEF MainStays
  <1>2. Taken("run")' => SameTags(sync["run"].taken)'
    BY DEF SameTags
  <1>3. ASSUME run'.snap # None
        PROVE  /\ ~run'.stale => SameTags(run.snap)'
               /\ HasMain(run'.snap) => HasMain(polygon')
    <2>1. run'.snap = run.snap /\ run.snap # None
      BY <1>3
    <2>2. ~run'.stale => SameTags(run.snap)
      BY <2>1 DEF MainStays
    <2>3. HasMain(run.snap) => HasMain(polygon)
      BY <2>1 DEF MainStays
    <2>4. QED
      BY <1>0, <2>1, <2>2, <2>3 DEF SameTags, HasMain
  <1>4. ASSUME run'.pc = "apply", NEW e \in run'.todo, e.item \in Solutions, polygon'[e.item].tag = "MA"
        PROVE  run'.snap[e.item].tag = "MA"
    BY <1>0, <1>4 DEF MainStays
  <1>5. HasMain(polygon') => HasMain(polygon)'
    BY DEF HasMain
  <1>6. HasMain(run.snap)' => HasMain(run'.snap)
    BY DEF HasMain
  <1>7. QED
    BY <1>1, <1>2, <1>3, <1>4, <1>5, <1>6 DEF MainStays

LEMMA NotDemoting ==
  ASSUME StatementKept, run.pc # "apply" \/ run.todo = {} \/ StatementEdits # {} \/ run.current = None
  PROVE  ~Demoting
  BY NothingMerged DEF Demoting

\* A demotion waits for the solution that takes its place.
LEMMA FilesWait ==
  ASSUME Typed, StatementKept, NEW e \in run.todo, SaveFile(e)
  PROVE  ~Demoting
  <1> SUFFICES ASSUME Demoting
               PROVE  FALSE
    OBVIOUS
  <1>1. /\ run.current \in run.todo /\ run.current.item \in Solutions
        /\ \A f \in run.todo : f.item # "generator"
    BY DEF Demoting, StatementKept, CurrentIs
  <1>2. e.item \in {"generator", "script"}
    <2>1. e \in Edits /\ e.item \notin Solutions \cup Sections
      BY DEF SaveFile, Typed, Runs
    <2>2. QED
      BY <2>1, ItemsAre DEF Edits, Solutions, Sections
  <1>3. e.item = "script"
    BY <1>1, <1>2
  <1>4. Rank("script") = 3 /\ Rank(run.current.item) = 2
    BY <1>1 DEF Rank, Solutions
  <1>5. Rank(run.current.item) >= Rank(e.item)
    BY <1>1 DEF SaveFile, IsNext
  <1>6. QED
    BY <1>3, <1>4, <1>5

LEMMA MainSyncs ==
  ASSUME Typed, StagesAsked, StatementKept, RunSyncs, MainStays, Quiet, Quiet', [Next]_vars
  PROVE  Taken("run")' =>
            \/ \A i \in Items : sync'["run"].taken[i].tag = polygon[i].tag
            \/ sync'["run"] = sync["run"]
  <1>0. "run" \in DOMAIN sync
    BY DEF Typed
  <1>1. CASE sync'["run"] = NoSync \/ Starts("run")
    BY <1>1, IdleRun, BegunTyped DEF Taken, Reading, Starts
  <1>2. CASE ReadLists("run")
    BY <1>0, <1>2, ReadListsIs DEF Quiet
  <1>3. QED
    BY <1>0, <1>1, <1>2, SyncsAre

LEMMA TakenStands ==
  ASSUME Typed, StagesAsked, StatementKept, RunSyncs, MainStays, Quiet, Quiet', [Next]_vars,
         \A i \in Items : polygon'[i].tag = polygon[i].tag
  PROVE  Taken("run")' => SameTags(sync'["run"].taken)
  <1> SUFFICES ASSUME Taken("run")'
               PROVE  SameTags(sync'["run"].taken)
    OBVIOUS
  <1>1. CASE sync'["run"] = sync["run"]
    <2>1. Taken("run")
      BY <1>1 DEF Taken, Reading, Typed
    <2>2. QED
      BY <1>1, <2>1 DEF MainStays
  <1>2. CASE \A i \in Items : sync'["run"].taken[i].tag = polygon[i].tag
    BY <1>2 DEF SameTags
  <1>3. QED
    BY <1>1, <1>2, MainSyncs
-----------------------------------------------------------------------------
LEMMA MainSynced ==
  ASSUME Typed, StagesAsked, StatementKept, RunSyncs, MainStays, Quiet, Quiet', [Next]_vars,
         StoreSnapshot("run")
  PROVE  MainStays'
  <1>1. /\ "run" \in DOMAIN sync /\ UNCHANGED <<polygon, counts>> /\ Taken("run")
        /\ run.pc \in Syncing /\ sync'["run"] = NoSync
    BY StoreSnapshotIs DEF StoreSnapshot, Typed, Taken, Reading
  <1>2. SameTags(sync["run"].taken) /\ polygon["spare"].tag # "MA" /\ ~Taken("run")'
    BY <1>1, IdleRun DEF MainStays, Taken, Reading
  <1>3. CASE run.pc = "closing"
    <2>1. run' = NoRun
      BY <1>1, <1>3, StoreSnapshotIs
    <2>2. run'.pc = "none" /\ run'.snap = None
      BY <2>1, IdleRun
    <2>3. QED
      BY <1>1, <1>2, <2>2 DEF MainStays
  <1>4. CASE run.pc \in {"opening", "resync"}
    <2>1. /\ run'.pc \in {"decide", "ask"} /\ run'.snap = sync["run"].taken
          /\ run'.stale = (IF run.pc = "opening" THEN run.stale ELSE FALSE)
      BY <1>1, <1>4, StoreSnapshotIs
    <2>2. ~run'.stale
      BY <1>4, <2>1 DEF MainStays
    <2>3. SameTags(run.snap)'
      BY <1>1, <1>2, <2>1 DEF SameTags
    <2>4. HasMain(run.snap)' => HasMain(polygon)'
      BY <2>3, ItemsAre DEF SameTags, HasMain
    <2>5. QED
      BY <1>1, <1>2, <2>1, <2>2, <2>3, <2>4 DEF MainStays
  <1>5. QED
    BY <1>1, <1>3, <1>4 DEF Syncing

LEMMA MainDemoted ==
  ASSUME Typed, StagesAsked, StatementKept, RunSyncs, MainStays, Quiet, Quiet',
         NEW e \in run.todo, Demote(e)
  PROVE  MainStays'
  <1>1. /\ Demoted(e) \subseteq Solutions /\ e \in Edits
        /\ \A i \in Items \ Demoted(e) : polygon'[i] = polygon[i]
        /\ \A i \in Demoted(e) : polygon'[i] = Value(Me, "OK")
        /\ run'.pc = "apply" /\ run'.todo = run.todo /\ run'.current = e /\ run'.snap = run.snap
        /\ run'.stale
    <2>1. ~Failure
      BY FailureShows
    <2>2. Smooth \/ Failure
      BY DemoteIs
    <2>3. Succeeded
      BY <2>1, <2>2 DEF Smooth, Succeeded
    <2>4. QED
      BY <2>1, <2>3, DemoteIs
  <1>2. /\ StatementEdits = {} /\ run.pc = "apply" /\ sync' = sync
    BY DEF Demote, IsNext
  <1>3. \A i \in Items : polygon'[i].tag = "MA" => polygon[i].tag = "MA"
    <2>1. Value(Me, "OK").tag # "MA"
      BY DEF Value
    <2>2. QED
      BY <1>1, <2>1
  <1>4. e # None
    <2>1. e = [item |-> e.item, tag |-> e.tag] /\ e.item \in Items /\ e.tag \in Tags
      BY <1>1 DEF Edits
    <2>2. QED
      BY <2>1, ValueAssumption DEF Tags
  <1>5. Demoting'
    BY <1>1, <1>2, <1>4 DEF Demoting, StatementEdits
  <1>6. ~Taken("run")'
    BY <1>2 DEF RunSyncs, Syncing, Taken, Reading
  <1>7. polygon'["spare"].tag # "MA"
    BY <1>3, ItemsAre DEF MainStays
  <1>8. \A f \in run'.todo : f.item \in Solutions =>
           (polygon'[f.item].tag = "MA" => run'.snap[f.item].tag = "MA")
    <2> SUFFICES ASSUME NEW f \in run'.todo, f.item \in Solutions, polygon'[f.item].tag = "MA"
                 PROVE  run'.snap[f.item].tag = "MA"
      OBVIOUS
    <2>1. f \in run.todo /\ f.item \in Items
      BY <1>1, ItemsAre
    <2>2. polygon[f.item].tag = "MA"
      BY <1>3, <2>1
    <2>3. run.snap[f.item].tag = "MA"
      BY <1>2, <2>1, <2>2 DEF MainStays
    <2>4. QED
      BY <1>1, <2>3
  <1>9. QED
    BY <1>1, <1>5, <1>6, <1>7, <1>8 DEF MainStays

LEMMA MainSaved ==
  ASSUME Typed, StagesAsked, StatementKept, RunSyncs, MainStays, Quiet, Quiet',
         NEW e \in run.todo, SaveSolution(e)
  PROVE  MainStays'
  <1> DEFINE p == Placed(e)
  <1>1. /\ e.item \in Solutions /\ e \in Edits /\ p.item \in Solutions /\ p.item \in Items
        /\ \A i \in Items \ {p.item} : polygon'[i] = polygon[i]
        /\ run'.pc = "apply" /\ run'.todo = Rest(e.item) /\ run'.current = None /\ run'.snap = run.snap
        /\ run'.stale = run.stale \/ run'.stale
        /\ ~Refused(p) => run'.stale /\ polygon'[p.item] = Value(Me, p.tag)
    BY SaveSolutionIs, FailureShows DEF Quiet
  <1>2. /\ run.pc = "apply" /\ sync' = sync /\ StatementEdits = {}
        /\ run.current = (IF Demoted(e) = {} THEN None ELSE e)
        /\ Refused(p) => UNCHANGED polygon
    BY DEF SaveSolution, IsNext
  <1>3. run.snap # None
    BY <1>2 DEF StagesAsked
  <1>4. /\ e.item # "spare"
        /\ p.item # e.item => p.item = "spare" /\ p.tag # "MA"
        /\ p.item = e.item => run.snap[e.item].tag # "MA" \/ p.tag = "MA"
    BY <1>1, <1>3, PlacedIs
  <1>5. ~Taken("run")'
    BY <1>2 DEF RunSyncs, Syncing, Taken, Reading
  <1>6. Value(Me, p.tag).tag = p.tag
    BY DEF Value
  <1>7. p.tag # "MA" => Demoted(e) = {}
    BY DEF Demoted
  <1> HIDE DEF p
  <1>8. polygon'["spare"].tag # "MA"
    <2>1. polygon["spare"].tag # "MA" /\ "spare" \in Items
      BY ItemsAre DEF MainStays
    <2>2. QED
      BY <1>1, <1>2, <1>4, <1>6, <2>1
  <1>9. \A f \in run'.todo : f.item \in Solutions =>
           (polygon'[f.item].tag = "MA" => run'.snap[f.item].tag = "MA")
    <2> SUFFICES ASSUME NEW f \in run'.todo, f.item \in Solutions, polygon'[f.item].tag = "MA"
                 PROVE  run.snap[f.item].tag = "MA"
      BY <1>1
    <2>1. f \in run.todo /\ f.item # e.item
      BY <1>1 DEF Rest
    <2>2. f.item \in Items /\ f.item # "spare"
      BY <2>1 DEF Typed, Runs, Edits
    <2>3. polygon'[f.item] = polygon[f.item]
      BY <1>1, <1>4, <2>1, <2>2
    <2>4. QED
      BY <1>2, <2>1, <2>3 DEF MainStays
  <1>10. HasMain(run.snap) => HasMain(polygon')
    <2> SUFFICES ASSUME HasMain(run.snap)
                 PROVE  HasMain(polygon')
      OBVIOUS
    <2>1. CASE Refused(p)
      <3>1. \E i \in Solutions : polygon[i].tag = "MA"
        BY <2>1 DEF Refused
      <3>2. QED
        BY <1>2, <2>1, <3>1 DEF HasMain
    <2>2. CASE ~Refused(p) /\ p.tag = "MA"
      BY <1>1, <1>6, <2>2 DEF HasMain
    <2>3. CASE ~Refused(p) /\ p.tag # "MA"
      <3>1. ~Demoting
        BY <1>2, <1>7, <2>3, NotDemoting
      <3>2. HasMain(polygon)
        BY <1>3, <3>1 DEF MainStays
      <3>3. PICK i \in Solutions : polygon[i].tag = "MA"
        BY <3>2 DEF HasMain
      <3>4. i # p.item
        <4>1. CASE p.item = e.item
          <5>1. polygon[e.item].tag = "MA" => run.snap[e.item].tag = "MA"
            BY <1>1, <1>2 DEF MainStays
          <5>2. QED
            BY <1>4, <2>3, <3>3, <4>1, <5>1
        <4>2. CASE p.item # e.item
          BY <1>4, <3>3, <4>2 DEF MainStays
        <4>3. QED
          BY <4>1, <4>2
      <3>5. polygon'[i] = polygon[i]
        BY <1>1, <3>4, ItemsAre
      <3>6. QED
        BY <3>3, <3>5 DEF HasMain
    <2>4. QED
      BY <2>1, <2>2, <2>3
  <1>11. ~run'.stale => SameTags(run.snap)'
    <2> SUFFICES ASSUME ~run'.stale
                 PROVE  SameTags(run.snap)'
      OBVIOUS
    <2>1. Refused(p) /\ ~run.stale
      BY <1>1
    <2>2. SameTags(run.snap)
      BY <1>3, <2>1 DEF MainStays
    <2>3. QED
      BY <1>1, <1>2, <2>1, <2>2 DEF SameTags
  <1>12. HasMain(run.snap)' => HasMain(polygon)'
    BY <1>1, <1>10 DEF HasMain
  <1>13. QED
    BY <1>1, <1>5, <1>8, <1>9, <1>11, <1>12 DEF MainStays

LEMMA MainNext ==
  ASSUME Typed, StagesAsked, StatementKept, RunSyncs, MainStays, [Next]_vars
  PROVE  MainStays'
  <1> SUFFICES ASSUME Quiet'
               PROVE  MainStays'
    BY DEF MainStays
  <1>0. Quiet
    BY QuietHolds
  <1>1. ASSUME UNCHANGED <<polygon, run>>
        PROVE  MainStays'
    <2>1. Taken("run")' => SameTags(sync'["run"].taken)
      BY <1>0, <1>1, TakenStands
    <2>2. HasMain(run.snap)' <=> HasMain(run.snap)
      BY <1>1
    <2>3. (Demoting' <=> Demoting) /\ (HasMain(polygon)' <=> HasMain(polygon))
      BY <1>1 DEF Demoting, StatementEdits
    <2>4. QED
      BY <1>0, <1>1, <2>1, <2>2, <2>3 DEF MainStays, SameTags
  <1>2. ASSUME NEW i \in UserItems, UserEdits(i)
        PROVE  MainStays'
    <2>1. /\ \A j \in Items : polygon'[j].tag = polygon[j].tag
          /\ run' = run
      BY <1>2, UserEditsIs
    <2>2. Taken("run")' => SameTags(sync'["run"].taken)
      BY <1>0, <2>1, TakenStands
    <2>3. (Demoting' <=> Demoting) /\ (HasMain(polygon)' <=> HasMain(polygon))
      BY <2>1, ItemsAre DEF Demoting, StatementEdits, HasMain
    <2>4. \A e \in run.todo : e.item \in Items
      BY DEF Typed, Runs, Edits
    <2>5. HasMain(run.snap)' <=> HasMain(run.snap)
      BY <2>1
    <2>6. QED
      BY <1>0, <2>1, <2>2, <2>3, <2>4, <2>5, ItemsAre DEF MainStays, SameTags
  <1>3. CASE Moving
    <2>1. Moves
      BY <1>3, MovesAre
    <2>2. \A i \in Items : polygon'[i].tag = polygon[i].tag
      BY <2>1 DEF Moves
    <2>3. Taken("run")' => SameTags(sync'["run"].taken)
      BY <1>0, <2>2, TakenStands
    <2>4. ~Demoting
      BY <1>3, NotDemoting, BeginStageIs, AskModelIs, ReadStatementIs, EndStageIs, StorePlanIs
         DEF Moving, Conclude
    <2>5. CASE run' = NoRun
      BY <1>0, <2>2, <2>3, <2>4, <2>5, IdleRun, MainKept
    <2>6. CASE run'.pc \in {"closing", "resync", "stage", "direct"} /\ run' # NoRun
      BY <1>0, <2>1, <2>2, <2>3, <2>4, <2>6, MainKept DEF Moves
    <2>7. CASE run'.pc = "ask" /\ run' # NoRun
      <3>1. run'.snap = run.snap /\ run'.stale = run.stale
        BY <2>1, <2>7 DEF Moves
      <3>2. BeginStage
        BY <1>3, <2>7, AskModelIs, ClosesIs, ReadStatementIs, EndStageIs, StorePlanIs DEF Moving, Conclude
      <3>3. ~run.stale
        BY <2>7, <3>2, BeginStageIs, ClosesIs DEF Fails
      <3>4. QED
        BY <1>0, <2>2, <2>3, <2>4, <2>7, <3>1, <3>3, MainKept
    <2>8. CASE run'.pc = "apply" /\ run' # NoRun
      <3>1. run'.snap = run.snap /\ run'.stale = run.stale
        BY <2>1, <2>8 DEF Moves
      <3>2. AskModel \/ ReadStatement
        BY <1>3, <2>8, BeginStageIs, ClosesIs, EndStageIs, StorePlanIs DEF Moving, Conclude, Fails
      <3>3. CASE ReadStatement
        <4>1. run.pc = "apply" /\ run'.todo \subseteq run.todo
          BY <3>3, ReadStatementIs
        <4>2. QED
          BY <1>0, <2>2, <2>3, <2>4, <2>8, <3>1, <4>1, MainKept
      <3>4. CASE AskModel
        <4>1. run.pc = "ask" /\ run.snap # None /\ ~run.stale
          BY <1>0, <3>4, AskModelIs DEF MainStays, StagesAsked
        <4>2. SameTags(run.snap) /\ (HasMain(run.snap) => HasMain(polygon)) /\ polygon["spare"].tag # "MA"
          BY <1>0, <2>4, <4>1 DEF MainStays
        <4>3. SameTags(run.snap)' /\ (HasMain(run.snap)' => HasMain(polygon)')
              /\ polygon'["spare"].tag # "MA"
          BY <2>2, <3>1, <4>2, ItemsAre DEF SameTags, HasMain
        <4>4. \A e \in run'.todo : e.item \in Items
          <5>1. Typed'
            BY TypedNext
          <5>2. QED
            BY <5>1 DEF Typed, Runs, Edits
        <4>5. \A e \in run'.todo : polygon'[e.item].tag = run'.snap[e.item].tag
          BY <4>3, <4>4 DEF SameTags
        <4>6. Taken("run")' => SameTags(sync["run"].taken)'
          BY <2>2, <2>3 DEF SameTags
        <4>7. QED
          BY <2>8, <4>3, <4>5, <4>6 DEF MainStays
      <3>5. QED
        BY <3>2, <3>3, <3>4
    <2>9. QED
      BY <2>1, <2>5, <2>6, <2>7, <2>8 DEF Moves, BeginsSync, Working
  <1>4. CASE Decide
    <2>1. /\ run.pc = "decide" /\ UNCHANGED polygon /\ ~run.stale
      BY <1>0, <1>4, DecideIs DEF MainStays
    <2>2. Taken("run")' => SameTags(sync'["run"].taken)
      BY <1>0, <2>1, TakenStands
    <2>3. ~Demoting
      BY <2>1, NotDemoting
    <2>4. /\ run'.snap = run.snap \/ run'.snap = None
          /\ ~run'.stale /\ run'.pc # "apply"
      BY <1>4, <2>1, DecideIs, IdleRun, ClosesIs DEF Reopened, Decided
    <2>5. QED
      BY <1>0, <2>1, <2>2, <2>3, <2>4, MainKept
  <1>5. ASSUME NEW k \in {"chat", "groups", "generate", "build"}, Claim(k)
        PROVE  MainStays'
    <2>1. /\ UNCHANGED polygon /\ run'.snap = None /\ ~run'.stale /\ run'.pc \in {"opening", "decide"}
      BY <1>5, ClaimIs DEF Claim
    <2>2. Taken("run")' => SameTags(sync'["run"].taken)
      BY <1>0, <2>1, TakenStands
    <2>3. ~Demoting
      BY <1>5, NotDemoting DEF Claim, RunActive
    <2>5. Taken("run")' => SameTags(sync["run"].taken)'
      BY <2>1, <2>2 DEF SameTags
    <2>6. QED
      BY <1>0, <2>1, <2>5 DEF MainStays
  <1>6. ASSUME \A i \in Items : polygon'[i].tag = polygon[i].tag, ~Demoting, Writing
        PROVE  MainStays'
    <2>1. /\ run'.pc \in {"apply", "stage"} /\ run'.snap = run.snap
          /\ run'.stale = run.stale \/ run'.stale
      BY <1>6, WritesAre DEF Quiet
    <2>2. Taken("run")' => SameTags(sync'["run"].taken)
      BY <1>0, <1>6, TakenStands
    <2>3. run'.pc = "apply" => run.pc = "apply" /\ run'.todo \subseteq run.todo
      <3>1. CASE SetupTestset
        BY <3>1, SetupTestsetIs, ClosesIs DEF Fails
      <3>2. CASE ~SetupTestset
        BY <1>6, <3>2, AppliesIs DEF Writing, Applying
      <3>3. QED
        BY <3>1, <3>2
    <2>4. QED
      BY <1>0, <1>6, <2>1, <2>2, <2>3, MainKept
  <1>7. CASE SaveStatement
    <2>1. \A i \in Items : polygon'[i].tag = polygon[i].tag
      BY <1>7, SaveStatementIs
    <2>2. ~Demoting
      BY <1>7, NotDemoting DEF SaveStatement
    <2>3. QED
      BY <1>6, <1>7, <2>1, <2>2 DEF Writing
  <1>8. CASE SetupTestset
    <2>1. \A i \in Items : polygon'[i].tag = polygon[i].tag
      <3>1. /\ \A j \in Items \ {run.stages[1]} : polygon'[j] = polygon[j]
            /\ polygon'[run.stages[1]].tag = polygon[run.stages[1]].tag
        BY <1>8, SetupTestsetIs
      <3>2. QED
        BY <3>1
    <2>2. ~Demoting
      BY <1>8, NotDemoting, SetupTestsetIs
    <2>3. QED
      BY <1>6, <1>8, <2>1, <2>2 DEF Writing
  <1>9. ASSUME NEW e \in run.todo, SaveFile(e)
        PROVE  MainStays'
    <2>1. \A i \in Items : polygon'[i].tag = polygon[i].tag
      <3>1. /\ \A i \in Items \ {e.item} : polygon'[i] = polygon[i]
            /\ polygon'[e.item].tag = polygon[e.item].tag
        BY <1>9, SaveFileIs
      <3>2. QED
        BY <3>1
    <2>2. ~Demoting
      BY <1>9, FilesWait
    <2>3. QED
      BY <1>6, <1>9, <2>1, <2>2 DEF Writing
  <1>10. ASSUME NEW t \in DOMAIN sync, ReadLists(t) \/ StoreSnapshot(t) \/ SyncFails(t)
         PROVE  MainStays'
    <2>1. CASE StoreSnapshot("run")
      BY <1>0, <2>1, MainSynced
    <2>2. CASE StoreSnapshot(t) /\ t # "run"
      BY <1>1, <2>2, StoreSnapshotIs
    <2>3. CASE ReadLists(t)
      BY <1>1, <2>3, ReadListsIs
    <2>4. CASE SyncFails(t)
      BY <2>4, SyncFailsIs DEF Quiet
    <2>5. QED
      BY <1>10, <2>1, <2>2, <2>3, <2>4
  <1>11. CASE Next
    BY <1>0, <1>1, <1>2, <1>3, <1>4, <1>5, <1>7, <1>8, <1>9, <1>10, <1>11, MainDemoted, MainSaved, NextIs
       DEF Moving, BeginBackground
  <1>12. QED
    BY <1>1, <1>11 DEF vars
-----------------------------------------------------------------------------
\* A run that is over has left the problem a main solution, if it found one.
LEMMA MainStep ==
  ASSUME Typed, StagesAsked, StatementKept, RunSyncs, MainStays, [Next]_vars
  PROVE  MainIsKept
  <1> SUFFICES ASSUME RunActive, ~RunActive', Quiet', run.snap # None, HasMain(run.snap)
               PROVE  HasMain(polygon')
    BY DEF MainIsKept, Quiet
  <1>0. Quiet /\ run.pc # "none" /\ run'.pc = "none"
    BY QuietHolds DEF RunActive
  <1>1. ASSUME UNCHANGED polygon, ~Demoting
        PROVE  HasMain(polygon')
    BY <1>0, <1>1 DEF MainStays, HasMain
  <1>2. CASE Moving
    <2>1. ~Demoting
      BY <1>2, NotDemoting, BeginStageIs, AskModelIs, ReadStatementIs, EndStageIs, StorePlanIs
         DEF Moving, Conclude
    <2>2. QED
      BY <1>1, <1>2, <2>1, MovesAre DEF Moves
  <1>3. CASE Writing
    BY <1>0, <1>3, WritesAre DEF Quiet
  <1>4. CASE Decide
    BY <1>1, <1>4, NotDemoting, DecideIs
  <1>5. ASSUME NEW t \in DOMAIN sync, StoreSnapshot(t)
        PROVE  HasMain(polygon')
    <2>1. t = "run"
      BY <1>0, <1>5, StoreSnapshotIs
    <2>2. UNCHANGED polygon /\ run.pc \in Syncing
      BY <1>5, <2>1, StoreSnapshotIs
    <2>3. ~Demoting
      BY <2>2, NotDemoting DEF Syncing
    <2>4. QED
      BY <1>1, <2>2, <2>3
  <1>6. ASSUME NEW t \in DOMAIN sync, SyncFails(t)
        PROVE  FALSE
    BY <1>6, SyncFailsIs DEF Quiet
  <1>7. CASE UNCHANGED run
    BY <1>0, <1>7
  <1>8. ASSUME NEW k \in {"chat", "groups", "generate", "build"}, Claim(k)
        PROVE  FALSE
    BY <1>0, <1>8 DEF Claim, RunActive
  <1>9. ASSUME NEW i \in UserItems, UserEdits(i)
        PROVE  UNCHANGED run
    BY <1>9 DEF UserEdits
  <1>10. ASSUME NEW t, ReadLists(t) \/ BeginBackground(t)
         PROVE  UNCHANGED run
    BY <1>10 DEF ReadLists, BeginBackground
  <1>11. CASE Next
    BY <1>2, <1>3, <1>4, <1>5, <1>6, <1>7, <1>8, <1>9, <1>10, <1>11, NextIs DEF Moving, Writing
  <1>12. QED
    BY <1>7, <1>11 DEF vars
-----------------------------------------------------------------------------
\* What every step leaves as it was, together.
Known == Typed /\ StagesAsked /\ StatementKept /\ RunSyncs
Whole == Known /\ OwnHolds /\ UserNumbers /\ OutsideHolds /\ MainStays

LEMMA WholeInit == Init => Whole
  BY TypedInit, StagesInit, KeptInit, SyncsInit, OwnInit, NumbersInit, OutsideInit, MainInit DEF Whole, Known

LEMMA WholeNext == Whole /\ [Next]_vars => Whole'
  <1> SUFFICES ASSUME Whole, [Next]_vars
               PROVE  Whole'
    OBVIOUS
  <1>1. /\ Typed /\ StagesAsked /\ StatementKept /\ RunSyncs /\ OwnHolds /\ UserNumbers /\ OutsideHolds
        /\ MainStays
    BY DEF Whole, Known
  <1>2. Typed'
    BY <1>1, TypedNext
  <1>3. StagesAsked'
    BY <1>1, StagesNext
  <1>4. StatementKept'
    BY <1>1, KeptNext
  <1>5. RunSyncs'
    BY <1>1, SyncsNext
  <1>6. OwnHolds'
    BY <1>1, OwnNext
  <1>7. UserNumbers'
    BY <1>1, NumbersNext
  <1>8. OutsideHolds'
    BY <1>1, OutsideNext
  <1>9. MainStays'
    BY <1>1, MainNext
  <1>10. QED
    BY <1>2, <1>3, <1>4, <1>5, <1>6, <1>7, <1>8, <1>9 DEF Whole, Known

LEMMA WholeAlways == Spec => []Whole
  BY WholeInit, WholeNext, PTL DEF Spec

(* The events of a problem are the changes made outside the service: what a  *)
(* run wrote is never told as a change behind its back, and what the user    *)
(* changed while nothing ran is told once the snapshot has it, as long as no *)
(* call failed, no sync was met and no build ran (sync_session).             *)
THEOREM EventsAreOutside == Spec => []ChangesAreTold
  <1>1. Whole => ChangesAreTold
    BY DEF Whole, OwnHolds, OutsideHolds, ChangesAreTold
  <1>2. QED
    BY <1>1, WholeAlways, PTL

(* No run blanks a section of the statement or leaves a problem without the  *)
(* main solution it found (apply.py).                                        *)
THEOREM RunsLoseNothing == Spec => NothingIsLost
  <1>1. Whole /\ [Next]_vars => [StatementNeverBlanked /\ MainIsKept]_vars
    <2> SUFFICES ASSUME Whole, Next
                 PROVE  StatementNeverBlanked /\ MainIsKept
      OBVIOUS
    <2>1. Typed /\ StagesAsked /\ StatementKept /\ RunSyncs /\ MainStays
      BY DEF Whole, Known
    <2>2. StatementNeverBlanked
      BY <2>1, NeverBlanked
    <2>3. MainIsKept
      BY <2>1, MainStep
    <2>4. QED
      BY <2>2, <2>3
  <1>2. QED
    BY <1>1, WholeAlways, PTL DEF Spec, NothingIsLost

(* A run changes on Polygon only what it was asked to change, and without a  *)
(* plan of groups what cannot live without that (allowed_targets,            *)
(* with_companions).                                                         *)
THEOREM RunsChangeWhatWasAsked == Spec => OnlyAskedIsChanged
  <1> DEFINE StaysAsked == \A i \in Items : polygon'[i] # polygon[i] /\ polygon'[i].by = Me =>
                         TargetOf(i) \in asks[counts.runs]
                            \cup (IF HasPlan THEN {} ELSE Companions(asks[counts.runs]))
  <1>1. Whole /\ [Next]_vars => [StaysAsked]_vars
    <2> SUFFICES ASSUME Whole, Next
                 PROVE  StaysAsked
      BY DEF vars
    <2>1. Typed /\ StagesAsked /\ StatementKept
      BY DEF Whole, Known
    <2>2. QED
      BY <2>1, AskedStep DEF Permitted
  <1> HIDE DEF StaysAsked
  <1>2. Spec => [][StaysAsked]_vars
    BY <1>1, WholeAlways, PTL DEF Spec
  <1>3. QED
    BY <1>2 DEF OnlyAskedIsChanged, StaysAsked
=============================================================================
