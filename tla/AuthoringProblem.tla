--------------------------- MODULE AuthoringProblem ---------------------------
(* One problem of AI authoring: what a run writes to Polygon, the snapshot   *)
(* the service keeps of it, and the syncs that tell the user what changed    *)
(* there behind the service's back.  Runs of a problem follow one another    *)
(* (AuthoringRuns); syncs of the scheduler and of the user do not wait.      *)
EXTENDS TestPlan

CONSTANTS
    Background,     \* syncs outside of runs that may be under way at once
    MaxRuns,        \* bound: runs of the problem
    UserItems,      \* bound: what the user changes there
    Meets,          \* bound: the runs, by number and kind, begun during a background sync
    MaxEdits,       \* bound: edits in one answer of the model; one in a run that met a sync
    MaxFailures,    \* bound: failed calls and cancelled runs, with the user's changes
    None

ASSUME ProblemAssumption ==
    /\ MaxRuns \in Nat
    /\ MaxEdits \in Nat \ {0} /\ MaxFailures \in Nat
    /\ "run" \notin Background /\ UserItems # {}

VARIABLES
    polygon,    \* the problem on Polygon: who wrote each item, a solution's tag
    snapshot,   \* the stored snapshot of it
    sync,       \* the sync of the run and of each background one
    run,        \* the run being executed
    plan,       \* settings.groups_plan: the run that stored it, with groups or not
    asks,       \* what each run was asked to change
    announced,  \* history: changes that became events
    outside,    \* history: changes of the user while no run was active
    counts,     \* runs, builds, edits and failures so far
    overlapped  \* history: a run began during a background sync

vars == <<polygon, snapshot, sync, run, plan, asks, announced, outside, counts, overlapped>>

Sections == {"legend", "scoring"}
Solutions == {"main", "extra", "spare"}     \* spare: the names made up for new files
\* Generators stand for the other files too, whose stages are left out.
Files == Solutions \cup {"generator"}
Items == Sections \cup Files \cup {"script", "tests"}
Calls == {"statements", "files", "testset"}
ItemsOf(call) == CASE call = "statements" -> Sections
                   [] call = "files"      -> Files
                   [] call = "testset"    -> {"script", "tests"}
TargetOf(i) == IF i \in Sections THEN "statement" ELSE IF i \in Solutions THEN "solution"
               ELSE IF i = "tests" THEN "groups" ELSE i
Targets == {TargetOf(i) : i \in Items}

Old == <<"before", 0>>
By(kind, n) == <<kind, n>>
Value(by, tag) == [by |-> by, tag |-> tag]
Absent == Value(None, None)
Seen(value, read) == [by |-> value.by, tag |-> value.tag, read |-> read]

NoSync == [pc |-> "none", announce |-> FALSE, previous |-> None, taken |-> None]
NoRun == [pc |-> "none", kind |-> None, stages |-> <<>>, todo |-> {}, allowed |-> {},
          current |-> None, snap |-> None, stale |-> FALSE, changed |-> FALSE, erred |-> FALSE]

Me == By("run", counts.runs)
RunActive == run.pc # "none"
Failure == counts.failures + counts.edits < MaxFailures /\ counts' = [counts EXCEPT !.failures = @ + 1]
Smooth == UNCHANGED counts
GoRun(pc) == run' = [run EXCEPT !.pc = pc]

\* The user changes items of the problem; None is no writer, no tag and no edit.
ASSUME ValueAssumption ==
    /\ UserItems \subseteq Items
    /\ None \notin {"MA", "TL", "TO", "OK"} /\ None # Old /\ None \notin {"run", "user"} \X Nat
    /\ \A i \in Items, t \in {None, "MA", "TL", "TO", "OK"} : None # [item |-> i, tag |-> t]

-----------------------------------------------------------------------------
(* A sync: the problem's lists read in any order, then the snapshot stored.  *)

Begun(t, announce) ==
    [pc |-> "read", announce |-> announce, previous |-> snapshot, taken |-> None]

(* A source is fetched unless the one before has its time and length; a      *)
(* source that cannot be fetched stays without content.                      *)
Fetched(i) == Seen(polygon[i], polygon[i] # Absent)
Unfetched(t, i) ==
    LET old == sync[t].previous[i]
    IN  Seen(polygon[i], polygon[i] # Absent /\ old.by = polygon[i].by /\ old.read)

(* A list that cannot be read is taken for an empty one.  The lists are read *)
(* at one moment here: with a single change beside them the order is lost.   *)
ReadLists(t) ==
    /\ sync[t].pc = "read" /\ sync[t].taken = None
    /\ \E failed \in {{}} \cup {{c} : c \in Calls}, fetches \in BOOLEAN :
         /\ IF failed = {} /\ fetches THEN Smooth ELSE Failure
         /\ sync' = [sync EXCEPT ![t].taken =
              [i \in Items |-> IF \E c \in failed : i \in ItemsOf(c) THEN Seen(Absent, FALSE)
                               ELSE IF fetches THEN Fetched(i) ELSE Unfetched(t, i)]]
    /\ UNCHANGED <<polygon, snapshot, run, plan, asks, announced, outside, overlapped>>

Changes(old, new) == {i \in Items : old[i].by # new[i].by \/ old[i].tag # new[i].tag}

(* Where the run goes on after a sync of its own.                            *)
After(r, taken) ==
    CASE r.pc = "opening" -> [r EXCEPT !.snap = taken, !.pc = "decide"]
      [] r.pc = "resync"  -> [r EXCEPT !.snap = taken, !.stale = FALSE, !.pc = "ask"]
      [] r.pc = "closing" -> NoRun
      [] OTHER            -> r

\* Mutant: every sync becomes an event.
StoreSnapshotAnnounced(t) ==
    LET s == sync[t] IN
    /\ s.pc = "read" /\ s.taken # None
    /\ snapshot' = s.taken
    /\ announced' = announced \cup {<<i, s.taken[i].by>> : i \in Changes(s.previous, s.taken)}
    /\ sync' = [sync EXCEPT ![t] = NoSync]
    /\ run' = IF t = "run" THEN After(run, s.taken) ELSE run
    /\ UNCHANGED <<polygon, plan, asks, outside, counts, overlapped>>

(* sync_session: the differences from the row read at the beginning become   *)
(* an event when the sync announces; the row is written over.                *)
StoreSnapshot(t) ==
    LET s == sync[t] IN
    /\ s.pc = "read" /\ s.taken # None
    /\ snapshot' = s.taken
    /\ announced' = IF s.announce
                    THEN announced \cup {<<i, s.taken[i].by>> : i \in Changes(s.previous, s.taken)}
                    ELSE announced
    /\ sync' = [sync EXCEPT ![t] = NoSync]
    /\ run' = IF t = "run" THEN After(run, s.taken) ELSE run
    /\ UNCHANGED <<polygon, plan, asks, outside, counts, overlapped>>

(* The problem cannot be read at all, or the scheduler's time is up.  A run  *)
(* fails with it; the sync at its end is a best effort.                      *)
SyncFails(t) ==
    /\ sync[t].pc = "read" /\ sync[t].taken = None /\ Failure
    /\ IF t = "run" /\ run.pc # "closing"
       THEN GoRun("closing") /\ sync' = [sync EXCEPT ![t] = Begun(t, FALSE)]
       ELSE /\ sync' = [sync EXCEPT ![t] = NoSync]
            /\ run' = IF t = "run" THEN NoRun ELSE run
    /\ UNCHANGED <<polygon, snapshot, plan, asks, announced, outside, overlapped>>

(* The scheduler and the sync route ask for active runs first.               *)
BeginBackground(t) ==
    /\ ~RunActive /\ sync[t].pc = "none"
    /\ sync' = [sync EXCEPT ![t] = Begun(t, TRUE)]
    /\ UNCHANGED <<polygon, snapshot, run, plan, asks, announced, outside, counts, overlapped>>

(* The user at work on Polygon, at any time.                                 *)
UserEdits(i) ==
    LET by == By("user", counts.edits + 1) IN
    /\ counts.failures + counts.edits < MaxFailures
    /\ counts' = [counts EXCEPT !.edits = @ + 1]
    /\ polygon' = [polygon EXCEPT ![i].by = by]
    /\ outside' = IF RunActive THEN outside ELSE outside \cup {<<i, by>>}
    /\ UNCHANGED <<snapshot, sync, run, plan, asks, announced, overlapped>>

-----------------------------------------------------------------------------
(* The run.                                                                  *)

Free(kind) == <<counts.runs + 1, kind>> \in Meets \/ \A t \in Background : sync[t].pc = "none"

(* A run reads the problem first and announces what it finds changed; a      *)
(* build does not.                                                           *)
Claim(kind) ==
    /\ ~RunActive /\ Free(kind) /\ counts.runs < MaxRuns
    /\ counts' = [counts EXCEPT !.runs = @ + 1, !.builds = @ + (IF kind = "build" THEN 1 ELSE 0)]
    /\ asks' = Append(asks, {})
    /\ IF kind = "build"
       THEN run' = [NoRun EXCEPT !.pc = "decide", !.kind = kind] /\ UNCHANGED sync
       ELSE /\ run' = [NoRun EXCEPT !.pc = "opening", !.kind = kind]
            /\ sync' = [sync EXCEPT !["run"] = Begun("run", TRUE)]
    /\ overlapped' = (overlapped \/ \E t \in Background : sync[t].pc # "none")
    /\ UNCHANGED <<polygon, snapshot, plan, announced, outside>>

(* The status is written after a last quiet sync; a chat that changed        *)
(* nothing goes without it.                                                  *)
Closes == /\ GoRun("closing")
          /\ sync' = [sync EXCEPT !["run"] = Begun("run", FALSE)]
Fails == Failure /\ Closes

HasContent(snap) == snap["legend"].by # None \/ \E i \in Solutions : snap[i].tag = "MA"

Companions(targets) == IF targets \cap {"generator", "script"} # {}
                       THEN {"generator", "script"} ELSE {}
HasPlan == plan # None /\ plan.groups

(* With a plan of groups the script follows from it: a change of a generator *)
(* does not get to rewrite it.                                               *)
AllowedTargets(targets) ==
    targets \cup (IF HasPlan THEN {} ELSE Companions(targets))

\* Mutant: the statement does not follow the plan.
PlanStagesUntold(groups) ==
    <<IF groups THEN "plan" ELSE "planOff", "generators", "script", "tests">>
PlanStages(groups) ==
    IF groups THEN <<"plan", "generators", "script", "tests", "scoring">>
              ELSE <<"planOff", "generators", "script", "tests">>
GenerateStages(groups) ==
    <<"statement", "solution">> \o PlanStages(groups) \o <<"brute">>

Repaired == Targets \ {"groups"}
Stages == {<<"edit">>, <<"repair">>} \cup {PlanStages(g) : g \in BOOLEAN}
                                     \cup {GenerateStages(g) : g \in BOOLEAN}
(* The stages a run may go through, and what it was asked to change.         *)
Decides(stages, targets) ==
    \/ run.kind = "build" /\ stages = <<"repair">> /\ targets = Repaired
    \/ run.kind = "chat" /\ stages = <<"edit">> /\ \E t \in Repaired : targets = {t}
    \/ /\ run.kind \in {"chat", "groups"} /\ targets = Targets \ {"solution"}
       /\ \E g \in BOOLEAN : stages = PlanStages(g)
    \/ /\ run.kind = "generate" /\ targets = Targets
       /\ \E g \in BOOLEAN : stages = GenerateStages(g)

(* What the router, or the route, makes of the request, and a build of its   *)
(* package: one that is made needs no repair, which is the run's end here.   *)
(* A filled problem is not generated anew on the router's word.              *)
Decide ==
    /\ run.pc = "decide"
    /\ \/ /\ run.kind = "chat"                       \* an answer
          /\ run' = NoRun /\ UNCHANGED <<asks, sync>>
       \/ /\ run.kind = "build"                      \* the package is made, or given up
          /\ Closes /\ UNCHANGED asks
       \/ /\ run.kind = "chat" /\ ~HasContent(run.snap)
          /\ run' = [run EXCEPT !.pc = "opening", !.kind = "generate"]
          /\ sync' = [sync EXCEPT !["run"] = Begun("run", TRUE)] /\ UNCHANGED asks
       \/ /\ UNCHANGED sync
          /\ \E stages \in Stages, targets \in SUBSET Targets :
                /\ Decides(stages, targets)
                /\ run' = [run EXCEPT !.pc = IF stages = <<"edit">> THEN "ask" ELSE "stage",
                                      !.stages = stages, !.allowed = AllowedTargets(targets),
                                      !.kind = IF stages = <<"edit">> THEN @ ELSE "whole"]
                /\ asks' = [asks EXCEPT ![counts.runs] = targets]
    /\ Smooth
    /\ UNCHANGED <<polygon, snapshot, plan, announced, outside, overlapped>>

(* The stages that ask the model, and the item each is allowed to change.    *)
ItemOf(stage) == CASE stage = "statement" -> "legend"
                   [] stage = "solution"  -> "main"
                   [] stage = "generators" -> "generator"
                   [] stage = "scoring"   -> "scoring"
                   [] stage = "brute"     -> "extra"

(* Each stage asks whether the run is cancelled, then for the problem as it  *)
(* is now if the run has changed it.                                         *)
BeginStage ==
    /\ run.pc = "stage" /\ run.stages # <<>>
    /\ LET stage == Head(run.stages) IN
       \/ stage # "tests" /\ Fails                    \* cancelled
       \/ /\ stage \in {"plan", "planOff", "script", "tests"}
          /\ GoRun("direct") /\ Smooth /\ UNCHANGED sync
       \/ /\ stage \notin {"plan", "planOff", "script", "tests"}
          /\ Smooth
          /\ LET r == IF stage = "repair" THEN [run EXCEPT !.allowed = Repaired]
                      ELSE [run EXCEPT !.allowed = {TargetOf(ItemOf(stage))}]
             IN
             IF run.stale \/ stage \in {"scoring", "repair"}
             THEN /\ run' = [r EXCEPT !.pc = "resync"]
                  /\ sync' = [sync EXCEPT !["run"] = Begun("run", FALSE)]
             ELSE run' = [r EXCEPT !.pc = "ask"] /\ UNCHANGED sync
    /\ UNCHANGED <<polygon, snapshot, plan, asks, announced, outside, overlapped>>

Edit(i, tag) == [item |-> i, tag |-> tag]
(* Whatever the model may answer to a request for edits.                     *)
Answers ==
    LET edits == {Edit(i, None) : i \in Items \ {"tests", "spare"}} \cup {Edit(i, t) : i \in {"main", "extra"}, t \in {"MA", "TL"}}
    IN  {S \in SUBSET edits : S # {} /\ Cardinality(S) <= (IF overlapped THEN 1 ELSE MaxEdits)
                              /\ \A e, f \in S : e.item = f.item => e = f}

\* Mutant: edits of other targets are applied too.
WithinAll(edits) == edits
Within(edits) == {e \in edits : TargetOf(e.item) \in run.allowed}

AskModel ==
    LET stage == Head(run.stages) IN
    /\ run.pc = "ask"
    /\ \/ /\ stage = "brute" /\ Failure /\ UNCHANGED sync       \* reported, not fatal
          /\ run' = [run EXCEPT !.pc = "stage", !.stages = Tail(@)]
       \/ stage \notin {"brute", "scoring"} /\ Fails
       \/ stage \in {"statement", "repair"} /\ Closes /\ Smooth     \* nothing to apply
       \/ /\ Smooth /\ UNCHANGED sync
          /\ \E edits \in IF stage \in {"edit", "repair"} THEN Answers
                          ELSE {{Edit(ItemOf(stage), CASE stage = "solution" -> "MA"
                                                       [] stage = "brute"    -> "TO"
                                                       [] OTHER              -> None)}} :
                run' = [run EXCEPT !.pc = "apply", !.todo = Within(edits), !.erred = FALSE]
    /\ UNCHANGED <<polygon, snapshot, plan, asks, announced, outside, overlapped>>

(* A write to Polygon: done, refused, or done though the call failed.        *)
Written(change) ==
    \/ polygon' = change /\ Smooth
    \/ polygon' \in {polygon, change} /\ Failure
Succeeded == counts'.failures = counts.failures
Rest(i) == {e \in run.todo : e.item # i}
(* The edits that are left, and what is known of the ones tried.             *)
Tried(todo) ==
    run' = [run EXCEPT !.todo = todo, !.changed = @ \/ Succeeded, !.stale = @ \/ Succeeded,
                       !.erred = @ \/ ~Succeeded, !.pc = "apply", !.current = None]

StatementEdits == {e \in run.todo : e.item \in Sections}
\* Mutant: merged into the snapshot.
ReadSnapshotStatement ==
    /\ run.pc = "apply" /\ StatementEdits # {} /\ run.current = None
    /\ run' = [run EXCEPT !.current = [s \in Sections |-> run.snap[s].by]] /\ Smooth
    /\ UNCHANGED <<polygon, snapshot, sync, plan, asks, announced, outside, overlapped>>

(* The statement is merged into what Polygon has now, or left alone.         *)
ReadStatement ==
    /\ run.pc = "apply" /\ StatementEdits # {} /\ run.current = None
    /\ \/ run' = [run EXCEPT !.current = [s \in Sections |-> polygon[s].by]] /\ Smooth
       \/ run' = [run EXCEPT !.todo = @ \ StatementEdits, !.erred = TRUE] /\ Failure
    /\ UNCHANGED <<polygon, snapshot, sync, plan, asks, announced, outside, overlapped>>

(* The legend is reset when omitted, the scoring kept.                       *)
SaveStatement ==
    LET edited == {e.item : e \in StatementEdits}
        old    == run.current
        legend == IF "legend" \in edited THEN Me ELSE old["legend"]
        scoring == IF "scoring" \in edited THEN Me
                   ELSE IF old["scoring"] # None THEN old["scoring"] ELSE polygon["scoring"].by
    IN
    /\ run.pc = "apply" /\ StatementEdits # {} /\ run.current # None
    /\ Written([polygon EXCEPT !["legend"].by = legend, !["scoring"].by = scoring])
    /\ Tried(run.todo \ StatementEdits)
    /\ UNCHANGED <<snapshot, sync, plan, asks, announced, outside, overlapped>>

(* Files in the order of their roles, then the script.                       *)
Rank(i) == CASE i = "generator" -> 1 [] i \in Solutions -> 2 [] i = "script" -> 3 [] OTHER -> 0
IsNext(e) == /\ e \in run.todo /\ StatementEdits = {}
             /\ \A f \in run.todo : Rank(f.item) >= Rank(e.item)

SaveFile(e) ==
    /\ run.pc = "apply" /\ IsNext(e) /\ e.item \notin Solutions \cup Sections
    /\ Written([polygon EXCEPT ![e.item].by = Me])
    /\ Tried(Rest(e.item))
    /\ UNCHANGED <<snapshot, sync, plan, asks, announced, outside, overlapped>>

(* Where a solution is saved and with which tag: the tag it has, unless the  *)
(* model gave one; another tag than MA makes a new file of the main one.     *)
Placed(e) ==
    LET has == run.snap[e.item].tag
        tag == IF e.tag # None THEN e.tag ELSE IF has # None THEN has ELSE "OK"
    IN  Edit(IF has = "MA" /\ tag # "MA" THEN "spare" ELSE e.item, tag)

(* A new main solution: the one the snapshot shows gets OK first, with the   *)
(* content the snapshot has.                                                 *)
Demoted(e) == {i \in Solutions : /\ Placed(e).tag = "MA" /\ i # e.item
                                 /\ run.snap[i].tag = "MA" /\ run.snap[i].read}
Demote(e) ==
    /\ run.pc = "apply" /\ IsNext(e) /\ e.item \in Solutions /\ Demoted(e) # {}
    /\ Written([i \in Items |-> IF i \in Demoted(e) THEN Value(Me, "OK") ELSE polygon[i]])
    /\ run.current = None
    /\ run' = [run EXCEPT !.current = e, !.changed = @ \/ Succeeded, !.stale = @ \/ Succeeded,
                          !.erred = @ \/ ~Succeeded]
    /\ UNCHANGED <<snapshot, sync, plan, asks, announced, outside, overlapped>>

(* Polygon refuses a second main solution.                                   *)
Refused(p) == p.tag = "MA" /\ \E i \in Solutions \ {p.item} : polygon[i].tag = "MA"
SaveSolution(e) ==
    LET p == Placed(e) IN
    /\ IsNext(e) /\ e.item \in Solutions
    /\ run.pc = "apply" /\ run.current = IF Demoted(e) = {} THEN None ELSE e
    /\ IF Refused(p)
       THEN /\ run' = [run EXCEPT !.todo = Rest(e.item), !.erred = TRUE, !.current = None]
            /\ UNCHANGED <<polygon, counts>>
       ELSE /\ Written([polygon EXCEPT ![p.item] = Value(Me, p.tag)])
            /\ Tried(Rest(e.item))
    /\ UNCHANGED <<snapshot, sync, plan, asks, announced, outside, overlapped>>

(* Generators that did not arrive end the run; other errors are reported.    *)
EndStage ==
    /\ run.pc = "apply" /\ run.todo = {}
    /\ IF Head(run.stages) = "generators" /\ run.erred
       THEN Closes
       ELSE run' = [run EXCEPT !.pc = "stage", !.stages = Tail(@)] /\ UNCHANGED sync
    /\ UNCHANGED <<polygon, snapshot, plan, asks, announced, outside, counts, overlapped>>

(* The plan goes into the settings before anything is done about it.         *)
StorePlan ==
    /\ run.pc = "direct" /\ Head(run.stages) \in {"plan", "planOff"}
    /\ plan' = [run |-> counts.runs, groups |-> Head(run.stages) = "plan"]
    /\ run' = [run EXCEPT !.pc = "stage", !.stages = Tail(@)]
    /\ UNCHANGED <<polygon, snapshot, sync, asks, announced, outside, counts, overlapped>>

(* The script, and the groups and points of the tests it made; a failure     *)
(* ends the run.                                                             *)
SetupTestset ==
    /\ run.pc = "direct" /\ Head(run.stages) \in {"script", "tests"}
    /\ \/ /\ polygon' = [polygon EXCEPT ![Head(run.stages)].by = Me] /\ Smooth
          /\ run' = [run EXCEPT !.pc = "stage", !.stages = Tail(@), !.changed = TRUE, !.stale = TRUE]
          /\ UNCHANGED sync
       \/ /\ polygon' \in {polygon, [polygon EXCEPT ![Head(run.stages)].by = Me]}
          /\ Fails
    /\ UNCHANGED <<snapshot, plan, asks, announced, outside, overlapped>>

(* A chat that changed nothing needs no sync of its own.                     *)
Conclude ==
    /\ run.pc = "stage" /\ run.stages = <<>>
    /\ IF run.kind = "chat" /\ ~run.changed THEN run' = NoRun /\ UNCHANGED sync ELSE Closes
    /\ UNCHANGED <<polygon, snapshot, plan, asks, announced, outside, counts, overlapped>>

-----------------------------------------------------------------------------
(* A filled problem with its snapshot, or a new one.                         *)
Empty == [i \in Items |-> Absent]
Filled == [i \in Items |-> IF i \in {"extra", "spare"} THEN Absent
                           ELSE Value(Old, IF i = "main" THEN "MA" ELSE None)]
Init ==
    /\ polygon \in {Empty, Filled}
    /\ snapshot = [i \in Items |-> Seen(polygon[i], polygon[i] # Absent)]
    /\ sync = [t \in Background \cup {"run"} |-> NoSync]
    /\ run = NoRun /\ plan = None /\ asks = <<>>
    /\ announced = {} /\ outside = {} /\ overlapped = FALSE
    /\ counts = [runs |-> 0, builds |-> 0, edits |-> 0, failures |-> 0]

Next ==
    \/ \E t \in Background : BeginBackground(t)
    \/ \E t \in DOMAIN sync : ReadLists(t) \/ StoreSnapshot(t) \/ SyncFails(t)
    \/ \E i \in UserItems : polygon[i] # Absent /\ UserEdits(i)
    \/ \E k \in {"chat", "groups", "generate", "build"} : Claim(k)
    \/ Decide \/ BeginStage \/ AskModel \/ ReadStatement \/ SaveStatement
    \/ \E e \in run.todo : SaveFile(e) \/ Demote(e) \/ SaveSolution(e)
    \/ EndStage \/ StorePlan \/ SetupTestset \/ Conclude

Spec == Init /\ [][Next]_vars

-----------------------------------------------------------------------------
(* Properties.                                                               *)

Stamps == {Old, None} \cup {By(k, n) : k \in {"run", "user"}, n \in 1..(MaxRuns + MaxFailures)}
Tags == {None, "MA", "TL", "TO", "OK"}
TypeOK ==
    /\ \A i \in Items : polygon[i].by \in Stamps /\ polygon[i].tag \in Tags
    /\ \A i \in Items : snapshot[i].by \in Stamps /\ snapshot[i].tag \in Tags
    /\ run.pc \in {"none", "opening", "decide", "stage", "resync", "ask", "direct", "apply", "closing"}
    /\ run.pc \in {"opening", "resync", "closing"} <=> sync["run"].pc = "read"
    /\ announced \cup outside \subseteq Items \X Stamps
    /\ plan # None => plan.run \in 1..Len(asks)

Quiet == counts.failures = 0

(* What a run wrote is never told to the user as a change made behind the    *)
(* service's back, unless a call failed or a sync of the scheduler was under *)
(* way when the run began (_execute: "so the next sync does not report our   *)
(* own edits").                                                              *)
OwnChangesAreQuiet == Quiet /\ ~overlapped => \A a \in announced : a[2] # None => a[2][1] # "run"

(* A change the user made on Polygon while nothing ran has become an event   *)
(* once it is in the snapshot, unless a call failed or a build ran.          *)
OutsideIsAnnounced ==
    Quiet /\ counts.builds = 0 =>
        \A a \in outside : snapshot[a[1]].by = a[2] => a \in announced

(* No edit of the statement blanks a section it has (apply_edits: "without   *)
(* it we would blank the sections we do not send").                          *)
StatementNeverBlanked ==
    \A s \in Sections : polygon[s].by # None => polygon'[s].by # None

(* A run changes what it was asked to change, and for a problem without a    *)
(* plan of groups what cannot live without it.                               *)
OnlyAskedIsChanged ==
    [][\A i \in Items : polygon'[i] # polygon[i] /\ polygon'[i].by = Me =>
          TargetOf(i) \in asks[counts.runs]
             \cup (IF HasPlan THEN {} ELSE Companions(asks[counts.runs]))]_vars

(* A problem that has a main solution has one again when the run is over,    *)
(* whatever tags the model gave (apply_edits: "the problem would lose its MA *)
(* and every build would fail"), unless a call failed.                       *)
HasMain(problem) == \E i \in Solutions : problem[i].tag = "MA"
MainIsKept ==
    RunActive /\ ~RunActive' /\ counts'.failures = 0 /\ run.snap # None
       => (HasMain(run.snap) => HasMain(polygon'))

(* When nothing runs and no call failed, the script, the groups and the      *)
(* table of the statement are those of the stored plan, or what somebody who *)
(* was to change them made of them later.                                    *)
PlanIsWhole ==
    Quiet /\ ~RunActive /\ HasPlan =>
        \A i \in {"script", "tests", "scoring"} :
            LET by == polygon[i].by IN
            /\ by # None
            /\ \/ by[1] = "user" \/ by = By("run", plan.run)
               \/ by[1] = "run" /\ by[2] > plan.run /\ TargetOf(i) \in asks[by[2]]

(* The events of a problem are the changes made outside the service, no       *)
(* fewer and no others (sync_session).                                        *)
ChangesAreTold == OwnChangesAreQuiet /\ OutsideIsAnnounced

(* No run takes from the problem what it cannot do without: the sections of   *)
(* its statement and its main solution (apply.py).                            *)
NothingIsLost == [][StatementNeverBlanked /\ MainIsKept]_vars

(* A plan reaches Polygon whole: for every plan the script, the groups, their *)
(* points and dependencies are the plan's and read back as it (groups.py),    *)
(* looked at once, before the first run; and a problem at rest has those of   *)
(* its stored plan.                                                           *)
PlanIsApplied ==
    /\ PlanIsWhole
    /\ Init => LinesAreTheScript /\ GroupsAreWorthTheirPoints /\ DepsExist /\ PlanIsReadBack
===============================================================================
