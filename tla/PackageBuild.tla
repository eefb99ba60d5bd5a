----------------------------- MODULE PackageBuild -----------------------------
(* A problem of an AI session and its package on Polygon: files are edited   *)
(* and pushed one by one, a background task commits the working copy, has    *)
(* the package built, lets the model repair the file a failure points at,    *)
(* and writes the verdict into the session.  Requests and tasks interleave   *)
(* at every call of Polygon, of the model and of the database.               *)
EXTENDS Subtasks, FiniteSets

CONSTANTS
    Files,              \* technical files of the problem (applicable_types)
    MaxFileFixAttempts, \* MAX_FILE_FIX_ATTEMPTS
    MaxAttempts,        \* MAX_ATTEMPTS of the Polygon client
    Builds,             \* build tasks, each run once, one after another
    Edits,              \* requests that write files, each once
    Settings,           \* problem_settings and scoring section a build may meet
    Plans,              \* subtask plans the model may answer with
    PlanSpace,          \* plans the operators on plans are checked for
    Tests,              \* tests the script of the problem generates, 1..n
    MaxHiccups,         \* bound: failed calls of Polygon or the model in a run
    None

ASSUME BuildAssumption ==
    /\ IsFiniteSet(Files)
    /\ MaxFileFixAttempts \in Nat \ {0} /\ MaxAttempts \in Nat \ {0}
    /\ MaxHiccups \in Nat
    /\ Builds \cap Edits = {}
    /\ None \notin Files \cup Builds

MaxTotal == MaxFileFixAttempts * 4

VARIABLES
    store,     \* TaskGeneratedFile rows: content and the uploaded flag
    working,   \* Polygon's working copy: content by file
    revision,  \* the committed working copy
    packages,  \* Polygon's packages, in order of their ids
    stage, status, packageId,    \* columns of the session
    settings,  \* problem_settings (groups, plan) and the scoring table
    groupOf,   \* Polygon: the group of each test
    pointsOf,  \* Polygon: the points of each test
    job,       \* what each build and edit is doing
    newest,    \* newest content of each file
    hiccups,   \* failed calls so far
    raced,     \* history: files two requests wrote at once
    lost       \* history: builds that died with the process

files   == <<store, working, newest, raced>>
polygon == <<revision, packages>>
session == <<stage, status, packageId>>
tests   == <<groupOf, pointsOf>>
vars == <<files, polygon, session, settings, tests, job, hiccups, lost>>

Actors == Builds \cup Edits
NoAttempts == [f \in Files |-> 0]
(* file, content: what was last written; before: packages seen before the    *)
(* build; sure: those sets were complete; tries: sends of buildPackage; rounds and  *)
(* pushed (history): package builds asked for, and the file last written.    *)
Fresh == [pc |-> "new", file |-> None, content |-> 0, before |-> {}, sure |-> TRUE,
          tries |-> 0, attempts |-> NoAttempts, result |-> None, package |-> 0,
          groups |-> <<>>, rounds |-> 0, fixes |-> NoAttempts]
Ended == [Fresh EXCEPT !.pc = "ended"]
At(a, pc) == job[a].pc = pc
Go(a, pc) == job' = [job EXCEPT ![a].pc = pc]
Running == {b \in Builds : job[b].pc \notin {"new", "ended"}}

(* A call fails.  The bound keeps the failures of a run few.                 *)
Hiccup == hiccups < MaxHiccups /\ hiccups' = hiccups + 1
Smooth == hiccups' = hiccups

-----------------------------------------------------------------------------
(* Files.  A row is written first, then pushed, then marked uploaded.        *)
Writing(a, f) == \/ job[a].pc \in {"push", "mark"} /\ job[a].file = f
                 \/ At(a, "loaded")
Race(a, f) == raced' = raced \cup (IF \E o \in Actors \ {a} : Writing(o, f) THEN {f} ELSE {})

NewContent(f) == newest[f] + 1

(* Mutant: the row is marked with the write, before Polygon has the file.    *)
UpsertUploaded(a) ==
    LET f == job[a].file IN
    /\ At(a, "upsert")
    /\ store' = [store EXCEPT ![f] = [content |-> NewContent(f), uploaded |-> TRUE]]
    /\ newest' = [newest EXCEPT ![f] = NewContent(f)]
    /\ Race(a, f)
    /\ job' = [job EXCEPT ![a] = [@ EXCEPT !.pc = "push", !.content = NewContent(f)]]
    /\ Smooth
    /\ UNCHANGED <<working, polygon, session, settings, tests, lost>>
Upsert(a) ==
    LET f == job[a].file IN
    /\ At(a, "upsert")
    /\ store' = [store EXCEPT ![f] = [content |-> NewContent(f), uploaded |-> FALSE]]
    /\ newest' = [newest EXCEPT ![f] = NewContent(f)]
    /\ Race(a, f)
    /\ job' = [job EXCEPT ![a] = [@ EXCEPT !.pc = "push", !.content = NewContent(f)]]
    /\ Smooth
    /\ UNCHANGED <<working, polygon, session, settings, tests, lost>>

(* The next try of the repair: the offending file's own tries and all tries  *)
(* together are limited.                                                     *)
Attempt(j, f) ==
    IF /\ MapThenSumSet(LAMBDA g : j.attempts[g], Files) < MaxTotal
       /\ j.attempts[f] < MaxFileFixAttempts
    THEN [j EXCEPT !.pc = "fix", !.file = f, !.attempts[f] = @ + 1]
    ELSE [j EXCEPT !.pc = "apply", !.result = "manual_fix", !.file = f]

(* A failed push of a fix is a failed try of that file; an edit ends with an *)
(* error.                                                                    *)
SyncFailed(a) ==
    job' = [job EXCEPT ![a] = IF a \in Builds THEN Attempt(@, @.file) ELSE Ended]

(* Polygon takes the file, refuses it (a solution that does not compile), or *)
(* takes it and the answer is lost.                                          *)
Push(a) ==
    LET f == job[a].file
        taken == working' = [working EXCEPT ![f] = job[a].content]
    IN  /\ At(a, "push")
        /\ \/ taken /\ Go(a, "mark") /\ Smooth
           \/ working' = working /\ SyncFailed(a) /\ Hiccup
           \/ taken /\ SyncFailed(a) /\ Hiccup
        /\ Race(a, f)
        /\ UNCHANGED <<store, newest, polygon, session, settings, tests, lost>>

MarkUploaded(a) ==
    /\ At(a, "mark")
    /\ store' = [store EXCEPT ![job[a].file].uploaded = TRUE]
    /\ Go(a, "commitFile")
    /\ Smooth
    /\ UNCHANGED <<working, newest, raced, polygon, session, settings, tests, lost>>

CommitFile(a) ==
    /\ At(a, "commitFile")
    /\ \/ revision' = working /\ Smooth
          /\ job' = [job EXCEPT ![a] = IF a \in Builds THEN [@ EXCEPT !.pc = "ids"] ELSE Ended]
       \/ revision' = revision /\ Hiccup /\ SyncFailed(a)
    /\ UNCHANGED <<files, packages, session, settings, tests, lost>>

(* /chat with an edit of one file: the model's code is pushed (sync_file).   *)
ModifyFile(e, f) ==
    /\ At(e, "new")
    /\ job' = [job EXCEPT ![e] = [@ EXCEPT !.pc = "upsert", !.file = f]]
    /\ Smooth
    /\ UNCHANGED <<files, polygon, session, settings, tests, lost>>

(* /refine-file and /generate-solution: the code is stored, not pushed.      *)
RefineFile(e, f) ==
    /\ At(e, "new")
    /\ store' = [store EXCEPT ![f] = [content |-> NewContent(f), uploaded |-> FALSE]]
    /\ newest' = [newest EXCEPT ![f] = NewContent(f)]
    /\ Race(e, f)
    /\ job' = [job EXCEPT ![e] = Ended]
    /\ Smooth
    /\ UNCHANGED <<working, polygon, session, settings, tests, lost>>

(* /sync-from-polygon: every file of the working copy is read, then stored   *)
(* as uploaded in one commit.                                                *)
ReadFromPolygon(e) ==
    /\ At(e, "new")
    /\ job' = [job EXCEPT ![e] = [@ EXCEPT !.pc = "loaded", !.attempts = working]]
    /\ Smooth
    /\ UNCHANGED <<files, polygon, session, settings, tests, lost>>
StoreLoaded(e) ==
    /\ At(e, "loaded")
    /\ store' = [f \in Files |-> [content |-> job[e].attempts[f], uploaded |-> TRUE]]
    /\ raced' = raced \cup {f \in Files : \E o \in Actors \ {e} : Writing(o, f)}
    /\ job' = [job EXCEPT ![e] = Ended]
    /\ Smooth
    /\ UNCHANGED <<working, newest, polygon, session, settings, tests, lost>>

-----------------------------------------------------------------------------
(* The build task.                                                           *)

(* The session shows the build before the task is spawned.  Bound: builds of *)
(* one session follow each other here; nothing in the code makes them.       *)
StartBuild(b) ==
    /\ At(b, "new") /\ Running = {}
    /\ Go(b, "prepare")
    /\ stage' = "building_package" /\ status' = "building"
    /\ Smooth
    /\ UNCHANGED <<files, polygon, packageId, settings, tests, lost>>

(* Examples and groups.  Groups that were switched on and never planned are  *)
(* planned now; the model's failure leaves no plan.                          *)
Prepare(b) ==
    /\ At(b, "prepare")
    /\ stage' = "building_package" /\ status' = "building"
    /\ \E plan \in IF settings.on /\ settings.plan = <<>> /\ settings.table = <<>>
                   THEN {NormalisePoints(p) : p \in Plans} \cup {<<>>} ELSE {settings.plan} :
        /\ settings' = [settings EXCEPT !.plan = plan]
        /\ job' = [job EXCEPT ![b] = [@ EXCEPT !.pc = "ids",
                     !.groups = IF settings.on /\ plan # <<>> THEN SubtasksToGroups(plan)
                                ELSE ParseScoringGroups(settings.table)]]
    /\ Smooth
    /\ UNCHANGED <<files, polygon, packageId, tests, lost>>

(* The packages there are before the build.  A failed call counts as none.   *)
Listed == {i \in DOMAIN packages : packages[i].state # "queued"}
\* Mutant: the packages are not looked at before the build.
NoPackageIds(b) ==
    /\ At(b, "ids")
    /\ job' = [job EXCEPT ![b] = [job[b] EXCEPT !.pc = "commit", !.before = {},
                                           !.sure = @ /\ Listed = DOMAIN packages]]
    /\ Smooth
    /\ UNCHANGED <<files, polygon, session, settings, tests, lost>>
PackageIds(b) ==
    /\ At(b, "ids")
    /\ \/ /\ job' = [job EXCEPT ![b] = [job[b] EXCEPT !.pc = "commit", !.before = Listed,
                                                       !.sure = @ /\ Listed = DOMAIN packages]]
          /\ Smooth
       \/ /\ job' = [job EXCEPT ![b] = [@ EXCEPT !.pc = "commit", !.before = {}, !.sure = FALSE]]
          /\ Hiccup
    /\ UNCHANGED <<files, polygon, session, settings, tests, lost>>

CommitWork(b) ==
    /\ At(b, "commit")
    /\ \/ revision' = working /\ Smooth
          /\ job' = [job EXCEPT ![b] = [job[b] EXCEPT !.pc = "trigger", !.tries = 0,
                                                       !.rounds = @ + 1]]
       \/ revision' = revision /\ Hiccup /\ Go(b, "failing")
    /\ UNCHANGED <<files, packages, session, settings, tests, lost>>

\* Mutant: the call is sent again after any error, like the repeatable ones.
TriggerAgain(b) ==
    LET started == packages' = Append(packages, [by |-> b, revision |-> revision,
                                                 state |-> "queued", culprit |-> None])
    IN  /\ At(b, "trigger")
        /\ \/ started /\ Go(b, "poll") /\ Smooth
           \/ /\ started \/ packages' = packages
              /\ Hiccup
              /\ job' = [job EXCEPT ![b].tries = @ + 1,
                                    ![b].pc = IF job[b].tries + 1 < MaxAttempts
                                              THEN "trigger" ELSE "failing"]
        /\ UNCHANGED <<files, revision, session, settings, tests, lost>>

(* buildPackage must not run twice: it is sent again only when Polygon       *)
(* refused it unexecuted (rate limit, stale time).  An error after which it  *)
(* may have run ends the build.                                              *)
TriggerPackage(b) ==
    LET started == packages' = Append(packages, [by |-> b, revision |-> revision,
                                                 state |-> "queued", culprit |-> None])
    IN  /\ At(b, "trigger")
        /\ \/ started /\ Go(b, "poll") /\ Smooth
           \/ started /\ Go(b, "failing") /\ Hiccup
           \/ packages' = packages /\ Go(b, "failing") /\ Hiccup
           \/ /\ packages' = packages /\ Hiccup
              /\ job' = [job EXCEPT ![b].tries = @ + 1,
                                    ![b].pc = IF job[b].tries + 1 < MaxAttempts
                                              THEN "trigger" ELSE "failing"]
        /\ UNCHANGED <<files, revision, session, settings, tests, lost>>

(* Polygon lists a package some time after it was asked for, and decides it: *)
(* a failure's comment points at a file or at none.                          *)
ListPackage(i) ==
    /\ packages[i].state = "queued"
    /\ packages' = [packages EXCEPT ![i].state = "pending"]
    /\ Smooth
    /\ UNCHANGED <<files, revision, session, settings, tests, job, lost>>
DecidePackage(i) ==
    /\ packages[i].state = "pending"
    /\ \/ packages' = [packages EXCEPT ![i].state = "READY"]
       \/ \E f \in Files \cup {None} :
            packages' = [packages EXCEPT ![i].state = "FAILED", ![i].culprit = f]
    /\ Smooth
    /\ UNCHANGED <<files, revision, session, settings, tests, job, lost>>

(* The newest package that was not there before the build.  The first        *)
(* failure no file is found for goes to the user; a later one is taken for   *)
(* the file in repair.                                                       *)
NewPackages(b) == Listed \ job[b].before
LatestPackage(b) == Max(NewPackages(b))
Polled(b, state) == /\ At(b, "poll")
                    /\ NewPackages(b) # {}
                    /\ packages[LatestPackage(b)].state = state
PollReady(b) ==
    /\ Polled(b, "READY")
    /\ job' = [job EXCEPT ![b] = [@ EXCEPT !.pc = "finalize", !.result = "done",
                                           !.package = LatestPackage(b)]]
    /\ Smooth
    /\ UNCHANGED <<files, polygon, session, settings, tests, lost>>
PollFailed(b) ==
    /\ Polled(b, "FAILED")
    /\ LET culprit == packages[LatestPackage(b)].culprit
       IN  \E f \in IF culprit # None THEN {culprit} ELSE Files \cup {None} :
            job' = [job EXCEPT ![b] =
                IF f # None THEN Attempt(@, f)
                ELSE IF @.attempts = NoAttempts
                     THEN [@ EXCEPT !.pc = "apply", !.result = "manual_fix", !.file = None]
                     ELSE Attempt(@, @.file)]
    /\ Smooth
    /\ UNCHANGED <<files, polygon, session, settings, tests, lost>>
\* Mutant: the time is only counted once the package is listed.
PollTimeoutListed(b) ==
    /\ At(b, "poll") /\ NewPackages(b) # {}
    /\ job' = [job EXCEPT ![b] = [@ EXCEPT !.pc = "apply", !.result = "timeout", !.file = None]]
    /\ Smooth
    /\ UNCHANGED <<files, polygon, session, settings, tests, lost>>
PollTimeout(b) ==
    /\ At(b, "poll")
    /\ job' = [job EXCEPT ![b] = [@ EXCEPT !.pc = "apply", !.result = "timeout", !.file = None]]
    /\ Smooth
    /\ UNCHANGED <<files, polygon, session, settings, tests, lost>>
PollError(b) ==
    /\ At(b, "poll")
    /\ Go(b, "failing")
    /\ Hiccup
    /\ UNCHANGED <<files, polygon, session, settings, tests, lost>>

(* The model rewrites the offending file; it may fail, or decline a solution *)
(* it cannot make earn its tag (SKIP): then the file is the user's.          *)
Fix(b) ==
    LET f == job[b].file IN
    /\ At(b, "fix")
    /\ \/ /\ job' = [job EXCEPT ![b] = [job[b] EXCEPT !.pc = "upsert", !.fixes[f] = @ + 1]]
          /\ Smooth
       \/ /\ job' = [job EXCEPT ![b] = [@ EXCEPT !.pc = "apply", !.result = "manual_fix"]]
          /\ Hiccup
    /\ UNCHANGED <<files, polygon, session, settings, tests, lost>>

(* The tests of the built package are dealt out to the groups, group by      *)
(* group, the points of a group on its first test.  A group whose call fails *)
(* is left out; so are its points when only they fail.                       *)
Indices == [i \in 1..Tests |-> i]
Dealt(groups, t) == {i \in DOMAIN groups : t \in SliceOf(groups, Indices, i)}
Finalize(b) ==
    LET groups == job[b].groups
        slice(i) == SliceOf(groups, Indices, i)
        first(i) == Min(slice(i))
    IN
    /\ At(b, "finalize")
    /\ \E refused \in SUBSET DOMAIN groups, unpaid \in SUBSET DOMAIN groups :
        /\ IF refused \cup unpaid = {} THEN Smooth ELSE Hiccup
        /\ groupOf' = [t \in 1..Tests |->
              IF Dealt(groups, t) \ refused = {} THEN groupOf[t]
              ELSE groups[CHOOSE i \in Dealt(groups, t) : TRUE].group]
        /\ pointsOf' = [t \in 1..Tests |->
              LET paid == {i \in DOMAIN groups \ (refused \cup unpaid) :
                             slice(i) # {} /\ first(i) = t}
              IN  IF paid = {} THEN pointsOf[t] ELSE groups[CHOOSE i \in paid : TRUE].points]
    /\ revision' = IF groups = <<>> THEN revision ELSE working
    /\ Go(b, "apply")
    /\ UNCHANGED <<files, packages, session, settings, lost>>

(* The verdict: one UPDATE of progress, stage and package id.                *)
ApplyBuildResult(b) ==
    LET j == job[b] IN
    /\ At(b, "apply")
    /\ IF j.result = "done"
       THEN stage' = "done" /\ status' = "done" /\ packageId' = j.package
       ELSE stage' = "fixing_errors" /\ status' = "waiting_manual_fix" /\ packageId' = packageId
    /\ job' = [job EXCEPT ![b] = Ended]
    /\ Smooth
    /\ UNCHANGED <<files, polygon, settings, tests, lost>>

BuildFails(b) ==
    /\ At(b, "failing")
    /\ stage' = "failed" /\ status' = "failed"
    /\ job' = [job EXCEPT ![b] = Ended]
    /\ Smooth
    /\ UNCHANGED <<files, polygon, packageId, settings, tests, lost>>

-----------------------------------------------------------------------------
(* The process restarts: nothing takes the tasks up again.                   *)
Restart ==
    /\ lost = {} /\ Running # {}
    /\ lost' = Running
    /\ job' = [a \in Actors |-> IF At(a, "new") THEN Fresh ELSE Ended]
    /\ Smooth
    /\ UNCHANGED <<files, polygon, session, settings, tests>>

Init ==
    /\ store = [f \in Files |-> [content |-> 1, uploaded |-> TRUE]]
    /\ working = [f \in Files |-> 1] /\ revision = working
    /\ newest = [f \in Files |-> 1]
    /\ packages = <<[by |-> None, revision |-> revision, state |-> "READY", culprit |-> None]>>
    /\ stage = "statement" /\ status = "idle" /\ packageId = None
    /\ settings \in Settings
    /\ groupOf = [t \in 1..Tests |-> None] /\ pointsOf = [t \in 1..Tests |-> 0]
    /\ job = [a \in Actors |-> Fresh]
    /\ hiccups = 0 /\ raced = {} /\ lost = {}

TaskStep(b) ==
    \/ Prepare(b) \/ PackageIds(b) \/ CommitWork(b) \/ TriggerPackage(b)
    \/ PollReady(b) \/ PollFailed(b) \/ PollTimeout(b) \/ PollError(b)
    \/ Fix(b) \/ Finalize(b) \/ ApplyBuildResult(b) \/ BuildFails(b)
SyncStep(a) == Upsert(a) \/ Push(a) \/ MarkUploaded(a) \/ CommitFile(a)
EditStep(e) ==
    \/ \E f \in Files : ModifyFile(e, f) \/ RefineFile(e, f)
    \/ ReadFromPolygon(e) \/ StoreLoaded(e)

Next ==
    \/ \E b \in Builds : StartBuild(b) \/ TaskStep(b)
    \/ \E a \in Actors : SyncStep(a)
    \/ \E e \in Edits : EditStep(e)
    \/ \E i \in DOMAIN packages : ListPackage(i) \/ DecidePackage(i)
    \/ Restart

(* The event loop runs a task whose call has come back; every call ends, the *)
(* polls by their time limit.                                                *)
Fairness == \A b \in Builds : WF_vars(TaskStep(b)) /\ WF_vars(SyncStep(b))
Spec == Init /\ [][Next]_vars /\ Fairness

-----------------------------------------------------------------------------
(* Properties.                                                               *)
Contents == Nat
TypeOK ==
    /\ store \in [Files -> [content : Contents, uploaded : BOOLEAN]]
    /\ working \in [Files -> Contents] /\ revision \in [Files -> Contents]
    /\ \A i \in DOMAIN packages :
         packages[i].state \in {"queued", "pending", "READY", "FAILED"}
    /\ stage \in {"statement", "building_package", "fixing_errors", "done", "failed"}
    /\ status \in {"idle", "building", "done", "waiting_manual_fix", "failed"}
    /\ packageId \in DOMAIN packages \cup {None}
    /\ \A b \in Builds : job[b].result = "done" => job[b].package \in DOMAIN packages
    /\ \A a \in Actors : job[a].pc \in
         {"new", "prepare", "ids", "commit", "trigger", "poll", "fix", "upsert", "push",
          "mark", "commitFile", "finalize", "apply", "failing", "loaded", "ended"}

(* A row marked as uploaded holds what Polygon's working copy holds, unless  *)
(* two requests wrote that file at once (sync_file, _load_all).              *)
UploadedIsOnPolygon ==
    \A f \in Files : store[f].uploaded /\ f \notin raced => working[f] = store[f].content

(* A build reported as done names a READY package that this build asked for, *)
(* with the files as its last push left them, unless the list of the earlier *)
(* packages could not be read or did not show one of them yet.               *)
DoneIsOurs ==
    \A b \in Builds :
        /\ job[b].pc \in {"finalize", "apply"} /\ job[b].result = "done"
        /\ job[b].sure
        => LET p == packages[job[b].package]
               f == job[b].file
           IN  /\ p.by = b /\ p.state = "READY"
               /\ f # None /\ f \notin raced => p.revision[f] >= job[b].content

(* One round of a build makes at most one package, also when the call that   *)
(* starts it fails and is repeated (NOT_REPEATABLE_METHODS).                 *)
OnePackagePerRound ==
    \A b \in Builds : At(b, "ended") \/
        Cardinality({i \in DOMAIN packages : packages[i].by = b}) <= job[b].rounds

(* No file is rewritten more than MAX_FILE_FIX_ATTEMPTS times in a build,    *)
(* however the error moves between files, and all together stay in the cap.  *)
FixesBounded ==
    \A b \in Builds :
        /\ \A f \in Files : job[b].fixes[f] <= MaxFileFixAttempts
        /\ MapThenSumSet(LAMBDA f : job[b].fixes[f], Files) <= MaxTotal

(* With no build running (and none lost with the process) the session shows  *)
(* one verdict: stage and progress agree, and done has its package READY.    *)
VerdictAgrees ==
    Running = {} /\ lost = {} =>
        /\ <<stage, status>> \in {<<"statement", "idle">>, <<"done", "done">>,
               <<"fixing_errors", "waiting_manual_fix">>, <<"failed", "failed">>}
        /\ stage = "done" => packages[packageId].state = "READY"

(* After a build whose calls all succeeded every generated test belongs to a *)
(* group and the points on the tests are those of the groups that got tests. *)
EveryTestGrouped ==
    \A b \in Builds :
        At(b, "apply") /\ job[b].result = "done" /\ hiccups = 0 /\ job[b].groups # <<>>
        => LET groups == job[b].groups
               served == {i \in DOMAIN groups : SliceOf(groups, Indices, i) # {}}
           IN  /\ \A t \in 1..Tests : Cardinality(Dealt(groups, t)) = 1
               /\ \A t \in 1..Tests : groupOf[t] \in {groups[i].group : i \in served}
               /\ MapThenSumSet(LAMBDA t : pointsOf[t], 1..Tests)
                  = MapThenSumSet(LAMBDA i : groups[i].points, served)

(* The groups a build would read back from the table of a plan are those of  *)
(* the plan: a session that keeps only the statement scores the same way.    *)
TableTellsThePlan ==
    \A plan \in PlanSpace :
        LET read == ParseScoringGroups(RenderScoring(plan))
            made == SubtasksToGroups(plan)
        IN  /\ Len(read) = Len(made)
            /\ \A i \in DOMAIN made : read[i] = [made[i] EXCEPT !.tests = 0]

(* However many tests the script makes of a plan, each falls to one group    *)
(* (_slice_counts: "every test is assigned"), in the order of the groups.    *)
EveryTestIsDealt ==
    \A plan \in PlanSpace, n \in 0..Tests + 2 :
        LET indices == [i \in 1..n |-> i]
            groups  == SubtasksToGroups(plan)
            to(t)   == {i \in DOMAIN groups : t \in SliceOf(groups, indices, i)}
        IN  /\ \A t \in 1..n : Cardinality(to(t)) = 1
            /\ \A t, u \in 1..n : t < u => \A i \in to(t), k \in to(u) : i <= k

(* A build that ended says what is so: its verdict is one of one package, and *)
(* the session shows it (package_loop.py:60-80).                             *)
VerdictIsTrue == DoneIsOurs /\ VerdictAgrees

(* A build asks for a bounded number of packages and rewrites of a file.     *)
RoundsAreBounded == OnePackagePerRound /\ FixesBounded

(* From the plan to the tests on Polygon and back to the table, every test   *)
(* has its group and every group its points (scoring_groups.py).             *)
TestsAreGrouped == EveryTestGrouped /\ TableTellsThePlan /\ EveryTestIsDealt

(* Every build that starts ends with a verdict, or dies with the process.    *)
BuildsEnd == \A b \in Builds : At(b, "prepare") ~> At(b, "ended")
===============================================================================
