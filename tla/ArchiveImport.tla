---------------------------- MODULE ArchiveImport ----------------------------
(***************************************************************************)
(* The import of archives into Polygon (polygon/archive/jobs.py,           *)
(* router.py, uploader.py): background tasks of one process upload the     *)
(* problems of an archive side by side, each through the stages of         *)
(* PROBLEM_STAGES, every call of Polygon through the retries of            *)
(* polygon/client.py.  A call whose answer does not come may be executed   *)
(* later, or never.  A problem is known by its name, prefix and number.    *)
(***************************************************************************)
EXTENDS ArchiveTests

CONSTANTS
    Imports,     \* import requests
    Problems,    \* names of problems
    Archive,     \* the TaskData of each problem
    Asked,       \* what an import asks: problems, ai, build, and whether it parses
    AiResults,   \* the answers of the AI service, of those AiService lists
    MaxJobs,     \* MAX_JOBS
    MaxAttempts, \* MAX_ATTEMPTS
    MayExist,    \* bound: problems that may exist before
    MaxTroubles, \* bound: attempts that do not simply succeed
    MaxRestarts  \* bound: restarts of the process

ASSUME ImportAssumption ==
    /\ MaxJobs \in Nat \ {0} /\ MaxAttempts \in Nat \ {0} /\ MaxTroubles \in Nat
    /\ \A i \in Imports : Asked[i].problems \subseteq Problems
    /\ \A p \in Problems : /\ Archive[p].images \in Nat
                         /\ Archive[p].groups \in Seq(ToSet(Archive[p].groups))

VARIABLES
    JOBS,     \* the imports that can be looked up, the oldest first
    job,      \* the status of each import
    up,       \* the upload of each problem of each import
    ai,       \* its call of the AI service
    present,  \* Polygon: the problems that exist
    saved,    \* Polygon: what a working copy holds, and from which import
    late,     \* requests whose answer was not awaited and that may still run
    troubles, restarts,
    revision, \* history: what the last commit of an upload took, if there was one
    built,    \* history: packages an upload had built
    raced     \* history: another import wrote to the problem since the upload began

importVars == <<JOBS, job, up, ai, present, saved, late, troubles, restarts, revision, built, raced>>
polygon == <<present, saved, late, revision, built, raced>>

Uploads == {u \in Imports \X Problems : u[2] \in Asked[u[1]].problems}
HasStatement(p) == Archive[p].statement # NoStatement

(***************************************************************************)
(* The calls of an upload: steps one after another, each a set of calls    *)
(* made together.  A step of a part other than "must" may fail, which      *)
(* ends the part and not the upload.                                       *)
(***************************************************************************)
Call(kind, item) == [kind |-> kind, item |-> item]
Step(stage, part, calls) == [stage |-> stage, part |-> part, calls |-> calls]
Must(stage, kind, item) == Step(stage, "must", {Call(kind, item)})
When(condition, steps) == IF condition THEN steps ELSE <<>>

CreateStep(found) == Must("create", IF found THEN "updateWorkingCopy" ELSE "create", 0)

StatementSteps(p) ==
    When(HasStatement(p),
         <<Must("statement", "updateInfo", 0), Must("statement", "saveStatement", 0)>> \o
         [k \in 1..Archive[p].images |-> Must("statement", "saveImage", k)]) \o
    When(Archive[p].groups # <<>>,
         <<Must("statement", "enablePoints", 0), Must("statement", "enableGroups", 0)>>)

FilesStep(p) == Step("files", "must", {Call("saveSolution", k) : k \in DOMAIN Solutions(Archive[p].solutions)})
AiStep == Step("files", "ai", {})

\* An answer of the service: how the checker comes, and how the validator.
AiService == [error |-> <<"none", "none">>, standard |-> <<"standard", "code">>, code |-> <<"code", "none">>]
ASSUME AiAssumption == AiResults \subseteq DOMAIN AiService

Sources == <<"checker", "validator">>
SourceSteps(n, how) ==
    When(how = "code", <<Step("files", Sources[n], {Call("saveSource", n)})>>) \o
    When(how # "none", <<Step("files", Sources[n], {Call("set", n)})>>)
AiSteps(answer) == SourceSteps(1, AiService[answer][1]) \o SourceSteps(2, AiService[answer][2])

\* A file that testlib.h was missing for is saved once more, after testlib.h.
TestlibSteps(part, c) ==
    <<Step("files", part, {Call("saveTestlib", 0)}), Step("files", part, {Call("saveAgain", c.item)})>>

TestsSteps(p) ==
    When(Archive[p].tests # <<>>,
         <<Step("tests", "must", {Call("saveTest", k) : k \in DOMAIN Archive[p].tests})>>)

\* A group that was left without tests is skipped.
Nth(n, S) == CHOOSE k \in S : Cardinality({j \in S : j <= k}) = n
GroupSteps(p) ==
    LET groups == Archive[p].groups
        used == {Archive[p].tests[k].group : k \in DOMAIN Archive[p].tests}
        kept == {k \in DOMAIN groups : groups[k].number \in used}
    IN  [n \in 1..Cardinality(kept) |-> Must("groups", "saveTestGroup", groups[Nth(n, kept)].number)]

WantsAi(u) == Asked[u[1]].ai /\ HasStatement(u[2])

UploadTask == [u \in Uploads |->
    StatementSteps(u[2]) \o <<FilesStep(u[2])>> \o When(WantsAi(u), <<AiStep>>) \o
    TestsSteps(u[2]) \o GroupSteps(u[2]) \o <<Must("commit", "commitChanges", 0)>> \o
    When(Asked[u[1]].build, <<Must("build", "buildPackage", 0)>>)]

(***************************************************************************)
(* The client: which failed attempts are made again (client.py).           *)
(***************************************************************************)
Answers == {"ok", "failed", "testlib", "rejected", "gateway", "garbled", "lost"}
MaybeExecuted == {"gateway", "garbled", "lost"}
NotRepeatable == {"create", "buildPackage"}

IsTransient(kind, answer) ==
    IF kind \in NotRepeatable THEN answer = "rejected" ELSE answer \in {"rejected", "gateway", "lost"}

Again(kind, answer, n) == n < MaxAttempts /\ IsTransient(kind, answer)

(***************************************************************************)
(* What Polygon does with a call: names are unique, the rest overwrites.   *)
(***************************************************************************)
ReadsOnly == {"list", "updateWorkingCopy"}
Writes(c) == c.kind \notin ReadsOnly \union {"create", "commitChanges", "buildPackage"}
Saved(c) == IF c.kind = "saveAgain" THEN Call("saveSource", c.item) ELSE c

With(copy, call, i) == [c \in DOMAIN copy \union {call} |-> IF c = call THEN i ELSE copy[c]]

Execute(u, c) ==
    LET i == u[1]
        p == u[2]
    IN  /\ present' = present \union (IF c.kind = "create" THEN {p} ELSE {})
        /\ saved' = IF Writes(c) THEN [saved EXCEPT ![p] = With(@, Saved(c), i)] ELSE saved
        /\ revision' = IF c.kind = "commitChanges" THEN [revision EXCEPT ![u] = {saved[p]}] ELSE revision
        /\ built' = [built EXCEPT ![u] = @ + (IF c.kind = "buildPackage" THEN 1 ELSE 0)]
        /\ raced' = raced \union {v \in Uploads : Writes(c) /\ v[2] = p /\ v[1] # i /\ job[v[1]] # "new"}

Refused(u, c) == c.kind = "create" /\ u[2] \in present
LacksTestlib(u, c) == c.kind = "saveSource" /\ Call("saveTestlib", 0) \notin DOMAIN saved[u[2]]

(***************************************************************************)
(* An upload: the step at hand is the head of todo, busy are its calls     *)
(* under way with the number of their attempt.                             *)
(***************************************************************************)
NoUpload == [stage |-> "wait", todo |-> <<>>, busy |-> {}, failed |-> FALSE, ended |-> FALSE]
Took(r, steps) ==
    [r EXCEPT !.stage = steps[1].stage, !.todo = steps, !.busy = {<<c, 1>> : c \in steps[1].calls}]

Ready(answer) == answer \in AiResults
\* The next step; the answer of the AI service is awaited after the solutions.
Begin(r, steps, answer) ==
    IF steps[1].part = "ai" /\ Ready(answer) THEN Took(r, AiSteps(answer) \o Tail(steps)) ELSE Took(r, steps)

Advance(r, answer) ==
    IF r.busy # {} THEN r
    ELSE IF r.failed THEN [r EXCEPT !.todo = <<>>, !.ended = TRUE]
    ELSE IF Len(r.todo) = 1 THEN [r EXCEPT !.stage = "done", !.todo = <<>>, !.ended = TRUE]
    ELSE Begin(r, Tail(r.todo), answer)

Succeeded(u, r, x) ==
    LET calls == [r EXCEPT !.busy = @ \ {x}]
    IN  IF x[1].kind = "list" THEN [calls EXCEPT !.todo = @ \o <<CreateStep(u[2] \in present)>> \o UploadTask[u]]
        ELSE calls

\* mutant: the results of calls made together are not looked at
FailedAlone(r, x, answer) ==
    [r EXCEPT !.busy = @ \ {x}, !.failed = @ \/ Cardinality(r.todo[1].calls) = 1]

\* The steps of a part follow each other.
FromNextPart(steps, part) ==
    SubSeq(steps, Min({k \in DOMAIN steps : steps[k].part # part}), Len(steps))

\* A failure is raised when all the calls of the step have ended.
Failed(r, x, answer) ==
    LET part == r.todo[1].part
        over == [r EXCEPT !.busy = @ \ {x}]
        rest == Tail(r.todo)
    IN  IF part = "must" THEN [over EXCEPT !.failed = TRUE]
        ELSE IF answer = "testlib" THEN [over EXCEPT !.todo = <<r.todo[1]>> \o TestlibSteps(part, x[1]) \o rest]
        ELSE [over EXCEPT !.todo = <<r.todo[1]>> \o FromNextPart(rest, part)]

\* The AI service is asked once the problem exists, and dropped when the upload fails.
AskAi(u, x) == x[1].kind \in {"create", "updateWorkingCopy"} /\ WantsAi(u)
AiOf(u, x, r) ==
    CASE r.ended /\ ai[u] = "running" -> "cancelled"
      [] ~r.ended /\ AskAi(u, x) /\ r.stage # "create" -> "running"
      [] OTHER -> ai[u]

Running(i) == job[i] = "running"

Outcome(u, x, answer) ==
    IF Again(x[1].kind, answer, x[2]) THEN [up[u] EXCEPT !.busy = (@ \ {x}) \union {<<x[1], x[2] + 1>>}]
    ELSE Advance(IF answer = "ok" THEN Succeeded(u, up[u], x) ELSE Failed(up[u], x, answer), ai[u])

Attempt(u, x, answer) ==
    /\ Running(u[1]) /\ x \in up[u].busy
    /\ answer = "testlib" => LacksTestlib(u, x[1])
    /\ Refused(u, x[1]) => answer # "ok"
    /\ LET free == answer \in {"ok", "testlib"} \/ (answer = "failed" /\ Refused(u, x[1]))
       IN  /\ ~free => troubles < MaxTroubles
           /\ troubles' = troubles + (IF free THEN 0 ELSE 1)
    /\ IF answer = "ok" THEN Execute(u, x[1]) /\ UNCHANGED late
       ELSE /\ late' = late \union (IF answer \in MaybeExecuted /\ x[1].kind \notin ReadsOnly THEN {<<u, x[1]>>} ELSE {})
            /\ UNCHANGED <<present, saved, revision, built, raced>>
    /\ up' = [up EXCEPT ![u] = Outcome(u, x, answer)]
    /\ ai' = [ai EXCEPT ![u] = AiOf(u, x, Outcome(u, x, answer))]
    /\ UNCHANGED <<JOBS, job, restarts>>

\* Polygon executes a request nobody waits for any more.
LateExecution(u, c) ==
    /\ <<u, c>> \in late /\ ~Refused(u, c)
    /\ late' = late \ {<<u, c>>}
    /\ Execute(u, c)
    /\ UNCHANGED <<JOBS, job, up, ai, troubles, restarts>>

(***************************************************************************)
(* Jobs: a request registers one and starts its task; the oldest are       *)
(* forgotten over the limit, running or not.                               *)
(***************************************************************************)
CreateJob(i) ==
    Append(IF Len(JOBS) >= MaxJobs THEN SubSeq(JOBS, Len(JOBS) - MaxJobs + 2, Len(JOBS)) ELSE JOBS, i)

RouteImportArchive(i) ==
    /\ job[i] = "new"
    /\ JOBS' = CreateJob(i)
    /\ job' = [job EXCEPT ![i] = "parsing"]
    /\ UNCHANGED <<up, ai, polygon, troubles, restarts>>

Parse(i) ==
    /\ job[i] = "parsing"
    /\ IF Asked[i].parses
       THEN /\ job' = [job EXCEPT ![i] = "running"]
            /\ up' = [u \in Uploads |-> IF u[1] = i THEN Took(NoUpload, <<Must("create", "list", 0)>>) ELSE up[u]]
       ELSE job' = [job EXCEPT ![i] = "error"] /\ UNCHANGED up
    /\ UNCHANGED <<JOBS, ai, polygon, troubles, restarts>>

AiAnswers(u, answer) ==
    /\ Running(u[1]) /\ ai[u] = "running"
    /\ ai' = [ai EXCEPT ![u] = answer]
    /\ up' = IF up[u].todo[1].part = "ai" THEN [up EXCEPT ![u] = Begin(@, @.todo, answer)] ELSE up
    /\ UNCHANGED <<JOBS, job, polygon, troubles, restarts>>

\* mutant: an import ends when all of it was uploaded
EndedWell(i) == \A u \in Uploads : u[1] = i => up[u].stage = "done"

\* The failures are told when every upload has ended.
Ended(i) == \A u \in Uploads : u[1] = i => up[u].ended

RunImportEnds(i) ==
    /\ Running(i) /\ Ended(i)
    /\ up' = [u \in Uploads |-> IF u[1] = i /\ up[u].failed THEN [up[u] EXCEPT !.stage = "error"] ELSE up[u]]
    /\ job' = [job EXCEPT ![i] = IF \E u \in Uploads : u[1] = i /\ up[u].failed THEN "done with errors" ELSE "done"]
    /\ UNCHANGED <<JOBS, ai, polygon, troubles, restarts>>

\* Jobs live until the process restarts; requests under way may still be executed.
ProcessRestarts ==
    /\ restarts < MaxRestarts
    /\ restarts' = restarts + 1
    /\ JOBS' = <<>>
    /\ job' = [i \in Imports |-> IF job[i] \in {"parsing", "running"} THEN "lost" ELSE job[i]]
    /\ late' = late \union UNION {{<<u, x[1]>> : x \in {y \in up[u].busy : y[1].kind \notin ReadsOnly}} :
                                u \in {v \in Uploads : Running(v[1])}}
    /\ up' = [u \in Uploads |-> IF Running(u[1]) THEN NoUpload ELSE up[u]]
    /\ ai' = [u \in Uploads |-> IF Running(u[1]) THEN "none" ELSE ai[u]]
    /\ UNCHANGED <<present, saved, revision, built, raced, troubles>>

ImportInit ==
    /\ JOBS = <<>>
    /\ job = [i \in Imports |-> "new"]
    /\ up = [u \in Uploads |-> NoUpload]
    /\ ai = [u \in Uploads |-> "none"]
    /\ present \in SUBSET MayExist
    /\ saved = [p \in Problems |-> <<>>]
    /\ late = {} /\ troubles = 0 /\ restarts = 0
    /\ revision = [u \in Uploads |-> {}]
    /\ built = [u \in Uploads |-> 0]
    /\ raced = {}

\* What the tasks of an import do by themselves.
Work(i) ==
    \/ Parse(i) \/ RunImportEnds(i)
    \/ \E u \in {v \in Uploads : v[1] = i} :
         \/ \E x \in up[u].busy, answer \in Answers : Attempt(u, x, answer)
         \/ \E answer \in AiResults : AiAnswers(u, answer)

ImportNext ==
    \/ \E i \in Imports : RouteImportArchive(i) \/ Work(i)
    \/ \E x \in late : LateExecution(x[1], x[2])
    \/ ProcessRestarts

ImportSpec == ImportInit /\ [][ImportNext]_importVars

(***************************************************************************)
(* Properties.                                                             *)
(***************************************************************************)
ImportTypeOK ==
    /\ JOBS \in Seq(Imports) /\ Len(JOBS) <= MaxJobs
    /\ job \in [Imports -> {"new", "parsing", "running", "done", "done with errors", "error", "lost"}]
    /\ \A u \in Uploads : ai[u] \in AiResults \union {"none", "running", "cancelled"}
    /\ present \subseteq Problems /\ raced \subseteq Uploads

Wanted == [u \in Uploads |-> {c \in UNION {step.calls : step \in ToSet(UploadTask[u])} : Writes(c)}]

\* Whatever was lost, late or tried again, the revision an upload commits holds all
\* that it uploads, its own content unless another import wrote to the same problem
\* (uploader.py:1, "every stage fully completing before the next begins"), and no
\* upload that is reported done went without a commit.
CommittedIsWhole ==
    \A u \in Uploads :
        /\ \A taken \in revision[u], c \in Wanted[u] :
             /\ c \in DOMAIN taken
             /\ u \in raced \/ taken[c] = u[1]
        /\ up[u].stage = "done" => revision[u] # {}

\* A package is built once for an upload although its answer may be lost, or come
\* late (client.py, NOT_REPEATABLE_METHODS).
BuiltOnce == \A u \in Uploads : built[u] <= 1

\* No call of the AI service outlives the upload it was made for (uploader.py:276).
AiIsNotLeft == \A u \in Uploads : up[u].ended => ai[u] # "running"

ImportIsWhole == CommittedIsWhole /\ BuiltOnce /\ AiIsNotLeft

\* An import under way that waits for no call of Polygon can go on: whatever fails
\* in an upload, it and the others come to their ends, and the import with them
\* (run_import).  As no step is ever taken back, every import ends unless the
\* process restarts.
Waits(i) == \E u \in Uploads : u[1] = i /\ up[u].busy # {}
ImportsGoOn ==
    \A i \in Imports : job[i] \in {"parsing", "running"} /\ ~Waits(i) => ENABLED Work(i)
=============================================================================
