------------------------------ MODULE Grading -------------------------------
(***************************************************************************)
(* The job that turns a queued submission into a verdict                   *)
(* (backend/api/judge/grading.py): one grader per worker process, each     *)
(* with its own database session, around the submission row, its run rows  *)
(* and the blob row of the compile log.                                    *)
(*                                                                         *)
(* The queue is reduced to what JobQueue lets a handler see: a queued job  *)
(* is delivered, a running one is delivered again after its worker died    *)
(* or (an overrun) while it is still busy, an exception queues the job     *)
(* again until max_attempts.                                               *)
(***************************************************************************)
EXTENDS Integers, FiniteSets

CONSTANTS
  Submissions, Workers,
  Broken,        \* submissions whose problem lacks a checker, tests or answers
  Tested,        \* verdicts that come with the results of the tests
  Untested,      \* verdicts that come with a compile log and no tests
  MaxAttempts,
  MaxAborts,     \* bound: worker deaths
  MaxOverruns,   \* bound: deliveries of a job another worker is busy with
  MaxOutages     \* bound: judge calls and blob reads that fail

NoVerdict == "none"

ASSUME SubmissionsAssumption == Submissions # {} /\ Broken \subseteq Submissions
ASSUME VerdictsAssumption == Tested \cap Untested = {} /\ NoVerdict \notin Tested \cup Untested
ASSUME BoundsAssumption ==
  /\ MaxAttempts \in Nat \ {0}
  /\ MaxAborts \in Nat /\ MaxOverruns \in Nat /\ MaxOutages \in Nat

VARIABLES
  sub,      \* judge_submissions rows
  runs,     \* judge_runs of a submission: the verdict they were judged with
  logRow,   \* the compile log is in the blobs table (one log text for all)
  job,      \* the judge.submission job of each submission
  at, task, \* what a worker does, and for which submission
  mine,     \* the attempts the worker's claim saw
  obj,      \* the session's copy of the submission
  verdict,  \* the payload of the judge service
  aborts, overruns, outages

local   == <<task, mine, obj, verdict>>
budgets == <<aborts, overruns, outages>>
gradingVars == <<sub, runs, logRow, job, at, task, mine, obj, verdict,
                 aborts, overruns, outages>>

Verdicts == Tested \cup Untested
Sub == [status : {"queued", "running", "judged"}, verdict : Verdicts \cup {NoVerdict},
        log : BOOLEAN]
NewSub == [status |-> "queued", verdict |-> NoVerdict, log |-> FALSE]
Job == [status : {"queued", "running", "done", "failed"}, attempts : Nat]

GradingTypeOK ==
  /\ sub \in [Submissions -> Sub]
  /\ runs \in [Submissions -> Tested \cup {NoVerdict}]
  /\ logRow \in BOOLEAN
  /\ job \in [Submissions -> Job]
  /\ at \in [Workers -> {"idle", "load", "mark", "judge", "store", "insert",
                         "raced", "final", "finish"}]
  /\ task \in [Workers -> Submissions]
  /\ mine \in [Workers -> Nat]
  /\ obj \in [Workers -> Sub]
  /\ verdict \in [Workers -> Verdicts \cup {NoVerdict}]
  /\ aborts \in 0..MaxAborts
  /\ overruns \in 0..MaxOverruns
  /\ outages \in 0..MaxOutages

\* submit() committed the rows and enqueued the jobs.
GradingInit ==
  /\ sub = [s \in Submissions |-> NewSub]
  /\ runs = [s \in Submissions |-> NoVerdict]
  /\ logRow = FALSE
  /\ job = [s \in Submissions |-> [status |-> "queued", attempts |-> 0]]
  /\ at = [w \in Workers |-> "idle"]
  /\ task \in [Workers -> {CHOOSE s \in Submissions : TRUE}]
  /\ mine = [w \in Workers |-> 0]
  /\ obj = [w \in Workers |-> NewSub]
  /\ verdict = [w \in Workers |-> NoVerdict]
  /\ aborts = 0 /\ overruns = 0 /\ outages = 0

Proceed(w, label) == at' = [at EXCEPT ![w] = label]

-----------------------------------------------------------------------------
\* The queue around the handler

Busy(s) == \E w \in Workers : at[w] # "idle" /\ task[w] = s

\* Mutant: the claim does not count the attempt.
DeliverUncounted(w, s) ==
  /\ at[w] = "idle"
  /\ job[s].status \in {"queued", "running"} /\ ~Busy(s)
  /\ job' = [job EXCEPT ![s].status = "running"]
  /\ mine' = [mine EXCEPT ![w] = job[s].attempts]
  /\ task' = [task EXCEPT ![w] = s]
  /\ Proceed(w, "load")
  /\ UNCHANGED <<sub, runs, logRow, obj, verdict, budgets>>

Deliver(w, s) ==
  /\ at[w] = "idle"
  /\ \/ job[s].status = "queued" /\ UNCHANGED overruns
     \/ job[s].status = "running" /\ ~Busy(s) /\ UNCHANGED overruns
     \/ /\ job[s].status = "running" /\ Busy(s)
        /\ overruns < MaxOverruns
        /\ overruns' = overruns + 1
  /\ job' = [job EXCEPT ![s] = [status |-> "running", attempts |-> @.attempts + 1]]
  /\ mine' = [mine EXCEPT ![w] = job[s].attempts + 1]
  /\ task' = [task EXCEPT ![w] = s]
  /\ Proceed(w, "load")
  /\ UNCHANGED <<sub, runs, logRow, obj, verdict, aborts, outages>>

\* The handler raised: the worker decides about the retry.
RaiseError(w) ==
  /\ job' = [job EXCEPT ![task[w]].status =
               IF mine[w] < MaxAttempts THEN "queued" ELSE "failed"]
  /\ Proceed(w, "idle")

Finish(w) ==
  /\ at[w] = "finish"
  /\ job' = [job EXCEPT ![task[w]].status = "done"]
  /\ Proceed(w, "idle")
  /\ UNCHANGED <<sub, runs, logRow, local, budgets>>

Abort(w) ==
  /\ at[w] # "idle" /\ aborts < MaxAborts
  /\ aborts' = aborts + 1
  /\ Proceed(w, "idle")
  /\ UNCHANGED <<sub, runs, logRow, job, local, overruns, outages>>

-----------------------------------------------------------------------------
\* grade()

\* db.get(), and the problem, checker and tests it needs
Load(w) ==
  /\ at[w] = "load"
  /\ IF task[w] \in Broken
       THEN RaiseError(w) /\ UNCHANGED obj
       ELSE /\ obj' = [obj EXCEPT ![w] = sub[task[w]]]
            /\ Proceed(w, "mark")
            /\ UNCHANGED job
  /\ UNCHANGED <<sub, runs, logRow, task, mine, verdict, budgets>>

\* A commit writes the columns in which the copy changed.
Changed(stored, copy, new) == IF new = copy THEN stored ELSE new

Commit(w, new) ==
  /\ sub' = [sub EXCEPT ![task[w]] =
       [status  |-> Changed(@.status, obj[w].status, new.status),
        verdict |-> Changed(@.verdict, obj[w].verdict, new.verdict),
        log     |-> Changed(@.log, obj[w].log, new.log)]]
  /\ obj' = [obj EXCEPT ![w] = new]

Mark(w) ==
  /\ at[w] = "mark"
  /\ Commit(w, [obj[w] EXCEPT !.status = "running"])
  /\ Proceed(w, "judge")
  /\ UNCHANGED <<runs, logRow, job, task, mine, verdict, budgets>>

\* The blobs are read and the judge service answers.
AskJudge(w) ==
  /\ at[w] = "judge"
  /\ \E v \in Verdicts : verdict' = [verdict EXCEPT ![w] = v]
  /\ Proceed(w, "store")
  /\ UNCHANGED <<sub, runs, logRow, job, task, mine, obj, budgets>>

\* The judge or the blob store does not answer, before or after the verdict.
Unavailable(w) ==
  /\ \/ at[w] = "judge"
     \/ at[w] = "store" /\ verdict[w] \in Untested
  /\ outages < MaxOutages
  /\ outages' = outages + 1
  /\ RaiseError(w)
  /\ UNCHANGED <<sub, runs, logRow, local, aborts, overruns>>

-----------------------------------------------------------------------------
\* _store_outcome()

Outcome(w) == [obj[w] EXCEPT !.status = "judged", !.verdict = verdict[w]]

Conflict(w) == runs[task[w]] # NoVerdict

\* Mutant: the run rows are inserted ON CONFLICT DO NOTHING.
StoreRunsAnyway(w) ==
  /\ at[w] = "store" /\ verdict[w] \in Tested
  /\ Commit(w, Outcome(w))
  /\ runs' = [runs EXCEPT ![task[w]] = IF Conflict(w) THEN @ ELSE verdict[w]]
  /\ Proceed(w, "finish")
  /\ UNCHANGED <<logRow, job, task, mine, verdict, budgets>>

\* Mutant: rows that are there already are taken for success.
StoreRunsOnce(w) ==
  /\ at[w] = "store" /\ verdict[w] \in Tested
  /\ IF Conflict(w)
       THEN UNCHANGED <<sub, runs, obj>>
       ELSE Commit(w, Outcome(w)) /\ runs' = [runs EXCEPT ![task[w]] = verdict[w]]
  /\ Proceed(w, "finish")
  /\ UNCHANGED <<logRow, job, task, mine, verdict, budgets>>

\* One commit for the outcome and the rows of the tests; rows that are there
\* already break the unique constraint and everything is rolled back.
StoreRuns(w) ==
  /\ at[w] = "store" /\ verdict[w] \in Tested
  /\ IF Conflict(w)
       THEN RaiseError(w) /\ UNCHANGED <<sub, runs, obj>>
       ELSE /\ Commit(w, Outcome(w))
            /\ runs' = [runs EXCEPT ![task[w]] = verdict[w]]
            /\ Proceed(w, "finish")
            /\ UNCHANGED job
  /\ UNCHANGED <<logRow, task, mine, verdict, budgets>>

\* BlobStore.put(): its commit also publishes the outcome set so far.
PutLog(w) ==
  /\ at[w] = "store" /\ verdict[w] \in Untested
  /\ IF logRow THEN Commit(w, Outcome(w)) /\ Proceed(w, "final")
               ELSE Proceed(w, "insert") /\ UNCHANGED <<sub, obj>>
  /\ UNCHANGED <<runs, logRow, job, task, mine, verdict, budgets>>

\* Another grader may have inserted the same log meanwhile: the rollback takes
\* the outcome with it and leaves the copy expired.
InsertLog(w) ==
  /\ at[w] = "insert"
  /\ IF logRow THEN Proceed(w, "raced") /\ UNCHANGED <<sub, obj>>
               ELSE Commit(w, Outcome(w)) /\ Proceed(w, "final")
  /\ logRow' = TRUE
  /\ UNCHANGED <<runs, job, task, mine, verdict, budgets>>

\* Only the sha is written, then the first look at the expired row raises.
Raced(w) ==
  /\ at[w] = "raced"
  /\ sub' = [sub EXCEPT ![task[w]].log = TRUE]
  /\ RaiseError(w)
  /\ UNCHANGED <<runs, logRow, local, budgets>>

Final(w) ==
  /\ at[w] = "final"
  /\ Commit(w, [obj[w] EXCEPT !.log = TRUE])
  /\ Proceed(w, "finish")
  /\ UNCHANGED <<runs, logRow, job, task, mine, verdict, budgets>>

-----------------------------------------------------------------------------
Handler(w) ==
  \/ Load(w) \/ Mark(w) \/ AskJudge(w) \/ Unavailable(w)
  \/ StoreRuns(w) \/ PutLog(w) \/ InsertLog(w) \/ Raced(w) \/ Final(w)
  \/ Finish(w)

GradingNext == \E w \in Workers :
  \/ \E s \in Submissions : Deliver(w, s)
  \/ Handler(w)
  \/ Abort(w)

GradingSpec == GradingInit /\ [][GradingNext]_gradingVars

GradingFairSpec ==
  /\ GradingSpec
  /\ \A w \in Workers : WF_gradingVars(Handler(w))
  /\ \A s \in Submissions : WF_gradingVars(\E w \in Workers : Deliver(w, s))

-----------------------------------------------------------------------------
\* A verdict that comes from the tests is the verdict of the run rows the jury
\* sees, even when a late, a repeated or a dying grader judged again.
\* (grading.py:80-103: one commit for both; the unique constraint of judge_runs.)
VerdictHasRuns ==
  \A s \in Submissions :
    sub[s].status = "judged" /\ sub[s].verdict \in Tested => runs[s] = sub[s].verdict

\* As long as no busy job was delivered twice, a job that reports success has
\* left a judged submission behind.  (grading.py:71-74, jobs/worker.py complete)
DoneMeansJudged ==
  overruns = 0 =>
    \A s \in Submissions : job[s].status = "done" => sub[s].status = "judged"

\* A compile log is only referenced after its blob row was committed, and the
\* raced path keeps it so.  (blobs/store.py:59: "a dangling row is not".)
LogIsStored == \A s \in Submissions : sub[s].log => logRow

\* What a finished job says is stored: the submission is judged and its compile
\* log is there.  (grading.py, blobs/store.py:59)
ResultsAreStored == DoneMeansJudged /\ LogIsStored

\* Every submission's job settles: retries run out, whatever is down or dies.
EveryJobSettles ==
  \A s \in Submissions : <>[](job[s].status \in {"done", "failed"})

=============================================================================
