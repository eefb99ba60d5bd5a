---------------------------- MODULE AuthoringRuns ----------------------------
(***************************************************************************)
(* The background operations of the AI authoring service                   *)
(* (services/ai-authoring/authoring): the API inserts runs and cancels     *)
(* them, one worker process claims the oldest run of an idle session,      *)
(* executes up to Concurrency of them as asyncio tasks, chains a package   *)
(* build after a run that asks for one, and fails what a dead worker left. *)
(*                                                                         *)
(* Rows are numbered in the order they are created.  What a handler does   *)
(* to the problem on Polygon is left out; its Build rows are kept.         *)
(***************************************************************************)
EXTENDS Integers, FiniteSets

CONSTANTS
  Sessions,
  Concurrency,   \* runs executed at once
  Limit,         \* rows one claim looks at
  MaxRepairs,    \* repairs of a package that does not build
  MaxRequests,   \* bound: runs asked for through the API
  MaxDeaths,     \* bound: deaths of the worker
  MaxFaults      \* bound: database outages and missed heartbeats

None == "none"
RunIds == 1..(2 * MaxRequests)   \* each request chains one build at most

ASSUME SessionsAssumption == Sessions # {} /\ None \notin Sessions
ASSUME LimitsAssumption ==
  Concurrency \in Nat \ {0} /\ Limit \in Nat \ {0} /\ MaxRepairs \in Nat
ASSUME BoundsAssumption ==
  MaxRequests \in Nat \ {0} /\ MaxDeaths \in Nat /\ MaxFaults \in Nat

VARIABLES
  run,       \* authoring_runs rows
  made,      \* how many of them exist
  cancelling,\* running rows with cancel_requested
  stale,     \* running rows whose heartbeat_at is older than RUN_STALE_SECONDS
  open,      \* build runs with an authoring_builds row in progress
  asked,     \* sessions with a build request between its SELECT and its INSERT
  up,        \* the worker process lives
  pc,        \* where the task of a run is ("none": no task)
  attempt,   \* run_build's attempt and the state of its package
  out,       \* what the handler returned to _execute
  busy,      \* Worker._busy_sessions
  swept,     \* rows a periodic recover() has read and not written back
  cut,       \* history: runs cut short by a death or a database error
  requests, deaths, faults

flags   == <<cancelling, stale>>
rows    == <<run, made, flags, open, asked>>
local   == <<attempt, out>>
process == <<up, pc, local, busy, swept, cut>>
budgets == <<requests, deaths, faults>>
vars    == <<run, made, cancelling, stale, open, asked, up, pc, attempt, out, busy,
             swept, cut, requests, deaths, faults>>

Settled == {"done", "failed", "needs_user", "cancelled"}

Run == [session : Sessions \cup {None}, kind : {"task", "build"},
        status : {"absent", "queued", "running"} \cup Settled,
        build : BOOLEAN]     \* result: a build is wanted
NewRun(s, k) == [session |-> s, kind |-> k, status |-> "queued", build |-> FALSE]
NoRun == [NewRun(None, "task") EXCEPT !.status = "absent"]

Attempt == [state : {None, "polling", "READY", "FAILED", "TIMEOUT"},
            number : 0..(MaxRepairs + 1)]
NoAttempt == [state |-> None, number |-> 0]

Result == [status : Settled \cup {None}, build : BOOLEAN]
NoResult == [status |-> None, build |-> FALSE]

Executing == {i \in RunIds : pc[i] # "none"}

TypeOK ==
  /\ run \in [RunIds -> Run]
  /\ made \in 0..(2 * MaxRequests)
  /\ \A i \in RunIds : run[i].status = "absent" <=> i > made
  /\ cancelling \subseteq RunIds /\ stale \subseteq RunIds /\ open \subseteq RunIds
  /\ asked \subseteq Sessions
  /\ up \in BOOLEAN
  /\ pc \in [RunIds -> {"none", "handler", "status", "chain", "add", "fail", "end"}]
  /\ attempt \in [RunIds -> Attempt]
  /\ out \in [RunIds -> Result]
  /\ busy = {run[i].session : i \in Executing}
  /\ swept \subseteq RunIds
  /\ cut \subseteq RunIds
  /\ requests \in 0..MaxRequests /\ deaths \in 0..MaxDeaths /\ faults \in 0..MaxFaults

Init ==
  /\ run = [i \in RunIds |-> NoRun] /\ made = 0
  /\ cancelling = {} /\ stale = {} /\ open = {} /\ asked = {}
  /\ up = TRUE
  /\ pc = [i \in RunIds |-> "none"]
  /\ attempt = [i \in RunIds |-> NoAttempt] /\ out = [i \in RunIds |-> NoResult]
  /\ busy = {} /\ swept = {} /\ cut = {}
  /\ requests = 0 /\ deaths = 0 /\ faults = 0

-----------------------------------------------------------------------------
\* The API (api/routes.py)

Insert(s, k) ==
  /\ made < 2 * MaxRequests
  /\ made' = made + 1
  /\ run' = [run EXCEPT ![made + 1] = NewRun(s, k)]

\* A message, an idea or a group plan: enqueue().
Enqueue(s) ==
  /\ requests < MaxRequests
  /\ requests' = requests + 1
  /\ Insert(s, "task")
  /\ UNCHANGED <<flags, open, asked, process, deaths, faults>>

\* route_build(): an active build is answered, otherwise one is inserted; the
\* worker may insert its own in between.
ActiveBuild(s) ==
  \E i \in RunIds : /\ run[i].session = s /\ run[i].kind = "build"
                    /\ run[i].status \in {"queued", "running"}

AskBuild(s) ==
  /\ requests < MaxRequests /\ s \notin asked /\ ~ActiveBuild(s)
  /\ requests' = requests + 1
  /\ asked' = asked \cup {s}
  /\ UNCHANGED <<run, made, flags, open, process, deaths, faults>>

InsertBuild(s) ==
  /\ s \in asked
  /\ asked' = asked \ {s}
  /\ Insert(s, "build")
  /\ UNCHANGED <<flags, open, process, budgets>>

\* route_cancel_run(): a queued run is cancelled, a running one is asked to stop.
Cancel(i) ==
  /\ \/ /\ run[i].status = "queued"
        /\ run' = [run EXCEPT ![i].status = "cancelled"]
        /\ UNCHANGED cancelling
     \/ /\ run[i].status = "running"
        /\ cancelling' = cancelling \cup {i}
        /\ UNCHANGED run
  /\ UNCHANGED <<made, stale, open, asked, process, budgets>>

-----------------------------------------------------------------------------
\* Claiming

Waiting == {i \in RunIds : /\ run[i].status = "queued"
                           /\ ~\E j \in RunIds : /\ run[j].status = "running"
                                                 /\ run[j].session = run[i].session}
Window == {i \in Waiting : Cardinality({j \in Waiting : j < i}) < Limit}
Eligible == {i \in Window : run[i].session \notin busy}

Start(i) ==
  /\ run' = [run EXCEPT ![i].status = "running"]
  /\ pc' = [pc EXCEPT ![i] = "handler"]
  /\ busy' = busy \cup {run[i].session}
  /\ UNCHANGED <<made, flags, open, asked, up, local, swept, cut, budgets>>

\* Mutant: the sessions the process is busy with are not skipped.
ClaimBusy(i) ==
  /\ up /\ Cardinality(Executing) < Concurrency
  /\ i \in Window /\ \A j \in Window : i <= j
  /\ Start(i)

\* The commit may arrive although the call fails: then nobody executes the run.
Claim(i) ==
  /\ up /\ Cardinality(Executing) < Concurrency
  /\ i \in Eligible /\ \A j \in Eligible : i <= j
  /\ \/ Start(i)
     \/ /\ faults < MaxFaults
        /\ faults' = faults + 1
        /\ run' = [run EXCEPT ![i].status = "running"]
        /\ UNCHANGED <<made, flags, open, asked, process, requests, deaths>>

-----------------------------------------------------------------------------
\* Handlers

Leave(i, status, wants) ==
  /\ pc' = [pc EXCEPT ![i] = "status"]
  /\ out' = [out EXCEPT ![i] = [status |-> status, build |-> wants]]
  /\ attempt' = [attempt EXCEPT ![i] = NoAttempt]

\* Chat, generate and groups return; they may want the package built.
Return(i) ==
  /\ pc[i] = "handler" /\ run[i].kind = "task"
  /\ \/ \E wants \in BOOLEAN : Leave(i, "done", wants)
     \/ Leave(i, "needs_user", FALSE)
  /\ UNCHANGED <<rows, up, busy, swept, cut, budgets>>

\* run_build(): a build row per attempt, then Polygon is polled.
NextAttempt(i) ==
  /\ pc[i] = "handler" /\ run[i].kind = "build"
  /\ attempt[i].state \in {None, "FAILED"}
  /\ attempt' = [attempt EXCEPT ![i] = [state |-> "polling", number |-> @.number + 1]]
  /\ open' = open \cup {i}
  /\ UNCHANGED <<run, made, flags, asked, up, pc, out, busy, swept, cut, budgets>>

OpenBuild(i) == attempt[i].number <= MaxRepairs /\ NextAttempt(i)

Polled(i) ==
  /\ pc[i] = "handler" /\ attempt[i].state = "polling"
  /\ \E s \in {"READY", "FAILED", "TIMEOUT"} :
       attempt' = [attempt EXCEPT ![i].state = s]
  /\ open' = open \ {i}
  /\ UNCHANGED <<run, made, flags, asked, up, pc, out, busy, swept, cut, budgets>>

\* A failed build is left to the user when the model has no fix.
BuildReturns(i) ==
  /\ pc[i] = "handler"
  /\ \/ attempt[i].state = "READY" /\ Leave(i, "done", FALSE)
     \/ attempt[i].state \in {"FAILED", "TIMEOUT"} /\ Leave(i, "needs_user", FALSE)
  /\ UNCHANGED <<rows, up, busy, swept, cut, budgets>>

\* step() finds the run cancelled; or Polygon, the model or the pipeline fails.
\* Mutant: run_build() leaves its build row as it is.
RaiseOnly(i) ==
  /\ pc[i] = "handler"
  /\ \/ i \in cancelling /\ Leave(i, "cancelled", FALSE)
     \/ Leave(i, "failed", FALSE)
  /\ UNCHANGED <<rows, up, busy, swept, cut, budgets>>

\* run_build() settles the build row in progress on its way out.
Raise(i) ==
  /\ pc[i] = "handler"
  /\ \/ i \in cancelling /\ Leave(i, "cancelled", FALSE)
     \/ Leave(i, "failed", FALSE)
  /\ open' = open \ {i}
  /\ UNCHANGED <<run, made, flags, asked, up, busy, swept, cut, budgets>>

-----------------------------------------------------------------------------
\* The end of _execute()

Goto(i, label) == pc' = [pc EXCEPT ![i] = label]

\* The flags of a run that has ended are not read any more.
Drop(S) == cancelling' = cancelling \ S /\ stale' = stale \ S

WriteStatus(i) ==
  /\ pc[i] = "status"
  /\ run' = [run EXCEPT ![i].status = out[i].status, ![i].build = out[i].build]
  /\ Drop({i})
  /\ Goto(i, "chain")
  /\ UNCHANGED <<made, open, asked, up, local, busy, swept, cut, budgets>>

\* Mutant: the status of the earlier builds is not looked at.
BuildEverQueued(i) ==
  \E j \in RunIds : run[j].session = run[i].session /\ run[j].kind = "build"

BuildQueued(i) ==
  \E j \in RunIds : /\ run[j].session = run[i].session
                    /\ run[j].kind = "build" /\ run[j].status = "queued"

Chain(i) ==
  /\ pc[i] = "chain"
  /\ Goto(i, IF out[i].build /\ ~BuildQueued(i) THEN "add" ELSE "end")
  /\ UNCHANGED <<rows, up, local, busy, swept, cut, budgets>>

AddBuild(i) ==
  /\ pc[i] = "add"
  /\ Insert(run[i].session, "build")
  /\ Goto(i, "end")
  /\ UNCHANGED <<flags, open, asked, up, local, busy, swept, cut, budgets>>

\* A database call fails, in a handler after the row it wanted to close.
Fault(i) ==
  /\ pc[i] \in {"handler", "status", "chain", "add"} /\ faults < MaxFaults
  /\ faults' = faults + 1
  /\ Goto(i, "fail")
  /\ cut' = cut \cup {i}
  /\ UNCHANGED <<rows, up, local, busy, swept, requests, deaths>>

\* _force_fail(): a run that is still running is failed, unless the database
\* is still down.
ForceFail(i) ==
  /\ pc[i] = "fail"
  /\ \/ /\ run[i].status = "running"
        /\ run' = [run EXCEPT ![i].status = "failed"]
        /\ Drop({i})
     \/ UNCHANGED <<run, flags>>
  /\ Goto(i, "end")
  /\ UNCHANGED <<made, open, asked, up, local, busy, swept, cut, budgets>>

\* Mutant: the session stays in _busy_sessions.
ReleaseNothing(i) ==
  /\ pc[i] = "end"
  /\ Goto(i, "none")
  /\ out' = [out EXCEPT ![i] = NoResult] /\ attempt' = [attempt EXCEPT ![i] = NoAttempt]
  /\ UNCHANGED <<rows, up, busy, swept, cut, budgets>>

Release(i) ==
  /\ pc[i] = "end"
  /\ Goto(i, "none")
  /\ out' = [out EXCEPT ![i] = NoResult] /\ attempt' = [attempt EXCEPT ![i] = NoAttempt]
  /\ busy' = busy \ {run[i].session}
  /\ UNCHANGED <<rows, up, swept, cut, budgets>>

-----------------------------------------------------------------------------
\* Heartbeats, recovery, deaths

\* Time passes without a heartbeat: always once nobody executes the run.
Silent(i) ==
  /\ run[i].status = "running" /\ i \notin stale
  /\ IF pc[i] = "none" THEN UNCHANGED faults
     ELSE faults < MaxFaults /\ faults' = faults + 1
  /\ stale' = stale \cup {i}
  /\ UNCHANGED <<run, made, cancelling, open, asked, process, requests, deaths>>

Heartbeat(i) ==
  /\ pc[i] # "none" /\ i \in stale
  /\ stale' = stale \ {i}
  /\ UNCHANGED <<run, made, cancelling, open, asked, process, budgets>>

\* The sweep reads the stale runs of the sessions the process is not busy with ...
SweepRead ==
  /\ up /\ swept = {}
  /\ swept' = {i \in stale : run[i].session \notin busy}
  /\ swept' # {}
  /\ UNCHANGED <<rows, up, pc, local, busy, cut, budgets>>

\* ... and writes them back in one commit, whatever became of them.
Failed(S) == [i \in RunIds |-> IF i \in S THEN [run[i] EXCEPT !.status = "failed"]
                                          ELSE run[i]]

SweepWrite ==
  /\ swept # {}
  /\ run' = Failed(swept)
  /\ Drop(swept)
  /\ swept' = {}
  /\ UNCHANGED <<made, open, asked, up, pc, local, busy, cut, budgets>>

Die ==
  /\ up /\ deaths < MaxDeaths
  /\ deaths' = deaths + 1
  /\ up' = FALSE
  /\ pc' = [i \in RunIds |-> "none"]
  /\ attempt' = [i \in RunIds |-> NoAttempt] /\ out' = [i \in RunIds |-> NoResult]
  /\ busy' = {} /\ swept' = {}
  /\ cut' = cut \cup Executing
  /\ UNCHANGED <<rows, requests, faults>>

\* run_forever() begins with recover(all_running=True).
Restart ==
  /\ ~up
  /\ up' = TRUE
  /\ LET left == {i \in RunIds : run[i].status = "running"}
     IN  run' = Failed(left) /\ Drop(left)
  /\ UNCHANGED <<made, open, asked, pc, local, busy, swept, cut, budgets>>

-----------------------------------------------------------------------------
Handle(i) == Return(i) \/ OpenBuild(i) \/ Polled(i) \/ BuildReturns(i)
             \/ Raise(i)
Finish(i) == WriteStatus(i) \/ Chain(i) \/ AddBuild(i) \/ ForceFail(i) \/ Release(i)

Api == \E s \in Sessions : Enqueue(s) \/ AskBuild(s) \/ InsertBuild(s)

Next ==
  \/ Api
  \/ \E i \in RunIds : \/ Cancel(i) \/ Claim(i) \/ Handle(i) \/ Finish(i)
                       \/ Fault(i) \/ Silent(i) \/ Heartbeat(i)
  \/ SweepRead \/ SweepWrite \/ Die \/ Restart

Spec == Init /\ [][Next]_vars

FairSpec ==
  /\ Spec
  /\ WF_vars(\E i \in RunIds : Claim(i))
  /\ \A i \in RunIds : WF_vars(Handle(i) \/ Finish(i))
  /\ WF_vars(\E i \in RunIds : pc[i] = "none" /\ Silent(i))
  /\ WF_vars(SweepRead \/ SweepWrite \/ Restart)

-----------------------------------------------------------------------------
\* runner.py:3: "runs of one session never overlap": neither two rows marked
\* running nor two tasks, nor a row and the epilogue of another run's task.
Active(i) == run[i].status = "running" \/ pc[i] # "none"

RunsNeverOverlap ==
  \A i, j \in RunIds :
    i # j /\ Active(i) /\ Active(j) => run[i].session # run[j].session

\* A run that has ended keeps its status: neither the unconditional write at
\* the end of _execute nor a sweep's late commit overwrites another outcome.
SettledIsFinal ==
  [][\A i \in RunIds : run[i].status \in Settled => run'[i].status = run[i].status]_vars

\* runner.py:3: a run is started when every earlier run of its session is over.
OldestFirst ==
  [][\A i, j \in RunIds :
       /\ run[i].status = "queued" /\ run'[i].status = "running"
       /\ j < i /\ run[j].session = run[i].session
       => run[j].status \in Settled]_vars

\* runner.py:5: a run that ended wanting a build is followed by one, unless
\* its end was cut short between the two commits.
BuildFollows ==
  \A i \in RunIds :
    run[i].status = "done" /\ run[i].build /\ pc[i] = "none" /\ i \notin cut =>
      \E j \in RunIds : j > i /\ run[j].session = run[i].session /\ run[j].kind = "build"

\* build.py:114: a run that is over, and was not cut short, leaves no build row
\* in progress.
BuildsAreClosed ==
  \A i \in RunIds : run[i].status \in Settled => i \notin open \/ i \in cut

\* Every run ends (and so no session stays blocked), although the worker dies,
\* heartbeats are missed and database calls fail.
EveryRunEnds == <>[](\A i \in RunIds : run[i].status \notin {"queued", "running"})
=============================================================================
