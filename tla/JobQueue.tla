------------------------------ MODULE JobQueue ------------------------------
(***************************************************************************)
(* The durable background queue of backend/jobs: the `jobs` table, the     *)
(* Redis stream with its consumer group, and the worker processes.         *)
(*                                                                         *)
(* The table row is the truth; the stream only wakes workers.  A stream    *)
(* entry is its position in `stream`; entries up to `delivered` were       *)
(* handed to a consumer, and those not acknowledged yet are `pending`      *)
(* (the group's PEL).  A worker handles its fetched entries one at a time, *)
(* in order of their ids, each through                                     *)
(*                                                                         *)
(*   next --claim--> load --> handle --fail--> push --> ack --> next       *)
(*     \------------- (claim refused) ------------------>                  *)
(*                                                                         *)
(* and every arrow is one database commit or one Redis call: between two   *)
(* arrows any other worker may move, or this worker may die.               *)
(***************************************************************************)
EXTENDS Integers, Sequences, FiniteSets

CONSTANTS
  Jobs,            \* job ids
  Workers,         \* worker processes (Redis consumers)
  Unhandled,       \* the jobs whose type no handler is registered for
  Percents,        \* what handlers report through progress()
  MaxAttempts,     \* Worker(max_attempts)
  Batch,           \* count of pull() and reclaim()
  MaxAborts,       \* bound: worker deaths, and run_once() passes cut short
  MaxOverruns,     \* bound: entries that turn idle while a worker holds them
  MaxApiDeaths     \* bound: API processes that die inside enqueue()

ASSUME JobsAssumption == IsFiniteSet(Jobs) /\ Unhandled \subseteq Jobs
ASSUME PercentsAssumption == Percents \subseteq Int
ASSUME BoundsAssumption ==
  /\ MaxAttempts \in Nat \ {0} /\ Batch \in Nat \ {0}
  /\ MaxAborts \in Nat /\ MaxOverruns \in Nat /\ MaxApiDeaths \in Nat

VARIABLES
  row,        \* the jobs table
  api,        \* progress of enqueue() for each job
  stream,     \* every entry ever XADDed; the id of an entry is its position
  delivered,  \* last-delivered-id of the consumer group
  pending,    \* delivered entries that were not XACKed
  idle,       \* the pending entries past min_idle_time
  pc, phase,  \* where a worker is; what run_once() is working through
  todo,       \* fetched entries the worker did not get to yet
  cur,        \* the entry being processed, 0 for none
  obj,        \* the worker's ORM copy of the row
  aborts, overruns

db      == <<row, api>>
redis   == <<stream, delivered, pending, idle>>
worker  == <<pc, phase, todo, cur, obj>>
budgets == <<aborts, overruns>>
vars    == <<row, api, stream, delivered, pending, idle,
             pc, phase, todo, cur, obj, aborts, overruns>>

Statuses == {"queued", "running", "done", "failed"}
Finished == {"done", "failed"}
Row == [status : Statuses \cup {"absent"}, attempts : Nat, progress : 0..100]
NoRow == [status |-> "absent", attempts |-> 0, progress |-> 0]

TypeOK ==
  /\ row \in [Jobs -> Row]
  /\ api \in [Jobs -> {"idle", "committed", "pushed", "died"}]
  /\ stream \in Seq(Jobs)
  /\ delivered \in 0..Len(stream)
  /\ pending \in SUBSET (1..delivered)
  /\ idle \in SUBSET pending
  /\ pc \in [Workers -> {"fetch", "next", "load", "handle", "push", "ack"}]
  /\ phase \in [Workers -> {"recover", "fresh"}]
  /\ todo \in [Workers -> SUBSET (1..delivered)]
  /\ cur \in [Workers -> 0..delivered]
  /\ obj \in [Workers -> Row]
  /\ aborts \in 0..MaxAborts
  /\ overruns \in 0..MaxOverruns

Init ==
  /\ row = [j \in Jobs |-> NoRow]
  /\ api = [j \in Jobs |-> "idle"]
  /\ stream = <<>>
  /\ delivered = 0
  /\ pending = {}
  /\ idle = {}
  /\ pc = [w \in Workers |-> "fetch"]
  /\ phase = [w \in Workers |-> "recover"]
  /\ todo = [w \in Workers |-> {}]
  /\ cur = [w \in Workers |-> 0]
  /\ obj = [w \in Workers |-> NoRow]
  /\ aborts = 0
  /\ overruns = 0

-----------------------------------------------------------------------------
\* enqueue(): commit the row, then wake a worker

Insert(j) ==
  /\ api[j] = "idle"
  /\ api' = [api EXCEPT ![j] = "committed"]
  /\ row' = [row EXCEPT ![j] = [@ EXCEPT !.status = "queued"]]
  /\ UNCHANGED <<redis, worker, budgets>>

FirstPush(j) ==
  /\ api[j] = "committed"
  /\ api' = [api EXCEPT ![j] = "pushed"]
  /\ stream' = Append(stream, j)
  /\ UNCHANGED <<row, delivered, pending, idle, worker, budgets>>

\* The API process stops between the commit and the push.
ApiDies(j) ==
  /\ api[j] = "committed"
  /\ Cardinality({i \in Jobs : api[i] = "died"}) < MaxApiDeaths
  /\ api' = [api EXCEPT ![j] = "died"]
  /\ UNCHANGED <<row, redis, worker, budgets>>

-----------------------------------------------------------------------------
\* Redis: time and the two ways of fetching entries

Held(e) == \E w \in Workers : e \in todo[w] \/ e = cur[w]

\* An entry's idle time passes reclaim_idle_ms.  While a worker still holds
\* the entry (a slow handler, or a batch-mate of one) that is an overrun.
TurnIdle(e) ==
  /\ e \notin idle
  /\ Held(e) => overruns < MaxOverruns
  /\ idle' = idle \cup {e}
  /\ overruns' = IF Held(e) THEN overruns + 1 ELSE overruns
  /\ UNCHANGED <<db, stream, delivered, pending, worker, aborts>>

Other(ph) == IF ph = "recover" THEN "fresh" ELSE "recover"

\* The worker takes the batch S; an empty one ends this half of run_once().
TakeBatch(w, S) ==
  /\ todo' = [todo EXCEPT ![w] = S]
  /\ pc' = [pc EXCEPT ![w] = IF S = {} THEN "fetch" ELSE "next"]
  /\ phase' = [phase EXCEPT ![w] = IF S = {} THEN Other(@) ELSE @]
  /\ UNCHANGED <<cur, obj>>

\* F is the first Batch entries of S, in id order.
FirstOf(F, S) ==
  /\ \A e \in F, f \in S \ F : e < f
  /\ Cardinality(F) <= Batch
  /\ F # S => Cardinality(F) = Batch

\* Mutant: XPENDING instead of XAUTOCLAIM, idle times keep running.
ReclaimWithoutClaim(w) ==
  /\ pc[w] = "fetch" /\ phase[w] = "recover"
  /\ \E S \in SUBSET idle : FirstOf(S, idle) /\ TakeBatch(w, S)
  /\ UNCHANGED <<db, redis, budgets>>

\* XAUTOCLAIM: the idle entries change hands and their idle time restarts.
Reclaim(w) ==
  /\ pc[w] = "fetch" /\ phase[w] = "recover"
  /\ \E S \in SUBSET idle :
       /\ FirstOf(S, idle)
       /\ idle' = idle \ S
       /\ TakeBatch(w, S)
  /\ UNCHANGED <<db, stream, delivered, pending, budgets>>

\* XREADGROUP ">": entries never delivered to anyone.
Pull(w) ==
  /\ pc[w] = "fetch" /\ phase[w] = "fresh"
  /\ delivered' = IF Len(stream) < delivered + Batch THEN Len(stream) ELSE delivered + Batch
  /\ pending' = pending \cup (delivered + 1 .. delivered')
  /\ TakeBatch(w, delivered + 1 .. delivered')
  /\ UNCHANGED <<db, stream, idle, budgets>>

-----------------------------------------------------------------------------
\* _process(): one entry

job(w) == stream[cur[w]]
Goto(w, label) == pc' = [pc EXCEPT ![w] = label]

\* Mutant: claim() ignores reclaim=True.
ClaimableQueuedOnly(w, j) == row[j].status = "queued"

\* claim(): one conditional UPDATE; reclaimed entries may take running rows.
Claimable(w, j) ==
  row[j].status \in IF phase[w] = "recover" THEN {"queued", "running"} ELSE {"queued"}

Started(r) == [r EXCEPT !.status = "running", !.attempts = r.attempts + 1]

Claim(w) ==
  /\ pc[w] = "next"
  /\ \E e \in todo[w] :
       /\ \A f \in todo[w] : e <= f
       /\ cur' = [cur EXCEPT ![w] = e]
       /\ todo' = [todo EXCEPT ![w] = @ \ {e}]
       /\ IF Claimable(w, stream[e])
            THEN /\ row' = [row EXCEPT ![stream[e]] = Started(@)]
                 /\ Goto(w, "load")
            ELSE /\ Goto(w, "ack")
                 /\ UNCHANGED row
  /\ UNCHANGED <<api, redis, phase, obj, budgets>>

\* db.get() after the commit: by now the row may have moved on.
Load(w) ==
  /\ pc[w] = "load"
  /\ obj' = [obj EXCEPT ![w] = row[job(w)]]
  /\ Goto(w, "handle")
  /\ UNCHANGED <<db, redis, phase, todo, cur, budgets>>

\* The unit of work writes the attributes that differ from the copy.
Changed(stored, copy, new) == IF new = copy THEN stored ELSE new

Flush(w, new) ==
  /\ row' = [row EXCEPT ![job(w)] =
       [status   |-> Changed(@.status, obj[w].status, new.status),
        attempts |-> Changed(@.attempts, obj[w].attempts, new.attempts),
        progress |-> Changed(@.progress, obj[w].progress, new.progress)]]
  /\ obj' = [obj EXCEPT ![w] = new]

Clamp(percent) == IF percent < 0 THEN 0 ELSE IF percent > 100 THEN 100 ELSE percent

SetProgress(w, percent) ==
  /\ pc[w] = "handle" /\ job(w) \notin Unhandled
  /\ Clamp(percent) # obj[w].progress
  /\ Flush(w, [obj[w] EXCEPT !.progress = Clamp(percent)])
  /\ UNCHANGED <<api, redis, pc, phase, todo, cur, budgets>>

\* The handler returned: complete() does not look at the row again.
Complete(w) ==
  /\ pc[w] = "handle" /\ job(w) \notin Unhandled
  /\ Flush(w, [obj[w] EXCEPT !.status = "done", !.progress = 100])
  /\ Goto(w, "ack")
  /\ UNCHANGED <<api, redis, phase, todo, cur, budgets>>

\* Mutant: off by one.
RetryOnceMore(w) == obj[w].attempts <= MaxAttempts

\* The handler raised: fail() decides on the attempts this worker loaded.
Retry(w) == obj[w].attempts < MaxAttempts

Fail(w) ==
  /\ pc[w] = "handle" /\ job(w) \notin Unhandled
  /\ Flush(w, [obj[w] EXCEPT !.status = IF Retry(w) THEN "queued" ELSE "failed"])
  /\ Goto(w, IF Retry(w) THEN "push" ELSE "ack")
  /\ UNCHANGED <<api, redis, phase, todo, cur, budgets>>

\* No handler for this type: the attempts are spent at once.
Reject(w) ==
  /\ pc[w] = "handle" /\ job(w) \in Unhandled
  /\ Flush(w, [obj[w] EXCEPT !.status = "failed", !.attempts = MaxAttempts])
  /\ Goto(w, "ack")
  /\ UNCHANGED <<api, redis, phase, todo, cur, budgets>>

RetryPush(w) ==
  /\ pc[w] = "push"
  /\ stream' = Append(stream, job(w))
  /\ Goto(w, "ack")
  /\ UNCHANGED <<db, delivered, pending, idle, phase, todo, cur, obj, budgets>>

Ack(w) ==
  /\ pc[w] = "ack"
  /\ pending' = pending \ {cur[w]}
  /\ idle' = idle \ {cur[w]}
  /\ cur' = [cur EXCEPT ![w] = 0]
  /\ Goto(w, IF todo[w] = {} THEN "fetch" ELSE "next")
  /\ phase' = [phase EXCEPT ![w] = IF todo[w] = {} THEN Other(@) ELSE @]
  /\ UNCHANGED <<db, stream, delivered, todo, obj, budgets>>

\* The process dies and is started again, or a database or Redis error leaves
\* run_once(): either way what was fetched stays pending and is forgotten.
Abort(w) ==
  /\ aborts < MaxAborts
  /\ pc[w] # "fetch"
  /\ aborts' = aborts + 1
  /\ pc' = [pc EXCEPT ![w] = "fetch"]
  /\ phase' = [phase EXCEPT ![w] = "recover"]
  /\ todo' = [todo EXCEPT ![w] = {}]
  /\ cur' = [cur EXCEPT ![w] = 0]
  /\ UNCHANGED <<db, redis, obj, overruns>>

-----------------------------------------------------------------------------
Step(w) ==
  \/ Reclaim(w) \/ Pull(w)
  \/ Claim(w) \/ Load(w)
  \/ \E p \in Percents : SetProgress(w, p)
  \/ Complete(w) \/ Fail(w) \/ Reject(w)
  \/ RetryPush(w) \/ Ack(w)

Next ==
  \/ \E j \in Jobs : Insert(j) \/ FirstPush(j) \/ ApiDies(j)
  \/ \E e \in pending : TurnIdle(e)
  \/ \E w \in Workers : Step(w) \/ Abort(w)

Spec == Init /\ [][Next]_vars

\* The worker loop never stops (Worker.run swallows errors, the container is
\* restarted), handlers end (every call they make has a timeout), idle time
\* passes, and enqueue() gets to its push unless its process dies.
FairSpec ==
  /\ Spec
  /\ \A w \in Workers : WF_vars(Step(w))
  /\ WF_vars(\E e \in pending : ~Held(e) /\ TurnIdle(e))
  /\ \A j \in Jobs : WF_vars(FirstPush(j))

-----------------------------------------------------------------------------
\* Entries that will still bring a worker to their job.
Live == (delivered + 1 .. Len(stream)) \cup pending

Unfinished(j) == row[j].status \in {"queued", "running"}

\* A job enqueue() has announced and that is not finished always has an entry
\* some worker will be given: no interleaving of crashes, retries and
\* duplicate entries strands it.  (jobs/worker.py _process: push before ack,
\* ack last; true as long as no held entry is reclaimed.)
JobHasCarrier ==
  \A j \in Jobs : Unfinished(j) /\ api[j] = "pushed" =>
    \E e \in Live : stream[e] = j

\* Each worker's batch is its own: no entry is held twice.  (XREADGROUP gives
\* an entry to one consumer; only a reclaim moves it.)
OneHolder ==
  \A w, v \in Workers : w # v =>
    (todo[w] \cup {cur[w]}) \cap (todo[v] \cup {cur[v]}) \subseteq {0}

\* Until an entry is first reclaimed from a living worker (overruns), no entry
\* is in two hands and no announced job is without one (transport.py pull() and
\* reclaim(), worker.py _process).
EntriesAreKept == overruns = 0 => OneHolder /\ JobHasCarrier

\* A job that handlers are tried on is given up only after MaxAttempts of them
\* (fail(): retry while attempts < max_attempts).
FailedMeansTried ==
  \A j \in Jobs : row[j].status = "failed" => row[j].attempts >= MaxAttempts

\* Every job the stream was told about is finished for good in the end, although
\* a worker dies in the middle of it or loses an entry to a reclaim (after both,
\* README, "Noticed in the code").
EventuallySettled ==
  \A j \in Jobs :
    (api[j] = "pushed") ~>
      [](row[j].status \in Finished) \/ (aborts > 0 /\ overruns > 0)

\* The jobs API sees a lifecycle: JobLifecycle with these values.
Lifecycle == INSTANCE JobLifecycle
  WITH status <- [j \in Jobs |-> row[j].status],
       attempts <- [j \in Jobs |-> row[j].attempts],
       disturbed <- aborts + overruns > 0

\* The jobs table, seen from outside, behaves as JobLifecycle: exactly-once
\* until a worker dies or is overrun, at-least-once afterwards.
LifecycleSpec == Lifecycle!Spec
=============================================================================
