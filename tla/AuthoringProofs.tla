-------------------------- MODULE AuthoringProofs ---------------------------
(***************************************************************************)
(* Proofs about AuthoringRuns for every value of its constants: runs of a  *)
(* session never overlap, start in order, and keep their final status.     *)
(***************************************************************************)
EXTENDS AuthoringRuns, FiniteSetTheorems, TLAPS

\* Everything that is proved rests on one inductive invariant.  The row and the
\* task of a run agree ...
TasksAgree ==
  \A i \in RunIds :
    /\ pc[i] # "none" => i <= made
    /\ pc[i] \in {"handler", "status"} => run[i].status = "running"
    /\ pc[i] = "status" => out[i].status \in Settled

\* ... what the sweep has read is still running when it is written back, and
\* nobody executes it ...
SweepIsSafe ==
  /\ \A i \in stale : run[i].status = "running"
  /\ \A i \in swept : run[i].status = "running" /\ pc[i] = "none"

\* ... and a dead worker has neither a sweep nor tasks.
DeadIsIdle == ~up => swept = {} /\ Executing = {}

IInv == TypeOK /\ TasksAgree /\ SweepIsSafe /\ DeadIsIdle /\ RunsNeverOverlap

LEMMA Ids ==
  /\ RunIds \subseteq Nat
  /\ \A n \in Nat : n < 2 * MaxRequests => n + 1 \in RunIds
  /\ \A n \in 0..(2 * MaxRequests) : n < 2 * MaxRequests => n + 1 \in 0..(2 * MaxRequests)
  BY BoundsAssumption DEF RunIds

LEMMA InvInit == Init => IInv
  <1> SUFFICES ASSUME Init
               PROVE  IInv
    OBVIOUS
  <1>1. NoRun \in Run /\ NoRun.status = "absent"
    BY DEF NoRun, NewRun, Run
  <1>2. NoAttempt \in Attempt /\ NoResult \in Result
    BY LimitsAssumption DEF NoAttempt, NoResult, Attempt, Result
  <1>3. Executing = {} /\ \A i \in RunIds : pc[i] = "none" /\ run[i] = NoRun
    BY DEF Init, Executing
  <1>4. \A i \in RunIds : i > made
    BY BoundsAssumption DEF Init, RunIds
  <1>5. requests \in 0..MaxRequests /\ deaths \in 0..MaxDeaths /\ faults \in 0..MaxFaults
        /\ made \in 0..(2 * MaxRequests)
    BY BoundsAssumption DEF Init
  <1>6. TypeOK
    BY <1>1, <1>2, <1>3, <1>4, <1>5 DEF Init, TypeOK
  <1>7. QED
    BY <1>1, <1>3, <1>6
       DEF Init, IInv, TasksAgree, SweepIsSafe, DeadIsIdle, RunsNeverOverlap, Active

\* A row is added: nobody executes it, and no other row changes.
LEMMA InsertKeeps ==
  ASSUME IInv, NEW s \in Sessions \cup {None}, NEW k \in {"task", "build"}, Insert(s, k),
         UNCHANGED <<cancelling, stale, open, up, attempt, out, busy, swept, cut>>
  PROVE  /\ run' \in [RunIds -> Run]
         /\ made' \in 0..(2 * MaxRequests)
         /\ \A i \in RunIds : run'[i].status = "absent" <=> i > made'
         /\ made + 1 \in RunIds /\ made' = made + 1 /\ pc[made + 1] = "none"
         /\ run'[made + 1].status = "queued"
         /\ \A i \in RunIds \ {made + 1} : run'[i] = run[i]
         /\ run[made + 1].status = "absent"
  <1>1. /\ made \in 0..(2 * MaxRequests) /\ made < 2 * MaxRequests
        /\ run' = [run EXCEPT ![made + 1] = NewRun(s, k)]
        /\ made' = made + 1
    BY DEF IInv, TypeOK, Insert
  <1>2. made + 1 \in RunIds /\ made' \in 0..(2 * MaxRequests)
    BY <1>1, Ids, BoundsAssumption
  <1>3. NewRun(s, k) \in Run /\ NewRun(s, k).status = "queued"
    BY DEF NewRun, Run
  <1>4. run' \in [RunIds -> Run]
    BY <1>1, <1>3 DEF IInv, TypeOK
  <1>5. run'[made + 1] = NewRun(s, k) /\ \A i \in RunIds \ {made + 1} : run'[i] = run[i]
    BY <1>1, <1>2 DEF IInv, TypeOK
  <1>6. \A i \in RunIds : run'[i].status = "absent" <=> i > made'
    BY <1>1, <1>2, <1>3, <1>5, Ids DEF IInv, TypeOK
  <1>7. pc[made + 1] = "none" /\ run[made + 1].status = "absent"
    BY <1>1, <1>2 DEF IInv, TypeOK, TasksAgree
  <1>8. QED
    BY <1>1, <1>2, <1>3, <1>4, <1>5, <1>6, <1>7

\* A task that has not ended goes on: the rest of the invariant is not touched.
LEMMA TaskGoesOn ==
  ASSUME IInv, NEW i \in RunIds, pc[i] # "none",
         NEW l \in {"handler", "status", "chain", "add", "fail", "end"},
         pc' = [pc EXCEPT ![i] = l],
         UNCHANGED <<run, made, stale, up, swept, busy>>,
         \A j \in RunIds \ {i} : out'[j] = out[j],
         l = "handler" => run[i].status = "running",
         l = "status" => run[i].status = "running" /\ out'[i].status \in Settled
  PROVE  /\ pc' \in [RunIds -> {"none", "handler", "status", "chain", "add", "fail", "end"}]
         /\ busy' = {run'[j].session : j \in Executing'}
         /\ TasksAgree' /\ SweepIsSafe' /\ DeadIsIdle' /\ RunsNeverOverlap'
  <1> USE DEF IInv, TypeOK
  <1>1. \A j \in RunIds : pc'[j] = IF j = i THEN l ELSE pc[j]
    OBVIOUS
  <1>2. Executing' = Executing
    BY <1>1 DEF Executing
  <1>3. busy' = {run'[j].session : j \in Executing'}
    BY <1>2
  <1>4. TasksAgree'
    BY <1>1 DEF TasksAgree
  <1>5. SweepIsSafe'
    BY <1>1 DEF SweepIsSafe
  <1>6. DeadIsIdle'
    BY <1>2 DEF DeadIsIdle
  <1>7. RunsNeverOverlap'
    BY <1>1 DEF RunsNeverOverlap, Active
  <1>8. QED
    BY <1>3, <1>4, <1>5, <1>6, <1>7

\* A new row has no task and is not running.
LEMMA RowAdded ==
  ASSUME IInv, NEW s \in Sessions \cup {None}, NEW k \in {"task", "build"}, Insert(s, k),
         UNCHANGED <<cancelling, stale, open, up, attempt, out, busy, swept, cut, pc>>
  PROVE  /\ run' \in [RunIds -> Run]
         /\ made' \in 0..(2 * MaxRequests)
         /\ \A i \in RunIds : run'[i].status = "absent" <=> i > made'
         /\ busy' = {run'[j].session : j \in Executing'}
         /\ TasksAgree' /\ SweepIsSafe' /\ DeadIsIdle' /\ RunsNeverOverlap'
  <1> DEFINE n == made + 1
  <1>1. /\ run' \in [RunIds -> Run]
        /\ made' \in 0..(2 * MaxRequests)
        /\ \A i \in RunIds : run'[i].status = "absent" <=> i > made'
        /\ n \in RunIds /\ made' = n /\ pc[n] = "none"
        /\ run'[n].status = "queued" /\ run[n].status = "absent"
        /\ \A i \in RunIds \ {n} : run'[i] = run[i]
    BY InsertKeeps
  <1> HIDE DEF n
  <1>2. Executing' = Executing /\ n \notin Executing
    BY <1>1 DEF Executing
  <1>3. busy' = {run'[j].session : j \in Executing'}
    <2>1. \A j \in Executing : run'[j] = run[j]
      BY <1>1, <1>2 DEF Executing
    <2>2. QED
      BY <1>2, <2>1 DEF IInv, TypeOK
  <1>4. TasksAgree'
    <2>1. \A i \in RunIds : i <= made => i <= made'
      BY <1>1, Ids DEF IInv, TypeOK, n
    <2>2. QED
      BY <1>1, <2>1 DEF IInv, TasksAgree
  <1>5. SweepIsSafe'
    BY <1>1 DEF IInv, TypeOK, SweepIsSafe
  <1>6. DeadIsIdle'
    BY <1>2 DEF IInv, DeadIsIdle
  <1>7. RunsNeverOverlap'
    <2>1. \A i \in RunIds : Active(i)' => i # n /\ Active(i)
      BY <1>1 DEF Active
    <2>2. QED
      BY <1>1, <2>1 DEF IInv, RunsNeverOverlap
  <1>8. QED
    BY <1>1, <1>3, <1>4, <1>5, <1>6, <1>7

\* Nothing the invariant speaks of changes, but the flags and the counters.
LEMMA NothingMoves ==
  ASSUME IInv, UNCHANGED <<run, made, up, pc, out, busy, swept>>,
         \A i \in stale' : run[i].status = "running"
  PROVE  /\ busy' = {run'[j].session : j \in Executing'}
         /\ TasksAgree' /\ SweepIsSafe' /\ DeadIsIdle' /\ RunsNeverOverlap'
  BY DEF IInv, TypeOK, TasksAgree, SweepIsSafe, DeadIsIdle, RunsNeverOverlap, Active,
         Executing

\* A row that exists changes, but its session.
LEMMA RowChanges ==
  ASSUME IInv, NEW i \in RunIds, NEW row \in Run,
         row.status \in {"running"} \cup Settled \cup {"queued"}, row.session = run[i].session,
         run[i].status # "absent", run' = [run EXCEPT ![i] = row]
  PROVE  /\ run' \in [RunIds -> Run]
         /\ run'[i] = row
         /\ \A j \in RunIds : run'[j].session = run[j].session
         /\ \A j \in RunIds \ {i} : run'[j] = run[j]
         /\ \A j \in RunIds : run'[j].status = "absent" <=> j > made
  <1>1. run \in [RunIds -> Run] /\ run'[i] = row /\ run' \in [RunIds -> Run]
    BY DEF IInv, TypeOK
  <1>2. \A j \in RunIds \ {i} : run'[j] = run[j]
    BY <1>1
  <1>3. row.status # "absent"
    BY DEF Settled
  <1>4. \A j \in RunIds : run'[j].status = "absent" <=> j > made
    BY <1>1, <1>2, <1>3 DEF IInv, TypeOK
  <1>5. QED
    BY <1>1, <1>2, <1>4

\* A queued row that nobody executes is settled.
LEMMA RowSettled ==
  ASSUME IInv, NEW i \in RunIds, NEW row \in Run, row.status \in Settled,
         row.session = run[i].session, run[i].status = "queued",
         run' = [run EXCEPT ![i] = row],
         UNCHANGED <<made, cancelling, stale, open, asked, up, pc, attempt, out, busy, swept, cut,
                     requests, deaths, faults>>
  PROVE  IInv'
  <1>1. /\ run' \in [RunIds -> Run] /\ run'[i] = row
        /\ \A j \in RunIds : run'[j].session = run[j].session
        /\ \A j \in RunIds \ {i} : run'[j] = run[j]
        /\ \A j \in RunIds : run'[j].status = "absent" <=> j > made
    BY RowChanges
  <1>2. Executing' = Executing
    BY DEF Executing
  <1>3. TypeOK'
    BY <1>1, <1>2 DEF IInv, TypeOK, Executing
  <1>4. row.status # "running"
    BY DEF Settled
  <1>5. TasksAgree' /\ SweepIsSafe'
    BY <1>1 DEF IInv, TypeOK, TasksAgree, SweepIsSafe
  <1>6. DeadIsIdle'
    BY <1>2 DEF IInv, DeadIsIdle
  <1>7. RunsNeverOverlap'
    <2>1. \A j \in RunIds : Active(j)' => Active(j)
      BY <1>1, <1>4 DEF Active
    <2>2. QED
      BY <1>1, <2>1 DEF IInv, RunsNeverOverlap
  <1>8. QED
    BY <1>3, <1>5, <1>6, <1>7 DEF IInv

\* The API: requests and cancellations.
LEMMA ApiKeeps ==
  ASSUME IInv, \/ Api \/ \E i \in RunIds : Cancel(i)
  PROVE  IInv'
  <1>0. TypeOK
    BY DEF IInv
  <1> USE <1>0, BoundsAssumption
  <1>1. ASSUME NEW s \in Sessions, Enqueue(s)
        PROVE  IInv'
    <2>1. requests' \in 0..MaxRequests
      BY <1>1 DEF Enqueue, TypeOK
    <2>2. Insert(s, "task")
      BY <1>1 DEF Enqueue
    <2>3. UNCHANGED <<cancelling, stale, open, asked, up, attempt, out, busy, swept, cut, pc,
                      deaths, faults>>
      BY <1>1 DEF Enqueue, flags, process, local
    <2>4. QED
      BY <2>1, <2>2, <2>3, RowAdded DEF TypeOK, IInv
  <1>2. ASSUME NEW s \in Sessions, AskBuild(s)
        PROVE  IInv'
    <2>1. requests' \in 0..MaxRequests /\ asked' \subseteq Sessions
      BY <1>2 DEF AskBuild, TypeOK
    <2>2. UNCHANGED <<run, made, cancelling, stale, open, up, attempt, out, busy, swept, cut, pc,
                      deaths, faults>>
      BY <1>2 DEF AskBuild, flags, process, local
    <2>3. \A i \in stale' : run[i].status = "running"
      BY <2>2 DEF IInv, SweepIsSafe
    <2>4. QED
      BY <2>1, <2>2, <2>3, NothingMoves DEF TypeOK, IInv
  <1>3. ASSUME NEW s \in Sessions, InsertBuild(s)
        PROVE  IInv'
    <2>1. Insert(s, "build") /\ asked' \subseteq Sessions
      BY <1>3 DEF InsertBuild, TypeOK
    <2>2. UNCHANGED <<cancelling, stale, open, up, attempt, out, busy, swept, cut, pc,
                      requests, deaths, faults>>
      BY <1>3 DEF InsertBuild, flags, process, local, budgets
    <2>3. QED
      BY <2>1, <2>2, RowAdded DEF TypeOK, IInv
  <1>4. ASSUME NEW i \in RunIds, Cancel(i)
        PROVE  IInv'
    <2>1. UNCHANGED <<made, stale, open, asked, up, attempt, out, busy, swept, cut, pc,
                      requests, deaths, faults>>
      BY <1>4 DEF Cancel, process, local, budgets
    <2>2. CASE run[i].status = "running"
      <3>1. run' = run /\ cancelling' \subseteq RunIds
        BY <1>4, <2>2 DEF Cancel, TypeOK
      <3>2. \A j \in stale' : run[j].status = "running"
        BY <2>1 DEF IInv, SweepIsSafe
      <3>3. QED
        BY <2>1, <3>1, <3>2, NothingMoves DEF TypeOK, IInv
    <2>3. CASE run[i].status = "queued"
      <3> DEFINE row == [run[i] EXCEPT !.status = "cancelled"]
      <3>1. run' = [run EXCEPT ![i] = row] /\ cancelling' = cancelling
        BY <1>4, <2>3 DEF Cancel
      <3>2. row \in Run /\ row.status = "cancelled" /\ row.session = run[i].session
        BY DEF TypeOK, Run, Settled
      <3> HIDE DEF row
      <3>3. row.status \in Settled
        BY <3>2 DEF Settled
      <3>4. QED
        BY <2>1, <2>3, <3>1, <3>2, <3>3, RowSettled
    <2>4. QED
      BY <1>4, <2>2, <2>3 DEF Cancel
  <1>5. QED
    BY <1>1, <1>2, <1>3, <1>4 DEF Api

\* A claim takes a queued row of a session in which nothing runs, neither by
\* the rows nor by the process's own account.
LEMMA ClaimedIsAlone ==
  ASSUME IInv, NEW i \in Eligible
  PROVE  /\ i \in RunIds /\ run[i].status = "queued" /\ pc[i] = "none" /\ i <= made
         /\ \A j \in RunIds : Active(j) => run[j].session # run[i].session
  <1>1. i \in RunIds /\ run[i].status = "queued"
        /\ \A j \in RunIds : run[j].status = "running" => run[j].session # run[i].session
    BY DEF Eligible, Window, Waiting
  <1>2. \A j \in RunIds : pc[j] # "none" => run[j].session # run[i].session
    BY DEF Eligible, IInv, TypeOK, Executing
  <1>3. i <= made
    BY <1>1, Ids DEF IInv, TypeOK
  <1>4. QED
    BY <1>1, <1>2, <1>3 DEF Active

LEMMA ClaimKeeps ==
  ASSUME IInv, NEW i \in RunIds, Claim(i)
  PROVE  IInv'
  <1> DEFINE row == [run[i] EXCEPT !.status = "running"]
  <1>1. /\ i \in Eligible /\ up /\ run' = [run EXCEPT ![i] = row]
    BY DEF Claim, Start
  <1>2. row \in Run /\ row.status = "running" /\ row.session = run[i].session
    BY DEF IInv, TypeOK, Run, Settled
  <1> HIDE DEF row
  <1>3. /\ run[i].status = "queued" /\ pc[i] = "none" /\ i <= made
        /\ \A j \in RunIds : Active(j) => run[j].session # run[i].session
    BY <1>1, ClaimedIsAlone
  <1>4. /\ run' \in [RunIds -> Run] /\ run'[i] = row
        /\ \A j \in RunIds : run'[j].session = run[j].session
        /\ \A j \in RunIds \ {i} : run'[j] = run[j]
        /\ \A j \in RunIds : run'[j].status = "absent" <=> j > made
    BY <1>1, <1>2, <1>3, RowChanges
  <1>5. UNCHANGED <<made, cancelling, stale, open, asked, up, attempt, out, swept, cut,
                    requests, deaths>>
    BY DEF Claim, Start, flags, local, budgets, process
  <1>6. faults' \in 0..MaxFaults
    <2>1. faults' = faults \/ (faults < MaxFaults /\ faults' = faults + 1)
      BY DEF Claim, Start, budgets
    <2>2. QED
      BY <2>1, BoundsAssumption DEF IInv, TypeOK
  <1>7. \A j \in RunIds \ {i} : pc'[j] = pc[j]
    BY DEF Claim, Start, process, IInv, TypeOK
  <1>8. RunsNeverOverlap'
    <2>1. \A j \in RunIds \ {i} : Active(j)' => Active(j)
      BY <1>4, <1>7 DEF Active
    <2>2. QED
      BY <1>3, <1>4, <2>1 DEF IInv, RunsNeverOverlap
  <1>9. CASE Start(i)
    <2>1. /\ pc' = [pc EXCEPT ![i] = "handler"] /\ busy' = busy \cup {run[i].session}
          /\ pc' \in [RunIds -> {"none", "handler", "status", "chain", "add", "fail", "end"}]
      BY <1>9 DEF Start, IInv, TypeOK
    <2>2. Executing' = Executing \cup {i}
      BY <2>1 DEF Executing, IInv, TypeOK
    <2>3. busy' = {run'[j].session : j \in Executing'}
      BY <1>4, <2>1, <2>2 DEF IInv, TypeOK, Executing
    <2>4. TypeOK'
      BY <1>4, <1>5, <1>6, <2>1, <2>3 DEF IInv, TypeOK
    <2>5. TasksAgree'
      BY <1>2, <1>3, <1>4, <1>5, <2>1 DEF IInv, TypeOK, TasksAgree
    <2>6. SweepIsSafe'
      BY <1>2, <1>3, <1>4, <1>5, <2>1 DEF IInv, TypeOK, SweepIsSafe
    <2>7. DeadIsIdle'
      BY <1>1, <1>5 DEF DeadIsIdle
    <2>8. QED
      BY <1>8, <2>4, <2>5, <2>6, <2>7 DEF IInv
  <1>10. CASE UNCHANGED process
    <2>1. pc' = pc /\ busy' = busy /\ Executing' = Executing
      BY <1>10 DEF process, Executing
    <2>2. busy' = {run'[j].session : j \in Executing'}
      BY <1>4, <2>1 DEF IInv, TypeOK, Executing
    <2>3. TypeOK'
      BY <1>4, <1>5, <1>6, <2>1, <2>2 DEF IInv, TypeOK
    <2>4. TasksAgree' /\ SweepIsSafe'
      BY <1>2, <1>3, <1>4, <1>5, <2>1 DEF IInv, TypeOK, TasksAgree, SweepIsSafe
    <2>5. DeadIsIdle'
      BY <1>1, <1>5 DEF DeadIsIdle
    <2>6. QED
      BY <1>8, <2>3, <2>4, <2>5 DEF IInv
  <1>11. QED
    BY <1>9, <1>10 DEF Claim

\* A handler returns.
LEMMA LeaveKeeps ==
  ASSUME IInv, NEW i \in RunIds, NEW st \in Settled, NEW wants \in BOOLEAN,
         pc[i] = "handler", Leave(i, st, wants)
  PROVE  /\ attempt' \in [RunIds -> Attempt] /\ out' \in [RunIds -> Result]
         /\ pc' = [pc EXCEPT ![i] = "status"]
         /\ run[i].status = "running" /\ out'[i].status \in Settled
         /\ \A j \in RunIds \ {i} : out'[j] = out[j]
  <1>1. NoAttempt \in Attempt /\ [status |-> st, build |-> wants] \in Result
    BY LimitsAssumption DEF NoAttempt, Attempt, Result
  <1>2. /\ pc' = [pc EXCEPT ![i] = "status"]
        /\ out' = [out EXCEPT ![i] = [status |-> st, build |-> wants]]
        /\ attempt' = [attempt EXCEPT ![i] = NoAttempt]
    BY DEF Leave
  <1>3. attempt' \in [RunIds -> Attempt] /\ out' \in [RunIds -> Result]
    BY <1>1, <1>2 DEF IInv, TypeOK
  <1>4. out'[i].status \in Settled /\ \A j \in RunIds \ {i} : out'[j] = out[j]
    BY <1>2 DEF IInv, TypeOK
  <1>5. run[i].status = "running"
    BY DEF IInv, TasksAgree
  <1>6. QED
    BY <1>2, <1>3, <1>4, <1>5

LEMMA HandlerKeeps ==
  ASSUME IInv, NEW i \in RunIds, Handle(i)
  PROVE  IInv'
  <1>0. TypeOK /\ UNCHANGED <<run, made, cancelling, stale, asked, up, busy, swept, cut,
                              requests, deaths, faults>>
    BY DEF IInv, Handle, Return, OpenBuild, NextAttempt, Polled, BuildReturns, Raise, rows, flags,
           budgets
  <1>1. pc[i] = "handler" /\ run[i].status = "running"
    BY DEF IInv, TasksAgree, Handle, Return, OpenBuild, NextAttempt, Polled, BuildReturns, Raise
  <1>2. ASSUME NEW st \in Settled, NEW wants \in BOOLEAN, Leave(i, st, wants),
               open' \subseteq RunIds
        PROVE  IInv'
    <2>1. /\ attempt' \in [RunIds -> Attempt] /\ out' \in [RunIds -> Result]
          /\ pc' = [pc EXCEPT ![i] = "status"]
          /\ out'[i].status \in Settled
          /\ \A j \in RunIds \ {i} : out'[j] = out[j]
      BY <1>1, <1>2, LeaveKeeps
    <2>2. /\ pc' \in [RunIds -> {"none", "handler", "status", "chain", "add", "fail", "end"}]
          /\ busy' = {run'[j].session : j \in Executing'}
          /\ TasksAgree' /\ SweepIsSafe' /\ DeadIsIdle' /\ RunsNeverOverlap'
      BY <1>0, <1>1, <2>1, TaskGoesOn
    <2>3. QED
      BY <1>0, <1>2, <2>1, <2>2 DEF IInv, TypeOK
  <1>3. "done" \in Settled /\ "needs_user" \in Settled /\ "failed" \in Settled /\ "cancelled" \in Settled
    BY DEF Settled
  <1>4. CASE Return(i)
    <2>1. open' \subseteq RunIds
      BY <1>0, <1>4 DEF Return, rows, TypeOK
    <2>2. QED
      BY <1>2, <1>3, <1>4, <2>1 DEF Return
  <1>5. ASSUME attempt' \in [RunIds -> Attempt], open' \subseteq RunIds, UNCHANGED <<pc, out>>
        PROVE  IInv'
    <2>1. \A j \in stale' : run[j].status = "running"
      BY <1>0 DEF IInv, SweepIsSafe
    <2>2. QED
      BY <1>0, <1>5, <2>1, NothingMoves DEF IInv, TypeOK
  <1>6. CASE OpenBuild(i)
    <2>1. attempt[i] \in Attempt /\ attempt[i].number <= MaxRepairs
      BY <1>0, <1>6 DEF OpenBuild, TypeOK
    <2>2. [state |-> "polling", number |-> attempt[i].number + 1] \in Attempt
      BY <2>1, LimitsAssumption DEF Attempt
    <2>3. attempt' = [attempt EXCEPT ![i] = [state |-> "polling", number |-> attempt[i].number + 1]]
      BY <1>6 DEF OpenBuild, NextAttempt
    <2>4. attempt' \in [RunIds -> Attempt]
      BY <1>0, <2>2, <2>3 DEF TypeOK
    <2>5. open' \subseteq RunIds /\ UNCHANGED <<pc, out>>
      BY <1>0, <1>6 DEF OpenBuild, NextAttempt, TypeOK
    <2>6. QED
      BY <1>5, <2>4, <2>5
  <1>7. CASE Polled(i)
    <2>1. PICK s \in {"READY", "FAILED", "TIMEOUT"} : attempt' = [attempt EXCEPT ![i].state = s]
      BY <1>7 DEF Polled
    <2>2. attempt' \in [RunIds -> Attempt]
      BY <1>0, <2>1 DEF TypeOK, Attempt
    <2>3. open' \subseteq RunIds /\ UNCHANGED <<pc, out>>
      BY <1>0, <1>7 DEF Polled, TypeOK
    <2>4. QED
      BY <1>5, <2>2, <2>3
  <1>8. CASE BuildReturns(i)
    <2>1. open' \subseteq RunIds
      BY <1>0, <1>8 DEF BuildReturns, rows, TypeOK
    <2>2. QED
      BY <1>2, <1>3, <1>8, <2>1 DEF BuildReturns
  <1>9. CASE Raise(i)
    <2>1. open' \subseteq RunIds
      BY <1>0, <1>9 DEF Raise, TypeOK
    <2>2. QED
      BY <1>2, <1>3, <1>9, <2>1 DEF Raise
  <1>10. QED
    BY <1>4, <1>6, <1>7, <1>8, <1>9 DEF Handle

\* A running row ends or is failed: the flags of a run that has ended are gone.
LEMMA RowEnds ==
  ASSUME IInv, NEW i \in RunIds, NEW row \in Run, row.status \in Settled,
         row.session = run[i].session, run[i].status = "running",
         run' = [run EXCEPT ![i] = row], Drop({i}), pc[i] # "none",
         NEW l \in {"chain", "end"}, pc' = [pc EXCEPT ![i] = l],
         UNCHANGED <<made, open, asked, up, attempt, out, busy, swept, cut,
                     requests, deaths, faults>>
  PROVE  IInv'
  <1>1. /\ run' \in [RunIds -> Run] /\ run'[i] = row
        /\ \A j \in RunIds : run'[j].session = run[j].session
        /\ \A j \in RunIds \ {i} : run'[j] = run[j]
        /\ \A j \in RunIds : run'[j].status = "absent" <=> j > made
    BY RowChanges
  <1>2. \A j \in RunIds : pc'[j] = IF j = i THEN l ELSE pc[j]
    BY DEF IInv, TypeOK
  <1>3. Executing' = Executing /\ cancelling' \subseteq RunIds /\ stale' = stale \ {i}
    BY <1>2 DEF Executing, Drop, IInv, TypeOK
  <1>4. busy' = {run'[j].session : j \in Executing'}
    BY <1>1, <1>3 DEF IInv, TypeOK, Executing
  <1>5. TypeOK'
    BY <1>1, <1>3, <1>4 DEF IInv, TypeOK
  <1>6. TasksAgree'
    BY <1>1, <1>2 DEF IInv, TasksAgree
  <1>7. SweepIsSafe'
    BY <1>1, <1>2, <1>3 DEF IInv, TypeOK, SweepIsSafe
  <1>8. DeadIsIdle'
    BY <1>3 DEF IInv, DeadIsIdle
  <1>9. RunsNeverOverlap'
    <2>1. \A j \in RunIds : Active(j)' => Active(j)
      BY <1>1, <1>2 DEF Active
    <2>2. QED
      BY <1>1, <2>1 DEF IInv, RunsNeverOverlap
  <1>10. QED
    BY <1>5, <1>6, <1>7, <1>8, <1>9 DEF IInv

LEMMA FinishKeeps ==
  ASSUME IInv, NEW i \in RunIds, Finish(i)
  PROVE  IInv'
  <1>0. TypeOK
    BY DEF IInv
  <1>1. CASE WriteStatus(i)
    <2> DEFINE row == [run[i] EXCEPT !.status = out[i].status, !.build = out[i].build]
    <2>1. run[i] \in Run /\ run[i].status = "running" /\ out[i].status \in Settled
          /\ out[i].build \in BOOLEAN
      BY <1>1 DEF WriteStatus, IInv, TypeOK, TasksAgree, Result
    <2>2. row \in Run /\ row.status \in Settled /\ row.session = run[i].session
      BY <2>1 DEF Run
    <2>3. run' = [run EXCEPT ![i] = row]
      BY <1>1 DEF WriteStatus
    <2>4. /\ Drop({i}) /\ pc[i] # "none" /\ pc' = [pc EXCEPT ![i] = "chain"]
          /\ UNCHANGED <<made, open, asked, up, attempt, out, busy, swept, cut,
                         requests, deaths, faults>>
      BY <1>1 DEF WriteStatus, Goto, local, budgets
    <2> HIDE DEF row
    <2>5. QED
      BY <2>1, <2>2, <2>3, <2>4, RowEnds
  <1>2. CASE Chain(i)
    <2>1. PICK l \in {"add", "end"} : pc' = [pc EXCEPT ![i] = l]
      BY <1>2 DEF Chain, Goto
    <2>2. /\ pc[i] # "none"
          /\ UNCHANGED <<run, made, cancelling, stale, open, asked, up, attempt, out, busy, swept,
                         cut, requests, deaths, faults>>
      BY <1>2 DEF Chain, rows, flags, local, budgets
    <2>3. /\ pc' \in [RunIds -> {"none", "handler", "status", "chain", "add", "fail", "end"}]
          /\ busy' = {run'[j].session : j \in Executing'}
          /\ TasksAgree' /\ SweepIsSafe' /\ DeadIsIdle' /\ RunsNeverOverlap'
      BY <2>1, <2>2, TaskGoesOn
    <2>4. QED
      BY <1>0, <2>2, <2>3 DEF IInv, TypeOK
  <1>3. CASE AddBuild(i)
    <2>1. /\ pc[i] = "add" /\ Insert(run[i].session, "build") /\ pc' = [pc EXCEPT ![i] = "end"]
          /\ UNCHANGED <<cancelling, stale, open, asked, up, attempt, out, busy, swept, cut,
                         requests, deaths, faults>>
      BY <1>3 DEF AddBuild, Goto, flags, local, budgets
    <2>2. run[i].session \in Sessions \cup {None}
      BY <1>0 DEF TypeOK, Run
    <2>3. /\ run' \in [RunIds -> Run] /\ made' \in 0..(2 * MaxRequests)
          /\ \A j \in RunIds : run'[j].status = "absent" <=> j > made'
          /\ made + 1 \in RunIds /\ made' = made + 1 /\ pc[made + 1] = "none"
          /\ run'[made + 1].status = "queued" /\ run[made + 1].status = "absent"
          /\ \A j \in RunIds \ {made + 1} : run'[j] = run[j]
      BY <2>1, <2>2, InsertKeeps
    <2>4. \A j \in RunIds : pc'[j] = IF j = i THEN "end" ELSE pc[j]
      BY <1>0, <2>1 DEF TypeOK
    <2>5. Executing' = Executing /\ made + 1 \notin Executing
      BY <2>1, <2>3, <2>4 DEF Executing
    <2>6. busy' = {run'[j].session : j \in Executing'}
      BY <1>0, <2>1, <2>3, <2>5 DEF TypeOK, Executing
    <2>7. TypeOK'
      BY <1>0, <2>1, <2>3, <2>6 DEF TypeOK
    <2>8. TasksAgree'
      <3>1. made \in Nat /\ made' = made + 1
        BY <1>0, <2>3 DEF TypeOK
      <3>2. \A j \in RunIds : j <= made => j <= made'
        BY <3>1, Ids
      <3>3. QED
        BY <2>1, <2>3, <2>4, <3>2 DEF IInv, TasksAgree
    <2>9. SweepIsSafe'
      BY <1>0, <2>1, <2>3, <2>4 DEF IInv, TypeOK, SweepIsSafe
    <2>10. DeadIsIdle'
      BY <2>1, <2>5 DEF IInv, DeadIsIdle
    <2>11. RunsNeverOverlap'
      <3>1. \A j \in RunIds : Active(j)' => j # made + 1 /\ Active(j)
        BY <2>1, <2>3, <2>4 DEF Active
      <3>2. QED
        BY <2>3, <3>1 DEF IInv, RunsNeverOverlap
    <2>12. QED
      BY <2>7, <2>8, <2>9, <2>10, <2>11 DEF IInv
  <1>4. CASE ForceFail(i)
    <2>1. /\ pc[i] = "fail" /\ pc' = [pc EXCEPT ![i] = "end"]
          /\ UNCHANGED <<made, open, asked, up, attempt, out, busy, swept, cut,
                         requests, deaths, faults>>
      BY <1>4 DEF ForceFail, Goto, local, budgets
    <2>2. CASE UNCHANGED <<run, flags>>
      <3>1. /\ pc' \in [RunIds -> {"none", "handler", "status", "chain", "add", "fail", "end"}]
            /\ busy' = {run'[j].session : j \in Executing'}
            /\ TasksAgree' /\ SweepIsSafe' /\ DeadIsIdle' /\ RunsNeverOverlap'
        BY <2>1, <2>2, TaskGoesOn DEF flags
      <3>2. QED
        BY <1>0, <2>1, <2>2, <3>1 DEF IInv, TypeOK, flags
    <2>3. CASE run[i].status = "running" /\ run' = [run EXCEPT ![i].status = "failed"] /\ Drop({i})
      <3> DEFINE row == [run[i] EXCEPT !.status = "failed"]
      <3>1. row \in Run /\ row.status \in Settled /\ row.session = run[i].session
        BY <1>0 DEF TypeOK, Run, Settled
      <3>2. run' = [run EXCEPT ![i] = row]
        BY <2>3
      <3> HIDE DEF row
      <3>3. QED
        BY <2>1, <2>3, <3>1, <3>2, RowEnds
    <2>4. QED
      BY <1>4, <2>2, <2>3 DEF ForceFail
  <1>5. CASE Release(i)
    <2>1. /\ pc[i] = "end" /\ pc' = [pc EXCEPT ![i] = "none"]
          /\ busy' = busy \ {run[i].session}
          /\ out' = [out EXCEPT ![i] = NoResult] /\ attempt' = [attempt EXCEPT ![i] = NoAttempt]
          /\ UNCHANGED <<run, made, cancelling, stale, open, asked, up, swept, cut,
                         requests, deaths, faults>>
      BY <1>5 DEF Release, Goto, rows, flags, budgets
    <2>2. NoAttempt \in Attempt /\ NoResult \in Result
      BY LimitsAssumption DEF NoAttempt, NoResult, Attempt, Result
    <2>3. out' \in [RunIds -> Result] /\ attempt' \in [RunIds -> Attempt]
      BY <1>0, <2>1, <2>2 DEF TypeOK
    <2>4. \A j \in RunIds : pc'[j] = IF j = i THEN "none" ELSE pc[j]
      BY <1>0, <2>1 DEF TypeOK
    <2>5. Executing' = Executing \ {i}
      BY <2>4 DEF Executing
    \* The session is free: no other task of the process is of this session.
    <2>6. \A j \in Executing \ {i} : run[j].session # run[i].session
      BY <2>1 DEF IInv, RunsNeverOverlap, Active, Executing
    <2>7. busy' = {run'[j].session : j \in Executing'}
      BY <1>0, <2>1, <2>5, <2>6 DEF TypeOK
    <2>8. TypeOK'
      BY <1>0, <2>1, <2>3, <2>7 DEF TypeOK
    <2>9. \A j \in RunIds \ {i} : out'[j] = out[j]
      BY <1>0, <2>1 DEF TypeOK
    <2>10. TasksAgree'
      BY <2>1, <2>4, <2>9 DEF IInv, TasksAgree
    <2>11. SweepIsSafe'
      BY <1>0, <2>1, <2>4 DEF IInv, TypeOK, SweepIsSafe
    <2>12. DeadIsIdle'
      BY <2>1, <2>5 DEF IInv, DeadIsIdle
    <2>13. RunsNeverOverlap'
      <3>1. \A j \in RunIds : Active(j)' => Active(j)
        BY <2>1, <2>4 DEF Active
      <3>2. QED
        BY <2>1, <3>1 DEF IInv, RunsNeverOverlap
    <2>14. QED
      BY <2>8, <2>10, <2>11, <2>12, <2>13 DEF IInv
  <1>6. QED
    BY <1>1, <1>2, <1>3, <1>4, <1>5 DEF Finish

\* Database errors, heartbeats, sweeps, deaths.
LEMMA FaultKeeps ==
  ASSUME IInv, NEW i \in RunIds, Fault(i)
  PROVE  IInv'
  <1>1. /\ pc[i] # "none" /\ pc' = [pc EXCEPT ![i] = "fail"]
        /\ faults < MaxFaults /\ faults' = faults + 1 /\ cut' = cut \cup {i}
        /\ UNCHANGED <<run, made, cancelling, stale, open, asked, up, attempt, out, busy, swept,
                       requests, deaths>>
    BY DEF Fault, Goto, rows, flags, local
  <1>2. faults' \in 0..MaxFaults
    BY <1>1, BoundsAssumption DEF IInv, TypeOK
  <1>3. /\ pc' \in [RunIds -> {"none", "handler", "status", "chain", "add", "fail", "end"}]
        /\ busy' = {run'[j].session : j \in Executing'}
        /\ TasksAgree' /\ SweepIsSafe' /\ DeadIsIdle' /\ RunsNeverOverlap'
    BY <1>1, TaskGoesOn
  <1>4. QED
    BY <1>1, <1>2, <1>3 DEF IInv, TypeOK

LEMMA HeartbeatKeeps ==
  ASSUME IInv, NEW i \in RunIds, Silent(i) \/ Heartbeat(i)
  PROVE  IInv'
  <1>1. UNCHANGED <<run, made, cancelling, open, asked, up, pc, attempt, out, busy, swept, cut,
                    requests, deaths>>
    BY DEF Silent, Heartbeat, process, local, budgets
  <1>2. stale' \subseteq RunIds /\ \A j \in stale' : run[j].status = "running"
    BY DEF Silent, Heartbeat, IInv, TypeOK, SweepIsSafe
  <1>3. faults' \in 0..MaxFaults
    <2>1. faults' = faults \/ (faults < MaxFaults /\ faults' = faults + 1)
      BY DEF Silent, Heartbeat, budgets
    <2>2. QED
      BY <2>1, BoundsAssumption DEF IInv, TypeOK
  <1>4. QED
    BY <1>1, <1>2, <1>3, NothingMoves DEF IInv, TypeOK

LEMMA SweepReadKeeps ==
  ASSUME IInv, SweepRead
  PROVE  IInv'
  <1>1. /\ up /\ swept' = {i \in stale : run[i].session \notin busy}
        /\ UNCHANGED <<run, made, cancelling, stale, open, asked, up, pc, attempt, out, busy, cut,
                       requests, deaths, faults>>
    BY DEF SweepRead, rows, flags, local, budgets
  <1>2. \A i \in swept' : i \in RunIds /\ run[i].status = "running" /\ pc[i] = "none"
    BY <1>1 DEF IInv, TypeOK, SweepIsSafe, Executing
  <1>3. TypeOK'
    BY <1>1, <1>2 DEF IInv, TypeOK, Executing
  <1>4. QED
    BY <1>1, <1>2, <1>3
       DEF IInv, TasksAgree, SweepIsSafe, DeadIsIdle, RunsNeverOverlap, Active, Executing

\* Rows that are running and that nobody executes are failed.
LEMMA RowsFailed ==
  ASSUME IInv, NEW S \in SUBSET RunIds, run' = Failed(S), Drop(S),
         \A i \in S : run[i].status = "running" /\ pc[i] = "none",
         swept' = {}, up' \in BOOLEAN, up => up',
         UNCHANGED <<made, open, asked, pc, attempt, out, busy, cut, requests, deaths, faults>>
  PROVE  IInv'
  <1>1. \A i \in RunIds : run'[i] = IF i \in S THEN [run[i] EXCEPT !.status = "failed"] ELSE run[i]
    BY DEF Failed
  <1>2. \A i \in RunIds : run[i] \in Run
    BY DEF IInv, TypeOK
  <1>3. \A i \in RunIds : /\ [run[i] EXCEPT !.status = "failed"] \in Run
                          /\ [run[i] EXCEPT !.status = "failed"].status = "failed"
                          /\ [run[i] EXCEPT !.status = "failed"].session = run[i].session
    BY <1>2 DEF Run, Settled
  <1>4. \A i \in RunIds : /\ run'[i] \in Run
                          /\ run'[i].session = run[i].session
                          /\ i \in S => run'[i].status = "failed"
                          /\ i \notin S => run'[i] = run[i]
    BY <1>1, <1>2, <1>3, ZenonT(30)
  <1>5. run' \in [RunIds -> Run]
    BY <1>4 DEF Failed
  <1>6. \A i \in RunIds : run'[i].status = "absent" <=> i > made
    BY <1>4 DEF IInv, TypeOK
  <1>7. Executing' = Executing /\ cancelling' \subseteq RunIds /\ stale' = stale \ S
    BY DEF Executing, Drop, IInv, TypeOK
  <1>8. busy' = {run'[j].session : j \in Executing'}
    BY <1>4, <1>7 DEF IInv, TypeOK, Executing
  <1>9. TypeOK'
    BY <1>5, <1>6, <1>7, <1>8 DEF IInv, TypeOK
  <1>10. TasksAgree'
    BY <1>4 DEF IInv, TasksAgree
  <1>11. SweepIsSafe'
    BY <1>4, <1>7 DEF IInv, TypeOK, SweepIsSafe
  <1>12. DeadIsIdle'
    BY <1>7 DEF IInv, DeadIsIdle
  <1>13. RunsNeverOverlap'
    <2>1. \A j \in RunIds : Active(j)' => Active(j)
      BY <1>4 DEF Active
    <2>2. QED
      BY <1>4, <2>1 DEF IInv, RunsNeverOverlap
  <1>14. QED
    BY <1>9, <1>10, <1>11, <1>12, <1>13 DEF IInv

LEMMA SweepWriteKeeps ==
  ASSUME IInv, SweepWrite
  PROVE  IInv'
  <1>1. /\ run' = Failed(swept) /\ Drop(swept) /\ swept' = {} /\ up' = up
        /\ UNCHANGED <<made, open, asked, pc, attempt, out, busy, cut, requests, deaths, faults>>
    BY DEF SweepWrite, local, budgets
  <1>2. /\ swept \in SUBSET RunIds /\ up \in BOOLEAN
        /\ \A i \in swept : run[i].status = "running" /\ pc[i] = "none"
    BY DEF IInv, TypeOK, SweepIsSafe
  <1>3. QED
    BY <1>1, <1>2, RowsFailed

LEMMA RestartKeeps ==
  ASSUME IInv, Restart
  PROVE  IInv'
  <1> DEFINE left == {i \in RunIds : run[i].status = "running"}
  <1>1. /\ run' = Failed(left) /\ Drop(left) /\ swept' = swept /\ up' = TRUE /\ ~up
        /\ UNCHANGED <<made, open, asked, pc, attempt, out, busy, cut, requests, deaths, faults>>
    BY DEF Restart, local, budgets
  <1>2. swept = {} /\ Executing = {}
    BY <1>1 DEF IInv, DeadIsIdle
  <1>3. \A i \in left : run[i].status = "running" /\ pc[i] = "none"
    BY <1>2 DEF Executing
  <1>4. left \in SUBSET RunIds
    OBVIOUS
  <1> HIDE DEF left
  <1>5. QED
    BY <1>1, <1>2, <1>3, <1>4, RowsFailed

LEMMA DieKeeps ==
  ASSUME IInv, Die
  PROVE  IInv'
  <1>1. /\ deaths < MaxDeaths /\ deaths' = deaths + 1 /\ up' = FALSE
        /\ pc' = [i \in RunIds |-> "none"]
        /\ attempt' = [i \in RunIds |-> NoAttempt] /\ out' = [i \in RunIds |-> NoResult]
        /\ busy' = {} /\ swept' = {} /\ cut' = cut \cup Executing
        /\ UNCHANGED <<run, made, cancelling, stale, open, asked, requests, faults>>
    BY DEF Die, rows, flags
  <1>2. NoAttempt \in Attempt /\ NoResult \in Result
    BY LimitsAssumption DEF NoAttempt, NoResult, Attempt, Result
  <1>3. deaths' \in 0..MaxDeaths
    BY <1>1, BoundsAssumption DEF IInv, TypeOK
  <1>4. Executing' = {} /\ cut' \subseteq RunIds
    BY <1>1 DEF Executing, IInv, TypeOK
  <1>5. TypeOK'
    BY <1>1, <1>2, <1>3, <1>4 DEF IInv, TypeOK
  <1>6. TasksAgree' /\ SweepIsSafe' /\ DeadIsIdle'
    BY <1>1, <1>4 DEF IInv, TasksAgree, SweepIsSafe, DeadIsIdle
  <1>7. RunsNeverOverlap'
    <2>1. \A j \in RunIds : Active(j)' => Active(j)
      BY <1>1 DEF Active
    <2>2. QED
      BY <1>1, <2>1 DEF IInv, RunsNeverOverlap
  <1>8. QED
    BY <1>5, <1>6, <1>7 DEF IInv

LEMMA InvStep == IInv /\ [Next]_vars => IInv'
  <1> SUFFICES ASSUME IInv, [Next]_vars
               PROVE  IInv'
    OBVIOUS
  <1>1. CASE UNCHANGED vars
    BY <1>1 DEF vars, IInv, TypeOK, TasksAgree, SweepIsSafe, DeadIsIdle, RunsNeverOverlap,
                Active, Executing
  <1>2. QED
    BY <1>1, ApiKeeps, ClaimKeeps, HandlerKeeps, FinishKeeps, FaultKeeps, HeartbeatKeeps,
       SweepReadKeeps, SweepWriteKeeps, DieKeeps, RestartKeeps DEF Next

LEMMA Invariance == Spec => []IInv
  BY InvInit, InvStep, PTL DEF Spec

\* The rows, flags, tasks and bookkeeping keep their types; in particular the
\* process's _busy_sessions are the sessions of its tasks.
THEOREM TypeCorrect == Spec => []TypeOK
  <1>1. IInv => TypeOK
    BY DEF IInv
  <1>2. QED
    BY <1>1, Invariance, PTL

\* Two runs of a session never overlap (runner.py:3), whatever the worker's
\* concurrency, through cancellations, deaths, database errors and sweeps.
THEOREM NoOverlap == Spec => []RunsNeverOverlap
  <1>1. IInv => RunsNeverOverlap
    BY DEF IInv
  <1>2. QED
    BY <1>1, Invariance, PTL

-----------------------------------------------------------------------------
\* The steps a row's status can make.
Moves(i) ==
  \/ run'[i].status = run[i].status
  \/ run[i].status = "absent" /\ run'[i].status \in {"absent", "queued"}
  \/ run[i].status = "queued" /\ run'[i].status = "cancelled"
  \/ run[i].status = "queued" /\ i \in Eligible /\ \A j \in Eligible : i <= j
  \/ run[i].status = "running" /\ run'[i].status \in Settled

LEMMA AddedMoves ==
  ASSUME IInv, NEW s \in Sessions \cup {None}, NEW k \in {"task", "build"}, Insert(s, k),
         UNCHANGED <<cancelling, stale, open, up, attempt, out, busy, swept, cut>>
  PROVE  \A i \in RunIds : Moves(i)
  <1> DEFINE n == made + 1
  <1>1. /\ run[n].status = "absent" /\ run'[n].status = "queued"
        /\ \A i \in RunIds \ {n} : run'[i] = run[i]
    BY InsertKeeps
  <1> HIDE DEF n
  <1>2. QED
    BY <1>1 DEF Moves

LEMMA StatusMoves ==
  ASSUME IInv, Next
  PROVE  \A i \in RunIds : Moves(i)
  <1>0. run \in [RunIds -> Run]
    BY DEF IInv, TypeOK
  <1>1. ASSUME run' = run
        PROVE  \A i \in RunIds : Moves(i)
    BY <1>1 DEF Moves
  <1>2. ASSUME NEW s \in Sessions, Enqueue(s) \/ AskBuild(s) \/ InsertBuild(s)
        PROVE  \A i \in RunIds : Moves(i)
    <2>1. CASE Enqueue(s)
      BY <2>1, AddedMoves DEF Enqueue, flags, process, local
    <2>2. CASE AskBuild(s)
      BY <1>1, <2>2 DEF AskBuild
    <2>3. CASE InsertBuild(s)
      BY <2>3, AddedMoves DEF InsertBuild, flags, process, local
    <2>4. QED
      BY <1>2, <2>1, <2>2, <2>3
  <1>3. ASSUME NEW i \in RunIds, Cancel(i)
        PROVE  \A j \in RunIds : Moves(j)
    BY <1>0, <1>3 DEF Cancel, Moves, Run
  <1>4. ASSUME NEW i \in RunIds, Claim(i)
        PROVE  \A j \in RunIds : Moves(j)
    <2>1. i \in Eligible /\ (\A j \in Eligible : i <= j) /\ run[i].status = "queued"
      BY <1>4, ClaimedIsAlone DEF Claim
    <2>2. run' = [run EXCEPT ![i].status = "running"]
      BY <1>4 DEF Claim, Start
    <2>3. \A j \in RunIds \ {i} : run'[j] = run[j]
      BY <1>0, <2>2
    <2>4. QED
      BY <2>1, <2>3 DEF Moves
  <1>5. ASSUME NEW i \in RunIds, Handle(i)
        PROVE  \A j \in RunIds : Moves(j)
    BY <1>1, <1>5 DEF Handle, Return, OpenBuild, NextAttempt, Polled, BuildReturns, Raise, rows
  <1>6. ASSUME NEW i \in RunIds, Finish(i)
        PROVE  \A j \in RunIds : Moves(j)
    <2>1. CASE WriteStatus(i)
      <3>1. run[i].status = "running" /\ out[i].status \in Settled
        BY <2>1 DEF WriteStatus, IInv, TasksAgree
      <3>2. run' = [run EXCEPT ![i].status = out[i].status, ![i].build = out[i].build]
        BY <2>1 DEF WriteStatus
      <3>3. run'[i].status = out[i].status /\ \A j \in RunIds \ {i} : run'[j] = run[j]
        BY <1>0, <3>2 DEF Run
      <3>4. QED
        BY <3>1, <3>3 DEF Moves
    <2>2. CASE Chain(i) \/ Release(i)
      BY <1>1, <2>2 DEF Chain, Release, rows
    <2>3. CASE AddBuild(i)
      <3>1. run[i].session \in Sessions \cup {None}
        BY <1>0 DEF Run
      <3>2. Insert(run[i].session, "build")
            /\ UNCHANGED <<cancelling, stale, open, up, attempt, out, busy, swept, cut>>
        BY <2>3 DEF AddBuild, flags, local
      <3>3. QED
        BY <3>1, <3>2, AddedMoves
    <2>4. CASE ForceFail(i)
      <3>1. CASE run' = run
        BY <1>1, <3>1
      <3>2. CASE run[i].status = "running" /\ run' = [run EXCEPT ![i].status = "failed"]
        BY <1>0, <3>2 DEF Moves, Run, Settled
      <3>3. QED
        BY <2>4, <3>1, <3>2 DEF ForceFail
    <2>5. QED
      BY <1>6, <2>1, <2>2, <2>3, <2>4 DEF Finish
  <1>7. ASSUME NEW i \in RunIds, Fault(i) \/ Silent(i) \/ Heartbeat(i)
        PROVE  \A j \in RunIds : Moves(j)
    BY <1>1, <1>7 DEF Fault, Silent, Heartbeat, rows
  <1>8. CASE SweepRead \/ Die
    BY <1>1, <1>8 DEF SweepRead, Die, rows
  <1>9. ASSUME NEW S \in SUBSET RunIds, run' = Failed(S),
               \A i \in S : run[i].status = "running"
        PROVE  \A i \in RunIds : Moves(i)
    <2>1. \A i \in RunIds :
            run'[i] = IF i \in S THEN [run[i] EXCEPT !.status = "failed"] ELSE run[i]
      BY <1>9 DEF Failed
    <2>2. \A i \in RunIds : [run[i] EXCEPT !.status = "failed"].status = "failed"
      BY <1>0 DEF Run
    <2>3. \A i \in RunIds : IF i \in S THEN run'[i].status = "failed" ELSE run'[i] = run[i]
      BY <2>1, <2>2, Zenon
    <2>4. QED
      BY <1>9, <2>3 DEF Moves, Settled
  <1>10. CASE SweepWrite
    BY <1>9, <1>10 DEF SweepWrite, IInv, TypeOK, SweepIsSafe
  <1>11. CASE Restart
    <2> DEFINE left == {i \in RunIds : run[i].status = "running"}
    <2>1. run' = Failed(left) /\ left \in SUBSET RunIds
          /\ \A i \in left : run[i].status = "running"
      BY <1>11 DEF Restart
    <2> HIDE DEF left
    <2>2. QED
      BY <1>9, <2>1
  <1>12. QED
    BY <1>2, <1>3, <1>4, <1>5, <1>6, <1>7, <1>8, <1>10, <1>11 DEF Next, Api

\* A run that has ended keeps its status: neither the unconditional write at
\* the end of _execute nor a sweep's late commit overwrites another outcome.
THEOREM OutcomeIsFinal == Spec => SettledIsFinal
  <1>1. IInv /\ [Next]_vars =>
          [\A i \in RunIds : run[i].status \in Settled => run'[i].status = run[i].status]_vars
    BY StatusMoves DEF Moves, Settled
  <1>2. QED
    BY <1>1, Invariance, PTL DEF Spec, SettledIsFinal

-----------------------------------------------------------------------------
\* The window of a claim is closed downwards: what waits before a row of the
\* window is in the window.
LEMMA WindowIsPrefix ==
  ASSUME NEW i \in Window, NEW j \in Waiting, j < i, IInv
  PROVE  j \in Window
  <1> DEFINE Before(k) == {m \in Waiting : m < k}
  <1>1. RunIds \subseteq Nat /\ Waiting \subseteq RunIds /\ i \in RunIds /\ j \in RunIds
    BY Ids DEF Waiting, Window
  <1>2. IsFiniteSet(Before(i))
    <2>1. IsFiniteSet(RunIds)
      BY BoundsAssumption, FS_Interval DEF RunIds
    <2>2. Before(i) \subseteq RunIds
      BY <1>1
    <2>3. QED
      BY <2>1, <2>2, FS_Subset
  <1>3. Before(j) \subseteq Before(i)
    <2>1. i \in Nat /\ j \in Nat /\ j < i /\ \A m \in Waiting : m \in Nat
      BY <1>1
    <2>2. \A m \in Waiting : m < j => m < i
      BY <2>1
    <2>3. QED
      BY <2>2
  <1>4. Cardinality(Before(j)) <= Cardinality(Before(i))
    BY <1>2, <1>3, FS_Subset
  <1>5. Cardinality(Before(i)) \in Nat /\ Cardinality(Before(j)) \in Nat
    BY <1>2, <1>3, FS_Subset, FS_CardinalityType
  <1>6. Cardinality(Before(i)) < Limit
    BY DEF Window
  <1>7. Cardinality(Before(j)) < Limit
    BY <1>4, <1>5, <1>6, LimitsAssumption
  <1>8. QED
    BY <1>7 DEF Window

\* Runs of a session start in the order they were asked for, although a claim
\* looks at a window of the oldest rows and skips sessions the process is busy
\* with (runner.py:3, :127).
THEOREM StartsInOrder == Spec => OldestFirst
  <1>1. IInv /\ [Next]_vars =>
          [\A i, j \in RunIds :
             /\ run[i].status = "queued" /\ run'[i].status = "running"
             /\ j < i /\ run[j].session = run[i].session
             => run[j].status \in Settled]_vars
    <2> SUFFICES ASSUME IInv, Next, NEW i \in RunIds, NEW j \in RunIds,
                        run[i].status = "queued", run'[i].status = "running",
                        j < i, run[j].session = run[i].session
                 PROVE  run[j].status \in Settled
      OBVIOUS
    <2>1. i \in Eligible /\ \A k \in Eligible : i <= k
      BY StatusMoves DEF Moves
    <2>2. i \in Window /\ i \in Waiting /\ run[i].session \notin busy
      BY <2>1 DEF Eligible, Window
    <2>3. run[j].status # "queued"
      <3> SUFFICES ASSUME run[j].status = "queued"
                   PROVE  FALSE
        OBVIOUS
      <3>1. j \in Waiting
        BY <2>2 DEF Waiting
      <3>2. j \in Eligible
        BY <2>2, <3>1, WindowIsPrefix DEF Eligible
      <3>3. i <= j
        BY <2>1, <3>2
      <3>4. QED
        BY <3>3, Ids
    <2>4. run[j].status # "running"
      BY <2>2 DEF Waiting
    <2>5. run[j].status # "absent"
      <3>1. i <= made /\ made \in Int
        BY <2>2, ClaimedIsAlone, <2>1 DEF IInv, TypeOK
      <3>2. j <= made
        BY <3>1, Ids
      <3>3. QED
        BY <3>1, <3>2, Ids DEF IInv, TypeOK
    <2>6. QED
      BY <2>3, <2>4, <2>5 DEF IInv, TypeOK, Run
  <1>2. QED
    BY <1>1, Invariance, PTL DEF Spec, OldestFirst

-----------------------------------------------------------------------------
\* The build row in progress belongs to a task that polls it, unless the task
\* was cut short.
OpenIsPolled ==
  \A i \in open : \/ i \in cut
                  \/ pc[i] = "handler" /\ run[i].kind = "build" /\ attempt[i].state = "polling"

LEMMA PolledStep ==
  ASSUME IInv, OpenIsPolled, Next
  PROVE  OpenIsPolled'
  <1>0. TypeOK /\ open \subseteq RunIds /\ run \in [RunIds -> Run]
        /\ \A i \in RunIds : run[i] \in Run
    BY DEF IInv, TypeOK
  <1> USE <1>0 DEF OpenIsPolled
  <1>1. ASSUME NEW s \in Sessions \cup {None}, NEW k \in {"task", "build"}, Insert(s, k),
               UNCHANGED <<cancelling, stale, open, up, attempt, out, busy, swept, cut>>,
               \A i \in RunIds : pc[i] = "handler" => pc'[i] = "handler"
        PROVE  OpenIsPolled'
    <2>1. pc[made + 1] = "none" /\ \A i \in RunIds \ {made + 1} : run'[i] = run[i]
      BY <1>1, InsertKeeps
    <2>2. QED
      BY <1>1, <2>1
  <1>2. ASSUME NEW s \in Sessions, Enqueue(s) \/ AskBuild(s) \/ InsertBuild(s)
        PROVE  OpenIsPolled'
    <2>1. CASE Enqueue(s)
      BY <1>1, <2>1 DEF Enqueue, flags, process, local
    <2>2. CASE AskBuild(s)
      BY <2>2 DEF AskBuild, process, local
    <2>3. CASE InsertBuild(s)
      BY <1>1, <2>3 DEF InsertBuild, flags, process, local
    <2>4. QED
      BY <1>2, <2>1, <2>2, <2>3
  \* A row keeps its kind.
  <1>3. ASSUME NEW i \in RunIds, NEW st \in {"running", "cancelled", "failed"},
               run' = [run EXCEPT ![i].status = st]
        PROVE  \A j \in RunIds : run'[j].kind = run[j].kind
    BY <1>3 DEF Run
  <1>4. ASSUME NEW i \in RunIds, Cancel(i)
        PROVE  OpenIsPolled'
    <2>1. \A j \in RunIds : run'[j].kind = run[j].kind
      BY <1>3, <1>4 DEF Cancel
    <2>2. QED
      BY <1>4, <2>1 DEF Cancel, process, local
  <1>5. ASSUME NEW i \in RunIds, Claim(i)
        PROVE  OpenIsPolled'
    <2>1. \A j \in RunIds : run'[j].kind = run[j].kind
      BY <1>3, <1>5 DEF Claim, Start
    <2>2. pc' = pc \/ pc' = [pc EXCEPT ![i] = "handler"]
      BY <1>5 DEF Claim, Start, process
    <2>3. \A j \in RunIds : pc[j] = "handler" => pc'[j] = "handler"
      BY <2>2 DEF TypeOK
    <2>4. UNCHANGED <<open, cut, attempt>>
      BY <1>5 DEF Claim, Start, process, local
    <2>5. QED
      BY <2>1, <2>3, <2>4
  <1>6. ASSUME NEW i \in RunIds, Handle(i)
        PROVE  OpenIsPolled'
    <2>1. run' = run /\ cut' = cut
      BY <1>6 DEF Handle, Return, OpenBuild, NextAttempt, Polled, BuildReturns, Raise, rows
    <2>2. CASE Return(i) \/ BuildReturns(i) \/ Raise(i)
      <3>1. i \in open' => i \in cut
        BY <2>2 DEF Return, BuildReturns, Raise, rows
      <3>2. open' \subseteq open
        BY <2>2 DEF Return, BuildReturns, Raise, rows
      <3>3. PICK st \in Settled, wants \in BOOLEAN : Leave(i, st, wants)
        BY <2>2 DEF Return, BuildReturns, Raise, Settled
      <3>4. \A j \in RunIds \ {i} : pc'[j] = pc[j] /\ attempt'[j] = attempt[j]
        BY <3>3 DEF Leave, TypeOK
      <3>5. QED
        BY <2>1, <3>1, <3>2, <3>4
    <2>3. CASE OpenBuild(i)
      <3>1. /\ run[i].kind = "build" /\ pc[i] = "handler" /\ pc' = pc /\ open' = open \cup {i}
            /\ attempt' = [attempt EXCEPT ![i] = [state |-> "polling", number |-> @.number + 1]]
        BY <2>3 DEF OpenBuild, NextAttempt
      <3>2. attempt'[i].state = "polling" /\ \A j \in RunIds \ {i} : attempt'[j] = attempt[j]
        BY <3>1 DEF TypeOK
      <3>3. QED
        BY <2>1, <3>1, <3>2
    <2>4. CASE Polled(i)
      <3>1. /\ pc' = pc /\ open' = open \ {i}
            /\ \E s \in {"READY", "FAILED", "TIMEOUT"} : attempt' = [attempt EXCEPT ![i].state = s]
        BY <2>4 DEF Polled
      <3>2. \A j \in RunIds \ {i} : attempt'[j] = attempt[j]
        BY <3>1 DEF TypeOK
      <3>3. QED
        BY <2>1, <3>1, <3>2
    <2>5. QED
      BY <1>6, <2>2, <2>3, <2>4 DEF Handle
  <1>7. ASSUME NEW i \in RunIds, WriteStatus(i) \/ Chain(i) \/ ForceFail(i) \/ Release(i)
        PROVE  OpenIsPolled'
    <2>1. pc[i] # "handler" /\ open' = open /\ cut' = cut
      BY <1>7 DEF WriteStatus, Chain, ForceFail, Release, rows
    <2>2. \A j \in RunIds \ {i} : pc'[j] = pc[j] /\ attempt'[j] = attempt[j]
      BY <1>7 DEF WriteStatus, Chain, ForceFail, Release, Goto, local, TypeOK
    <2>3. \A j \in RunIds \ {i} : run'[j] = run[j]
      BY <1>7 DEF WriteStatus, Chain, ForceFail, Release, rows
    <2>4. QED
      BY <2>1, <2>2, <2>3
  <1>8. ASSUME NEW i \in RunIds, AddBuild(i)
        PROVE  OpenIsPolled'
    <2>1. run[i].session \in Sessions \cup {None}
      BY DEF Run
    <2>2. \A j \in RunIds : pc[j] = "handler" => pc'[j] = "handler"
      BY <1>8 DEF AddBuild, Goto, TypeOK
    <2>3. QED
      BY <1>1, <1>8, <2>1, <2>2 DEF AddBuild, flags, local
  <1>9. ASSUME NEW i \in RunIds, Fault(i)
        PROVE  OpenIsPolled'
    <2>1. UNCHANGED <<run, open, attempt>> /\ cut' = cut \cup {i}
      BY <1>9 DEF Fault, rows, local
    <2>2. \A j \in RunIds \ {i} : pc'[j] = pc[j]
      BY <1>9 DEF Fault, Goto, TypeOK
    <2>3. QED
      BY <2>1, <2>2
  <1>10. ASSUME NEW i \in RunIds, Silent(i) \/ Heartbeat(i)
         PROVE  OpenIsPolled'
    BY <1>10 DEF Silent, Heartbeat, process, local
  <1>11. CASE SweepRead
    BY <1>11 DEF SweepRead, rows, local
  <1>12. ASSUME NEW S, run' = Failed(S), UNCHANGED <<open, cut, pc, attempt>>
         PROVE  OpenIsPolled'
    <2>1. \A i \in RunIds : [run[i] EXCEPT !.status = "failed"].kind = run[i].kind
      BY DEF Run
    <2>2. \A i \in RunIds :
            run'[i] = IF i \in S THEN [run[i] EXCEPT !.status = "failed"] ELSE run[i]
      BY <1>12 DEF Failed
    <2>3. \A i \in RunIds : run'[i].kind = run[i].kind
      BY <2>1, <2>2, Zenon
    <2>4. QED
      BY <1>12, <2>3
  <1>13. CASE SweepWrite
    BY <1>12, <1>13 DEF SweepWrite, local
  <1>14. CASE Restart
    BY <1>12, <1>14 DEF Restart, local
  <1>15. CASE Die
    <2>1. UNCHANGED <<run, open>> /\ cut' = cut \cup Executing
      BY <1>15 DEF Die, rows
    <2>2. QED
      BY <2>1 DEF Executing
  <1>16. QED
    BY <1>2, <1>4, <1>5, <1>6, <1>7, <1>8, <1>9, <1>10, <1>11, <1>13, <1>14, <1>15
       DEF Next, Api, Finish

\* A run that is over, and was not cut short by a death or a database error,
\* leaves no build row in progress: run_build() closes it on each way out.
THEOREM BuildsClosed == Spec => []BuildsAreClosed
  <1>1. Init => OpenIsPolled
    BY DEF Init, OpenIsPolled
  <1>2. IInv /\ OpenIsPolled /\ [Next]_vars => OpenIsPolled'
    <2>1. UNCHANGED vars /\ OpenIsPolled => OpenIsPolled'
      BY DEF vars, OpenIsPolled
    <2>2. QED
      BY <2>1, PolledStep
  <1>3. IInv /\ OpenIsPolled => BuildsAreClosed
    BY DEF IInv, TypeOK, TasksAgree, OpenIsPolled, BuildsAreClosed, Settled
  <1>4. QED
    BY <1>1, <1>2, <1>3, Invariance, PTL DEF Spec

-----------------------------------------------------------------------------
\* What a step does to a row that exists: session and kind stay, and only the
\* end of _execute marks it done and notes whether a build is wanted.
RowStep(i) ==
  /\ run'[i].session = run[i].session /\ run'[i].kind = run[i].kind
  /\ \/ WriteStatus(i)
     \/ /\ run'[i].build = run[i].build
        /\ run'[i].status = "done" => run[i].status = "done"

RowSteps == made' \in {made, made + 1} /\ \A i \in RunIds : i <= made => RowStep(i)

LEMMA RowsStep ==
  ASSUME IInv, Next
  PROVE  RowSteps
  <1>0. /\ made \in Nat /\ RunIds \subseteq Nat /\ run \in [RunIds -> Run]
        /\ \A i \in RunIds : run[i] \in Run
    BY Ids DEF IInv, TypeOK
  <1>1. ASSUME run' = run, made' = made
        PROVE  RowSteps
    BY <1>1 DEF RowSteps, RowStep
  <1>2. ASSUME NEW s \in Sessions \cup {None}, NEW k \in {"task", "build"}, Insert(s, k),
               UNCHANGED <<cancelling, stale, open, up, attempt, out, busy, swept, cut>>
        PROVE  RowSteps
    <2>1. made' = made + 1 /\ \A i \in RunIds \ {made + 1} : run'[i] = run[i]
      BY <1>2, InsertKeeps
    <2>2. \A i \in RunIds : i <= made => i # made + 1
      BY <1>0
    <2>3. QED
      BY <2>1, <2>2 DEF RowSteps, RowStep
  <1>3. ASSUME NEW i \in RunIds, NEW st \in {"running", "cancelled", "failed"},
               run' = [run EXCEPT ![i].status = st], made' = made
        PROVE  RowSteps
    BY <1>0, <1>3 DEF RowSteps, RowStep, Run
  <1>4. ASSUME NEW S, run' = Failed(S), made' = made
        PROVE  RowSteps
    <2>1. \A i \in RunIds : /\ [run[i] EXCEPT !.status = "failed"].kind = run[i].kind
                            /\ [run[i] EXCEPT !.status = "failed"].session = run[i].session
                            /\ [run[i] EXCEPT !.status = "failed"].build = run[i].build
                            /\ [run[i] EXCEPT !.status = "failed"].status # "done"
      BY <1>0 DEF Run
    <2>2. \A i \in RunIds :
            run'[i] = IF i \in S THEN [run[i] EXCEPT !.status = "failed"] ELSE run[i]
      BY <1>4 DEF Failed
    <2>3. \A i \in RunIds : RowStep(i)
      BY <2>1, <2>2, Zenon DEF RowStep
    <2>4. QED
      BY <1>4, <2>3 DEF RowSteps
  <1>5. ASSUME NEW s \in Sessions, Enqueue(s) \/ AskBuild(s) \/ InsertBuild(s)
        PROVE  RowSteps
    <2>1. CASE Enqueue(s)
      BY <1>2, <2>1 DEF Enqueue, flags, process, local
    <2>2. CASE AskBuild(s)
      BY <1>1, <2>2 DEF AskBuild
    <2>3. CASE InsertBuild(s)
      BY <1>2, <2>3 DEF InsertBuild, flags, process, local
    <2>4. QED
      BY <1>5, <2>1, <2>2, <2>3
  <1>6. ASSUME NEW i \in RunIds, Cancel(i)
        PROVE  RowSteps
    BY <1>1, <1>3, <1>6 DEF Cancel
  <1>7. ASSUME NEW i \in RunIds, Claim(i)
        PROVE  RowSteps
    BY <1>3, <1>7 DEF Claim, Start
  <1>8. ASSUME NEW i \in RunIds, Handle(i)
        PROVE  RowSteps
    BY <1>1, <1>8 DEF Handle, Return, OpenBuild, NextAttempt, Polled, BuildReturns, Raise, rows
  <1>9. ASSUME NEW i \in RunIds, WriteStatus(i)
        PROVE  RowSteps
    <2>1. run' = [run EXCEPT ![i].status = out[i].status, ![i].build = out[i].build] /\ made' = made
      BY <1>9 DEF WriteStatus
    <2>2. run'[i].session = run[i].session /\ run'[i].kind = run[i].kind
          /\ \A j \in RunIds \ {i} : run'[j] = run[j]
      BY <1>0, <2>1 DEF Run
    <2>3. QED
      BY <1>9, <2>1, <2>2 DEF RowSteps, RowStep
  <1>10. ASSUME NEW i \in RunIds, AddBuild(i)
         PROVE  RowSteps
    <2>1. run[i].session \in Sessions \cup {None}
      BY <1>0 DEF Run
    <2>2. QED
      BY <1>2, <1>10, <2>1 DEF AddBuild, flags, local
  <1>11. ASSUME NEW i \in RunIds, Chain(i) \/ Release(i)
         PROVE  RowSteps
    BY <1>1, <1>11 DEF Chain, Release, rows
  <1>12. ASSUME NEW i \in RunIds, ForceFail(i)
         PROVE  RowSteps
    BY <1>1, <1>3, <1>12 DEF ForceFail
  <1>13. ASSUME NEW i \in RunIds, Fault(i) \/ Silent(i) \/ Heartbeat(i)
         PROVE  RowSteps
    BY <1>1, <1>13 DEF Fault, Silent, Heartbeat, rows
  <1>14. CASE SweepRead \/ Die
    BY <1>1, <1>14 DEF SweepRead, Die, rows
  <1>15. CASE SweepWrite \/ Restart
    BY <1>4, <1>15 DEF SweepWrite, Restart
  <1>16. QED
    BY <1>5, <1>6, <1>7, <1>8, <1>9, <1>10, <1>11, <1>12, <1>13, <1>14, <1>15
       DEF Next, Api, Finish

\* What a step does to a task.
TaskStep(i) ==
  \/ WriteStatus(i) \/ Chain(i) \/ AddBuild(i)
  \/ pc'[i] = pc[i] /\ out'[i] = out[i] /\ (i \in cut => i \in cut')
  \/ pc'[i] = "none" /\ i \in cut'
  \/ pc'[i] = "fail" /\ i \in cut'
  \/ /\ pc[i] \notin {"chain", "add"} /\ pc'[i] \notin {"chain", "add", "fail"}
     /\ i \in cut => i \in cut'

LEMMA TasksStep ==
  ASSUME IInv, Next
  PROVE  \A i \in RunIds : TaskStep(i)
  <1>0. pc \in [RunIds -> {"none", "handler", "status", "chain", "add", "fail", "end"}]
        /\ out \in [RunIds -> Result]
    BY DEF IInv, TypeOK
  <1>1. ASSUME UNCHANGED <<pc, out, cut>>
        PROVE  \A j \in RunIds : TaskStep(j)
    BY <1>1 DEF TaskStep
  <1>2. CASE Api
    BY <1>1, <1>2 DEF Api, Enqueue, AskBuild, InsertBuild, process, local
  <1>3. ASSUME NEW i \in RunIds, Cancel(i) \/ Silent(i) \/ Heartbeat(i)
        PROVE  \A j \in RunIds : TaskStep(j)
    BY <1>1, <1>3 DEF Cancel, Silent, Heartbeat, process, local
  <1>4. ASSUME NEW i \in RunIds, Claim(i)
        PROVE  \A j \in RunIds : TaskStep(j)
    <2>1. pc[i] = "none"
      BY <1>4, ClaimedIsAlone DEF Claim
    <2>2. CASE Start(i)
      BY <1>0, <2>1, <2>2 DEF Start, local, TaskStep
    <2>3. CASE UNCHANGED process
      BY <1>1, <2>3 DEF process, local
    <2>4. QED
      BY <1>4, <2>2, <2>3 DEF Claim
  <1>5. ASSUME NEW i \in RunIds, Handle(i)
        PROVE  \A j \in RunIds : TaskStep(j)
    <2>1. pc[i] = "handler" /\ cut' = cut
      BY <1>5 DEF Handle, Return, OpenBuild, NextAttempt, Polled, BuildReturns, Raise
    <2>2. CASE OpenBuild(i) \/ Polled(i)
      BY <1>1, <2>1, <2>2 DEF OpenBuild, NextAttempt, Polled
    <2>3. CASE Return(i) \/ BuildReturns(i) \/ Raise(i)
      <3>1. PICK st \in Settled, wants \in BOOLEAN : Leave(i, st, wants)
        BY <2>3 DEF Return, BuildReturns, Raise, Settled
      <3>2. pc'[i] = "status" /\ \A j \in RunIds \ {i} : pc'[j] = pc[j] /\ out'[j] = out[j]
        BY <1>0, <3>1 DEF Leave
      <3>3. QED
        BY <2>1, <3>2 DEF TaskStep
    <2>4. QED
      BY <1>5, <2>2, <2>3 DEF Handle
  <1>6. ASSUME NEW i \in RunIds, WriteStatus(i) \/ Chain(i) \/ AddBuild(i)
        PROVE  \A j \in RunIds : TaskStep(j)
    <2>1. cut' = cut /\ out' = out /\ \A j \in RunIds \ {i} : pc'[j] = pc[j]
      BY <1>0, <1>6 DEF WriteStatus, Chain, AddBuild, Goto, local
    <2>2. QED
      BY <1>6, <2>1 DEF TaskStep
  <1>7. ASSUME NEW i \in RunIds, ForceFail(i) \/ Release(i)
        PROVE  \A j \in RunIds : TaskStep(j)
    <2>1. pc[i] \in {"fail", "end"} /\ pc'[i] \in {"end", "none"} /\ cut' = cut
      BY <1>0, <1>7 DEF ForceFail, Release, Goto
    <2>2. \A j \in RunIds \ {i} : pc'[j] = pc[j] /\ out'[j] = out[j]
      BY <1>0, <1>7 DEF ForceFail, Release, Goto, local
    <2>3. QED
      BY <2>1, <2>2 DEF TaskStep
  <1>8. ASSUME NEW i \in RunIds, Fault(i)
        PROVE  \A j \in RunIds : TaskStep(j)
    <2>1. pc'[i] = "fail" /\ cut' = cut \cup {i} /\ out' = out
          /\ \A j \in RunIds \ {i} : pc'[j] = pc[j]
      BY <1>0, <1>8 DEF Fault, Goto, local
    <2>2. QED
      BY <2>1 DEF TaskStep
  <1>9. CASE SweepRead \/ SweepWrite \/ Restart
    BY <1>1, <1>9 DEF SweepRead, SweepWrite, Restart, local
  <1>10. CASE Die
    BY <1>10 DEF Die, Executing, TaskStep
  <1>11. QED
    BY <1>2, <1>3, <1>4, <1>5, <1>6, <1>7, <1>8, <1>9, <1>10 DEF Next, Finish

\* What waits in the session of an active run was asked for after it.
QueueBehind ==
  \A i, j \in RunIds :
    Active(i) /\ run[j].status = "queued" /\ run[j].session = run[i].session => i < j

LEMMA ActiveMoves ==
  ASSUME IInv, Next, NEW i \in RunIds, Active(i)'
  PROVE  Active(i) \/ (i \in Eligible /\ (\A k \in Eligible : i <= k) /\ run'[i].status = "running")
  <1>0. pc \in [RunIds -> {"none", "handler", "status", "chain", "add", "fail", "end"}]
        /\ run \in [RunIds -> Run]
    BY DEF IInv, TypeOK
  <1>1. CASE \E c \in RunIds : Claim(c)
    <2>1. PICK c \in RunIds : Claim(c)
      BY <1>1
    <2>2. run' = [run EXCEPT ![c].status = "running"] /\ pc' \in {pc, [pc EXCEPT ![c] = "handler"]}
          /\ c \in Eligible /\ \A k \in Eligible : c <= k
      BY <2>1 DEF Claim, Start, process
    <2>3. i # c => run'[i] = run[i] /\ pc'[i] = pc[i]
      BY <1>0, <2>2
    <2>4. i = c => run'[i].status = "running"
      BY <1>0, <2>2 DEF Run
    <2>5. QED
      BY <2>2, <2>3, <2>4 DEF Active
  <1>2. CASE ~\E c \in RunIds : Claim(c)
    <2>1. CASE pc'[i] # "none"
      <3>1. pc[i] # "none"
        <4>1. CASE Api \/ SweepRead \/ SweepWrite \/ Restart \/ Die
          BY <2>1, <4>1 DEF Api, Enqueue, AskBuild, InsertBuild, SweepRead, SweepWrite, Restart,
                            Die, process
        <4>2. ASSUME NEW k \in RunIds, Cancel(k) \/ Silent(k) \/ Heartbeat(k)
              PROVE  pc[i] # "none"
          BY <2>1, <4>2 DEF Cancel, Silent, Heartbeat, process
        <4>3. ASSUME NEW k \in RunIds, Handle(k)
              PROVE  pc[i] # "none"
          BY <1>0, <2>1, <4>3 DEF Handle, Return, OpenBuild, NextAttempt, Polled, BuildReturns,
                                  Raise, Leave
        <4>4. ASSUME NEW k \in RunIds, Finish(k) \/ Fault(k)
              PROVE  pc[i] # "none"
          BY <1>0, <2>1, <4>4 DEF Finish, WriteStatus, Chain, AddBuild, ForceFail, Release, Fault,
                                  Goto
        <4>5. QED
          BY <1>2, <4>1, <4>2, <4>3, <4>4 DEF Next
      <3>2. QED
        BY <3>1 DEF Active
    <2>2. CASE run'[i].status = "running"
      BY <2>2, StatusMoves DEF Moves, Active, Settled
    <2>3. QED
      BY <2>1, <2>2 DEF Active
  <1>3. QED
    BY <1>1, <1>2

LEMMA BehindStep ==
  ASSUME IInv, QueueBehind, Next
  PROVE  QueueBehind'
  <1> SUFFICES ASSUME NEW i \in RunIds, NEW j \in RunIds, Active(i)', run'[j].status = "queued",
                      run'[j].session = run'[i].session
               PROVE  i < j
    BY DEF QueueBehind
  <1>0. made \in Nat /\ i \in Nat /\ j \in Nat
    <2>1. made \in Nat
      BY BoundsAssumption DEF IInv, TypeOK
    <2>2. i \in Nat /\ j \in Nat
      BY Ids
    <2>3. QED
      BY <2>1, <2>2
  <1>1. i <= made
    <2>1. i \in Eligible => i <= made
      BY ClaimedIsAlone
    <2>2. Active(i) => i <= made
      BY <1>0 DEF Active, IInv, TypeOK, TasksAgree
    <2>3. QED
      BY <2>1, <2>2, ActiveMoves
  <1>2. CASE j > made
    BY <1>0, <1>1, <1>2
  <1>3. CASE j <= made
    <2>1. run[j].session = run[i].session
      BY <1>1, <1>3, RowsStep DEF RowSteps, RowStep
    <2>2. run[j].status = "queued"
      <3>1. run[j].status # "absent"
        BY <1>0, <1>3 DEF IInv, TypeOK
      <3>2. QED
        BY <3>1, StatusMoves DEF Moves, Settled
    <2>3. CASE Active(i)
      BY <2>1, <2>2, <2>3 DEF QueueBehind
    <2>4. CASE i \in Eligible /\ (\A k \in Eligible : i <= k) /\ run'[i].status = "running"
      <3>1. i \in Waiting /\ i \in Window /\ run[i].session \notin busy
        BY <2>4 DEF Eligible, Window
      <3>2. j \in Waiting
        BY <2>1, <2>2, <3>1 DEF Waiting
      <3>3. j < i => j \in Eligible
        BY <2>1, <3>1, <3>2, WindowIsPrefix DEF Eligible
      <3>4. ~(j < i)
        BY <1>0, <2>4, <3>3
      <3>5. i # j
        BY <2>4
      <3>6. QED
        BY <1>0, <3>4, <3>5
    <2>5. QED
      BY <2>3, <2>4, ActiveMoves
  <1>4. QED
    BY <1>0, <1>2, <1>3

LaterBuild(i) ==
  \E j \in RunIds : i < j /\ j <= made /\ run[j].session = run[i].session /\ run[j].kind = "build"

\* The build a run asked for is there, or its task is still about to add it.
BuildPlanned ==
  \A i \in RunIds :
    /\ pc[i] = "fail" => i \in cut
    /\ pc[i] \in {"chain", "add"} /\ run[i].build => out[i].build
    /\ run[i].status = "done" /\ run[i].build /\ i \notin cut =>
         pc[i] \in {"chain", "add"} \/ LaterBuild(i)

LEMMA PlannedStep ==
  ASSUME IInv, QueueBehind, BuildPlanned, Next
  PROVE  BuildPlanned'
  <1>0. /\ pc \in [RunIds -> {"none", "handler", "status", "chain", "add", "fail", "end"}]
        /\ run \in [RunIds -> Run] /\ out \in [RunIds -> Result]
        /\ made \in Nat /\ RunIds \subseteq Nat
    BY Ids DEF IInv, TypeOK
  <1>1. RowSteps /\ \A i \in RunIds : TaskStep(i) /\ Moves(i)
    BY RowsStep, TasksStep, StatusMoves
  <1> SUFFICES ASSUME NEW i \in RunIds
               PROVE  /\ pc'[i] = "fail" => i \in cut'
                      /\ pc'[i] \in {"chain", "add"} /\ run'[i].build => out'[i].build
                      /\ run'[i].status = "done" /\ run'[i].build /\ i \notin cut' =>
                           pc'[i] \in {"chain", "add"} \/ LaterBuild(i)'
    BY DEF BuildPlanned
  <1>2. pc[i] # "none" => i <= made
    BY DEF IInv, TasksAgree
  <1>3. ASSUME i <= made, LaterBuild(i)
        PROVE  LaterBuild(i)'
    <2>1. PICK j \in RunIds : i < j /\ j <= made /\ run[j].session = run[i].session
                              /\ run[j].kind = "build"
      BY <1>3 DEF LaterBuild
    <2>2. j <= made'
      BY <1>0, <1>1, <2>1 DEF RowSteps
    <2>3. run'[j].session = run'[i].session /\ run'[j].kind = "build"
      BY <1>1, <1>3, <2>1 DEF RowSteps, RowStep
    <2>4. QED
      BY <2>1, <2>2, <2>3 DEF LaterBuild
  <1>4. CASE WriteStatus(i)
    <2>1. pc'[i] = "chain" /\ out' = out
      BY <1>0, <1>4 DEF WriteStatus, Goto, local
    <2>2. run'[i].build = out[i].build
      BY <1>0, <1>4 DEF WriteStatus, Run
    <2>3. QED
      BY <2>1, <2>2
  <1>5. CASE Chain(i)
    <2>1. /\ pc[i] = "chain" /\ UNCHANGED <<run, out, made, cut>>
          /\ pc'[i] \in {"add", "end"}
          /\ pc'[i] = "end" => ~out[i].build \/ BuildQueued(i)
      BY <1>0, <1>5 DEF Chain, Goto, rows, local
    <2>2. ASSUME BuildQueued(i)
          PROVE  LaterBuild(i)'
      <3>1. PICK j \in RunIds : run[j].session = run[i].session /\ run[j].kind = "build"
                                /\ run[j].status = "queued"
        BY <2>2 DEF BuildQueued
      <3>2. i < j
        BY <2>1, <3>1 DEF QueueBehind, Active
      <3>3. j <= made
        BY <1>0, <3>1 DEF IInv, TypeOK
      <3>4. QED
        BY <1>2, <1>3, <2>1, <3>1, <3>2, <3>3 DEF LaterBuild
    <2>3. run[i].build => out[i].build
      BY <2>1 DEF BuildPlanned
    <2>4. QED
      BY <2>1, <2>2, <2>3
  <1>6. CASE AddBuild(i)
    <2>1. pc[i] = "add" /\ pc'[i] = "end" /\ made' = made + 1
          /\ run' = [run EXCEPT ![made + 1] = NewRun(run[i].session, "build")]
          /\ made < 2 * MaxRequests
      BY <1>0, <1>6 DEF AddBuild, Insert, Goto
    <2>2. made + 1 \in RunIds /\ i < made + 1
      BY <1>0, <1>2, <2>1, Ids
    <2>3. run'[made + 1].session = run[i].session /\ run'[made + 1].kind = "build"
          /\ run'[i] = run[i]
      BY <1>0, <2>1, <2>2 DEF NewRun
    <2>4. LaterBuild(i)'
      BY <1>0, <2>1, <2>2, <2>3 DEF LaterBuild
    <2>5. QED
      BY <2>1, <2>4
  <1>7. CASE ~WriteStatus(i) /\ ~Chain(i) /\ ~AddBuild(i)
    <2>1. pc'[i] = "fail" => i \in cut'
      BY <1>1, <1>7 DEF TaskStep, BuildPlanned
    <2>2. pc'[i] \in {"chain", "add"} => pc'[i] = pc[i] /\ out'[i] = out[i]
      BY <1>1, <1>7 DEF TaskStep
    <2>3. pc'[i] \in {"chain", "add"} /\ run'[i].build => out'[i].build
      BY <1>1, <1>2, <1>7, <2>2 DEF RowSteps, RowStep, BuildPlanned
    <2>4. ASSUME run'[i].status = "done", run'[i].build, i \notin cut'
          PROVE  pc'[i] \in {"chain", "add"} \/ LaterBuild(i)'
      <3>1. i <= made
        BY <1>0, <1>1, <2>4 DEF Moves, IInv, TypeOK
      <3>2. run[i].status = "done" /\ run[i].build
        BY <1>1, <1>7, <2>4, <3>1 DEF RowSteps, RowStep
      <3>3. i \notin cut /\ (pc[i] \in {"chain", "add"} => pc'[i] = pc[i])
        BY <1>1, <1>7, <2>4, <3>2 DEF TaskStep, BuildPlanned
      <3>4. QED
        BY <1>3, <3>1, <3>2, <3>3 DEF BuildPlanned
    <2>5. QED
      BY <2>1, <2>3, <2>4
  <1>8. QED
    BY <1>4, <1>5, <1>6, <1>7

\* A run that ended wanting a build is followed by one of its session
\* (runner.py:5), unless it was cut short between the two commits.
THEOREM BuildsFollow == Spec => []BuildFollows
  <1>1. Init => QueueBehind /\ BuildPlanned
    BY DEF Init, QueueBehind, BuildPlanned, Active, NoRun, NewRun
  <1>2. IInv /\ QueueBehind /\ BuildPlanned /\ [Next]_vars => QueueBehind' /\ BuildPlanned'
    <2>1. UNCHANGED vars /\ QueueBehind /\ BuildPlanned => QueueBehind' /\ BuildPlanned'
      BY DEF vars, QueueBehind, BuildPlanned, LaterBuild, Active
    <2>2. QED
      BY <2>1, BehindStep, PlannedStep
  <1>3. BuildPlanned => BuildFollows
    BY Ids DEF BuildPlanned, LaterBuild, BuildFollows
  <1>4. QED
    BY <1>1, <1>2, <1>3, Invariance, PTL DEF Spec
=============================================================================
