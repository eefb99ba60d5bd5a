--------------------------- MODULE JobQueueProofs ---------------------------
(***************************************************************************)
(* Proofs about JobQueue for every value of its constants: types; disjoint *)
(* batches, and that no announced job is stranded, until a held entry      *)
(* turns idle; that a job is given up only when its attempts are spent;    *)
(* and that the jobs table implements JobLifecycle.                        *)
(***************************************************************************)
EXTENDS JobQueue, TLAPS

-----------------------------------------------------------------------------
\* Appending keeps the entries there are and adds one for j.
LEMMA AppendEntry ==
  ASSUME NEW s \in Seq(Jobs), NEW j \in Jobs
  PROVE  /\ Append(s, j) \in Seq(Jobs)
         /\ Len(Append(s, j)) = Len(s) + 1
         /\ \A e \in 1..Len(s) : Append(s, j)[e] = s[e]
         /\ Append(s, j)[Len(s) + 1] = j
  OBVIOUS

Busy == {"load", "handle", "push", "ack"}

\* A worker has a current entry exactly while it processes one, and nothing
\* left over when it fetches.
Shape ==
  \A w \in Workers :
    /\ pc[w] \in Busy <=> cur[w] # 0
    /\ pc[w] = "fetch" => todo[w] = {}

TypeInv == TypeOK /\ Shape

\* Writing one or two columns of a row leaves a row.
LEMMA RowUpdates ==
  ASSUME NEW r \in Row
  PROVE  /\ \A s \in Statuses : [r EXCEPT !.status = s] \in Row
         /\ \A n \in 0..100 : [r EXCEPT !.progress = n] \in Row
         /\ \A s \in Statuses, n \in 0..100 :
              [r EXCEPT !.status = s, !.progress = n] \in Row
         /\ \A s \in Statuses, n \in Nat :
              [r EXCEPT !.status = s, !.attempts = n] \in Row
         /\ r.attempts \in Nat
  BY DEF Row

\* What a worker processes is a job.
LEMMA JobOfEntry ==
  ASSUME TypeInv
  PROVE  /\ \A e \in 1..delivered : stream[e] \in Jobs
         /\ \A w \in Workers : pc[w] \in Busy => cur[w] \in 1..delivered /\ job(w) \in Jobs
  BY DEF TypeInv, TypeOK, Shape, job

\* Writing back a copy leaves a row a row.
LEMMA FlushKeepsRows ==
  ASSUME TypeInv, NEW w \in Workers, pc[w] \in Busy, NEW new \in Row, Flush(w, new)
  PROVE  /\ row' \in [Jobs -> Row]
         /\ obj' \in [Workers -> Row]
  <1>1. job(w) \in Jobs
    BY JobOfEntry
  <1>2. row \in [Jobs -> Row] /\ obj \in [Workers -> Row]
    BY DEF TypeInv, TypeOK
  <1>3. [status   |-> Changed(row[job(w)].status, obj[w].status, new.status),
         attempts |-> Changed(row[job(w)].attempts, obj[w].attempts, new.attempts),
         progress |-> Changed(row[job(w)].progress, obj[w].progress, new.progress)] \in Row
    BY <1>1, <1>2 DEF Changed, Row
  <1>4. QED
    BY <1>1, <1>2, <1>3 DEF Flush

LEMMA TypeInit == Init => TypeInv
  BY BoundsAssumption DEF Init, TypeInv, TypeOK, Shape, Row, NoRow, Statuses, Busy

LEMMA TypeStep == TypeInv /\ [Next]_vars => TypeInv'
  <1> SUFFICES ASSUME TypeInv, [Next]_vars
               PROVE  TypeInv'
    OBVIOUS
  <1> USE BoundsAssumption DEF TypeInv, TypeOK, Shape, Busy
  <1>1. ASSUME NEW j \in Jobs, Insert(j)
        PROVE  TypeInv'
    <2>1. row[j] \in Row
      OBVIOUS
    <2>2. [row[j] EXCEPT !.status = "queued"] \in Row
      BY <2>1, RowUpdates DEF Statuses
    <2>3. row' \in [Jobs -> Row]
      BY <1>1, <2>2 DEF Insert
    <2>4. QED
      BY <1>1, <2>3 DEF Insert, redis, worker, budgets
  <1>2. ASSUME NEW j \in Jobs, FirstPush(j)
        PROVE  TypeInv'
    BY <1>2, AppendEntry DEF FirstPush, worker, budgets
  <1>3. ASSUME NEW j \in Jobs, ApiDies(j)
        PROVE  TypeInv'
    BY <1>3 DEF ApiDies, redis, worker, budgets
  <1>4. ASSUME NEW e \in pending, TurnIdle(e)
        PROVE  TypeInv'
    BY <1>4 DEF TurnIdle, db, worker
  <1>5. ASSUME NEW w \in Workers, Reclaim(w)
        PROVE  TypeInv'
    <2>1. PICK S \in SUBSET idle : idle' = idle \ S /\ TakeBatch(w, S)
      BY <1>5 DEF Reclaim
    <2>2. pending' = pending /\ delivered' = delivered /\ stream' = stream
      BY <1>5 DEF Reclaim
    <2>3. todo' \in [Workers -> SUBSET (1..delivered')] /\ idle' \in SUBSET pending'
      BY <2>1, <2>2 DEF TakeBatch
    <2>4. QED
      <3>1. /\ pc' \in [Workers -> {"fetch", "next", "load", "handle", "push", "ack"}]
            /\ phase' \in [Workers -> {"recover", "fresh"}]
            /\ UNCHANGED <<row, api, cur, obj, aborts, overruns>>
        BY <1>5, <2>1 DEF Reclaim, TakeBatch, Other, db, budgets
      <3>2. TypeOK'
        BY <2>2, <2>3, <3>1
      <3>3. Shape'
        BY <1>5, <2>1 DEF Reclaim, TakeBatch
      <3>4. QED
        BY <3>2, <3>3
  <1>6. ASSUME NEW w \in Workers, Pull(w)
        PROVE  TypeInv'
    <2>1. delivered' \in delivered..Len(stream)
      BY <1>6 DEF Pull
    <2>2. QED
      <3>1. /\ pc' \in [Workers -> {"fetch", "next", "load", "handle", "push", "ack"}]
            /\ phase' \in [Workers -> {"recover", "fresh"}]
            /\ UNCHANGED <<row, api, stream, idle, cur, obj, aborts, overruns>>
        BY <1>6 DEF Pull, TakeBatch, Other, db, budgets
      <3>2. /\ pending' \in SUBSET (1..delivered') /\ idle' \in SUBSET pending'
            /\ cur' \in [Workers -> 0..delivered']
        <4>1. /\ delivered + 1 .. delivered' \in SUBSET (1..delivered')
              /\ 1..delivered \subseteq 1..delivered'
              /\ 0..delivered \subseteq 0..delivered'
          BY <2>1
        <4>2. pending' = pending \cup (delivered + 1 .. delivered')
          BY <1>6 DEF Pull
        <4>3. QED
          BY <3>1, <4>1, <4>2
      <3>3. todo' \in [Workers -> SUBSET (1..delivered')]
        <4>1. delivered + 1 .. delivered' \in SUBSET (1..delivered')
          BY <2>1
        <4>2. \A v \in Workers : todo[v] \in SUBSET (1..delivered')
          BY <2>1
        <4>3. QED
          BY <1>6, <4>1, <4>2 DEF Pull, TakeBatch
      <3>4. TypeOK'
        BY <2>1, <3>1, <3>2, <3>3
      <3>5. Shape'
        BY <1>6 DEF Pull, TakeBatch
      <3>6. QED
        BY <3>4, <3>5
  <1>7. ASSUME NEW w \in Workers, Claim(w)
        PROVE  TypeInv'
    <2>1. PICK e \in todo[w] :
            /\ cur' = [cur EXCEPT ![w] = e]
            /\ todo' = [todo EXCEPT ![w] = @ \ {e}]
            /\ \/ /\ row' = [row EXCEPT ![stream[e]] = Started(@)]
                  /\ pc' = [pc EXCEPT ![w] = "load"]
               \/ /\ pc' = [pc EXCEPT ![w] = "ack"]
                  /\ UNCHANGED row
      BY <1>7 DEF Claim, Goto
    <2>2. e \in 1..delivered /\ stream[e] \in Jobs
      BY <2>1
    <2>3. row' \in [Jobs -> Row]
      <3>1. Started(row[stream[e]]) \in Row
        <4>1. row[stream[e]] \in Row
          BY <2>2
        <4>2. row[stream[e]].attempts + 1 \in Nat
          BY <4>1 DEF Row
        <4>3. QED
          BY <4>1, <4>2, RowUpdates DEF Started, Statuses
      <3>2. QED
        BY <2>1, <2>2, <3>1
    <2>4. QED
      <3>1. /\ cur' \in [Workers -> 0..delivered]
            /\ todo' \in [Workers -> SUBSET (1..delivered)]
            /\ pc' \in [Workers -> {"fetch", "next", "load", "handle", "push", "ack"}]
        BY <2>1, <2>2, SMTT(30)
      <3>2. UNCHANGED <<api, stream, delivered, pending, idle, phase, obj, aborts, overruns>>
        BY <1>7 DEF Claim, redis, budgets
      <3>3. TypeOK'
        BY <2>3, <3>1, <3>2
      <3>4. Shape'
        BY <1>7, <2>1, <2>2 DEF Claim
      <3>5. QED
        BY <3>3, <3>4
  <1>8. ASSUME NEW w \in Workers, Load(w)
        PROVE  TypeInv'
    BY <1>8, JobOfEntry DEF Load, Goto, db, redis, budgets
  <1>9. ASSUME NEW w \in Workers, NEW p \in Percents, SetProgress(w, p)
        PROVE  TypeInv'
    <2>1. [obj[w] EXCEPT !.progress = Clamp(p)] \in Row
      <3>1. Clamp(p) \in 0..100
        BY PercentsAssumption DEF Clamp
      <3>2. QED
        BY <3>1, RowUpdates
    <2>2. row' \in [Jobs -> Row] /\ obj' \in [Workers -> Row]
      BY <1>9, <2>1, FlushKeepsRows DEF SetProgress
    <2>3. QED
      BY <1>9, <2>2 DEF SetProgress, redis, budgets
  <1>10. ASSUME NEW w \in Workers, Complete(w)
         PROVE  TypeInv'
    <2>1. [obj[w] EXCEPT !.status = "done", !.progress = 100] \in Row
      <3>1. obj[w] \in Row /\ "done" \in Statuses /\ 100 \in 0..100
        BY DEF Statuses
      <3>2. QED
        BY <3>1, RowUpdates, ZenonT(30)
    <2>2. row' \in [Jobs -> Row] /\ obj' \in [Workers -> Row]
      BY <1>10, <2>1, FlushKeepsRows DEF Complete
    <2>3. QED
      BY <1>10, <2>2 DEF Complete, Goto, redis, budgets
  <1>11. ASSUME NEW w \in Workers, Fail(w)
         PROVE  TypeInv'
    <2>1. [obj[w] EXCEPT !.status = IF Retry(w) THEN "queued" ELSE "failed"] \in Row
      BY RowUpdates DEF Statuses
    <2>2. row' \in [Jobs -> Row] /\ obj' \in [Workers -> Row]
      BY <1>11, <2>1, FlushKeepsRows DEF Fail
    <2>3. QED
      BY <1>11, <2>2 DEF Fail, Goto, redis, budgets
  <1>12. ASSUME NEW w \in Workers, Reject(w)
         PROVE  TypeInv'
    <2>1. [obj[w] EXCEPT !.status = "failed", !.attempts = MaxAttempts] \in Row
      BY RowUpdates DEF Statuses
    <2>2. row' \in [Jobs -> Row] /\ obj' \in [Workers -> Row]
      BY <1>12, <2>1, FlushKeepsRows DEF Reject
    <2>3. QED
      BY <1>12, <2>2 DEF Reject, Goto, redis, budgets
  <1>13. ASSUME NEW w \in Workers, RetryPush(w)
         PROVE  TypeInv'
    <2>1. job(w) \in Jobs
      BY <1>13, JobOfEntry DEF RetryPush
    <2>2. stream' \in Seq(Jobs) /\ delivered \in 0..Len(stream')
      BY <1>13, <2>1, AppendEntry DEF RetryPush
    <2>3. QED
      BY <1>13, <2>2 DEF RetryPush, Goto, db, budgets
  <1>14. ASSUME NEW w \in Workers, Ack(w)
         PROVE  TypeInv'
    <2>1. /\ pc' \in [Workers -> {"fetch", "next", "load", "handle", "push", "ack"}]
          /\ phase' \in [Workers -> {"recover", "fresh"}]
          /\ cur' \in [Workers -> 0..delivered]
          /\ UNCHANGED <<row, api, stream, delivered, todo, obj, aborts, overruns>>
      BY <1>14 DEF Ack, Goto, Other, db, budgets
    <2>2. pending' \in SUBSET (1..delivered) /\ idle' \in SUBSET pending'
      BY <1>14 DEF Ack
    <2>3. TypeOK'
      BY <2>1, <2>2
    <2>4. Shape'
      BY <1>14 DEF Ack, Goto
    <2>5. QED
      BY <2>3, <2>4
  <1>15. ASSUME NEW w \in Workers, Abort(w)
         PROVE  TypeInv'
    BY <1>15 DEF Abort, db, redis
  <1>16. CASE UNCHANGED vars
    BY <1>16 DEF vars
  <1>17. QED
    BY <1>1, <1>2, <1>3, <1>4, <1>5, <1>6, <1>7, <1>8, <1>9, <1>10, <1>11,
       <1>12, <1>13, <1>14, <1>15, <1>16 DEF Next, Step

\* The queue's variables keep their types, for every set of jobs and workers.
THEOREM TypeCorrect == Spec => []TypeOK
  <1>1. TypeInv => TypeOK
    BY DEF TypeInv
  <1>2. QED
    BY TypeInit, TypeStep, <1>1, PTL DEF Spec

-----------------------------------------------------------------------------
(***************************************************************************)
(* The strengthening of JobHasCarrier that every step preserves.  It is    *)
(* not enough that some entry of the job is live: the holder of that entry *)
(* may be about to acknowledge it, counting on somebody else.  So a carrier*)
(* is an entry nobody is done with, and what counts depends on the row.    *)
(***************************************************************************)
\* What a worker holds is pending, not idle, and only its own.
HoldsOwn ==
  \A w \in Workers :
    /\ todo[w] \cap idle = {} /\ cur[w] \notin idle
    /\ todo[w] \subseteq pending /\ cur[w] \in pending \cup {0}
    /\ cur[w] \notin todo[w]

\* A queued row needs an entry that is not claimed, or whose worker is about
\* to announce the retry.
CarriesQueued(e) ==
  /\ e \in Live
  /\ \A w \in Workers : cur[w] = e => pc[w] = "push"

\* A running row needs an entry whose worker saw the row running and will
\* decide about it, or that a reclaim has given or will give to a worker.
CarriesRunning(e) ==
  /\ e \in pending
  /\ \A w \in Workers :
       /\ e \in todo[w] => phase[w] = "recover"
       /\ cur[w] = e =>
            \/ pc[w] = "load"
            \/ (pc[w] = "handle" /\ obj[w].status = "running")

Alive(j) ==
  /\ row[j].status = "queued"  => \E e \in Live : stream[e] = j /\ CarriesQueued(e)
  /\ row[j].status = "running" => \E e \in Live : stream[e] = j /\ CarriesRunning(e)

CarrierInv == \A j \in Jobs : api[j] = "pushed" => Alive(j)

\* Before its first push a job has no entry, so nobody touches its row.
Announced ==
  \A j \in Jobs : api[j] # "pushed" =>
    /\ row[j].status \in {"absent", "queued"}
    /\ \A e \in 1..Len(stream) : stream[e] # j

-----------------------------------------------------------------------------
(***************************************************************************)
(* Until a held entry turns idle, every batch stays with the worker it was *)
(* given to.                                                               *)
(***************************************************************************)
Exclusive == HoldsOwn /\ OneHolder

LEMMA ExclusiveInit == Init => Exclusive
  BY DEF Init, Exclusive, HoldsOwn, OneHolder

LEMMA ExclusiveStep ==
  ASSUME overruns' = 0, TypeInv, Exclusive, [Next]_vars
  PROVE  Exclusive'
  <1> USE DEF Exclusive, HoldsOwn, OneHolder
  <1> DEFINE Holding == <<todo, cur, pending, idle>>
  <1>1. ASSUME NEW j \in Jobs, Insert(j) \/ FirstPush(j) \/ ApiDies(j)
        PROVE  Exclusive'
    BY <1>1 DEF Insert, FirstPush, ApiDies, redis, worker
  <1>2. ASSUME NEW e \in pending, TurnIdle(e)
        PROVE  Exclusive'
    <2>1. ~Held(e)
      BY <1>2 DEF TurnIdle, TypeInv, TypeOK
    <2>2. QED
      BY <1>2, <2>1 DEF TurnIdle, Held, worker
  <1>3. ASSUME NEW w \in Workers, Reclaim(w)
        PROVE  Exclusive'
    <2>1. PICK S \in SUBSET idle : idle' = idle \ S /\ TakeBatch(w, S)
      BY <1>3 DEF Reclaim
    <2>2. S \subseteq pending /\ 0 \notin pending /\ pending' = pending
      BY <1>3 DEF Reclaim, TypeInv, TypeOK
    <2>3. cur' = cur /\ todo' = [todo EXCEPT ![w] = S]
      BY <2>1 DEF TakeBatch
    <2>4. cur[w] = 0
      BY <1>3 DEF Reclaim, TypeInv, Shape, Busy
    <2>5. HoldsOwn'
      <3>1. \A v \in Workers : todo'[v] = IF v = w THEN S ELSE todo[v]
        BY <2>3 DEF TypeInv, TypeOK
      <3>2. idle' = idle \ S
        BY <2>1
      <3>3. QED
        BY <2>2, <2>3, <2>4, <3>1, <3>2
    <2>6. OneHolder'
      BY <2>1, <2>2, <2>3, <2>4 DEF TypeInv, TypeOK
    <2>7. QED
      BY <2>5, <2>6
  <1>4. ASSUME NEW w \in Workers, Pull(w)
        PROVE  Exclusive'
    <2> DEFINE S == delivered + 1 .. delivered'
    <2>1. S \cap (0..delivered) = {}
      BY DEF TypeInv, TypeOK
    <2>2. /\ cur' = cur /\ todo' = [todo EXCEPT ![w] = S]
          /\ pending' = pending \cup S /\ idle' = idle
      BY <1>4 DEF Pull, TakeBatch
    <2>3. cur[w] = 0
      BY <1>4 DEF Pull, TypeInv, Shape, Busy
    <2>4. /\ 0 \notin S /\ S \cap idle = {} /\ S \cap pending = {}
          /\ \A v \in Workers : cur[v] \notin S /\ todo[v] \cap S = {}
      BY <2>1 DEF TypeInv, TypeOK
    <2>5. todo \in [Workers -> SUBSET (1..delivered)]
      BY DEF TypeInv, TypeOK
    <2> HIDE DEF S
    <2>6. \A v \in Workers : todo'[v] = IF v = w THEN S ELSE todo[v]
      BY <2>2, <2>5
    <2>8. HoldsOwn'
      BY <2>2, <2>3, <2>4, <2>6
    <2>9. OneHolder'
      BY <2>2, <2>3, <2>4, <2>6
    <2>10. QED
      BY <2>8, <2>9
  <1>5. ASSUME NEW w \in Workers, Claim(w)
        PROVE  Exclusive'
    <2>1. PICK e \in todo[w] : /\ cur' = [cur EXCEPT ![w] = e]
                               /\ todo' = [todo EXCEPT ![w] = @ \ {e}]
      BY <1>5 DEF Claim
    <2>2. pending' = pending /\ idle' = idle
      BY <1>5 DEF Claim, redis
    <2>3. HoldsOwn'
      BY <2>1, <2>2 DEF TypeInv, TypeOK
    <2>4. OneHolder'
      BY <2>1, <2>2 DEF TypeInv, TypeOK
    <2>5. QED
      BY <2>3, <2>4
  <1>6. ASSUME NEW w \in Workers,
               \/ Load(w) \/ \E p \in Percents : SetProgress(w, p)
               \/ Complete(w) \/ Fail(w) \/ Reject(w) \/ RetryPush(w)
        PROVE  Exclusive'
    <2>1. UNCHANGED Holding
      BY <1>6 DEF Load, SetProgress, Complete, Fail, Reject, RetryPush, redis
    <2>2. QED
      BY <2>1
  <1>7. ASSUME NEW w \in Workers, Ack(w)
        PROVE  Exclusive'
    <2>1. /\ cur' = [cur EXCEPT ![w] = 0] /\ todo' = todo
          /\ pending' = pending \ {cur[w]} /\ idle' = idle \ {cur[w]}
      BY <1>7 DEF Ack
    <2>2. cur[w] # 0 /\ 0 \notin idle
      BY <1>7 DEF Ack, TypeInv, TypeOK, Shape, Busy
    <2>3. \A v \in Workers : 0 \notin todo[v]
      BY DEF TypeInv, TypeOK
    <2>4. HoldsOwn'
      <3>1. cur \in [Workers -> 0..delivered]
        BY DEF TypeInv, TypeOK
      <3>2. \A v \in Workers : cur[w] \notin todo[v]
        BY <2>2
      <3>3. \A v \in Workers : v # w => cur[v] # cur[w]
        BY <2>2
      <3>4. \A v \in Workers : cur'[v] = IF v = w THEN 0 ELSE cur[v]
        BY <2>1, <3>1
      <3>5. QED
        BY <2>1, <2>2, <2>3, <3>2, <3>3, <3>4
    <2>5. OneHolder'
      BY <2>1, <2>2, <2>3 DEF TypeInv, TypeOK
    <2>6. QED
      BY <2>4, <2>5
  <1>8. ASSUME NEW w \in Workers, Abort(w)
        PROVE  Exclusive'
    <2>1. /\ cur' = [cur EXCEPT ![w] = 0] /\ todo' = [todo EXCEPT ![w] = {}]
          /\ UNCHANGED <<pending, idle>>
      BY <1>8 DEF Abort, redis
    <2>2. 0 \notin idle /\ \A v \in Workers : 0 \notin todo[v]
      BY DEF TypeInv, TypeOK
    <2>3. HoldsOwn'
      BY <2>1, <2>2 DEF TypeInv, TypeOK
    <2>4. OneHolder'
      BY <2>1, <2>2 DEF TypeInv, TypeOK
    <2>5. QED
      BY <2>3, <2>4
  <1>9. CASE UNCHANGED vars
    BY <1>9 DEF vars
  <1>10. QED
    BY <1>1, <1>2, <1>3, <1>4, <1>5, <1>6, <1>7, <1>8, <1>9 DEF Next, Step

\* Overruns are not forgotten.
LEMMA OverrunsStay ==
  ASSUME TypeInv, [Next]_vars, overruns' = 0
  PROVE  overruns = 0
  <1>1. overruns \in Nat
    BY BoundsAssumption DEF TypeInv, TypeOK
  <1>2. ASSUME NEW e \in pending, TurnIdle(e)
        PROVE  overruns = 0
    BY <1>1, <1>2 DEF TurnIdle
  <1>3. ASSUME NEW j \in Jobs, Insert(j) \/ FirstPush(j) \/ ApiDies(j)
        PROVE  overruns = 0
    BY <1>3 DEF Insert, FirstPush, ApiDies, budgets
  <1>4. ASSUME NEW w \in Workers, Step(w) \/ Abort(w)
        PROVE  overruns = 0
    BY <1>4 DEF Step, Reclaim, Pull, Claim, Load, SetProgress, Complete, Fail, Reject,
                RetryPush, Ack, Abort, budgets
  <1>5. CASE UNCHANGED vars
    BY <1>5 DEF vars
  <1>6. QED
    BY <1>2, <1>3, <1>4, <1>5 DEF Next

\* Until a held entry turns idle for the first time, no entry is ever in the
\* hands of two workers, whatever dies and however often jobs are retried.
THEOREM BatchesDisjoint == Spec => [](overruns = 0 => OneHolder)
  <1> DEFINE IInv == TypeInv /\ (overruns = 0 => Exclusive)
  <1>1. Init => IInv
    BY TypeInit, ExclusiveInit
  <1>2. IInv /\ [Next]_vars => IInv'
    BY TypeStep, ExclusiveStep, OverrunsStay
  <1>3. IInv => (overruns = 0 => OneHolder)
    BY DEF Exclusive
  <1>4. QED
    BY <1>1, <1>2, <1>3, PTL DEF Spec

-----------------------------------------------------------------------------
(***************************************************************************)
(* No announced job is stranded.                                           *)
(***************************************************************************)
Carried == CarrierInv /\ Announced

LEMMA CarriedInit == Init => Carried
  BY DEF Init, Carried, CarrierInv, Announced, NoRow

\* The job a worker processes was announced.
LEMMA ProcessedIsPushed ==
  ASSUME TypeInv, Announced, NEW w \in Workers, pc[w] \in Busy
  PROVE  job(w) \in Jobs /\ api[job(w)] = "pushed"
  <1>1. cur[w] \in 1..Len(stream) /\ job(w) \in Jobs
    BY JobOfEntry DEF TypeInv, TypeOK
  <1>2. QED
    BY <1>1 DEF Announced, job

\* A step of w that keeps its batch leaves every entry but its current one as
\* good a carrier as it was.
LEMMA OthersUndisturbed ==
  ASSUME TypeInv, NEW w \in Workers, NEW e, e # cur[w],
         UNCHANGED <<cur, todo, phase, pending, delivered>>,
         Len(stream) <= Len(stream'), Len(stream') \in Nat,
         \A v \in Workers : v # w => pc'[v] = pc[v] /\ obj'[v] = obj[v]
  PROVE  /\ CarriesQueued(e) => CarriesQueued(e)'
         /\ CarriesRunning(e) => CarriesRunning(e)'
  <1>1. Live \subseteq Live'
    BY DEF Live, TypeInv, TypeOK
  <1>2. CarriesQueued(e) => CarriesQueued(e)'
    BY <1>1 DEF CarriesQueued
  <1>3. CarriesRunning(e) => CarriesRunning(e)'
    BY DEF CarriesRunning
  <1>4. QED
    BY <1>2, <1>3

\* Writing back a copy touches one row, and its status only if the copy's
\* status changed.
LEMMA FlushStatus ==
  ASSUME TypeInv, NEW w \in Workers, pc[w] \in Busy, NEW new, Flush(w, new)
  PROVE  /\ \A j \in Jobs : j # job(w) => row'[j] = row[j]
         /\ row'[job(w)].status = IF new.status = obj[w].status
                                  THEN row[job(w)].status ELSE new.status
         /\ obj'[w] = new
         /\ \A v \in Workers : v # w => obj'[v] = obj[v]
  <1>1. job(w) \in Jobs /\ row \in [Jobs -> Row] /\ obj \in [Workers -> Row]
    BY JobOfEntry DEF TypeInv, TypeOK
  <1>2. QED
    BY <1>1 DEF Flush, Changed

\* The steps at "handle": the outcome is written and the worker moves on.
LEMMA HandleKeepsCarried ==
  ASSUME TypeInv, Exclusive, Carried, NEW w \in Workers, pc[w] = "handle",
         NEW new \in Row, Flush(w, new), NEW label, pc' = [pc EXCEPT ![w] = label],
         UNCHANGED <<api, stream, cur, todo, phase, pending, delivered>>,
         \/ new.status = obj[w].status /\ label = "handle"
         \/ new.status \in Finished /\ label = "ack"
         \/ new.status = "queued" /\ label = "push"
  PROVE  Carried'
  <1>a. PICK j0 \in Jobs : j0 = job(w)
    BY ProcessedIsPushed DEF Carried, Busy
  <1>b. PICK e0 \in pending : e0 = cur[w] /\ e0 # 0
    BY DEF Exclusive, HoldsOwn, TypeInv, Shape, Busy
  <1>1. /\ j0 \in Jobs /\ api[j0] = "pushed" /\ stream[e0] = j0
        /\ e0 \in pending /\ e0 # 0
        /\ \A v \in Workers : cur[v] = e0 => v = w
    BY <1>a, <1>b, ProcessedIsPushed DEF Carried, Busy, job, Exclusive, OneHolder
  <1>2. /\ \A j \in Jobs : j # j0 => row'[j] = row[j]
        /\ row'[j0].status = IF new.status = obj[w].status THEN row[j0].status ELSE new.status
        /\ obj'[w] = new
        /\ \A v \in Workers : v # w => pc'[v] = pc[v] /\ obj'[v] = obj[v]
        /\ pc'[w] = label
    BY <1>a, FlushStatus DEF Busy, TypeInv, TypeOK
  <1>3. \A e : e # e0 => /\ CarriesQueued(e) => CarriesQueued(e)'
                         /\ CarriesRunning(e) => CarriesRunning(e)'
    <2>1. Len(stream') = Len(stream) /\ Len(stream) \in Nat
      BY DEF TypeInv, TypeOK
    <2>2. QED
      BY <1>2, <1>b, <2>1, OthersUndisturbed
  <1>4. Live' = Live /\ e0 \in Live
    BY <1>1 DEF Live
  <1>5. ASSUME NEW j \in Jobs, j # j0, api[j] = "pushed"
        PROVE  Alive(j)'
    <2>1. Alive(j) /\ row'[j] = row[j]
      BY <1>2, <1>5 DEF Carried, CarrierInv
    <2>2. \A e \in Live : stream[e] = j => e # e0
      BY <1>1, <1>5
    <2>3. QED
      BY <1>3, <1>4, <2>1, <2>2 DEF Alive
  <1>6. Alive(j0)'
    <2>1. Alive(j0)
      BY <1>1 DEF Carried, CarrierInv
    <2>2. CASE new.status = obj[w].status /\ label = "handle"
      <3>1. pc'[w] = pc[w] /\ obj'[w].status = obj[w].status
        BY <1>2, <2>2
      <3>2. \A e : /\ CarriesQueued(e) => CarriesQueued(e)'
                   /\ CarriesRunning(e) => CarriesRunning(e)'
        BY <1>2, <1>4, <3>1 DEF CarriesQueued, CarriesRunning
      <3>3. QED
        BY <1>2, <1>4, <2>1, <2>2, <3>2 DEF Alive
    <2>3. CASE new.status # obj[w].status /\ new.status \in Finished
      BY <1>2, <2>3 DEF Alive, Finished
    <2>4. ASSUME obj[w].status # "running"
          PROVE  row[j0].status = "running" =>
                   \E e \in Live : stream[e] = j0 /\ e # e0 /\ CarriesRunning(e)
      BY <1>b, <2>1, <2>4 DEF Alive, CarriesRunning
    <2>5. row[j0].status = "queued" =>
            \E e \in Live : stream[e] = j0 /\ e # e0 /\ CarriesQueued(e)
      BY <1>b, <2>1 DEF Alive, CarriesQueued
    <2>6. CASE new.status = obj[w].status /\ new.status \in Finished
      BY <1>2, <1>3, <1>4, <2>4, <2>5, <2>6 DEF Alive, Finished
    <2>7. CASE new.status = "queued" /\ label = "push"
      <3>1. CarriesQueued(e0)'
        BY <1>1, <1>2, <1>4, <2>7 DEF CarriesQueued
      <3>2. row'[j0].status = "running" => obj[w].status = "queued" /\ row[j0].status = "running"
        BY <1>2, <2>7
      <3>3. QED
        BY <1>1, <1>3, <1>4, <2>4, <3>1, <3>2 DEF Alive
    <2>8. QED
      BY <2>2, <2>3, <2>6, <2>7
  <1>7. Announced'
    BY <1>1, <1>2 DEF Carried, Announced
  <1>8. QED
    BY <1>5, <1>6, <1>7 DEF Carried, CarrierInv

LEMMA CarriedStep ==
  ASSUME TypeInv, Exclusive, Carried, [Next]_vars
  PROVE  Carried'
  <1>1. ASSUME NEW j \in Jobs, Insert(j) \/ ApiDies(j)
        PROVE  Carried'
    <2>1. api[j] # "pushed" /\ \A i \in Jobs : api'[i] = "pushed" => i # j /\ api[i] = "pushed"
      BY <1>1 DEF Insert, ApiDies, TypeInv, TypeOK
    <2>2. \A i \in Jobs : i # j => row'[i] = row[i]
      BY <1>1 DEF Insert, ApiDies, TypeInv, TypeOK
    <2>3. row'[j].status \in {"absent", "queued"}
      <3>1. row[j] \in Row /\ row \in [Jobs -> Row]
        BY DEF TypeInv, TypeOK
      <3>2. row[j].status \in {"absent", "queued"}
        BY <2>1 DEF Carried, Announced
      <3>3. QED
        BY <1>1, <3>1, <3>2 DEF Insert, ApiDies, Row
    <2>4. UNCHANGED <<stream, delivered, pending, pc, phase, todo, cur, obj>>
      BY <1>1 DEF Insert, ApiDies, redis, worker
    <2>5. \A e : /\ CarriesQueued(e)' = CarriesQueued(e)
                 /\ CarriesRunning(e)' = CarriesRunning(e)
      BY <2>4 DEF CarriesQueued, CarriesRunning, Live
    <2>6. CarrierInv'
      BY <2>1, <2>2, <2>4, <2>5 DEF Carried, CarrierInv, Alive, Live
    <2>7. Announced'
      <3>1. \A i \in Jobs : api'[i] # "pushed" => api[i] # "pushed"
        BY <1>1, <2>1 DEF Insert, ApiDies, TypeInv, TypeOK
      <3>2. QED
        BY <2>2, <2>3, <2>4, <3>1 DEF Carried, Announced
    <2>8. QED
      BY <2>6, <2>7 DEF Carried
  <1>2. ASSUME NEW j \in Jobs, FirstPush(j)
        PROVE  Carried'
    <2>0. PICK n \in Nat : n = Len(stream) + 1
      BY DEF TypeInv, TypeOK
    <2>1. /\ Len(stream) \in Nat /\ Len(stream') = n /\ stream'[n] = j
          /\ \A e \in 1..Len(stream) : stream'[e] = stream[e]
      BY <1>2, <2>0, AppendEntry DEF FirstPush, TypeInv, TypeOK
    <2>2. UNCHANGED <<row, delivered, pending, pc, phase, todo, cur, obj>>
      BY <1>2 DEF FirstPush, worker
    <2>3. /\ delivered <= Len(stream) /\ delivered \in Nat /\ pending \subseteq 1..delivered
          /\ \A v \in Workers : cur[v] \in 0..delivered
      BY DEF TypeInv, TypeOK
    <2>4. Live \subseteq Live' /\ Live \subseteq 1..Len(stream) /\ n \in Live'
      <3>1. 1..delivered \subseteq 1..Len(stream)
        BY <2>1, <2>3
      <3>2. delivered + 1 .. Len(stream) \subseteq 1..Len(stream)
        BY <2>1, <2>3
      <3>3. delivered + 1 .. Len(stream) \subseteq delivered + 1 .. n /\ n \in delivered + 1 .. n
        BY <2>0, <2>1, <2>3
      <3>4. QED
        BY <2>1, <2>2, <2>3, <3>1, <3>2, <3>3 DEF Live
    <2>5. \A v \in Workers : cur[v] # n
      BY <2>0, <2>1, <2>3
    <2>6. \A e \in Live : /\ CarriesQueued(e) => CarriesQueued(e)'
                          /\ CarriesRunning(e) => CarriesRunning(e)'
      BY <2>2, <2>4 DEF CarriesQueued, CarriesRunning
    <2>7. ASSUME NEW i \in Jobs, i # j, api'[i] = "pushed"
          PROVE  Alive(i)'
      <3>1. Alive(i)
        BY <1>2, <2>7 DEF FirstPush, Carried, CarrierInv, TypeInv, TypeOK
      <3>2. \A e \in Live : stream'[e] = stream[e]
        BY <2>1, <2>4
      <3>3. QED
        BY <2>2, <2>4, <2>6, <3>1, <3>2 DEF Alive
    <2>8. Alive(j)'
      <3>1. row'[j].status # "running"
        BY <1>2, <2>2 DEF FirstPush, Carried, Announced
      <3>2. CarriesQueued(n)'
        BY <2>2, <2>4, <2>5 DEF CarriesQueued
      <3>3. QED
        BY <2>1, <2>4, <3>1, <3>2 DEF Alive
    <2>9. Announced'
      BY <1>2, <2>1, <2>2 DEF Carried, Announced, FirstPush, TypeInv, TypeOK
    <2>10. QED
      BY <2>7, <2>8, <2>9 DEF Carried, CarrierInv
  <1>3. ASSUME NEW e \in pending, TurnIdle(e)
        PROVE  Carried'
    <2>1. UNCHANGED <<row, api, stream, delivered, pending, pc, phase, todo, cur, obj>>
      BY <1>3 DEF TurnIdle, db, worker
    <2>2. QED
      BY <2>1 DEF Carried, CarrierInv, Alive, Announced, CarriesQueued, CarriesRunning, Live
  <1>4. ASSUME NEW w \in Workers, Reclaim(w)
        PROVE  Carried'
    <2>1. PICK S \in SUBSET idle : TakeBatch(w, S)
      BY <1>4 DEF Reclaim
    <2>2. UNCHANGED <<row, api, stream, delivered, pending, cur, obj>>
      BY <1>4, <2>1 DEF Reclaim, TakeBatch, db
    <2>3. /\ phase[w] = "recover" /\ cur[w] = 0
          /\ todo' = [todo EXCEPT ![w] = S]
          /\ S # {} => phase' = phase
          /\ \A v \in Workers : v # w => pc'[v] = pc[v] /\ phase'[v] = phase[v]
      BY <1>4, <2>1 DEF Reclaim, TakeBatch, TypeInv, TypeOK, Shape, Busy
    <2>4. \A e \in Live : e # 0
      BY DEF Live, TypeInv, TypeOK
    <2>5. \A v \in Workers : todo'[v] = IF v = w THEN S ELSE todo[v]
      BY <2>3 DEF TypeInv, TypeOK
    <2>6. \A e \in Live : CarriesQueued(e) => CarriesQueued(e)'
      BY <2>2, <2>3, <2>4 DEF CarriesQueued, Live
    <2>7. ASSUME NEW e \in Live, CarriesRunning(e)
          PROVE  CarriesRunning(e)'
      <3>1. ASSUME NEW v \in Workers, e \in todo'[v]
            PROVE  phase'[v] = "recover"
        BY <2>3, <2>5, <2>7, <3>1 DEF CarriesRunning
      <3>2. \A v \in Workers : cur'[v] = e => v # w
        BY <2>2, <2>3, <2>4
      <3>3. QED
        BY <2>2, <2>3, <2>7, <3>1, <3>2 DEF CarriesRunning
    <2>8. QED
      BY <2>2, <2>6, <2>7 DEF Carried, CarrierInv, Alive, Announced, Live
  <1>5. ASSUME NEW w \in Workers, Pull(w)
        PROVE  Carried'
    <2>1. /\ UNCHANGED <<row, api, stream, cur, obj>> /\ cur[w] = 0
          /\ \A v \in Workers : v # w => /\ pc'[v] = pc[v] /\ phase'[v] = phase[v]
                                         /\ todo'[v] = todo[v]
          /\ todo'[w] = delivered + 1 .. delivered'
          /\ pending' = pending \cup (delivered + 1 .. delivered')
      BY <1>5 DEF Pull, TakeBatch, db, TypeInv, TypeOK, Shape, Busy
    <2>2. delivered' \in delivered..Len(stream)
      BY <1>5, BoundsAssumption DEF Pull, TypeInv, TypeOK
    <2>3. Live' = Live
      BY <2>1, <2>2 DEF Live, TypeInv, TypeOK
    <2>4. \A e \in Live : e # 0
      BY DEF Live, TypeInv, TypeOK
    <2>5. \A e \in pending : e \notin todo'[w]
      BY <2>1, <2>2 DEF TypeInv, TypeOK
    <2>6. \A e \in Live : CarriesQueued(e) => CarriesQueued(e)'
      BY <2>1, <2>3, <2>4 DEF CarriesQueued
    <2>7. ASSUME NEW e \in Live, CarriesRunning(e)
          PROVE  CarriesRunning(e)'
      <3>1. e \in pending' /\ \A v \in Workers : e \in todo'[v] => v # w
        BY <2>1, <2>5, <2>7 DEF CarriesRunning
      <3>2. \A v \in Workers : cur'[v] = e => v # w
        BY <2>1, <2>4
      <3>3. QED
        BY <2>1, <2>7, <3>1, <3>2 DEF CarriesRunning
    <2>8. QED
      BY <2>1, <2>3, <2>6, <2>7 DEF Carried, CarrierInv, Alive, Announced
  <1>6. ASSUME NEW w \in Workers, Claim(w)
        PROVE  Carried'
    <2>1. PICK e0 \in todo[w] :
            /\ cur' = [cur EXCEPT ![w] = e0]
            /\ todo' = [todo EXCEPT ![w] = @ \ {e0}]
            /\ IF Claimable(w, stream[e0])
                 THEN /\ row' = [row EXCEPT ![stream[e0]] = Started(@)]
                      /\ pc' = [pc EXCEPT ![w] = "load"]
                 ELSE /\ pc' = [pc EXCEPT ![w] = "ack"]
                      /\ UNCHANGED row
      BY <1>6 DEF Claim, Goto
    <2>2. PICK j0 \in Jobs : j0 = stream[e0]
      BY <2>1, JobOfEntry DEF TypeInv, TypeOK
    <2>3. /\ e0 \in pending /\ e0 \in 1..Len(stream)
          /\ \A v \in Workers : v # w => e0 \notin todo[v] /\ e0 # cur[v]
      <3>1. \A v \in Workers : todo[v] \subseteq 1..delivered
        BY DEF TypeInv, TypeOK
      <3>2. e0 # 0 /\ e0 \in 1..Len(stream)
        BY <2>1, <3>1 DEF TypeInv, TypeOK
      <3>3. QED
        BY <2>1, <3>2 DEF Exclusive, HoldsOwn, OneHolder
    <2>4. /\ UNCHANGED <<api, stream, delivered, pending, phase, obj>>
          /\ \A v \in Workers : v # w => /\ cur'[v] = cur[v] /\ todo'[v] = todo[v]
                                         /\ pc'[v] = pc[v]
          /\ cur'[w] = e0 /\ todo'[w] = todo[w] \ {e0}
      BY <1>6, <2>1 DEF Claim, redis, TypeInv, TypeOK
    <2>5. \A e \in Live : e # e0 => /\ CarriesQueued(e) => CarriesQueued(e)'
                                    /\ CarriesRunning(e) => CarriesRunning(e)'
      BY <2>4 DEF CarriesQueued, CarriesRunning, Live
    <2>6. Live' = Live /\ e0 \in Live
      BY <2>3, <2>4 DEF Live
    <2>7. ASSUME NEW i \in Jobs, i # j0, api[i] = "pushed"
          PROVE  Alive(i)'
      <3>1. row'[i] = row[i] /\ Alive(i)
        BY <2>1, <2>2, <2>7 DEF Carried, CarrierInv, TypeInv, TypeOK
      <3>2. QED
        BY <2>2, <2>4, <2>5, <2>6, <2>7, <3>1 DEF Alive
    <2>8. api[j0] = "pushed"
      BY <2>2, <2>3 DEF Carried, Announced
    <2>9. Alive(j0)'
      <3>1. CASE Claimable(w, j0)
        <4>1. row'[j0].status = "running"
          <5>1. row[j0] \in Row /\ row \in [Jobs -> Row]
            BY DEF TypeInv, TypeOK
          <5>2. row'[j0] = Started(row[j0])
            BY <2>1, <2>2, <3>1, <5>1
          <5>3. QED
            BY <5>1, <5>2 DEF Started, Row
        <4>2. pc'[w] = "load"
          BY <2>1, <2>2, <3>1 DEF TypeInv, TypeOK
        <4>3. CarriesRunning(e0)'
          BY <2>3, <2>4, <4>2 DEF CarriesRunning
        <4>4. QED
          BY <2>2, <2>4, <2>6, <4>1, <4>3 DEF Alive
      <3>2. CASE ~Claimable(w, j0)
        <4>1. row' = row /\ Alive(j0)
          BY <2>1, <2>2, <2>8, <3>2 DEF Carried, CarrierInv
        <4>2. row[j0].status # "queued"
          BY <3>2 DEF Claimable
        <4>3. row[j0].status = "running" => ~CarriesRunning(e0)
          BY <2>1, <3>2 DEF Claimable, CarriesRunning
        <4>4. QED
          BY <2>4, <2>5, <2>6, <4>1, <4>2, <4>3 DEF Alive
      <3>3. QED
        BY <3>1, <3>2
    <2>10. Announced'
      <3>1. \A i \in Jobs : i # j0 => row'[i] = row[i]
        BY <2>1, <2>2 DEF TypeInv, TypeOK
      <3>2. QED
        BY <2>4, <2>8, <3>1 DEF Carried, Announced
    <2>11. QED
      BY <2>4, <2>7, <2>9, <2>10 DEF Carried, CarrierInv
  <1>7. ASSUME NEW w \in Workers, Load(w)
        PROVE  Carried'
    <2>1. /\ UNCHANGED <<row, api, stream, delivered, pending, phase, todo, cur>>
          /\ \A v \in Workers : v # w => pc'[v] = pc[v] /\ obj'[v] = obj[v]
          /\ pc[w] = "load" /\ pc'[w] = "handle" /\ obj'[w] = row[job(w)]
      BY <1>7 DEF Load, Goto, db, redis, TypeInv, TypeOK
    <2>2. \A e \in Live : CarriesQueued(e) => CarriesQueued(e)'
      BY <2>1 DEF CarriesQueued, Live
    <2>3. ASSUME NEW j \in Jobs, row[j].status = "running",
                 NEW e \in Live, stream[e] = j, CarriesRunning(e)
          PROVE  CarriesRunning(e)'
      BY <2>1, <2>3 DEF CarriesRunning, job
    <2>4. QED
      BY <2>1, <2>2, <2>3 DEF Carried, CarrierInv, Alive, Announced, Live
  <1>8. ASSUME NEW w \in Workers, NEW p \in Percents, SetProgress(w, p)
        PROVE  Carried'
    <2> DEFINE new == [obj[w] EXCEPT !.progress = Clamp(p)]
    <2>1. obj[w] \in Row /\ Clamp(p) \in 0..100
      BY PercentsAssumption DEF TypeInv, TypeOK, Clamp
    <2>2. new \in Row /\ new.status = obj[w].status
      BY <2>1 DEF Row
    <2>3. /\ pc[w] = "handle" /\ pc' = [pc EXCEPT ![w] = "handle"] /\ Flush(w, new)
          /\ UNCHANGED <<api, stream, cur, todo, phase, pending, delivered>>
      BY <1>8 DEF SetProgress, redis, TypeInv, TypeOK
    <2> HIDE DEF new
    <2>4. QED
      BY <2>2, <2>3, HandleKeepsCarried
  <1>9. ASSUME NEW w \in Workers, Complete(w)
        PROVE  Carried'
    <2> DEFINE new == [obj[w] EXCEPT !.status = "done", !.progress = 100]
    <2>1. obj[w] \in Row /\ 100 \in 0..100
      BY DEF TypeInv, TypeOK
    <2>2. new \in Row /\ new.status \in Finished
      BY <2>1 DEF Row, Finished, Statuses
    <2>3. /\ pc[w] = "handle" /\ pc' = [pc EXCEPT ![w] = "ack"] /\ Flush(w, new)
          /\ UNCHANGED <<api, stream, cur, todo, phase, pending, delivered>>
      BY <1>9 DEF Complete, Goto, redis
    <2> HIDE DEF new
    <2>4. QED
      BY <2>2, <2>3, HandleKeepsCarried
  <1>10. ASSUME NEW w \in Workers, Fail(w)
         PROVE  Carried'
    <2> DEFINE new == [obj[w] EXCEPT !.status = IF Retry(w) THEN "queued" ELSE "failed"]
               label == IF Retry(w) THEN "push" ELSE "ack"
    <2>1. obj[w] \in Row
      BY DEF TypeInv, TypeOK
    <2>2. /\ new \in Row
          /\ \/ new.status \in Finished /\ label = "ack"
             \/ new.status = "queued" /\ label = "push"
      BY <2>1 DEF Row, Finished, Statuses
    <2>3. /\ pc[w] = "handle" /\ pc' = [pc EXCEPT ![w] = label] /\ Flush(w, new)
          /\ UNCHANGED <<api, stream, cur, todo, phase, pending, delivered>>
      BY <1>10 DEF Fail, Goto, redis
    <2> HIDE DEF new, label
    <2>4. QED
      BY <2>2, <2>3, HandleKeepsCarried
  <1>11. ASSUME NEW w \in Workers, Reject(w)
         PROVE  Carried'
    <2> DEFINE new == [obj[w] EXCEPT !.status = "failed", !.attempts = MaxAttempts]
    <2>1. obj[w] \in Row /\ MaxAttempts \in Nat
      BY BoundsAssumption DEF TypeInv, TypeOK
    <2>2. new \in Row /\ new.status \in Finished
      BY <2>1 DEF Row, Finished, Statuses
    <2>3. /\ pc[w] = "handle" /\ pc' = [pc EXCEPT ![w] = "ack"] /\ Flush(w, new)
          /\ UNCHANGED <<api, stream, cur, todo, phase, pending, delivered>>
      BY <1>11 DEF Reject, Goto, redis
    <2> HIDE DEF new
    <2>4. QED
      BY <2>2, <2>3, HandleKeepsCarried
  <1>12. ASSUME NEW w \in Workers, RetryPush(w)
         PROVE  Carried'
    <2>0. PICK n \in Nat, j0 \in Jobs : n = Len(stream) + 1 /\ j0 = job(w) /\ api[j0] = "pushed"
      BY <1>12, ProcessedIsPushed DEF RetryPush, Busy, Carried, TypeInv, TypeOK
    <2>1. /\ Len(stream) \in Nat /\ Len(stream') = n /\ stream'[n] = j0
          /\ \A e \in 1..Len(stream) : stream'[e] = stream[e]
      BY <1>12, <2>0, AppendEntry DEF RetryPush, TypeInv, TypeOK
    <2>2. /\ UNCHANGED <<row, api, delivered, pending, phase, todo, cur, obj>>
          /\ pc[w] = "push" /\ \A v \in Workers : v # w => pc'[v] = pc[v]
      BY <1>12 DEF RetryPush, Goto, db, TypeInv, TypeOK
    <2>3. /\ delivered <= Len(stream) /\ delivered \in Nat /\ pending \subseteq 1..delivered
          /\ \A v \in Workers : cur[v] \in 0..delivered
      BY DEF TypeInv, TypeOK
    <2>4. Live \subseteq Live' /\ Live \subseteq 1..Len(stream) /\ n \in Live'
      <3>1. 1..delivered \subseteq 1..Len(stream)
        BY <2>1, <2>3
      <3>2. delivered + 1 .. Len(stream) \subseteq 1..Len(stream)
        BY <2>1, <2>3
      <3>3. delivered + 1 .. Len(stream) \subseteq delivered + 1 .. n /\ n \in delivered + 1 .. n
        BY <2>0, <2>1, <2>3
      <3>4. QED
        BY <2>1, <2>2, <2>3, <3>1, <3>2, <3>3 DEF Live
    <2>5. \A v \in Workers : cur[v] # n
      BY <2>0, <2>1, <2>3
    <2>6. \A e \in Live : e # cur[w] => /\ CarriesQueued(e) => CarriesQueued(e)'
                                        /\ CarriesRunning(e) => CarriesRunning(e)'
      BY <2>0, <2>1, <2>2, OthersUndisturbed
    <2>7. \A e \in Live : stream'[e] = stream[e]
      BY <2>1, <2>4
    <2>8. ASSUME NEW i \in Jobs, i # j0, api[i] = "pushed"
          PROVE  Alive(i)'
      <3>1. Alive(i) /\ stream[cur[w]] = j0
        BY <2>0, <2>8 DEF Carried, CarrierInv, job
      <3>2. QED
        BY <2>2, <2>4, <2>6, <2>7, <2>8, <3>1 DEF Alive
    <2>9. Alive(j0)'
      <3>1. Alive(j0)
        BY <2>0 DEF Carried, CarrierInv
      <3>2. CarriesQueued(n)'
        BY <2>2, <2>4, <2>5 DEF CarriesQueued
      <3>3. \A e \in Live : CarriesRunning(e) => e # cur[w]
        BY <2>2 DEF CarriesRunning
      <3>4. QED
        BY <2>1, <2>2, <2>4, <2>6, <2>7, <3>1, <3>2, <3>3 DEF Alive
    <2>10. Announced'
      <3>1. \A e \in 1..Len(stream') : e \in 1..Len(stream) \/ e = n
        BY <2>0, <2>1
      <3>2. QED
        BY <2>0, <2>1, <2>2, <3>1 DEF Carried, Announced
    <2>11. QED
      BY <2>2, <2>8, <2>9, <2>10 DEF Carried, CarrierInv
  <1>13. ASSUME NEW w \in Workers, Ack(w)
         PROVE  Carried'
    <2>1. /\ UNCHANGED <<row, api, stream, delivered, todo, obj>> /\ pc[w] = "ack"
          /\ pending' = pending \ {cur[w]} /\ cur'[w] = 0
          /\ \A v \in Workers : v # w => /\ pc'[v] = pc[v] /\ phase'[v] = phase[v]
                                         /\ cur'[v] = cur[v]
          /\ todo[w] # {} => phase'[w] = phase[w]
      BY <1>13 DEF Ack, Goto, db, TypeInv, TypeOK
    <2>2. cur[w] \in pending /\ \A e \in Live : e # 0
      BY <2>1 DEF Exclusive, HoldsOwn, TypeInv, TypeOK, Shape, Busy, Live
    <2>3. \A e \in Live : CarriesQueued(e) \/ CarriesRunning(e) => e # cur[w]
      BY <2>1 DEF CarriesQueued, CarriesRunning
    <2>4. \A e \in Live : e # cur[w] => e \in Live'
      BY <2>1 DEF Live
    <2>5. \A e \in Live : /\ CarriesQueued(e) => CarriesQueued(e)'
                          /\ CarriesRunning(e) => CarriesRunning(e)'
      <3>1. \A e \in Live : CarriesQueued(e) => CarriesQueued(e)'
        BY <2>1, <2>2, <2>3, <2>4 DEF CarriesQueued
      <3>2. \A e \in Live : CarriesRunning(e) => CarriesRunning(e)'
        BY <2>1, <2>2, <2>3 DEF CarriesRunning
      <3>3. QED
        BY <3>1, <3>2
    <2>6. QED
      BY <2>1, <2>3, <2>4, <2>5 DEF Carried, CarrierInv, Alive, Announced
  <1>14. ASSUME NEW w \in Workers, Abort(w)
         PROVE  Carried'
    <2>1. /\ UNCHANGED <<row, api, stream, delivered, pending, obj>>
          /\ cur'[w] = 0 /\ todo'[w] = {}
          /\ \A v \in Workers : v # w => /\ pc'[v] = pc[v] /\ phase'[v] = phase[v]
                                         /\ cur'[v] = cur[v] /\ todo'[v] = todo[v]
      BY <1>14 DEF Abort, db, redis, TypeInv, TypeOK
    <2>2. Live' = Live /\ \A e \in Live : e # 0
      BY <2>1 DEF Live, TypeInv, TypeOK
    <2>3. \A e \in Live : CarriesQueued(e) => CarriesQueued(e)'
      BY <2>1, <2>2 DEF CarriesQueued
    <2>4. \A e \in Live : CarriesRunning(e) => CarriesRunning(e)'
      BY <2>1, <2>2 DEF CarriesRunning
    <2>5. QED
      BY <2>1, <2>2, <2>3, <2>4 DEF Carried, CarrierInv, Alive, Announced
  <1>15. CASE UNCHANGED vars
    BY <1>15 DEF vars, Carried, CarrierInv, Alive, Announced, CarriesQueued, CarriesRunning, Live
  <1>16. QED
    BY <1>1, <1>2, <1>3, <1>4, <1>5, <1>6, <1>7, <1>8, <1>9, <1>10, <1>11,
       <1>12, <1>13, <1>14, <1>15 DEF Next, Step

\* Until a held entry turns idle for the first time, a job the stream was told
\* about and that is not finished always has an entry left to bring a worker to
\* it: deaths of workers between any two steps, retries and duplicates never
\* strand it.
THEOREM NoJobStranded == Spec => [](overruns = 0 => JobHasCarrier)
  <1> DEFINE IInv == TypeInv /\ (overruns = 0 => Exclusive /\ Carried)
  <1>1. Init => IInv
    BY TypeInit, ExclusiveInit, CarriedInit
  <1>2. IInv /\ [Next]_vars => IInv'
    BY TypeStep, ExclusiveStep, CarriedStep, OverrunsStay
  <1>3. IInv => (overruns = 0 => JobHasCarrier)
    BY DEF Carried, CarrierInv, Alive, JobHasCarrier, Unfinished
  <1>4. QED
    BY <1>1, <1>2, <1>3, PTL DEF Spec

(* Entries are neither shared nor lost (worker.py, transport.py) until the   *)
(* first reclaim from a living worker: the two theorems together.            *)
THEOREM EntriesKept == Spec => []EntriesAreKept
  <1>1. (overruns = 0 => OneHolder) /\ (overruns = 0 => JobHasCarrier) => EntriesAreKept
    BY DEF EntriesAreKept
  <1>2. QED
    BY <1>1, BatchesDisjoint, NoJobStranded, PTL

-----------------------------------------------------------------------------
(***************************************************************************)
(* Giving up.  fail() looks at a copy of the row other workers may have    *)
(* overtaken, so its verdict is only good because no copy is ahead of the  *)
(* table: a row's attempts never fall, except to MaxAttempts when they are *)
(* spent at once.                                                          *)
(***************************************************************************)
CopiesBehind ==
  \A w \in Workers : pc[w] = "handle" =>
    \/ row[job(w)].attempts >= obj[w].attempts
    \/ row[job(w)].attempts >= MaxAttempts

Tried == FailedMeansTried /\ CopiesBehind

\* What a step may do to a row.
RowsMoveOn ==
  \A j \in Jobs :
    /\ row'[j].attempts >= row[j].attempts \/ row'[j].attempts >= MaxAttempts
    /\ row'[j].status = "failed" =>
         row[j].status = "failed" \/ row'[j].attempts >= MaxAttempts

\* Writing back a copy moves the row on, if the copy is not ahead of it and a
\* failed one has spent its attempts.
LEMMA FlushMovesOn ==
  ASSUME TypeInv, CopiesBehind, NEW w \in Workers, pc[w] = "handle",
         NEW new \in Row, Flush(w, new),
         new.attempts = obj[w].attempts \/ new.attempts = MaxAttempts,
         new.status = "failed" => new.status = obj[w].status \/ new.attempts >= MaxAttempts
  PROVE  RowsMoveOn
  <1>1. job(w) \in Jobs
    BY JobOfEntry DEF Busy
  <1>2. row \in [Jobs -> Row] /\ obj[w] \in Row /\ MaxAttempts \in Nat
    BY BoundsAssumption DEF TypeInv, TypeOK
  <1>3. \A j \in Jobs : j # job(w) => row'[j] = row[j]
    BY <1>1, <1>2 DEF Flush
  <1>4. /\ row'[job(w)].attempts = Changed(row[job(w)].attempts, obj[w].attempts, new.attempts)
        /\ row'[job(w)].status = Changed(row[job(w)].status, obj[w].status, new.status)
    BY <1>1, <1>2 DEF Flush
  <1>5. /\ \A j \in Jobs : row[j].attempts \in Nat
        /\ obj[w].attempts \in Nat /\ new.attempts \in Nat
    BY <1>2 DEF Row
  <1>6. /\ row'[job(w)].attempts >= row[job(w)].attempts \/ row'[job(w)].attempts >= MaxAttempts
        /\ new.attempts >= MaxAttempts => row'[job(w)].attempts >= MaxAttempts
    BY <1>1, <1>2, <1>4, <1>5 DEF Changed, CopiesBehind
  <1>7. row'[job(w)].status = "failed" =>
          row[job(w)].status = "failed" \/ row'[job(w)].attempts >= MaxAttempts
    BY <1>4, <1>6 DEF Changed
  <1>8. QED
    BY <1>3, <1>5, <1>6, <1>7 DEF RowsMoveOn

\* The rows handlers write back.
LEMMA NewCopies ==
  ASSUME NEW r \in Row
  PROVE  /\ \A n \in 0..100 : /\ [r EXCEPT !.progress = n].attempts = r.attempts
                              /\ [r EXCEPT !.progress = n].status = r.status
         /\ \A s \in Statuses, n \in 0..100 :
              /\ [r EXCEPT !.status = s, !.progress = n].attempts = r.attempts
              /\ [r EXCEPT !.status = s, !.progress = n].status = s
         /\ \A s \in Statuses :
              /\ [r EXCEPT !.status = s].attempts = r.attempts
              /\ [r EXCEPT !.status = s].status = s
         /\ \A s \in Statuses, n \in Nat :
              [r EXCEPT !.status = s, !.attempts = n].attempts = n
  BY DEF Row

LEMMA StepsMoveOn ==
  ASSUME TypeInv, CopiesBehind, [Next]_vars
  PROVE  RowsMoveOn
  <1>1. /\ row \in [Jobs -> Row] /\ MaxAttempts \in Nat
        /\ \A j \in Jobs : row[j].attempts \in Nat
        /\ \A w \in Workers : obj[w] \in Row
    BY BoundsAssumption DEF TypeInv, TypeOK, Row
  <1>2. ASSUME NEW j \in Jobs, Insert(j)
        PROVE  RowsMoveOn
    <2>1. row' = [row EXCEPT ![j] = [row[j] EXCEPT !.status = "queued"]]
      BY <1>2 DEF Insert
    <2>2. row'[j].attempts = row[j].attempts /\ row'[j].status = "queued"
      BY <1>1, <2>1 DEF Row
    <2>3. QED
      BY <1>1, <2>1, <2>2 DEF RowsMoveOn
  <1>3. ASSUME NEW w \in Workers, Claim(w)
        PROVE  RowsMoveOn
    <2>1. PICK e \in todo[w] : \/ row' = [row EXCEPT ![stream[e]] = Started(@)]
                               \/ row' = row
      BY <1>3 DEF Claim
    <2>2. stream[e] \in Jobs
      BY <2>1, JobOfEntry DEF TypeInv, TypeOK
    <2>3. /\ Started(row[stream[e]]).attempts = row[stream[e]].attempts + 1
          /\ Started(row[stream[e]]).status = "running"
      BY <1>1, <2>2 DEF Started, Row
    <2>4. QED
      BY <1>1, <2>1, <2>2, <2>3 DEF RowsMoveOn
  <1>4. ASSUME NEW w \in Workers, NEW p \in Percents, SetProgress(w, p)
        PROVE  RowsMoveOn
    <2> DEFINE new == [obj[w] EXCEPT !.progress = Clamp(p)]
    <2>1. Clamp(p) \in 0..100
      BY PercentsAssumption DEF Clamp
    <2>2. new \in Row /\ new.attempts = obj[w].attempts /\ new.status = obj[w].status
      BY <1>1, <2>1, RowUpdates, NewCopies
    <2>3. pc[w] = "handle" /\ Flush(w, new)
      BY <1>4 DEF SetProgress
    <2>4. QED
      BY <2>2, <2>3, FlushMovesOn
  <1>5. ASSUME NEW w \in Workers, Complete(w)
        PROVE  RowsMoveOn
    <2> DEFINE new == [obj[w] EXCEPT !.status = "done", !.progress = 100]
    <2>1. new \in Row /\ new.attempts = obj[w].attempts /\ new.status = "done"
      <3>1. "done" \in Statuses /\ 100 \in 0..100 /\ obj[w] \in Row
        BY <1>1 DEF Statuses
      <3>2. new \in Row
        BY <3>1, RowUpdates
      <3>3. new.attempts = obj[w].attempts /\ new.status = "done"
        BY <3>1, NewCopies
      <3>4. QED
        BY <3>2, <3>3
    <2>2. pc[w] = "handle" /\ Flush(w, new)
      BY <1>5 DEF Complete
    <2>3. QED
      BY <2>1, <2>2, FlushMovesOn
  <1>6. ASSUME NEW w \in Workers, Fail(w)
        PROVE  RowsMoveOn
    <2> DEFINE outcome == IF Retry(w) THEN "queued" ELSE "failed"
               new == [obj[w] EXCEPT !.status = outcome]
    <2>1. new \in Row /\ new.attempts = obj[w].attempts /\ new.status = outcome
      <3>1. outcome \in Statuses /\ obj[w] \in Row
        BY <1>1 DEF Statuses
      <3> HIDE DEF outcome
      <3>2. QED
        BY <3>1, RowUpdates, NewCopies, ZenonT(30)
    <2>2. new.status = "failed" => new.attempts >= MaxAttempts
      BY <1>1, <2>1 DEF Retry, Row
    <2>3. pc[w] = "handle" /\ Flush(w, new)
      BY <1>6 DEF Fail
    <2>4. QED
      BY <2>1, <2>2, <2>3, FlushMovesOn
  <1>7. ASSUME NEW w \in Workers, Reject(w)
        PROVE  RowsMoveOn
    <2> DEFINE new == [obj[w] EXCEPT !.status = "failed", !.attempts = MaxAttempts]
    <2>1. new \in Row /\ new.attempts = MaxAttempts
      <3>1. "failed" \in Statuses /\ obj[w] \in Row /\ MaxAttempts \in Nat
        BY <1>1 DEF Statuses
      <3>2. new \in Row
        BY <3>1, RowUpdates
      <3>3. new.attempts = MaxAttempts
        BY <3>1, NewCopies
      <3>4. QED
        BY <3>2, <3>3
    <2>2. pc[w] = "handle" /\ Flush(w, new)
      BY <1>7 DEF Reject
    <2>3. new.attempts >= MaxAttempts
      BY <1>1, <2>1
    <2>4. QED
      BY <2>1, <2>2, <2>3, FlushMovesOn
  <1>8. ASSUME UNCHANGED row
        PROVE  RowsMoveOn
    BY <1>1, <1>8 DEF RowsMoveOn
  <1>9. ASSUME NEW j \in Jobs, FirstPush(j) \/ ApiDies(j)
        PROVE  UNCHANGED row
    BY <1>9 DEF FirstPush, ApiDies
  <1>10. ASSUME NEW e \in pending, TurnIdle(e)
         PROVE  UNCHANGED row
    BY <1>10 DEF TurnIdle, db
  <1>11. ASSUME NEW w \in Workers,
                \/ Reclaim(w) \/ Pull(w) \/ Load(w) \/ RetryPush(w) \/ Ack(w) \/ Abort(w)
         PROVE  UNCHANGED row
    BY <1>11 DEF Reclaim, Pull, Load, RetryPush, Ack, Abort, db
  <1>12. CASE UNCHANGED vars
    BY <1>8, <1>12 DEF vars
  <1>13. QED
    BY <1>2, <1>3, <1>4, <1>5, <1>6, <1>7, <1>8, <1>9, <1>10, <1>11, <1>12 DEF Next, Step

\* A worker in its handler got there by loading the row, or was there before
\* with the same entry, status and attempts.
LEMMA HandlersStay ==
  ASSUME TypeInv, [Next]_vars, NEW v \in Workers, pc'[v] = "handle"
  PROVE  \/ obj'[v] = row'[job(v)']
         \/ /\ pc[v] = "handle" /\ job(v)' = job(v) /\ job(v) \in Jobs
            /\ obj'[v].attempts = obj[v].attempts /\ obj'[v].status = obj[v].status
  <1> DEFINE Same == /\ pc[v] = "handle" /\ job(v)' = job(v) /\ job(v) \in Jobs
                     /\ obj'[v].attempts = obj[v].attempts /\ obj'[v].status = obj[v].status
  <1>1. /\ pc \in [Workers -> {"fetch", "next", "load", "handle", "push", "ack"}]
        /\ cur \in [Workers -> 0..delivered] /\ obj \in [Workers -> Row]
        /\ stream \in Seq(Jobs) /\ delivered \in 0..Len(stream)
    BY DEF TypeInv, TypeOK
  <1>2. pc[v] = "handle" => job(v) \in Jobs /\ cur[v] \in 1..delivered
    BY JobOfEntry DEF Busy
  <1>3. ASSUME NEW j \in Jobs, Insert(j) \/ ApiDies(j)
        PROVE  Same
    BY <1>2, <1>3 DEF Insert, ApiDies, redis, worker, job
  <1>4. ASSUME NEW j \in Jobs, FirstPush(j)
        PROVE  Same
    BY <1>1, <1>2, <1>4, AppendEntry DEF FirstPush, worker, job
  <1>5. ASSUME NEW e \in pending, TurnIdle(e)
        PROVE  Same
    BY <1>2, <1>5 DEF TurnIdle, worker, job
  <1>6. ASSUME NEW w \in Workers, Reclaim(w) \/ Pull(w)
        PROVE  Same
    <2>1. UNCHANGED <<stream, cur, obj>> /\ \E S : pc' = [pc EXCEPT ![w] = IF S = {} THEN "fetch" ELSE "next"]
      BY <1>6 DEF Reclaim, Pull, TakeBatch
    <2>2. QED
      BY <1>1, <1>2, <2>1 DEF job
  <1>7. ASSUME NEW w \in Workers, Claim(w)
        PROVE  Same
    <2>1. PICK e \in todo[w] : /\ cur' = [cur EXCEPT ![w] = e]
                               /\ pc' = [pc EXCEPT ![w] = "load"] \/ pc' = [pc EXCEPT ![w] = "ack"]
      BY <1>7 DEF Claim, Goto
    <2>2. UNCHANGED <<stream, obj>>
      BY <1>7 DEF Claim, redis
    <2>3. v # w /\ pc[v] = "handle" /\ cur'[v] = cur[v]
      BY <1>1, <2>1
    <2>4. QED
      BY <1>2, <2>2, <2>3 DEF job
  <1>8. ASSUME NEW w \in Workers, Load(w)
        PROVE  obj'[v] = row'[job(v)'] \/ Same
    <2>1. /\ UNCHANGED <<row, stream, cur>> /\ obj' = [obj EXCEPT ![w] = row[job(w)]]
          /\ pc' = [pc EXCEPT ![w] = "handle"]
      BY <1>8 DEF Load, Goto, db, redis
    <2>2. job(v)' = job(v)
      BY <2>1 DEF job
    <2>3. CASE v = w
      BY <1>1, <2>1, <2>2, <2>3
    <2>4. CASE v # w
      BY <1>1, <1>2, <2>1, <2>2, <2>4
    <2>5. QED
      BY <2>3, <2>4
  <1>9. ASSUME NEW w \in Workers, NEW p \in Percents, SetProgress(w, p)
        PROVE  Same
    <2>1. /\ UNCHANGED <<pc, stream, cur>>
          /\ obj' = [obj EXCEPT ![w] = [obj[w] EXCEPT !.progress = Clamp(p)]]
      BY <1>9 DEF SetProgress, Flush, redis
    <2>2. /\ [obj[w] EXCEPT !.progress = Clamp(p)].attempts = obj[w].attempts
          /\ [obj[w] EXCEPT !.progress = Clamp(p)].status = obj[w].status
      BY <1>1 DEF Row
    <2>3. QED
      BY <1>1, <1>2, <2>1, <2>2 DEF job
  <1>10. ASSUME NEW w \in Workers, Complete(w) \/ Fail(w) \/ Reject(w)
         PROVE  Same
    <2>1. /\ UNCHANGED <<stream, cur>> /\ \E n : obj' = [obj EXCEPT ![w] = n]
          /\ pc' = [pc EXCEPT ![w] = "push"] \/ pc' = [pc EXCEPT ![w] = "ack"]
      BY <1>10 DEF Complete, Fail, Reject, Flush, Goto, redis
    <2>2. v # w /\ pc[v] = "handle"
      BY <1>1, <2>1
    <2>3. QED
      BY <1>1, <1>2, <2>1, <2>2 DEF job
  <1>11. ASSUME NEW w \in Workers, RetryPush(w)
         PROVE  Same
    <2>1. /\ UNCHANGED <<cur, obj>> /\ pc' = [pc EXCEPT ![w] = "ack"]
          /\ stream' = Append(stream, job(w)) /\ job(w) \in Jobs
      BY <1>11, JobOfEntry DEF RetryPush, Goto, Busy
    <2>2. v # w /\ pc[v] = "handle"
      BY <1>1, <2>1
    <2>3. stream'[cur[v]] = stream[cur[v]]
      BY <1>1, <1>2, <2>1, <2>2, AppendEntry
    <2>4. QED
      BY <1>2, <2>1, <2>2, <2>3 DEF job
  <1>12. ASSUME NEW w \in Workers, Ack(w) \/ Abort(w)
         PROVE  Same
    <2>1. /\ UNCHANGED <<stream, obj>> /\ cur' = [cur EXCEPT ![w] = 0]
          /\ pc' = [pc EXCEPT ![w] = "fetch"] \/ pc' = [pc EXCEPT ![w] = "next"]
      BY <1>12 DEF Ack, Abort, Goto, redis
    <2>2. v # w /\ pc[v] = "handle"
      BY <1>1, <2>1
    <2>3. QED
      BY <1>1, <1>2, <2>1, <2>2 DEF job
  <1>13. CASE UNCHANGED vars
    BY <1>2, <1>13 DEF vars, job
  <1>14. QED
    BY <1>3, <1>4, <1>5, <1>6, <1>7, <1>8, <1>9, <1>10, <1>11, <1>12, <1>13 DEF Next, Step

LEMMA TriedStep ==
  ASSUME TypeInv, Tried, [Next]_vars
  PROVE  Tried'
  <1>1. RowsMoveOn
    BY StepsMoveOn DEF Tried
  <1>2. /\ MaxAttempts \in Nat /\ \A j \in Jobs : row[j].attempts \in Nat /\ row'[j].attempts \in Nat
        /\ TypeInv'
    BY TypeStep, BoundsAssumption DEF TypeInv, TypeOK, Row
  <1>3. FailedMeansTried'
    BY <1>1, <1>2 DEF Tried, FailedMeansTried, RowsMoveOn
  <1>4. ASSUME NEW v \in Workers, pc'[v] = "handle"
        PROVE  \/ row'[job(v)'].attempts >= obj'[v].attempts
               \/ row'[job(v)'].attempts >= MaxAttempts
    <2>1. obj'[v].attempts \in Nat /\ obj[v].attempts \in Nat
      BY <1>2 DEF TypeInv, TypeOK, Row
    <2>2. CASE obj'[v] = row'[job(v)']
      BY <2>1, <2>2
    <2>3. CASE /\ pc[v] = "handle" /\ job(v)' = job(v) /\ job(v) \in Jobs
               /\ obj'[v].attempts = obj[v].attempts
      BY <1>1, <1>2, <2>1, <2>3 DEF Tried, CopiesBehind, RowsMoveOn
    <2>4. QED
      BY <1>4, <2>2, <2>3, HandlersStay
  <1>5. QED
    BY <1>3, <1>4 DEF Tried, CopiesBehind

\* A job is given up only when its attempts are spent, whatever workers die,
\* however many copies of the row are out and whichever entries are reclaimed
\* under a living worker.
THEOREM GivenUpWhenTried == Spec => []FailedMeansTried
  <1>1. Init => Tried
    BY DEF Init, Tried, FailedMeansTried, CopiesBehind, NoRow
  <1>2. TypeInv /\ Tried /\ [Next]_vars => TypeInv' /\ Tried'
    BY TypeStep, TriedStep
  <1>3. Tried => FailedMeansTried
    BY DEF Tried
  <1>4. QED
    BY TypeInit, <1>1, <1>2, <1>3, PTL DEF Spec
-----------------------------------------------------------------------------
(***************************************************************************)
(* The jobs table implements JobLifecycle.  Two invariants hold whatever   *)
(* happens: a job has a row from its insert and an entry from its push on  *)
(* (Unannounced), and a job nobody handles stays failed (RejectedStay).    *)
(* What makes the lifecycle exactly-once is a third one, about the time    *)
(* before the first death or overrun.                                      *)
(***************************************************************************)
\* Before its insert a job has no row, before its first push no entry and no
\* outcome.
Unannounced ==
  /\ Announced
  /\ \A j \in Jobs : api[j] = "idle" <=> row[j].status = "absent"

\* A copy that says a job was given up for lack of a handler is never wrong.
RejectedStay ==
  \A w \in Workers :
    pc[w] = "handle" /\ job(w) \in Unhandled /\ obj[w].status = "failed" =>
      row[job(w)].status = "failed"

Working == {"load", "handle", "push"}

\* Entries that will be claimed for: in a batch, or not delivered yet.
Waiting(e) == e \in (delivered + 1 .. Len(stream)) \/ \E w \in Workers : e \in todo[w]

\* Undisturbed, nothing turns idle, so no batch is a reclaimed one ...
FreshOnly ==
  /\ idle = {}
  /\ \A e \in pending : Held(e)
  /\ \A w \in Workers : pc[w] # "fetch" => phase[w] = "fresh"

\* ... a job has at most one entry or one worker to move it ...
OneMover ==
  /\ \A e, f \in 1..Len(stream) :
       Waiting(e) /\ Waiting(f) /\ stream[e] = stream[f] => e = f
  /\ \A w, v \in Workers :
       pc[w] \in Working /\ pc[v] \in Working /\ job(w) = job(v) => w = v
  /\ \A e \in 1..Len(stream), w \in Workers :
       Waiting(e) /\ pc[w] \in Working => stream[e] # job(w)

\* ... and whoever moves it finds the row as it expects it.
RowsMatch ==
  /\ \A e \in 1..Len(stream) : Waiting(e) => row[stream[e]].status = "queued"
  /\ \A w \in Workers :
       /\ pc[w] \in {"load", "handle"} => row[job(w)].status = "running"
       /\ pc[w] = "push" => row[job(w)].status = "queued"
       /\ pc[w] = "handle" => obj[w] = row[job(w)]
  /\ \A j \in Jobs :
       /\ row[j].status \in {"absent", "queued"} => row[j].attempts < MaxAttempts
       /\ row[j].status = "running" => row[j].attempts <= MaxAttempts

Quiet == aborts = 0 /\ overruns = 0
Smooth == Exclusive /\ FreshOnly /\ OneMover /\ RowsMatch

-----------------------------------------------------------------------------
\* A death or an overrun is not forgotten.
LEMMA QuietBefore ==
  ASSUME TypeInv, [Next]_vars, Quiet'
  PROVE  Quiet
  <1>1. overruns = 0
    BY OverrunsStay DEF Quiet
  <1>2. aborts \in Nat
    BY BoundsAssumption DEF TypeInv, TypeOK
  <1>3. ASSUME NEW w \in Workers, Abort(w)
        PROVE  FALSE
    BY <1>2, <1>3 DEF Abort, Quiet
  <1>4. ASSUME NEW j \in Jobs, Insert(j) \/ FirstPush(j) \/ ApiDies(j)
        PROVE  aborts = 0
    BY <1>4 DEF Insert, FirstPush, ApiDies, budgets, Quiet
  <1>5. ASSUME NEW e \in pending, TurnIdle(e)
        PROVE  aborts = 0
    BY <1>5 DEF TurnIdle, Quiet
  <1>6. ASSUME NEW w \in Workers, Step(w)
        PROVE  aborts = 0
    BY <1>6 DEF Step, Reclaim, Pull, Claim, Load, SetProgress, Complete, Fail, Reject,
                RetryPush, Ack, budgets, Quiet
  <1>7. CASE UNCHANGED vars
    BY <1>7 DEF vars, Quiet
  <1>8. QED
    BY <1>1, <1>3, <1>4, <1>5, <1>6, <1>7 DEF Next, Quiet

\* Steps that give nobody a new job to move keep movers apart.
LEMMA OneMoverKept ==
  ASSUME OneMover, Len(stream') = Len(stream),
         \A e \in 1..Len(stream) : stream'[e] = stream[e] /\ (Waiting(e)' => Waiting(e)),
         \A w \in Workers : pc'[w] \in Working => pc[w] \in Working /\ job(w)' = job(w)
  PROVE  OneMover'
  BY DEF OneMover

\* The steps at "handle": one row is written, by a worker that moves on.
LEMMA FlushOutcome ==
  ASSUME TypeInv, NEW w \in Workers, pc[w] = "handle", NEW new, Flush(w, new)
  PROVE  /\ job(w) \in Jobs
         /\ \A j \in Jobs : j # job(w) => row'[j] = row[j]
         /\ row'[job(w)].status = Changed(row[job(w)].status, obj[w].status, new.status)
         /\ row'[job(w)].attempts = Changed(row[job(w)].attempts, obj[w].attempts, new.attempts)
         /\ obj'[w] = new
         /\ \A v \in Workers : v # w => obj'[v] = obj[v]
         /\ obj[w] = row[job(w)] /\ new \in Row => row'[job(w)] = new
  <1>1. job(w) \in Jobs /\ row \in [Jobs -> Row] /\ obj \in [Workers -> Row]
    BY JobOfEntry DEF TypeInv, TypeOK, Busy
  <1>2. obj[w] = row[job(w)] /\ new \in Row => row'[job(w)] = new
    BY <1>1 DEF Flush, Changed, Row
  <1>3. QED
    BY <1>1, <1>2 DEF Flush

\* What a step at "handle" writes, and where the worker goes from there.
Outcome(w, new) ==
  /\ pc[w] = "handle" /\ Flush(w, new)
  /\ UNCHANGED <<api, stream, delivered, pending, idle, phase, todo, cur, aborts, overruns>>
  /\ \/ /\ new.status = obj[w].status /\ new.attempts = obj[w].attempts
        /\ pc' = pc
     \/ /\ new.status = "done" /\ new.attempts = obj[w].attempts
        /\ job(w) \notin Unhandled /\ pc' = [pc EXCEPT ![w] = "ack"]
     \/ /\ new.status = "queued" /\ new.attempts = obj[w].attempts
        /\ obj[w].attempts < MaxAttempts
        /\ job(w) \notin Unhandled /\ pc' = [pc EXCEPT ![w] = "push"]
     \/ /\ new.status = "failed" /\ new.attempts = obj[w].attempts
        /\ obj[w].attempts >= MaxAttempts
        /\ job(w) \notin Unhandled /\ pc' = [pc EXCEPT ![w] = "ack"]
     \/ /\ new.status = "failed" /\ new.attempts = MaxAttempts
        /\ job(w) \in Unhandled /\ pc' = [pc EXCEPT ![w] = "ack"]

LEMMA Outcomes ==
  ASSUME TypeInv, NEW w \in Workers,
         \/ \E p \in Percents : SetProgress(w, p)
         \/ Complete(w) \/ Fail(w) \/ Reject(w)
  PROVE  \E new \in Row : Outcome(w, new)
  <1>1. obj[w] \in Row /\ obj[w].attempts \in Nat /\ MaxAttempts \in Nat
    BY BoundsAssumption DEF TypeInv, TypeOK, Row
  <1>2. ASSUME NEW p \in Percents, SetProgress(w, p)
        PROVE  \E new \in Row : Outcome(w, new)
    <2> DEFINE new == [obj[w] EXCEPT !.progress = Clamp(p)]
    <2>1. Clamp(p) \in 0..100
      BY PercentsAssumption DEF Clamp
    <2>2. new \in Row /\ new.attempts = obj[w].attempts /\ new.status = obj[w].status
      BY <1>1, <2>1, RowUpdates, NewCopies
    <2>3. Outcome(w, new)
      BY <1>2, <2>2 DEF SetProgress, Outcome, redis, budgets
    <2>4. QED
      BY <2>2, <2>3
  <1>3. ASSUME Complete(w)
        PROVE  \E new \in Row : Outcome(w, new)
    <2> DEFINE new == [obj[w] EXCEPT !.status = "done", !.progress = 100]
    <2>1. "done" \in Statuses /\ 100 \in 0..100
      BY DEF Statuses
    <2>2. new \in Row
      BY <1>1, <2>1, RowUpdates
    <2>3. new.attempts = obj[w].attempts /\ new.status = "done"
      BY <1>1, <2>1, NewCopies
    <2>4. Outcome(w, new)
      BY <1>3, <2>3 DEF Complete, Outcome, Goto, redis, budgets
    <2>5. QED
      BY <2>2, <2>4
  <1>4. ASSUME Fail(w)
        PROVE  \E new \in Row : Outcome(w, new)
    <2> DEFINE outcome == IF Retry(w) THEN "queued" ELSE "failed"
               new == [obj[w] EXCEPT !.status = outcome]
    <2>1. outcome \in Statuses
      BY DEF Statuses
    <2>2. new \in Row /\ new.attempts = obj[w].attempts /\ new.status = outcome
      <3> HIDE DEF outcome
      <3>1. QED
        BY <1>1, <2>1, RowUpdates, NewCopies, ZenonT(30)
    <2>3. /\ pc[w] = "handle" /\ Flush(w, new) /\ job(w) \notin Unhandled
          /\ UNCHANGED <<api, stream, delivered, pending, idle, phase, todo, cur, aborts, overruns>>
      BY <1>4 DEF Fail, redis, budgets
    <2> HIDE DEF new
    <2>4. CASE Retry(w)
      BY <1>1, <1>4, <2>2, <2>3, <2>4 DEF Outcome, Fail, Goto, Retry
    <2>5. CASE ~Retry(w)
      BY <1>1, <1>4, <2>2, <2>3, <2>5 DEF Outcome, Fail, Goto, Retry
    <2>6. QED
      BY <2>2, <2>4, <2>5
  <1>5. ASSUME Reject(w)
        PROVE  \E new \in Row : Outcome(w, new)
    <2> DEFINE new == [obj[w] EXCEPT !.status = "failed", !.attempts = MaxAttempts]
    <2>1. "failed" \in Statuses
      BY DEF Statuses
    <2>2. new \in Row
      BY <1>1, <2>1, RowUpdates
    <2>3. new.attempts = MaxAttempts /\ new.status = "failed"
      BY <1>1 DEF Row
    <2>4. Outcome(w, new)
      BY <1>5, <2>3 DEF Reject, Outcome, Goto, redis, budgets
    <2>5. QED
      BY <2>2, <2>4
  <1>6. QED
    BY <1>2, <1>3, <1>4, <1>5

LEMMA UnannouncedInit == Init => Unannounced /\ RejectedStay
  BY DEF Init, Unannounced, Announced, RejectedStay, NoRow

LEMMA UnannouncedStep ==
  ASSUME TypeInv, Unannounced, [Next]_vars
  PROVE  Unannounced'
  <1> USE DEF Unannounced, Announced
  <1>0. /\ row \in [Jobs -> Row] /\ api \in [Jobs -> {"idle", "committed", "pushed", "died"}]
        /\ stream \in Seq(Jobs) /\ delivered \in 0..Len(stream)
        /\ \A w \in Workers : obj[w] \in Row
    BY DEF TypeInv, TypeOK
  <1>1. ASSUME NEW j \in Jobs, Insert(j)
        PROVE  Unannounced'
    <2>1. row'[j].status = "queued" /\ \A i \in Jobs : i # j => row'[i] = row[i]
      BY <1>0, <1>1 DEF Insert, Row
    <2>2. QED
      BY <1>0, <1>1, <2>1 DEF Insert, redis
  <1>2. ASSUME NEW j \in Jobs, FirstPush(j)
        PROVE  Unannounced'
    <2>1. UNCHANGED row /\ api' = [api EXCEPT ![j] = "pushed"] /\ stream' = Append(stream, j)
          /\ api[j] = "committed"
      BY <1>2 DEF FirstPush
    <2>2. ASSUME NEW i \in Jobs, api'[i] # "pushed", NEW e \in 1..Len(stream')
          PROVE  stream'[e] # i
      BY <1>0, <2>1, <2>2, AppendEntry
    <2>3. QED
      BY <1>0, <2>1, <2>2
  <1>3. ASSUME NEW j \in Jobs, ApiDies(j)
        PROVE  Unannounced'
    BY <1>0, <1>3 DEF ApiDies, redis
  <1>4. ASSUME NEW w \in Workers, Claim(w)
        PROVE  Unannounced'
    <2>1. PICK e \in todo[w] : \/ row' = [row EXCEPT ![stream[e]] = Started(@)]
                               \/ row' = row
      BY <1>4 DEF Claim
    <2>2. e \in 1..Len(stream) /\ stream[e] \in Jobs
      BY <2>1, JobOfEntry DEF TypeInv, TypeOK
    <2>3. api[stream[e]] = "pushed"
      BY <2>2
    <2>4. Started(row[stream[e]]).status = "running"
      BY <1>0, <2>2 DEF Started, Row
    <2>5. UNCHANGED <<api, stream>>
      BY <1>4 DEF Claim, redis
    <2>6. QED
      BY <1>0, <2>1, <2>2, <2>3, <2>4, <2>5
  <1>5. ASSUME NEW w \in Workers, NEW new \in Row, Outcome(w, new)
        PROVE  Unannounced'
    <2>1. /\ job(w) \in Jobs /\ \A j \in Jobs : j # job(w) => row'[j] = row[j]
          /\ row'[job(w)].status = Changed(row[job(w)].status, obj[w].status, new.status)
      BY <1>5, FlushOutcome DEF Outcome
    <2>2. api[job(w)] = "pushed"
      <3>1. cur[w] \in 1..Len(stream)
        BY <1>0, <1>5, JobOfEntry DEF Outcome, Busy
      <3>2. QED
        BY <2>1, <3>1 DEF job
    <2>3. row'[job(w)].status # "absent"
      BY <1>5, <2>1, <2>2 DEF Outcome, Changed
    <2>4. QED
      BY <1>5, <2>1, <2>2, <2>3 DEF Outcome
  <1>10. ASSUME NEW w \in Workers, RetryPush(w)
         PROVE  Unannounced'
    <2>1. UNCHANGED <<row, api>> /\ stream' = Append(stream, job(w))
      BY <1>10 DEF RetryPush, db
    <2>2. cur[w] \in 1..Len(stream) /\ job(w) \in Jobs
      BY <1>0, <1>10, JobOfEntry DEF RetryPush, Busy
    <2>3. api[job(w)] = "pushed"
      BY <2>2 DEF job
    <2>4. ASSUME NEW i \in Jobs, api[i] # "pushed", NEW e \in 1..Len(stream')
          PROVE  stream'[e] # i
      BY <1>0, <2>1, <2>2, <2>3, <2>4, AppendEntry
    <2>5. QED
      BY <2>1, <2>4
  <1>11. ASSUME UNCHANGED <<row, api, stream>>
         PROVE  Unannounced'
    BY <1>11
  <1>12. ASSUME NEW w \in Workers, Reclaim(w) \/ Pull(w) \/ Load(w) \/ Ack(w) \/ Abort(w)
         PROVE  UNCHANGED <<row, api, stream>>
    BY <1>12 DEF Reclaim, Pull, Load, Ack, Abort, db, redis
  <1>13. ASSUME NEW e \in pending, TurnIdle(e)
         PROVE  UNCHANGED <<row, api, stream>>
    BY <1>13 DEF TurnIdle, db
  <1>14. CASE UNCHANGED vars
    BY <1>14 DEF vars
  <1>15. QED
    BY <1>1, <1>2, <1>3, <1>4, <1>5, Outcomes, <1>10, <1>11, <1>12, <1>13, <1>14
       DEF Next, Step

LEMMA RejectedStep ==
  ASSUME TypeInv, Unannounced, RejectedStay, [Next]_vars
  PROVE  RejectedStay'
  <1>1. /\ row \in [Jobs -> Row] /\ stream \in Seq(Jobs) /\ delivered \in 0..Len(stream)
    BY DEF TypeInv, TypeOK
  <1>2. ASSUME NEW j \in Jobs, j \in Unhandled, row[j].status = "failed"
        PROVE  row'[j].status = "failed"
    <2>1. ASSUME NEW i \in Jobs, Insert(i)
          PROVE  row'[j] = row[j]
      BY <1>1, <1>2, <2>1 DEF Insert, Unannounced, Announced
    <2>2. ASSUME NEW w \in Workers, Claim(w)
          PROVE  row'[j] = row[j]
      <3>1. PICK e \in todo[w] : \/ Claimable(w, stream[e]) /\ row' = [row EXCEPT ![stream[e]] = Started(@)]
                                 \/ row' = row
        BY <2>2 DEF Claim
      <3>2. QED
        BY <1>1, <1>2, <3>1 DEF Claimable
    <2>3. ASSUME NEW w \in Workers, NEW new \in Row, Outcome(w, new)
          PROVE  row'[j].status = "failed"
      <3>1. /\ job(w) \in Jobs /\ \A i \in Jobs : i # job(w) => row'[i] = row[i]
            /\ row'[job(w)].status = Changed(row[job(w)].status, obj[w].status, new.status)
        BY <2>3, FlushOutcome DEF Outcome
      <3>2. QED
        BY <1>2, <2>3, <3>1 DEF Outcome, Changed
    <2>4. ASSUME UNCHANGED row
          PROVE  row'[j].status = "failed"
      BY <1>2, <2>4
    <2>5. ASSUME NEW i \in Jobs, FirstPush(i) \/ ApiDies(i)
          PROVE  UNCHANGED row
      BY <2>5 DEF FirstPush, ApiDies
    <2>6. ASSUME NEW e \in pending, TurnIdle(e)
          PROVE  UNCHANGED row
      BY <2>6 DEF TurnIdle, db
    <2>7. ASSUME NEW w \in Workers,
                 \/ Reclaim(w) \/ Pull(w) \/ Load(w) \/ RetryPush(w) \/ Ack(w) \/ Abort(w)
          PROVE  UNCHANGED row
      BY <2>7 DEF Reclaim, Pull, Load, RetryPush, Ack, Abort, db
    <2>8. CASE UNCHANGED vars
      BY <1>2, <2>8 DEF vars
    <2>9. QED
      BY <1>2, <2>1, <2>2, <2>3, <2>4, <2>5, <2>6, <2>7, <2>8, Outcomes DEF Next, Step
  <1>3. ASSUME NEW v \in Workers, pc'[v] = "handle", job(v)' \in Unhandled, obj'[v].status = "failed"
        PROVE  row'[job(v)'].status = "failed"
    <2>1. CASE obj'[v] = row'[job(v)']
      BY <1>3, <2>1
    <2>2. CASE /\ pc[v] = "handle" /\ job(v)' = job(v) /\ job(v) \in Jobs
               /\ obj'[v].status = obj[v].status
      BY <1>2, <1>3, <2>2 DEF RejectedStay
    <2>3. QED
      BY <1>3, <2>1, <2>2, HandlersStay
  <1>4. QED
    BY <1>3 DEF RejectedStay

LEMMA SmoothInit == Init => Smooth
  <1> SUFFICES ASSUME Init PROVE Smooth
    OBVIOUS
  <1>1. Exclusive
    BY ExclusiveInit
  <1>2. FreshOnly /\ OneMover
    BY DEF Init, FreshOnly, OneMover, Working
  <1>3. RowsMatch
    BY BoundsAssumption DEF Init, RowsMatch, NoRow
  <1>4. QED
    BY <1>1, <1>2, <1>3 DEF Smooth

\* Steps of the API and of idle time.
LEMMA SmoothOutside ==
  ASSUME TypeInv, Unannounced, Smooth, Quiet, Quiet',
         \/ \E j \in Jobs : Insert(j) \/ FirstPush(j) \/ ApiDies(j)
         \/ \E e \in pending : TurnIdle(e)
  PROVE  FreshOnly' /\ OneMover' /\ RowsMatch'
  <1>0. /\ row \in [Jobs -> Row] /\ stream \in Seq(Jobs) /\ delivered \in 0..Len(stream)
        /\ pending \subseteq 1..delivered
        /\ \A w \in Workers : todo[w] \subseteq 1..delivered
        /\ \A w \in Workers : pc[w] \in Working => cur[w] \in 1..Len(stream) /\ job(w) \in Jobs
    BY JobOfEntry DEF TypeInv, TypeOK, Working, Busy
  <1> USE DEF Smooth
  <1>1. ASSUME NEW j \in Jobs, Insert(j)
        PROVE  FreshOnly' /\ OneMover' /\ RowsMatch'
    <2>1. /\ row'[j].status = "queued" /\ row'[j].attempts = row[j].attempts
          /\ \A i \in Jobs : i # j => row'[i] = row[i]
          /\ UNCHANGED <<stream, delivered, pending, idle, pc, phase, todo, cur, obj>>
          /\ api[j] = "idle"
      BY <1>0, <1>1 DEF Insert, Row, redis, worker
    <2>2. row[j].status = "absent" /\ \A e \in 1..Len(stream) : stream[e] # j
      BY <2>1 DEF Unannounced, Announced
    <2>3. \A w \in Workers : pc[w] \in Working => job(w) # j
      BY <1>0, <2>2 DEF job
    <2>4. FreshOnly' /\ OneMover'
      BY <2>1 DEF FreshOnly, OneMover, Held, Waiting, job
    <2>5. /\ \A e \in 1..Len(stream) : row'[stream[e]] = row[stream[e]]
          /\ \A w \in Workers : pc[w] \in Working => row'[job(w)] = row[job(w)]
      BY <1>0, <2>1, <2>2, <2>3
    <2>6. RowsMatch'
      <3>1. \A e \in 1..Len(stream') : Waiting(e)' => row'[stream'[e]].status = "queued"
        BY <2>1, <2>5 DEF RowsMatch, Waiting
      <3>2. \A w \in Workers :
              /\ pc'[w] \in {"load", "handle"} => row'[job(w)'].status = "running"
              /\ pc'[w] = "push" => row'[job(w)'].status = "queued"
              /\ pc'[w] = "handle" => obj'[w] = row'[job(w)']
        BY <2>1, <2>5 DEF RowsMatch, Working, job
      <3>3. QED
        BY <2>1, <2>2, <3>1, <3>2 DEF RowsMatch
    <2>7. QED
      BY <2>4, <2>6
  <1>2. ASSUME NEW j \in Jobs, FirstPush(j)
        PROVE  FreshOnly' /\ OneMover' /\ RowsMatch'
    <2>1. /\ UNCHANGED <<row, delivered, pending, idle, pc, phase, todo, cur, obj>>
          /\ stream' = Append(stream, j) /\ api[j] = "committed"
      BY <1>2 DEF FirstPush, worker
    <2>2. /\ Len(stream') = Len(stream) + 1 /\ stream'[Len(stream) + 1] = j
          /\ \A e \in 1..Len(stream) : stream'[e] = stream[e]
      BY <1>0, <2>1, AppendEntry
    <2>3. /\ row[j].status # "absent" /\ \A e \in 1..Len(stream) : stream[e] # j
      BY <2>1 DEF Unannounced, Announced
    <2>4. /\ \A w \in Workers : pc[w] \in Working => job(w)' = job(w) /\ job(w) # j
          /\ \A e \in 1..Len(stream) : Waiting(e)' => Waiting(e)
      BY <1>0, <2>1, <2>2, <2>3 DEF job, Waiting
    <2>5. \A e \in 1..Len(stream') : e \in 1..Len(stream) \/ e = Len(stream) + 1
      BY <1>0, <2>2
    <2>6. FreshOnly'
      BY <2>1 DEF FreshOnly, Held
    <2>7. OneMover'
      BY <2>1, <2>2, <2>3, <2>4, <2>5 DEF OneMover
    <2>8. row[j].status = "queued"
      BY <2>1 DEF Unannounced, Announced
    <2>9. RowsMatch'
      BY <2>1, <2>2, <2>4, <2>5, <2>8 DEF RowsMatch, Working
    <2>10. QED
      BY <2>6, <2>7, <2>9
  <1>3. ASSUME NEW j \in Jobs, ApiDies(j)
        PROVE  FreshOnly' /\ OneMover' /\ RowsMatch'
    BY <1>3 DEF ApiDies, redis, worker, FreshOnly, OneMover, RowsMatch, Held, Waiting, job
  <1>4. ASSUME NEW e \in pending, TurnIdle(e)
        PROVE  FALSE
    BY <1>4 DEF TurnIdle, FreshOnly, Quiet
  <1>5. QED
    BY <1>1, <1>2, <1>3, <1>4

\* A worker fetches, starts or loads.
LEMMA SmoothFetch ==
  ASSUME TypeInv, Smooth, NEW w \in Workers,
         Reclaim(w) \/ Pull(w) \/ Claim(w) \/ Load(w)
  PROVE  FreshOnly' /\ OneMover' /\ RowsMatch'
  <1>0. /\ row \in [Jobs -> Row] /\ stream \in Seq(Jobs) /\ delivered \in 0..Len(stream)
        /\ pending \subseteq 1..delivered
        /\ todo \in [Workers -> SUBSET (1..delivered)]
        /\ pc \in [Workers -> {"fetch", "next", "load", "handle", "push", "ack"}]
        /\ phase \in [Workers -> {"recover", "fresh"}]
        /\ cur \in [Workers -> 0..delivered] /\ obj \in [Workers -> Row]
        /\ \A v \in Workers : pc[v] \in Working => cur[v] \in 1..Len(stream) /\ job(v) \in Jobs
    BY JobOfEntry DEF TypeInv, TypeOK, Working, Busy
  <1> USE DEF Smooth
  <1>1. ASSUME Reclaim(w)
        PROVE  FreshOnly' /\ OneMover' /\ RowsMatch'
    <2>1. PICK S \in SUBSET idle : idle' = idle \ S /\ TakeBatch(w, S)
      BY <1>1 DEF Reclaim
    <2>2. S = {} /\ todo[w] = {} /\ pc[w] = "fetch"
      BY <1>1 DEF FreshOnly, Reclaim, TypeInv, Shape
    <2>3. /\ UNCHANGED <<row, stream, delivered, pending, pc, todo, cur, obj>> /\ idle' = {}
          /\ \A v \in Workers : v # w => phase'[v] = phase[v]
      BY <1>0, <1>1, <2>1, <2>2, ZenonT(30) DEF FreshOnly, Reclaim, TakeBatch, db
    <2>4. FreshOnly'
      BY <2>2, <2>3 DEF FreshOnly, Held
    <2>5. OneMover' /\ RowsMatch'
      BY <2>3 DEF OneMover, RowsMatch, Waiting, job
    <2>6. QED
      BY <2>4, <2>5
  <1>2. ASSUME Pull(w)
        PROVE  FreshOnly' /\ OneMover' /\ RowsMatch'
    <2> DEFINE S == delivered + 1 .. delivered'
    <2>a. delivered' \in delivered..Len(stream)
      BY <1>0, <1>2, BoundsAssumption DEF Pull
    <2>1. /\ pc[w] = "fetch" /\ phase[w] = "fresh"
          /\ pending' = pending \cup S /\ todo' = [todo EXCEPT ![w] = S]
          /\ pc' = [pc EXCEPT ![w] = IF S = {} THEN "fetch" ELSE "next"]
          /\ phase' = [phase EXCEPT ![w] = IF S = {} THEN Other(@) ELSE @]
          /\ UNCHANGED <<row, stream, idle, cur, obj>>
      BY <1>2 DEF Pull, TakeBatch, db
    <2>2. todo[w] = {}
      BY <2>1 DEF TypeInv, Shape
    <2>3. \A e \in 1..Len(stream) : Waiting(e)' => Waiting(e)
      <3>1. S \subseteq delivered + 1 .. Len(stream)
        BY <1>0, <2>a
      <3>2. delivered' + 1 .. Len(stream) \subseteq delivered + 1 .. Len(stream)
        BY <1>0, <2>a
      <3> HIDE DEF S
      <3>3. \A v \in Workers : todo'[v] = IF v = w THEN S ELSE todo[v]
        BY <1>0, <2>1
      <3>4. QED
        BY <2>1, <3>1, <3>2, <3>3 DEF Waiting
    <2>4. \A v \in Workers : pc'[v] \in Working => pc'[v] = pc[v]
      BY <1>0, <2>1 DEF Working
    <2>5. \A v \in Workers : job(v)' = job(v)
      BY <2>1 DEF job
    <2>6. FreshOnly'
      <3>1. \A e \in pending' : Held(e)'
        BY <1>0, <2>1, <2>2 DEF FreshOnly, Held
      <3>2. \A v \in Workers : pc'[v] # "fetch" => phase'[v] = "fresh"
        BY <1>0, <2>1 DEF FreshOnly
      <3>3. QED
        BY <2>1, <3>1, <3>2 DEF FreshOnly
    <2>7. OneMover'
      BY <2>1, <2>3, <2>4, <2>5, OneMoverKept
    <2>8. RowsMatch'
      BY <2>1, <2>3, <2>4, <2>5 DEF RowsMatch, Working
    <2>9. QED
      BY <2>6, <2>7, <2>8
  <1>3. ASSUME Claim(w)
        PROVE  FreshOnly' /\ OneMover' /\ RowsMatch'
    <2>1. PICK e \in todo[w] :
            /\ cur' = [cur EXCEPT ![w] = e]
            /\ todo' = [todo EXCEPT ![w] = @ \ {e}]
            /\ IF Claimable(w, stream[e])
                 THEN /\ row' = [row EXCEPT ![stream[e]] = Started(@)]
                      /\ pc' = [pc EXCEPT ![w] = "load"]
                 ELSE /\ pc' = [pc EXCEPT ![w] = "ack"]
                      /\ UNCHANGED row
      BY <1>3 DEF Claim, Goto
    <2>2. /\ UNCHANGED <<stream, delivered, pending, idle, phase, obj>> /\ pc[w] = "next"
      BY <1>3 DEF Claim, redis
    <2>3. e \in 1..delivered /\ e \in 1..Len(stream) /\ stream[e] \in Jobs /\ Waiting(e)
      BY <1>0, <2>1 DEF Waiting
    <2>4. row[stream[e]].status = "queued" /\ Claimable(w, stream[e])
      BY <2>3 DEF RowsMatch, Claimable
    <2>b. /\ row'[stream[e]].status = "running"
          /\ row'[stream[e]].attempts = row[stream[e]].attempts + 1
          /\ \A j \in Jobs : j # stream[e] => row'[j] = row[j]
      <3>1. row[stream[e]] \in Row
        BY <1>0, <2>3
      <3>2. /\ Started(row[stream[e]]).status = "running"
            /\ Started(row[stream[e]]).attempts = row[stream[e]].attempts + 1
        BY <3>1 DEF Started, Row
      <3>3. QED
        BY <1>0, <2>1, <2>3, <2>4, <3>2
    <2>5. /\ pc'[w] = "load" /\ \A v \in Workers : v # w => pc'[v] = pc[v]
          /\ job(w)' = stream[e] /\ \A v \in Workers : v # w => job(v)' = job(v)
      BY <1>0, <2>1, <2>2, <2>4 DEF job
    <2>6. \A v \in Workers : v # w => e \notin todo[v]
      BY <2>1, <2>3 DEF Exclusive, OneHolder
    <2>7. \A f \in 1..Len(stream) : Waiting(f)' => Waiting(f) /\ f # e
      BY <1>0, <2>1, <2>2, <2>3, <2>6 DEF Waiting
    <2>8. \A f \in 1..Len(stream) : Waiting(f)' => stream[f] # stream[e]
      BY <2>3, <2>7 DEF OneMover
    <2>9. \A v \in Workers : v # w /\ pc[v] \in Working => job(v) # stream[e]
      BY <2>3 DEF OneMover
    <2>10. FreshOnly'
      <3>1. \A f \in pending' : Held(f)'
        <4>1. cur[w] = 0
          BY <2>2 DEF TypeInv, Shape, Busy
        <4>2. QED
          BY <1>0, <2>1, <2>2, <4>1 DEF FreshOnly, Held
      <3>2. \A v \in Workers : pc'[v] # "fetch" => phase'[v] = "fresh"
        BY <2>2, <2>5 DEF FreshOnly
      <3>3. QED
        BY <2>2, <3>1, <3>2 DEF FreshOnly
    <2>11. OneMover'
      BY <2>2, <2>5, <2>7, <2>8, <2>9 DEF OneMover
    <2>12. RowsMatch'
      <3>1. ASSUME NEW f \in 1..Len(stream), Waiting(f)'
            PROVE  row'[stream[f]].status = "queued"
        <4>1. Waiting(f) /\ stream[f] # stream[e] /\ stream[f] \in Jobs
          BY <1>0, <2>7, <2>8, <3>1
        <4>2. row[stream[f]].status = "queued"
          BY <4>1 DEF RowsMatch
        <4>3. QED
          BY <2>b, <4>1, <4>2
      <3>2. \A v \in Workers :
              /\ pc'[v] \in {"load", "handle"} => row'[job(v)'].status = "running"
              /\ pc'[v] = "push" => row'[job(v)'].status = "queued"
              /\ pc'[v] = "handle" => obj'[v] = row'[job(v)']
        BY <1>0, <2>2, <2>b, <2>5, <2>9 DEF RowsMatch, Working
      <3>3. \A j \in Jobs :
              /\ row'[j].status \in {"absent", "queued"} => row'[j].attempts < MaxAttempts
              /\ row'[j].status = "running" => row'[j].attempts <= MaxAttempts
        <4>1. row[stream[e]].attempts < MaxAttempts /\ row[stream[e]].attempts \in Nat
          BY <1>0, <2>3, <2>4 DEF RowsMatch, Row
        <4>2. QED
          BY <2>b, <4>1, BoundsAssumption DEF RowsMatch
      <3>4. QED
        BY <2>2, <3>1, <3>2, <3>3 DEF RowsMatch
    <2>13. QED
      BY <2>10, <2>11, <2>12
  <1>4. ASSUME Load(w)
        PROVE  FreshOnly' /\ OneMover' /\ RowsMatch'
    <2>1. /\ UNCHANGED <<row, stream, delivered, pending, idle, phase, todo, cur>>
          /\ obj' = [obj EXCEPT ![w] = row[job(w)]]
          /\ pc' = [pc EXCEPT ![w] = "handle"] /\ pc[w] = "load"
      BY <1>4 DEF Load, Goto, db, redis
    <2>2. FreshOnly'
      BY <1>0, <2>1 DEF FreshOnly, Held
    <2>3. OneMover'
      BY <1>0, <2>1 DEF OneMover, Working, Waiting, job
    <2>4. RowsMatch'
      BY <1>0, <2>1 DEF RowsMatch, Waiting, job
    <2>5. QED
      BY <2>2, <2>3, <2>4
  <1>5. QED
    BY <1>1, <1>2, <1>3, <1>4

\* A worker reports, finishes a run, announces a retry or is done with an entry.
LEMMA SmoothFinish ==
  ASSUME TypeInv, Smooth, NEW w \in Workers,
         (\E new \in Row : Outcome(w, new)) \/ RetryPush(w) \/ Ack(w)
  PROVE  FreshOnly' /\ OneMover' /\ RowsMatch'
  <1>0. /\ row \in [Jobs -> Row] /\ stream \in Seq(Jobs) /\ delivered \in 0..Len(stream)
        /\ pending \subseteq 1..delivered
        /\ todo \in [Workers -> SUBSET (1..delivered)]
        /\ pc \in [Workers -> {"fetch", "next", "load", "handle", "push", "ack"}]
        /\ phase \in [Workers -> {"recover", "fresh"}]
        /\ cur \in [Workers -> 0..delivered] /\ obj \in [Workers -> Row]
        /\ \A v \in Workers : pc[v] \in Working => cur[v] \in 1..Len(stream) /\ job(v) \in Jobs
    BY JobOfEntry DEF TypeInv, TypeOK, Working, Busy
  <1> USE DEF Smooth
  <1>1. ASSUME NEW new \in Row, Outcome(w, new)
        PROVE  FreshOnly' /\ OneMover' /\ RowsMatch'
    <2>1. /\ job(w) \in Jobs /\ pc[w] = "handle" /\ obj[w] = row[job(w)]
          /\ row[job(w)].status = "running"
      BY <1>0, <1>1 DEF Outcome, RowsMatch, Working
    <2>2. /\ \A j \in Jobs : j # job(w) => row'[j] = row[j]
          /\ row'[job(w)] = new /\ obj'[w] = new
          /\ \A v \in Workers : v # w => obj'[v] = obj[v]
      BY <1>1, <2>1, FlushOutcome DEF Outcome
    <2>3. /\ UNCHANGED <<stream, delivered, pending, idle, phase, todo, cur>>
          /\ \A v \in Workers : v # w => pc'[v] = pc[v]
          /\ pc'[w] \in {"handle", "push", "ack"}
      BY <1>0, <1>1 DEF Outcome
    <2>4. /\ \A v \in Workers : job(v)' = job(v)
          /\ \A e : Waiting(e)' = Waiting(e)
      BY <2>3 DEF job, Waiting
    <2>5. /\ \A v \in Workers : v # w /\ pc[v] \in Working => job(v) # job(w)
          /\ \A e \in 1..Len(stream) : Waiting(e) => stream[e] # job(w)
      BY <2>1 DEF OneMover, Working
    <2>6. FreshOnly'
      BY <2>1, <2>3 DEF FreshOnly, Held
    <2>7. OneMover'
      BY <2>1, <2>3, <2>4, OneMoverKept DEF Working
    <2>8. RowsMatch'
      <3>1. \A e \in 1..Len(stream') : Waiting(e)' => row'[stream'[e]].status = "queued"
        BY <1>0, <2>2, <2>3, <2>4, <2>5 DEF RowsMatch
      <3>2. \A v \in Workers : v # w =>
              /\ pc'[v] \in {"load", "handle"} => row'[job(v)'].status = "running"
              /\ pc'[v] = "push" => row'[job(v)'].status = "queued"
              /\ pc'[v] = "handle" => obj'[v] = row'[job(v)']
        BY <1>0, <2>2, <2>3, <2>4, <2>5 DEF RowsMatch, Working
      <3>3. /\ pc'[w] \in {"load", "handle"} => row'[job(w)'].status = "running"
            /\ pc'[w] = "push" => row'[job(w)'].status = "queued"
            /\ pc'[w] = "handle" => obj'[w] = row'[job(w)']
        BY <1>0, <1>1, <2>1, <2>2, <2>4 DEF Outcome
      <3>4. /\ new.status \in {"absent", "queued"} => new.attempts < MaxAttempts
            /\ new.status = "running" => new.attempts <= MaxAttempts
        BY <1>1, <2>1 DEF Outcome, RowsMatch
      <3>5. \A j \in Jobs :
              /\ row'[j].status \in {"absent", "queued"} => row'[j].attempts < MaxAttempts
              /\ row'[j].status = "running" => row'[j].attempts <= MaxAttempts
        BY <2>2, <3>4 DEF RowsMatch
      <3>6. QED
        BY <3>1, <3>2, <3>3, <3>5 DEF RowsMatch
    <2>9. QED
      BY <2>6, <2>7, <2>8
  <1>2. ASSUME RetryPush(w)
        PROVE  FreshOnly' /\ OneMover' /\ RowsMatch'
    <2>1. /\ pc[w] = "push" /\ pc' = [pc EXCEPT ![w] = "ack"]
          /\ stream' = Append(stream, job(w)) /\ job(w) \in Jobs
          /\ UNCHANGED <<row, delivered, pending, idle, phase, todo, cur, obj>>
      BY <1>0, <1>2 DEF RetryPush, Goto, db, Working
    <2>2. /\ Len(stream') = Len(stream) + 1 /\ stream'[Len(stream) + 1] = job(w)
          /\ \A e \in 1..Len(stream) : stream'[e] = stream[e]
      BY <1>0, <2>1, AppendEntry
    <2>3. /\ \A v \in Workers : pc'[v] \in Working =>
               v # w /\ pc'[v] = pc[v] /\ job(v)' = job(v) /\ job(v) # job(w)
          /\ \A e \in 1..Len(stream) : Waiting(e)' => Waiting(e) /\ stream[e] # job(w)
      <3>1. \A v \in Workers : v # w /\ pc[v] \in Working => job(v) # job(w)
        BY <2>1 DEF OneMover, Working
      <3>2. \A e \in 1..Len(stream) : Waiting(e) => stream[e] # job(w)
        BY <2>1 DEF OneMover, Working
      <3>3. \A e \in 1..Len(stream) : Waiting(e)' => Waiting(e)
        BY <1>0, <2>1, <2>2 DEF Waiting
      <3>4. \A v \in Workers : pc'[v] \in Working => v # w /\ pc'[v] = pc[v]
        BY <1>0, <2>1 DEF Working
      <3>5. \A v \in Workers : pc[v] \in Working => job(v)' = job(v)
        BY <1>0, <2>1, <2>2 DEF job
      <3>6. QED
        BY <3>1, <3>2, <3>3, <3>4, <3>5
    <2>4. \A e \in 1..Len(stream') : e \in 1..Len(stream) \/ e = Len(stream) + 1
      BY <1>0, <2>2
    <2>5. FreshOnly'
      BY <1>0, <2>1 DEF FreshOnly, Held
    <2>6. OneMover'
      BY <2>2, <2>3, <2>4 DEF OneMover
    <2>7. row[job(w)].status = "queued"
      BY <2>1 DEF RowsMatch
    <2>8. RowsMatch'
      <3>1. \A e \in 1..Len(stream') : Waiting(e)' => row'[stream'[e]].status = "queued"
        BY <2>1, <2>2, <2>3, <2>4, <2>7 DEF RowsMatch
      <3>2. QED
        BY <2>1, <2>3, <3>1 DEF RowsMatch, Working
    <2>9. QED
      BY <2>5, <2>6, <2>8
  <1>3. ASSUME Ack(w)
        PROVE  FreshOnly' /\ OneMover' /\ RowsMatch'
    <2>1. /\ pc[w] = "ack" /\ pc' = [pc EXCEPT ![w] = IF todo[w] = {} THEN "fetch" ELSE "next"]
          /\ pending' = pending \ {cur[w]} /\ idle' = idle \ {cur[w]}
          /\ cur' = [cur EXCEPT ![w] = 0]
          /\ phase' = [phase EXCEPT ![w] = IF todo[w] = {} THEN Other(@) ELSE @]
          /\ UNCHANGED <<row, stream, delivered, todo, obj>>
      BY <1>3 DEF Ack, Goto, db
    <2>2. /\ \A v \in Workers : pc'[v] \in Working => v # w /\ pc'[v] = pc[v] /\ job(v)' = job(v)
          /\ \A e : Waiting(e)' = Waiting(e)
      BY <1>0, <2>1 DEF Working, Waiting, job
    <2>3. FreshOnly'
      <3>1. \A e \in pending' : Held(e)'
        BY <1>0, <2>1 DEF FreshOnly, Held
      <3>2. \A v \in Workers : pc'[v] # "fetch" => phase'[v] = "fresh"
        BY <1>0, <2>1 DEF FreshOnly
      <3>3. QED
        BY <2>1, <3>1, <3>2 DEF FreshOnly
    <2>4. OneMover'
      BY <2>1, <2>2, OneMoverKept
    <2>5. RowsMatch'
      BY <2>1, <2>2 DEF RowsMatch, Working
    <2>6. QED
      BY <2>3, <2>4, <2>5
  <1>4. QED
    BY <1>1, <1>2, <1>3

LEMMA SmoothStep ==
  ASSUME TypeInv, Unannounced, Smooth, Quiet, Quiet', [Next]_vars
  PROVE  Smooth'
  <1>1. Exclusive'
    BY ExclusiveStep DEF Smooth, Quiet
  <1>2. ASSUME NEW w \in Workers, Abort(w)
        PROVE  FALSE
    BY <1>2 DEF Abort, Quiet
  <1>3. CASE UNCHANGED vars
    BY <1>1, <1>3 DEF vars, Smooth, FreshOnly, OneMover, RowsMatch, Held, Waiting, job
  <1>4. CASE \/ \E j \in Jobs : Insert(j) \/ FirstPush(j) \/ ApiDies(j)
             \/ \E e \in pending : TurnIdle(e)
    BY <1>1, <1>4, SmoothOutside DEF Smooth
  <1>5. ASSUME NEW w \in Workers, Step(w)
        PROVE  Smooth'
    BY <1>1, <1>5, Outcomes, SmoothFetch, SmoothFinish DEF Step, Smooth
  <1>6. QED
    BY <1>2, <1>3, <1>4, <1>5 DEF Next

-----------------------------------------------------------------------------
(***************************************************************************)
(* The refinement mapping takes the status and attempts columns, and       *)
(* whether anything has disturbed the workers.  A step that writes one row *)
(* is a step of JobLifecycle when that row's change is one the lifecycle   *)
(* has.                                                                    *)
(***************************************************************************)
LifecycleStep == [Lifecycle!Next]_(Lifecycle!lvars)

\* How the lifecycle lets the row of j go from r to s.
Undisturbed(j, r, s) ==
  \/ /\ r.status = "absent" /\ s.status = "queued" /\ s.attempts = r.attempts
  \/ /\ r.status = "queued" /\ r.attempts < MaxAttempts
     /\ s.status = "running" /\ s.attempts = r.attempts + 1
  \/ /\ j \notin Unhandled /\ r.status = "running"
     /\ s.status = "done" /\ s.attempts = r.attempts
  \/ /\ j \notin Unhandled /\ r.status = "running" /\ r.attempts < MaxAttempts
     /\ s.status = "queued" /\ s.attempts = r.attempts
  \/ /\ r.status = "running" /\ (j \notin Unhandled => r.attempts = MaxAttempts)
     /\ s.status = "failed" /\ s.attempts = MaxAttempts

Disturbed(j, r, s) ==
  /\ aborts + overruns > 0
  /\ \/ /\ r.status \in {"queued", "running"}
        /\ s.status = "running" /\ s.attempts = r.attempts + 1
     \/ /\ r.status # "absent" /\ j \in Unhandled /\ s.status = "failed"
        /\ s.attempts = MaxAttempts \/ (r.attempts >= MaxAttempts /\ s.attempts = r.attempts)
     \/ /\ r.status # "absent" /\ j \notin Unhandled /\ s.attempts = r.attempts
        /\ \/ s.status \in {"done", "queued"}
           \/ s.status = "failed" /\ r.attempts >= MaxAttempts

LEMMA RowWritten ==
  ASSUME NEW j \in Jobs, \A i \in Jobs : i # j => row'[i] = row[i],
         aborts' = aborts, overruns' = overruns,
         \/ Undisturbed(j, row[j], row'[j]) \/ Disturbed(j, row[j], row'[j])
         \/ row'[j].status = row[j].status /\ row'[j].attempts = row[j].attempts
  PROVE  LifecycleStep
  <1> DEFINE st == [i \in Jobs |-> row[i].status]
             at == [i \in Jobs |-> row[i].attempts]
  <1>1. /\ st' = [st EXCEPT ![j] = row'[j].status]
        /\ at' = [at EXCEPT ![j] = row'[j].attempts]
        /\ st[j] = row[j].status /\ at[j] = row[j].attempts
        /\ (aborts + overruns > 0)' = (aborts + overruns > 0)
    OBVIOUS
  <1>2. row'[j].attempts = row[j].attempts => at' = at
    OBVIOUS
  <1>3. CASE Undisturbed(j, row[j], row'[j])
    <2>1. CASE row[j].status = "absent" /\ row'[j].status = "queued" /\ row'[j].attempts = row[j].attempts
      <3>1. Lifecycle!Submit(j)
        BY <1>1, <1>2, <2>1 DEF Lifecycle!Submit, Lifecycle!Become
      <3>2. QED
        BY <3>1 DEF LifecycleStep, Lifecycle!Next
    <2>2. CASE /\ row[j].status = "queued" /\ row[j].attempts < MaxAttempts
               /\ row'[j].status = "running" /\ row'[j].attempts = row[j].attempts + 1
      <3>1. Lifecycle!Start(j)
        BY <1>1, <2>2 DEF Lifecycle!Start, Lifecycle!Become
      <3>2. QED
        BY <3>1 DEF LifecycleStep, Lifecycle!Next
    <2>3. CASE /\ j \notin Unhandled /\ row[j].status = "running"
               /\ row'[j].status = "done" /\ row'[j].attempts = row[j].attempts
      <3>1. Lifecycle!Succeed(j)
        BY <1>1, <1>2, <2>3 DEF Lifecycle!Succeed, Lifecycle!Become
      <3>2. QED
        BY <3>1 DEF LifecycleStep, Lifecycle!Next
    <2>4. CASE /\ j \notin Unhandled /\ row[j].status = "running" /\ row[j].attempts < MaxAttempts
               /\ row'[j].status = "queued" /\ row'[j].attempts = row[j].attempts
      <3>1. Lifecycle!Repeat(j)
        BY <1>1, <1>2, <2>4 DEF Lifecycle!Repeat, Lifecycle!Become
      <3>2. QED
        BY <3>1 DEF LifecycleStep, Lifecycle!Next
    <2>5. CASE /\ row[j].status = "running" /\ (j \notin Unhandled => row[j].attempts = MaxAttempts)
               /\ row'[j].status = "failed" /\ row'[j].attempts = MaxAttempts
      <3>1. Lifecycle!GiveUp(j)
        BY <1>1, <2>5 DEF Lifecycle!GiveUp, Lifecycle!Become
      <3>2. QED
        BY <3>1 DEF LifecycleStep, Lifecycle!Next
    <2>6. QED
      BY <1>3, <2>1, <2>2, <2>3, <2>4, <2>5 DEF Undisturbed
  <1>4. CASE Disturbed(j, row[j], row'[j])
    <2>1. CASE /\ row[j].status \in {"queued", "running"}
               /\ row'[j].status = "running" /\ row'[j].attempts = row[j].attempts + 1
      <3>1. Lifecycle!Restart(j)
        BY <1>1, <1>4, <2>1 DEF Disturbed, Lifecycle!Restart, Lifecycle!Become
      <3>2. QED
        BY <3>1 DEF LifecycleStep, Lifecycle!Next
    <2>2. CASE /\ row[j].status # "absent" /\ j \in Unhandled /\ row'[j].status = "failed"
               /\ \/ row'[j].attempts = MaxAttempts
                  \/ row[j].attempts >= MaxAttempts /\ row'[j].attempts = row[j].attempts
      <3>1. Lifecycle!LateOutcome(j)
        BY <1>1, <1>2, <1>4, <2>2 DEF Disturbed, Lifecycle!LateOutcome, Lifecycle!Become
      <3>2. QED
        BY <3>1 DEF LifecycleStep, Lifecycle!Next
    <2>3. CASE /\ row[j].status # "absent" /\ j \notin Unhandled /\ row'[j].attempts = row[j].attempts
               /\ \/ row'[j].status \in {"done", "queued"}
                  \/ row'[j].status = "failed" /\ row[j].attempts >= MaxAttempts
      <3>1. Lifecycle!LateOutcome(j)
        BY <1>1, <1>2, <1>4, <2>3 DEF Disturbed, Lifecycle!LateOutcome, Lifecycle!Become
      <3>2. QED
        BY <3>1 DEF LifecycleStep, Lifecycle!Next
    <2>4. QED
      BY <1>4, <2>1, <2>2, <2>3 DEF Disturbed
  <1>5. CASE row'[j].status = row[j].status /\ row'[j].attempts = row[j].attempts
    BY <1>5 DEF LifecycleStep, Lifecycle!lvars
  <1>6. QED
    BY <1>3, <1>4, <1>5

LEMMA NothingWritten ==
  ASSUME UNCHANGED <<row, aborts, overruns>>
  PROVE  LifecycleStep
  BY DEF LifecycleStep, Lifecycle!lvars

\* The outcome of a run: alone, it ends the run the row tells of; after a death
\* or an overrun it may find anything, but not a job that was never submitted.
LEMMA OutcomeIsStep ==
  ASSUME TypeInv, Unannounced, RejectedStay, CopiesBehind, Quiet => Smooth,
         NEW w \in Workers, NEW new \in Row, Outcome(w, new)
  PROVE  LifecycleStep
  <1> DEFINE j == job(w)
  <1>1. /\ j \in Jobs /\ \A i \in Jobs : i # j => row'[i] = row[i]
        /\ row'[j].status = Changed(row[j].status, obj[w].status, new.status)
        /\ row'[j].attempts = Changed(row[j].attempts, obj[w].attempts, new.attempts)
        /\ obj[w] = row[j] => row'[j] = new
        /\ aborts' = aborts /\ overruns' = overruns /\ pc[w] = "handle"
    BY FlushOutcome DEF Outcome
  <1>2. /\ row[j].attempts \in Nat /\ obj[w].attempts \in Nat /\ MaxAttempts \in Nat
        /\ aborts \in Nat /\ overruns \in Nat
    BY <1>1, BoundsAssumption DEF TypeInv, TypeOK, Row
  <1>3. row[j].status # "absent"
    <2>1. api[j] = "pushed"
      BY <1>1, ProcessedIsPushed DEF Unannounced, Busy
    <2>2. QED
      BY <1>1, <2>1 DEF Unannounced
  <1>4. \/ Undisturbed(j, row[j], row'[j]) \/ Disturbed(j, row[j], row'[j])
        \/ row'[j].status = row[j].status /\ row'[j].attempts = row[j].attempts
    <2>1. CASE Quiet
      <3>1. obj[w] = row[j] /\ row'[j] = new /\ row[j].status = "running"
            /\ row[j].attempts <= MaxAttempts
        BY <1>1, <2>1 DEF Smooth, RowsMatch
      <3>2. QED
        BY <1>2, <3>1 DEF Outcome, Undisturbed
    <2>2. CASE ~Quiet
      <3>1. aborts + overruns > 0
        BY <1>2, <2>2 DEF Quiet
      <3>2. /\ row[j].attempts >= obj[w].attempts \/ row[j].attempts >= MaxAttempts
            /\ j \in Unhandled /\ obj[w].status = "failed" => row[j].status = "failed"
        BY <1>1 DEF CopiesBehind, RejectedStay
      <3> HIDE DEF j
      <3>3. CASE new.status = obj[w].status /\ new.attempts = obj[w].attempts
        BY <1>1, <3>3 DEF Changed
      <3>4. CASE j \notin Unhandled /\ new.attempts = obj[w].attempts
                 /\ \/ new.status \in {"done", "queued"}
                    \/ new.status = "failed" /\ obj[w].attempts >= MaxAttempts
        <4>1. row'[j].attempts = row[j].attempts
              /\ row'[j].status \in {row[j].status, new.status}
          BY <1>1, <3>4 DEF Changed
        <4>2. QED
          BY <1>2, <1>3, <3>1, <3>2, <3>4, <4>1 DEF Disturbed
      <3>5. CASE j \in Unhandled /\ new.status = "failed" /\ new.attempts = MaxAttempts
        <4>1. row'[j].status = "failed"
          BY <1>1, <3>2, <3>5 DEF Changed
        <4>2. \/ row'[j].attempts = MaxAttempts
              \/ row[j].attempts >= MaxAttempts /\ row'[j].attempts = row[j].attempts
          BY <1>1, <1>2, <3>2, <3>5 DEF Changed
        <4>3. QED
          BY <1>3, <3>1, <3>5, <4>1, <4>2 DEF Disturbed
      <3>6. QED
        BY <3>3, <3>4, <3>5 DEF Outcome, j
    <2>3. QED
      BY <2>1, <2>2
  <1>5. QED
    BY <1>1, <1>4, RowWritten

LEMMA ClaimIsStep ==
  ASSUME TypeInv, Unannounced, Quiet => Smooth, NEW w \in Workers, Claim(w)
  PROVE  LifecycleStep
  <1>1. PICK e \in todo[w] :
          \/ Claimable(w, stream[e]) /\ row' = [row EXCEPT ![stream[e]] = Started(@)]
          \/ UNCHANGED row
    BY DEF Claim
  <1>2. UNCHANGED <<aborts, overruns>> /\ pc[w] = "next"
    BY DEF Claim, budgets
  <1>3. /\ stream[e] \in Jobs /\ row \in [Jobs -> Row] /\ e \in 1..Len(stream)
        /\ aborts \in Nat /\ overruns \in Nat
    BY <1>1, JobOfEntry, BoundsAssumption DEF TypeInv, TypeOK
  <1>4. CASE Claimable(w, stream[e]) /\ row' = [row EXCEPT ![stream[e]] = Started(@)]
    <2> DEFINE j == stream[e]
    <2>1. /\ \A i \in Jobs : i # j => row'[i] = row[i]
          /\ row'[j].status = "running" /\ row'[j].attempts = row[j].attempts + 1
      <3>1. row[j] \in Row
        BY <1>3
      <3>2. /\ Started(row[j]).status = "running"
            /\ Started(row[j]).attempts = row[j].attempts + 1
        BY <3>1 DEF Started, Row
      <3>3. QED
        BY <1>3, <1>4, <3>2
    <2>2. row[j].status \in {"queued", "running"}
      BY <1>4 DEF Claimable
    <2>3. Undisturbed(j, row[j], row'[j]) \/ Disturbed(j, row[j], row'[j])
      <3>1. CASE Quiet
        <4>1. row[j].status = "queued" /\ row[j].attempts < MaxAttempts
          BY <1>1, <1>3, <3>1 DEF Smooth, RowsMatch, Waiting
        <4>2. QED
          BY <2>1, <4>1 DEF Undisturbed
      <3>2. CASE ~Quiet
        BY <1>3, <2>1, <2>2, <3>2 DEF Quiet, Disturbed
      <3>3. QED
        BY <3>1, <3>2
    <2>4. QED
      BY <1>2, <1>3, <2>1, <2>3, RowWritten
  <1>5. CASE UNCHANGED row
    BY <1>2, <1>5, NothingWritten
  <1>6. QED
    BY <1>1, <1>4, <1>5

LEMMA NextIsLifecycleStep ==
  ASSUME TypeInv, Unannounced, RejectedStay, CopiesBehind, Quiet => Smooth, [Next]_vars
  PROVE  LifecycleStep
  <1>1. ASSUME NEW j \in Jobs, Insert(j)
        PROVE  LifecycleStep
    <2>1. /\ \A i \in Jobs : i # j => row'[i] = row[i]
          /\ row'[j].status = "queued" /\ row'[j].attempts = row[j].attempts
          /\ UNCHANGED <<aborts, overruns>> /\ api[j] = "idle"
      BY <1>1 DEF Insert, budgets, TypeInv, TypeOK, Row
    <2>2. Undisturbed(j, row[j], row'[j])
      BY <2>1 DEF Unannounced, Undisturbed
    <2>3. QED
      BY <2>1, <2>2, RowWritten
  <1>2. ASSUME NEW j \in Jobs, FirstPush(j) \/ ApiDies(j)
        PROVE  UNCHANGED <<row, aborts, overruns>>
    BY <1>2 DEF FirstPush, ApiDies, budgets
  <1>3. ASSUME NEW e \in pending, TurnIdle(e)
        PROVE  LifecycleStep
    <2>1. UNCHANGED <<row, aborts>> /\ overruns' \in {overruns, overruns + 1}
      BY <1>3 DEF TurnIdle, db
    <2>2. CASE overruns' = overruns
      BY <2>1, <2>2, NothingWritten
    <2>3. CASE overruns' = overruns + 1
      <3>1. (aborts + overruns > 0)' = TRUE
        BY <2>1, <2>3, BoundsAssumption DEF TypeInv, TypeOK
      <3>2. Lifecycle!Disturb
        BY <2>1, <3>1 DEF Lifecycle!Disturb
      <3>3. QED
        BY <3>2 DEF LifecycleStep, Lifecycle!Next
    <2>4. QED
      BY <2>1, <2>2, <2>3
  <1>4. ASSUME NEW w \in Workers, Abort(w)
        PROVE  LifecycleStep
    <2>1. UNCHANGED <<row, overruns>> /\ aborts' = aborts + 1
      BY <1>4 DEF Abort, db
    <2>2. (aborts + overruns > 0)' = TRUE
      BY <2>1, BoundsAssumption DEF TypeInv, TypeOK
    <2>3. Lifecycle!Disturb
      BY <2>1, <2>2 DEF Lifecycle!Disturb
    <2>4. QED
      BY <2>3 DEF LifecycleStep, Lifecycle!Next
  <1>5. ASSUME NEW w \in Workers, Reclaim(w) \/ Pull(w) \/ Load(w) \/ RetryPush(w) \/ Ack(w)
        PROVE  UNCHANGED <<row, aborts, overruns>>
    BY <1>5 DEF Reclaim, Pull, Load, RetryPush, Ack, db, budgets
  <1>6. CASE UNCHANGED vars
    BY <1>6, NothingWritten DEF vars
  <1>7. QED
    BY <1>1, <1>2, <1>3, <1>4, <1>5, <1>6, Outcomes, OutcomeIsStep, ClaimIsStep, NothingWritten
       DEF Next, Step

\* The jobs table implements the lifecycle the jobs API relies on: exactly-once
\* as long as no worker dies and none is overtaken, at-least-once with the last
\* outcome winning afterwards, for any number of jobs, workers and attempts.
THEOREM TableIsLifecycle == Spec => LifecycleSpec
  <1> DEFINE IInv == /\ TypeInv /\ Unannounced /\ RejectedStay /\ Tried
                     /\ Quiet => Smooth
  <1>1. Init => IInv
    <2>1. Init => Tried
      BY DEF Init, Tried, FailedMeansTried, CopiesBehind, NoRow
    <2>2. QED
      BY <2>1, TypeInit, UnannouncedInit, SmoothInit
  <1>2. IInv /\ [Next]_vars => IInv'
    BY TypeStep, UnannouncedStep, RejectedStep, TriedStep, SmoothStep, QuietBefore
  <1>3. IInv /\ [Next]_vars => LifecycleStep
    BY NextIsLifecycleStep DEF Tried
  <1>4. Init => Lifecycle!Init
    BY DEF Init, Lifecycle!Init, NoRow
  <1>5. QED
    BY <1>1, <1>2, <1>3, <1>4, PTL DEF Spec, LifecycleSpec, Lifecycle!Spec, LifecycleStep
=============================================================================
