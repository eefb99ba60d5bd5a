---------------------------- MODULE ImportProofs ----------------------------
(* Proofs about the imports: the contests imported from a platform           *)
(* (ContestResults) and the archives imported into Polygon (ArchiveImport).  *)
(*                                                                           *)
(* Contests.  The points of a contest stay sound and bans survive requests   *)
(* that had not seen them, for every history, every set of requests and of   *)
(* reports.  A request computes from rows it loaded earlier, so that the     *)
(* invariant speaks of what is in flight: the values a transaction is about  *)
(* to write are within what the platform awarded, ban only reported results, *)
(* and add up for every participant for whom the rows it loaded added up     *)
(* (TxnSound).  A commit writes the attributes that changed; where it and    *)
(* the database changed different ones the participant is in `overlapped',   *)
(* and elsewhere the written rows are the computed ones (WriteKeeps).        *)
(*                                                                           *)
(* Archives.  The revision an upload commits is whole, for every archive,    *)
(* every set of imports and every number of lost, late and repeated calls.   *)
(* The invariant says what an upload under way still has before it: the      *)
(* steps left are a plan (early steps, the commit, at most a build), and all *)
(* that is wanted of it is on Polygon, asked for, or in a step left          *)
(* (UnderWay).  A commit whose answer was not awaited is executed when       *)
(* nothing is left to be stored, and what is stored is only overwritten by   *)
(* another import, which `raced' records (UploadOK).                         *)
EXTENDS ContestResults, ArchiveImport, SumProofs, TLAPS

\* What the transactions and checks of the requests rest on.
CapOf(n, b, r) == Max({0} \cup {IF b THEN History[s].score ELSE 1 :
                                  s \in {u \in 1..n : ResultOf(u) = r}})
Cap(r) == CapOf(sent, scored, r)
Reported(r) == \E c \in Reports : \E s \in Sides(pairs[c]) : ResultOf(s) = r

\* The values x of the rows of the participants P.
ValuesOf(P, x) ==
    /\ x.score \in [P \X Tasks -> Nat] /\ x.banned \in [P \X Tasks -> BOOLEAN]
    /\ x.total \in [P -> Nat]
Sound(P, x) == /\ ValuesOf(P, x)
               /\ \A r \in P \X Tasks : x.score[r] <= Cap(r) /\ (x.banned[r] => Reported(r))
Counted(x, p) == SumOf(x.score, {r \in {p} \X Tasks : ~x.banned[r]})

\* What is about to be written adds up, if what it was computed from did.
TxnSound(t) ==
    /\ t.kind \in {"idle", "fetched", "merge", "ban", "unban"}
    /\ t.kind # "idle" =>
         LET P == DOMAIN t.new.total IN
         /\ P \subseteq Participants /\ Sound(P, t.new)
         /\ t.kind # "fetched" => Sound(P, t.view) /\ t.view.rows \subseteq P
         /\ \A p \in P :
              (t.kind \in {"ban", "unban"} => t.view.total[p] = Counted(t.view, p))
                => t.new.total[p] = Counted(t.new, p)
         /\ t.kind = "ban" => \A r \in P \X Tasks : t.view.banned[r] => t.new.banned[r]
         /\ t.kind \in {"ban", "unban"} => DOMAIN t.view.total = P
         /\ t.kind = "merge" => DOMAIN t.view.total = P

Apart(prs) == \A x, y \in prs :
    {ResultOf(x[1]), ResultOf(x[2])} = {ResultOf(y[1]), ResultOf(y[2])} => x = y

\* A check reports its pairs once, and bans the sides of the most similar.
CheckSound(c) ==
    /\ pairs[c] \in SUBSET (Subs \X Subs) /\ Apart(pairs[c])
    /\ check[c].kind \in {"idle", "asked", "found", "persisted"}
    /\ report[c] = "none" => pairs[c] = {} /\ check[c].kind = "idle"
    /\ check[c].kind \in {"asked", "found"} =>
         pairs[c] = {} /\ report[c] \in {"processing", "deleted"}
    /\ check[c].kind = "found" => /\ check[c].pairs \in SUBSET (Subs \X Subs)
                                  /\ Apart(check[c].pairs)
    /\ check[c].kind = "persisted" =>
         check[c].ban = {pr \in pairs[c] : Percent[pr] >= BanThreshold}
    /\ txn[c].kind \in {"idle", "ban"}
    /\ txn[c].kind = "ban" =>
         /\ check[c].kind = "persisted" /\ check[c].ban # {}
         /\ \A pr \in check[c].ban : \A i \in 1..2 :
              /\ Who(pr[i]) \in DOMAIN txn[c].new.total
              /\ txn[c].new.banned[ResultOf(pr[i])]

DataType ==
    /\ scored \in BOOLEAN /\ sent \in 0..Len(History) /\ stored \subseteq 1..sent
    /\ rows \subseteq Participants
    /\ score \in [Results -> Nat] /\ banned \in [Results -> BOOLEAN]
    /\ total \in [Participants -> Nat]
    /\ DOMAIN txn = Actors /\ DOMAIN report = Reports
    /\ DOMAIN pairs = Reports /\ DOMAIN check = Reports

IInv ==
    /\ DataType
    /\ PointsAreSound
    /\ \A a \in Actors : TxnSound(txn[a])
    /\ \A c \in Reports : CheckSound(c)
-----------------------------------------------------------------------------
\* The sets are finite.
LEMMA FiniteSets ==
  /\ IsFiniteSet(Subs) /\ IsFiniteSet(Tasks) /\ IsFiniteSet(Results)
  /\ \A p : IsFiniteSet({p} \X Tasks)
  /\ \A s \in Subs : Who(s) \in Participants /\ TaskOf(s) \in Tasks /\ ResultOf(s) \in Results
  <1>1. IsFiniteSet(Subs)
    <2>1. 1 \in Int /\ Len(History) \in Int
      BY HistoryAssumption
    <2>2. QED
      BY <2>1, FS_Interval DEF Subs
  <1> DEFINE who == [s \in Subs |-> Who(s)]
             task == [s \in Subs |-> TaskOf(s)]
  <1>2. IsFiniteSet({who[s] : s \in Subs}) /\ IsFiniteSet({task[s] : s \in Subs})
    <2> HIDE DEF who, task
    <2>1. IsFiniteSet({who[s] : s \in Subs})
      BY <1>1, ImageIsFinite
    <2>2. IsFiniteSet({task[s] : s \in Subs})
      BY <1>1, ImageIsFinite
    <2>3. QED
      BY <2>1, <2>2
  <1>3. Participants = {who[s] : s \in Subs} /\ Tasks = {task[s] : s \in Subs}
    BY DEF Participants, Tasks
  <1>4. IsFiniteSet(Participants) /\ IsFiniteSet(Tasks)
    BY <1>2, <1>3
  <1>5. IsFiniteSet(Results)
    BY <1>4, FS_Product DEF Results
  <1>6. \A p : IsFiniteSet({p} \X Tasks)
    <2> TAKE p
    <2>1. IsFiniteSet({p})
      BY FS_Singleton
    <2>2. QED
      BY <1>4, <2>1, FS_Product
  <1>7. \A s \in Subs : Who(s) \in Participants /\ TaskOf(s) \in Tasks /\ ResultOf(s) \in Results
    BY DEF Participants, Tasks, Results, ResultOf
  <1>8. QED
    BY <1>1, <1>4, <1>5, <1>6, <1>7

\* What the platform has awarded by now.
LEMMA CapIs ==
  ASSUME NEW n \in 0..Len(History), NEW b \in BOOLEAN, NEW r
  PROVE  /\ CapOf(n, b, r) \in Nat
         /\ \A s \in 1..n : ResultOf(s) = r =>
              (IF b THEN History[s].score ELSE 1) <= CapOf(n, b, r)
         /\ CapOf(n, b, r) = 0 \/ \E s \in 1..n : /\ ResultOf(s) = r
                                             /\ CapOf(n, b, r) = IF b THEN History[s].score ELSE 1
  <1> DEFINE U == {u \in 1..n : ResultOf(u) = r}
             f == [s \in U |-> IF b THEN History[s].score ELSE 1]
  <1>1. 1..n \subseteq Subs /\ U \subseteq Subs
    BY HistoryAssumption DEF Subs
  <1>2. IsFiniteSet(U)
    <2> HIDE DEF U
    <2> QED
      BY <1>1, FiniteSets, FS_Subset
  <1>3. \A s \in U : f[s] \in Nat /\ f[s] = IF b THEN History[s].score ELSE 1
    BY <1>1, HistoryAssumption
  <1>4. CapOf(n, b, r) = Max({0} \cup {f[s] : s \in U})
    <2>1. {f[s] : s \in U} = {IF b THEN History[s].score ELSE 1 : s \in U}
      OBVIOUS
    <2> HIDE DEF f
    <2>2. QED
      BY <2>1 DEF CapOf
  <1>5. LET m == Max({0} \cup {f[s] : s \in U})
        IN  m \in Nat /\ (m = 0 \/ \E s \in U : m = f[s]) /\ \A s \in U : f[s] <= m
    <2> HIDE DEF f, U
    <2> QED
      BY <1>2, <1>3, MaxOfValues
  <1>6. \A s : s \in U <=> s \in 1..n /\ ResultOf(s) = r
    OBVIOUS
  <1> HIDE DEF f, U
  <1>7. QED
    BY <1>3, <1>4, <1>5, <1>6

LEMMA CapGrows ==
  ASSUME NEW n \in 0..Len(History), NEW m \in 0..Len(History), n <= m, NEW b \in BOOLEAN, NEW r
  PROVE  CapOf(n, b, r) <= CapOf(m, b, r) /\ CapOf(n, b, r) \in Nat /\ CapOf(m, b, r) \in Nat
  <1>1. /\ CapOf(n, b, r) \in Nat
        /\ CapOf(n, b, r) = 0 \/ \E s \in 1..n : /\ ResultOf(s) = r
                                                /\ CapOf(n, b, r) = IF b THEN History[s].score ELSE 1
    BY CapIs
  <1>2. /\ CapOf(m, b, r) \in Nat
        /\ \A s \in 1..m : ResultOf(s) = r =>
             (IF b THEN History[s].score ELSE 1) <= CapOf(m, b, r)
    BY CapIs
  <1>3. 1..n \subseteq 1..m
    BY HistoryAssumption
  <1>4. QED
    BY <1>1, <1>2, <1>3
\* The results of one participant.
LEMMA OfOne ==
  ASSUME NEW p \in Participants, NEW b
  PROVE  {r \in Results : r[1] = p /\ ~b[r]} = {r \in {p} \X Tasks : ~b[r]}
  BY DEF Results

LEMMA EffectiveIs ==
  ASSUME NEW p \in Participants
  PROVE  /\ EffectiveTotal(p) = SumOf(score, {r \in {p} \X Tasks : ~banned[r]})
         /\ EffectiveTotal(p)' = SumOf(score', {r \in {p} \X Tasks : ~banned'[r]})
  <1>1. EffectiveTotal(p) = SumOf(score, {r \in Results : r[1] = p /\ ~banned[r]})
    BY DEF EffectiveTotal, Total, FoldSet, SumOf, MapThenSumSet, MapThenFoldSet
  <1>2. EffectiveTotal(p)' = SumOf(score', {r \in Results : r[1] = p /\ ~banned'[r]})
    BY DEF EffectiveTotal, Total, FoldSet, SumOf, MapThenSumSet, MapThenFoldSet
  <1>3. QED
    BY <1>1, <1>2, OfOne

LEMMA ReportsStay ==
  ASSUME \A c \in Reports : pairs[c] \subseteq pairs'[c], NEW r, Reported(r)
  PROVE  Reported(r)'
  BY DEF Reported, Sides, ResultOf, Who, TaskOf

\* Sound values stay sound while the platform and the reports only grow.
LEMMA TxnStays ==
  ASSUME DataType, sent' \in 0..Len(History), sent <= sent', UNCHANGED scored,
         \A c \in Reports : pairs[c] \subseteq pairs'[c],
         NEW a \in Actors, TxnSound(txn[a]), txn'[a] = txn[a]
  PROVE  TxnSound(txn[a])'
  <1>1. \A r : Cap(r) <= Cap(r)' /\ Cap(r) \in Nat /\ Cap(r)' \in Nat
    BY CapGrows DEF Cap, DataType
  <1>2. \A r : Reported(r) => Reported(r)'
    BY ReportsStay
  <1>3. CASE txn[a].kind = "idle"
    BY <1>3 DEF TxnSound
  <1>4. CASE txn[a].kind # "idle"
    <2> DEFINE t == txn[a]
               P == DOMAIN t.new.total
    <2>1. Sound(P, t.new) => Sound(P, t.new)'
      <3> SUFFICES ASSUME Sound(P, t.new) PROVE Sound(P, t.new)'
        OBVIOUS
      <3>1. \A r \in P \X Tasks : t.new.score[r] <= Cap(r)'
        <4> SUFFICES ASSUME NEW r \in P \X Tasks PROVE t.new.score[r] <= Cap(r)'
          OBVIOUS
        <4>1. t.new.score[r] \in Nat /\ t.new.score[r] <= Cap(r)
          BY DEF Sound, ValuesOf
        <4>2. QED
          BY <1>1, <4>1
      <3>2. QED
        BY <1>2, <3>1 DEF Sound, ValuesOf
    <2>2. Sound(P, t.view) => Sound(P, t.view)'
      <3> SUFFICES ASSUME Sound(P, t.view) PROVE Sound(P, t.view)'
        OBVIOUS
      <3>1. \A r \in P \X Tasks : t.view.score[r] <= Cap(r)'
        <4> SUFFICES ASSUME NEW r \in P \X Tasks PROVE t.view.score[r] <= Cap(r)'
          OBVIOUS
        <4>1. t.view.score[r] \in Nat /\ t.view.score[r] <= Cap(r)
          BY DEF Sound, ValuesOf
        <4>2. QED
          BY <1>1, <4>1
      <3>2. QED
        BY <1>2, <3>1 DEF Sound, ValuesOf
    <2>3. QED
      BY <1>4, <2>1, <2>2, SMTT(30) DEF TxnSound, Counted
  <1>5. QED
    BY <1>3, <1>4

-----------------------------------------------------------------------------
\* A commit of values n computed from the view v.
LEMMA WriteKeeps ==
  ASSUME DataType, PointsAreSound, UNCHANGED <<sent, scored>>,
         NEW P \in SUBSET Participants, NEW v, NEW n, Sound(P, v), Sound(P, n),
         \A p \in P : v.total[p] = Counted(v, p) => n.total[p] = Counted(n, p),
         NEW Q \in SUBSET P, Write(v, n, Q)
  PROVE  /\ score' \in [Results -> Nat] /\ banned' \in [Results -> BOOLEAN]
         /\ total' \in [Participants -> Nat]
         /\ TotalsAgree' /\ ScoresAreEarned'
         /\ \A r \in Results : banned'[r] => Reported(r)
  <1> DEFINE Set(old, loaded, new) == IF new # loaded THEN new ELSE old
  <1>1. /\ score \in [Results -> Nat] /\ banned \in [Results -> BOOLEAN]
        /\ total \in [Participants -> Nat]
        /\ v.score \in [P \X Tasks -> Nat] /\ v.banned \in [P \X Tasks -> BOOLEAN]
        /\ v.total \in [P -> Nat]
        /\ n.score \in [P \X Tasks -> Nat] /\ n.banned \in [P \X Tasks -> BOOLEAN]
        /\ n.total \in [P -> Nat]
    BY DEF DataType, Sound, ValuesOf
  <1>2. \A r \in Results : r[1] \in Participants /\ (r[1] \in Q => r \in P \X Tasks)
    BY DEF Results
  <1>3. /\ score' = [r \in Results |-> IF r[1] \in Q
                       THEN Set(score[r], v.score[r], n.score[r]) ELSE score[r]]
        /\ banned' = [r \in Results |-> IF r[1] \in Q
                       THEN Set(banned[r], v.banned[r], n.banned[r]) ELSE banned[r]]
        /\ total' = [p \in Participants |-> IF p \in Q
                       THEN Set(total[p], v.total[p], n.total[p]) ELSE total[p]]
    BY DEF Write
  <1>4. /\ \A r \in Results : r[1] \in Q => /\ score'[r] \in {score[r], n.score[r]}
                                            /\ banned'[r] \in {banned[r], n.banned[r]}
        /\ \A r \in Results : r[1] \notin Q => score'[r] = score[r] /\ banned'[r] = banned[r]
        /\ \A p \in Q : total'[p] \in {total[p], n.total[p]}
        /\ \A p \in Participants \ Q : total'[p] = total[p]
    BY <1>3
  <1>5. /\ score' \in [Results -> Nat] /\ banned' \in [Results -> BOOLEAN]
        /\ total' \in [Participants -> Nat]
    <2>1. \A r \in Results : score'[r] \in Nat /\ banned'[r] \in BOOLEAN
      BY <1>1, <1>2, <1>4
    <2>2. \A p \in Participants : total'[p] \in Nat
      BY <1>1, <1>4
    <2>3. QED
      BY <1>3, <2>1, <2>2
  <1>6. ScoresAreEarned'
    <2>1. \A r \in Results : score[r] <= Cap(r)
      BY DEF PointsAreSound, ScoresAreEarned, Cap, CapOf
    <2>2. \A r \in P \X Tasks : n.score[r] <= Cap(r)
      BY DEF Sound
    <2>3. \A r \in Results : score'[r] <= Cap(r)
      BY <1>2, <1>4, <2>1, <2>2
    <2>4. QED
      BY <2>3 DEF ScoresAreEarned, Cap, CapOf
  <1>7. \A r \in Results : banned'[r] => Reported(r)
    <2>1. \A r \in Results : banned[r] => Reported(r)
      BY DEF PointsAreSound, OnlyReportedAreBanned, Reported
    <2>2. \A r \in P \X Tasks : n.banned[r] => Reported(r)
      BY DEF Sound
    <2>3. QED
      BY <1>2, <1>4, <2>1, <2>2
  <1>8. TotalsAgree'
    <2> SUFFICES ASSUME NEW p \in Participants, p \notin overlapped'
                 PROVE  total'[p] = EffectiveTotal(p)'
      BY DEF TotalsAgree
    <2> DEFINE U == {r \in {p} \X Tasks : ~banned[r]}
    <2>1. p \notin overlapped
      BY DEF Write
    <2>2. total[p] = SumOf(score, U)
      BY <2>1, EffectiveIs DEF PointsAreSound, TotalsAgree
    <2>3. \A r \in {p} \X Tasks : r \in Results /\ r[1] = p /\ r = <<p, r[2]>> /\ r[2] \in Tasks
      BY DEF Results
    <2>4. IsFiniteSet({p} \X Tasks)
      BY FiniteSets
    <2>5. ASSUME total'[p] = total[p],
                 \A r \in {p} \X Tasks : score'[r] = score[r] /\ banned'[r] = banned[r]
          PROVE  total'[p] = EffectiveTotal(p)'
      <3>1. {r \in {p} \X Tasks : ~banned'[r]} = U
        BY <2>5
      <3>2. IsFiniteSet(U)
        BY <2>4, FS_Subset
      <3>3. \A r \in U : score'[r] = score[r] /\ score[r] \in Nat
        BY <1>1, <2>3, <2>5
      <3>4. SumOf(score', U) = SumOf(score, U)
        <4> HIDE DEF U
        <4> QED
          BY <3>2, <3>3, SumSame
      <3>5. QED
        BY <2>2, <2>5, <3>1, <3>4, EffectiveIs
    <2>6. CASE p \notin Q
      BY <1>4, <2>3, <2>5, <2>6
    <2>7. CASE p \in Q
      <3>1. CASE /\ n.total[p] = v.total[p]
                 /\ \A t \in Tasks : n.score[p, t] = v.score[p, t] /\ n.banned[p, t] = v.banned[p, t]
        <4>1. \A r \in {p} \X Tasks : n.score[r] = v.score[r] /\ n.banned[r] = v.banned[r]
          BY <2>3, <3>1
        <4>2. QED
          BY <1>3, <2>3, <2>5, <2>7, <3>1, <4>1
      <3>2. CASE /\ total[p] = v.total[p]
                 /\ \A t \in Tasks : score[p, t] = v.score[p, t] /\ banned[p, t] = v.banned[p, t]
        <4>1. \A r \in {p} \X Tasks : score[r] = v.score[r] /\ banned[r] = v.banned[r]
          BY <2>3, <3>2
        <4>2. /\ total'[p] = n.total[p]
              /\ \A r \in {p} \X Tasks : score'[r] = n.score[r] /\ banned'[r] = n.banned[r]
          BY <1>3, <2>3, <2>7, <3>2, <4>1
        <4>3. \A r \in {p} \X Tasks : r \in P \X Tasks
          BY <2>3, <2>7
        <4>4. v.total[p] = Counted(v, p)
          <5>1. {r \in {p} \X Tasks : ~v.banned[r]} = U
            BY <4>1
          <5>2. IsFiniteSet(U)
            BY <2>4, FS_Subset
          <5>3. \A r \in U : v.score[r] = score[r] /\ score[r] \in Nat
            BY <1>1, <2>3, <4>1
          <5>4. SumOf(v.score, U) = SumOf(score, U)
            <6> HIDE DEF U
            <6> QED
              BY <5>2, <5>3, SumSame
          <5>5. QED
            BY <2>2, <3>2, <5>1, <5>4 DEF Counted
        <4>5. n.total[p] = Counted(n, p)
          BY <2>7, <4>4
        <4> DEFINE W == {r \in {p} \X Tasks : ~n.banned[r]}
        <4>6. {r \in {p} \X Tasks : ~banned'[r]} = W
          BY <4>2
        <4>7. IsFiniteSet(W)
          BY <2>4, FS_Subset
        <4>8. \A r \in W : score'[r] = n.score[r] /\ n.score[r] \in Nat
          BY <1>1, <4>2, <4>3
        <4>9. SumOf(score', W) = SumOf(n.score, W)
          <5> HIDE DEF W
          <5> QED
            BY <4>7, <4>8, SumSame
        <4>10. QED
          BY <4>2, <4>5, <4>6, <4>9, EffectiveIs DEF Counted
      <3>3. QED
        BY <2>7, <3>1, <3>2 DEF Write
    <2>8. QED
      BY <2>6, <2>7
  <1>9. QED
    BY <1>5, <1>6, <1>7, <1>8
-----------------------------------------------------------------------------
\* What an import fetches.

\* The points of a cell, as either platform's formatter reads them.
LEMMA CellPoints ==
  ASSUME DataType, NEW row \in PlatformRows, NEW t \in Tasks
  PROVE  /\ CodeforcesPoints(Cell(row, t)) \in Nat
         /\ CodeforcesPoints(Cell(row, t)) <= Cap(<<row[1], t>>)
  <1> DEFINE r == <<row[1], t>>
             mine == {s \in 1..sent : /\ Who(s) = row[1] /\ TaskOf(s) = t
                                      /\ History[s].part = row[2]}
             f == [s \in mine |-> History[s].score]
             m == Max({0} \cup {f[s] : s \in mine})
  <1>1. /\ sent \in 0..Len(History) /\ scored \in BOOLEAN /\ 1..sent \subseteq Subs
        /\ Cap(r) = CapOf(sent, scored, r)
    BY HistoryAssumption DEF DataType, Subs, Cap
  <1>2. /\ Cap(r) \in Nat
        /\ \A s \in 1..sent : ResultOf(s) = r =>
             (IF scored THEN History[s].score ELSE 1) <= Cap(r)
    <2> HIDE DEF r
    <2> QED
      BY <1>1, CapIs
  <1>3. \A s \in mine : s \in 1..sent /\ ResultOf(s) = r
    BY DEF ResultOf
  <1>4. CASE scored
    <2>1. \A s \in mine : f[s] \in Nat /\ f[s] <= Cap(r)
      BY <1>1, <1>2, <1>3, <1>4, HistoryAssumption
    <2>2. IsFiniteSet(mine)
      <3>1. mine \subseteq Subs
        BY <1>1, <1>3
      <3> HIDE DEF mine
      <3>2. QED
        BY <3>1, FiniteSets, FS_Subset
    <2>3. m \in Nat /\ (m = 0 \/ \E s \in mine : m = f[s])
      <3> HIDE DEF mine, f
      <3> QED
        BY <2>1, <2>2, MaxOfValues
    <2>4. m <= Cap(r)
      <3> HIDE DEF mine, f, m, r
      <3> QED
        BY <1>2, <2>1, <2>3
    <2>5. {f[s] : s \in mine} = {History[s].score : s \in mine}
      OBVIOUS
    <2>6. Cell(row, t).score = m
      <3> HIDE DEF f
      <3> QED
        BY <1>4, <2>5 DEF Cell
    <2>7. m # NoScore
      <3> HIDE DEF m
      <3> QED
        BY <2>3 DEF NoScore
    <2> HIDE DEF m, r
    <2>8. CodeforcesPoints(Cell(row, t)) = m
      BY <2>6, <2>7 DEF CodeforcesPoints
    <2>9. QED
      BY <2>3, <2>4, <2>8 DEF r
  <1>5. CASE ~scored
    <2>1. /\ Cell(row, t).score = NoScore
          /\ Cell(row, t).accepted = \E s \in mine : History[s].ok
      BY <1>5 DEF Cell
    <2>2. CodeforcesPoints(Cell(row, t)) = IF Cell(row, t).accepted THEN 1 ELSE 0
      BY <2>1 DEF CodeforcesPoints
    <2>3. ASSUME Cell(row, t).accepted PROVE 1 <= Cap(r)
      <3>1. PICK s \in mine : TRUE
        BY <2>1, <2>3
      <3> HIDE DEF mine, r
      <3>2. QED
        BY <1>2, <1>3, <1>5, <3>1
    <2>4. QED
      <3> HIDE DEF r
      <3>1. CodeforcesPoints(Cell(row, t)) \in Nat /\ CodeforcesPoints(Cell(row, t)) <= Cap(r)
        BY <1>2, <2>2, <2>3
      <3>2. QED
        BY <3>1 DEF r
  <1>6. QED
    BY <1>4, <1>5

\* The best of the rows of a participant on the page.
LEMMA BestPoints ==
  ASSUME DataType, NEW page \in Pages, NEW p \in page, NEW t \in Tasks
  PROVE  LET best == Max({CodeforcesPoints(Cell(row, t)) : row \in RowsOf(p)})
         IN  p \in Participants /\ best \in Nat /\ best <= Cap(<<p, t>>)
  <1> DEFINE f == [row \in RowsOf(p) |-> CodeforcesPoints(Cell(row, t))]
             g == [s \in 1..sent |-> <<Who(s), History[s].part>>]
             V == {f[row] : row \in RowsOf(p)}
  <1>1. RowsOf(p) # {} /\ RowsOf(p) \subseteq PlatformRows
    BY DEF Pages, RowsOf
  <1>2. p \in Participants
    <2>1. PICK s \in 1..sent : p = Who(s)
      BY <1>1 DEF RowsOf, PlatformRows
    <2>2. s \in Subs
      BY <2>1, HistoryAssumption DEF DataType, Subs
    <2>3. QED
      BY <2>1, <2>2 DEF Participants
  <1>3. IsFiniteSet(RowsOf(p))
    <2>1. IsFiniteSet(1..sent)
      <3>1. 1 \in Int /\ sent \in Int
        BY HistoryAssumption DEF DataType
      <3>2. QED
        BY <3>1, FS_Interval
    <2>2. IsFiniteSet({g[s] : s \in 1..sent})
      <3> HIDE DEF g
      <3> QED
        BY <2>1, ImageIsFinite
    <2>3. PlatformRows = {g[s] : s \in 1..sent}
      BY DEF PlatformRows
    <2> HIDE DEF g
    <2>4. QED
      BY <1>1, <2>2, <2>3, FS_Subset
  <1>4. \A row \in RowsOf(p) : f[row] \in Nat /\ f[row] <= Cap(<<p, t>>)
    BY <1>1, CellPoints DEF RowsOf
  <1>5. V \in SUBSET Nat /\ V # {} /\ IsFiniteSet(V)
    <2> HIDE DEF f
    <2>1. V \in SUBSET Nat /\ V # {}
      BY <1>1, <1>4
    <2>2. IsFiniteSet(V)
      BY <1>3, ImageIsFinite
    <2>3. QED
      BY <2>1, <2>2
  <1>6. Max(V) \in V
    <2> HIDE DEF V
    <2> QED
      BY <1>5, MaxIsGreatest
  <1>7. V = {CodeforcesPoints(Cell(row, t)) : row \in RowsOf(p)}
    OBVIOUS
  <1>8. Max(V) \in Nat /\ Max(V) <= Cap(<<p, t>>)
    <2> HIDE DEF f
    <2> QED
      BY <1>4, <1>6
  <1> HIDE DEF V
  <1>9. QED
    BY <1>2, <1>7, <1>8

\* A merged page is sound and adds up.
LEMMA MergedIsSound ==
  ASSUME NEW page \in SUBSET Participants, NEW points \in [page \X Tasks -> Nat],
         \A r \in page \X Tasks : points[r] <= Cap(r)
  PROVE  LET m == Merged(page, points)
         IN  /\ Sound(page, m) /\ DOMAIN m.total = page
             /\ \A p \in page : m.total[p] = Counted(m, p)
  <1> DEFINE m == Merged(page, points)
  <1>1. /\ m.score = points /\ m.banned = [r \in page \X Tasks |-> FALSE]
        /\ DOMAIN m.total = page
        /\ m.total = [p \in page |-> m.total[p]]
    BY DEF Merged
  <1>2. \A p \in page : m.total[p] = SumOf(points, {p} \X Tasks)
    BY DEF Merged, Total, FoldSet, SumOf, MapThenSumSet, MapThenFoldSet
  <1>3. \A p \in page : IsFiniteSet({p} \X Tasks) /\ \A r \in {p} \X Tasks : points[r] \in Nat
    BY FiniteSets
  <1>4. \A p \in page : m.total[p] \in Nat
    <2> TAKE p \in page
    <2>1. SumOf(points, {p} \X Tasks) \in Nat
      BY <1>3, SumTakes
    <2> HIDE DEF m
    <2>2. QED
      BY <1>2, <2>1
  <1>5. m.total \in [page -> Nat]
    <2> HIDE DEF m
    <2> QED
      BY <1>1, <1>4
  <1>6. Sound(page, m)
    <2> HIDE DEF m
    <2> QED
      BY <1>1, <1>5 DEF Sound, ValuesOf
  <1>7. \A p \in page : {r \in {p} \X Tasks : ~m.banned[r]} = {p} \X Tasks
    <2> HIDE DEF m
    <2> QED
      BY <1>1
  <1>8. \A p \in page : m.total[p] = Counted(m, p)
    <2> HIDE DEF m
    <2> QED
      BY <1>1, <1>2, <1>7 DEF Counted
  <1>9. QED
    BY <1>1, <1>6, <1>8

LEMMA PageIsSound ==
  ASSUME DataType, NEW page \in Pages, NEW new,
         new = FormatCodeforces(page) \/ new = FormatYandex(page)
  PROVE  /\ page \subseteq Participants /\ Sound(page, new) /\ DOMAIN new.total = page
         /\ \A p \in page : new.total[p] = Counted(new, p)
  <1> DEFINE best == [r \in page \X Tasks |->
                        Max({CodeforcesPoints(Cell(row, r[2])) : row \in RowsOf(r[1])})]
             other == [r \in page \X Tasks |->
               Max({IF Cell(row, r[2]).score # NoScore THEN Cell(row, r[2]).score
                    ELSE IF Cell(row, r[2]).accepted THEN 1 ELSE 0 : row \in RowsOf(r[1])})]
  <1>1. other = best
    <2>1. ASSUME NEW r PROVE  {IF Cell(row, r[2]).score # NoScore THEN Cell(row, r[2]).score
                      ELSE IF Cell(row, r[2]).accepted THEN 1 ELSE 0 : row \in RowsOf(r[1])}
                  = {CodeforcesPoints(Cell(row, r[2])) : row \in RowsOf(r[1])}
      BY DEF CodeforcesPoints
    <2>2. QED
      BY <2>1
  <1>2. new = Merged(page, best)
    <2>1. FormatYandex(page) = Merged(page, other) /\ FormatCodeforces(page) = Merged(page, best)
      BY DEF FormatYandex, FormatCodeforces
    <2> HIDE DEF best, other
    <2>2. QED
      BY <1>1, <2>1
  <1>3. page \subseteq Participants
    <2>1. ASSUME NEW p \in page PROVE p \in Participants
      <3>1. PICK s \in 1..sent : p = Who(s)
        BY DEF Pages, PlatformRows
      <3>2. s \in Subs
        BY <3>1, HistoryAssumption DEF DataType, Subs
      <3>3. QED
        BY <3>1, <3>2 DEF Participants
    <2>2. QED
      BY <2>1
  <1>4. \A r \in page \X Tasks : best[r] \in Nat /\ best[r] <= Cap(r)
    <2> SUFFICES ASSUME NEW p \in page, NEW t \in Tasks
                 PROVE  best[<<p, t>>] \in Nat /\ best[<<p, t>>] <= Cap(<<p, t>>)
      <3> HIDE DEF best
      <3> QED
        OBVIOUS
    <2>1. best[<<p, t>>] = Max({CodeforcesPoints(Cell(row, t)) : row \in RowsOf(p)})
      OBVIOUS
    <2> HIDE DEF best
    <2>2. QED
      BY <2>1, BestPoints
  <1>5. best \in [page \X Tasks -> Nat]
    <2>1. best = [r \in page \X Tasks |-> best[r]]
      OBVIOUS
    <2> HIDE DEF best
    <2>2. QED
      BY <1>4, <2>1
  <1> HIDE DEF best
  <1>6. QED
    BY <1>2, <1>3, <1>4, <1>5, MergedIsSound
-----------------------------------------------------------------------------
\* What a juror or a check computes from the rows it loads.

LEMMA ViewIsSound ==
  ASSUME DataType, PointsAreSound, NEW P \in SUBSET Participants
  PROVE  /\ Sound(P, View(P)) /\ View(P).rows \subseteq P /\ DOMAIN View(P).total = P
         /\ \A r \in P \X Tasks : View(P).banned[r] = banned[r]
  <1> DEFINE v == View(P)
  <1>1. /\ v.score = [r \in P \X Tasks |-> score[r]] /\ v.banned = [r \in P \X Tasks |-> banned[r]]
        /\ v.total = [p \in P |-> total[p]] /\ v.rows = rows \cap P
    BY DEF View
  <1>2. \A r \in P \X Tasks : r \in Results
    BY DEF Results
  <1>3. ValuesOf(P, v)
    <2> HIDE DEF v
    <2> QED
      BY <1>1, <1>2 DEF ValuesOf, DataType
  <1>4. \A r \in Results : score[r] <= Cap(r) /\ (banned[r] => Reported(r))
    BY DEF PointsAreSound, ScoresAreEarned, OnlyReportedAreBanned, Cap, CapOf, Reported
  <1> HIDE DEF v
  <1>5. QED
    BY <1>1, <1>2, <1>3, <1>4 DEF Sound, v

\* A ban takes the points of what it bans from the total.
LEMMA BanIsSound ==
  ASSUME DataType, PointsAreSound, NEW S \in SUBSET Subs, \A s \in S : Reported(ResultOf(s))
  PROVE  LET b == Ban(S)
         IN  /\ b.kind = "ban" /\ TxnSound(b)
             /\ \A s \in S : Who(s) \in DOMAIN b.new.total /\ b.new.banned[ResultOf(s)]
  <1> DEFINE P == {Who(s) : s \in S}
             v == View(P)
             R == {ResultOf(s) : s \in S} \ {r \in Results : banned[r]}
             b == Ban(S)
             n == b.new
             Mine(p) == {r \in R : r[1] = p}
             taken(p) == SumOf(v.score, Mine(p))
  <1>1. P \in SUBSET Participants /\ \A s \in S : ResultOf(s) \in P \X Tasks /\ ResultOf(s) \in Results
    BY FiniteSets DEF ResultOf
  <1>2. /\ Sound(P, v) /\ v.rows \subseteq P /\ DOMAIN v.total = P
        /\ \A r \in P \X Tasks : v.banned[r] = banned[r]
    <2> HIDE DEF P
    <2> QED
      BY <1>1, ViewIsSound
  <1>3. /\ v.score \in [P \X Tasks -> Nat] /\ v.banned \in [P \X Tasks -> BOOLEAN]
        /\ v.total \in [P -> Nat]
    <2> HIDE DEF P, v
    <2> QED
      BY <1>2 DEF Sound, ValuesOf
  <1>4. /\ R \subseteq P \X Tasks
        /\ \A r \in R : Reported(r) /\ ~v.banned[r]
        /\ \A s \in S : ResultOf(s) \in R \/ v.banned[ResultOf(s)]
    <2> HIDE DEF v
    <2> QED
      BY <1>1, <1>2
  <1>5. /\ b.kind = "ban" /\ b.view = v
        /\ n.score = [r \in P \X Tasks |-> IF r \in R THEN 0 ELSE v.score[r]]
        /\ n.banned = [r \in P \X Tasks |-> r \in R \/ v.banned[r]]
        /\ DOMAIN n.total = P /\ n.total = [p \in P |-> n.total[p]]
    BY DEF Ban
  <1>6. \A p \in P : n.total[p] = Monus(v.total[p], taken(p))
    BY DEF Ban, Total, FoldSet, SumOf, MapThenSumSet, MapThenFoldSet
  <1>7. \A p \in P : IsFiniteSet({p} \X Tasks) /\ {p} \X Tasks \subseteq P \X Tasks
                     /\ Mine(p) \subseteq {p} \X Tasks /\ Mine(p) \subseteq R
    <2> HIDE DEF P, R
    <2> QED
      BY <1>4, FiniteSets
  <1>8. \A p \in P : taken(p) \in Nat
    <2> TAKE p \in P
    <2>1. \A r \in {p} \X Tasks : v.score[r] \in Nat
      <3> HIDE DEF P, v
      <3> QED
        BY <1>3, <1>7
    <2> HIDE DEF P, v, R
    <2>2. \A T \in SUBSET ({p} \X Tasks) : SumOf(v.score, T) \in Nat
      BY <1>7, <2>1, SumTakes
    <2>3. QED
      BY <1>7, <2>2
  <1>9. n.total \in [P -> Nat]
    <2>1. \A p \in P : n.total[p] \in Nat
      <3> HIDE DEF P, v, n, taken
      <3> QED
        BY <1>3, <1>6, <1>8 DEF Monus
    <2> HIDE DEF P, n
    <2>2. QED
      BY <1>5, <2>1
  <1>10. Sound(P, n)
    <2>1. \A r \in P \X Tasks : v.score[r] \in Nat /\ v.score[r] <= Cap(r) /\ (v.banned[r] => Reported(r))
      <3> HIDE DEF P, v
      <3> QED
        BY <1>2, <1>3 DEF Sound
    <2>2. \A r : Cap(r) \in Nat
      BY CapIs DEF Cap, DataType
    <2>3. /\ n.score \in [P \X Tasks -> Nat] /\ n.banned \in [P \X Tasks -> BOOLEAN]
          /\ \A r \in P \X Tasks : n.score[r] \in {0, v.score[r]}
          /\ \A r \in P \X Tasks : n.banned[r] => r \in R \/ v.banned[r]
      <3> HIDE DEF P, v, n, R
      <3> QED
        BY <1>3, <1>5
    <2>4. \A r \in P \X Tasks : n.score[r] <= Cap(r) /\ (n.banned[r] => Reported(r))
      <3> HIDE DEF P, v, n, R
      <3> QED
        BY <1>4, <2>1, <2>2, <2>3
    <2> HIDE DEF P, v, n, R
    <2>5. QED
      BY <1>9, <2>3, <2>4 DEF Sound, ValuesOf
  <1>11. ASSUME NEW p \in P, v.total[p] = Counted(v, p) PROVE n.total[p] = Counted(n, p)
    <2> DEFINE U == {r \in {p} \X Tasks : ~v.banned[r]}
               W == {r \in {p} \X Tasks : ~n.banned[r]}
    <2>1. /\ W \cup Mine(p) = U /\ W \cap Mine(p) = {}
          /\ U \in SUBSET ({p} \X Tasks) /\ W \in SUBSET ({p} \X Tasks)
          /\ Mine(p) \in SUBSET ({p} \X Tasks)
      <3>1. \A r \in {p} \X Tasks : r[1] = p /\ r \in P \X Tasks
        <4> HIDE DEF P
        <4> QED
          BY <1>7
      <3>2. \A r \in {p} \X Tasks : n.banned[r] <=> r \in R \/ v.banned[r]
        <4> HIDE DEF P, n, v, R
        <4> QED
          BY <1>5, <3>1
      <3> HIDE DEF P, n, v, R
      <3>3. QED
        BY <1>4, <1>7, <3>1, <3>2
    <2>2. \A r \in {p} \X Tasks : v.score[r] \in Nat
      <3> HIDE DEF P, v
      <3> QED
        BY <1>3, <1>7
    <2>3. SumOf(v.score, W \cup Mine(p)) = SumOf(v.score, W) + SumOf(v.score, Mine(p))
      <3> HIDE DEF W, R, v, Mine
      <3>1. \A C, D \in SUBSET ({p} \X Tasks) :
              C \cap D = {} => SumOf(v.score, C \cup D) = SumOf(v.score, C) + SumOf(v.score, D)
        <4> DEFINE all == {p} \X Tasks
        <4>1. IsFiniteSet(all) /\ \A r \in all : v.score[r] \in Nat
          BY <1>7, <2>2
        <4> HIDE DEF all
        <4>2. \A C, D \in SUBSET all :
                C \cap D = {} => SumOf(v.score, C \cup D) = SumOf(v.score, C) + SumOf(v.score, D)
          BY <4>1, SumSplits
        <4>3. QED
          BY <4>2 DEF all
      <3>2. QED
        BY <2>1, <3>1
    <2>4. SumOf(n.score, W) = SumOf(v.score, W) /\ SumOf(v.score, W) \in Nat
      <3>1. \A r \in W : n.score[r] = v.score[r] /\ v.score[r] \in Nat
        <4>1. \A r \in W : r \in P \X Tasks /\ r \notin R /\ v.score[r] \in Nat
          <5>1. \A r \in W : r \notin Mine(p) /\ r[1] = p /\ r \in {p} \X Tasks
            <6> HIDE DEF P, n, v, R
            <6> QED
              BY <2>1
          <5> HIDE DEF P, n, v, R
          <5>2. QED
            BY <1>7, <2>2, <5>1
        <4> HIDE DEF W, P, n, v, R
        <4>2. QED
          BY <1>5, <4>1
      <3>2. IsFiniteSet(W)
        <4> HIDE DEF W, P
        <4> QED
          BY <1>7, <2>1, FS_Subset
      <3> HIDE DEF W, n, v
      <3>3. QED
        BY <3>1, <3>2, SumSame
    <2>5. Counted(v, p) = SumOf(v.score, U) /\ Counted(n, p) = SumOf(n.score, W)
      BY DEF Counted
    <2>6. SumOf(v.score, U) = SumOf(v.score, W) + taken(p)
      <3> HIDE DEF W, U, v, Mine
      <3> QED
        BY <2>1, <2>3
    <2>7. n.total[p] = Monus(v.total[p], taken(p)) /\ taken(p) \in Nat
      <3> HIDE DEF n, v, taken
      <3> QED
        BY <1>6, <1>8
    <2> HIDE DEF W, U, n, v, taken
    <2>8. QED
      BY <1>11, <2>4, <2>5, <2>6, <2>7 DEF Monus
  <1>12. \A r \in P \X Tasks : v.banned[r] => n.banned[r]
    <2> HIDE DEF P, n, v, R
    <2> QED
      BY <1>5
  <1>13. \A s \in S : Who(s) \in P /\ n.banned[ResultOf(s)]
    <2> HIDE DEF n, v, R
    <2> QED
      BY <1>1, <1>4, <1>5
  <1>14. TxnSound(b)
    <2> HIDE DEF P, n, v
    <2>1. b.kind = "ban" /\ b.view = v /\ b.new = n /\ DOMAIN b.new.total = P
      BY <1>5 DEF n
    <2> HIDE DEF b
    <2>2. QED
      BY <1>1, <1>2, <1>10, <1>11, <1>12, <2>1 DEF TxnSound
  <1>15. QED
    <2> HIDE DEF P, v, R
    <2> QED
      BY <1>5, <1>13, <1>14
\* An unban gives back the best of what the participant had sent.
LEMMA RestoredIsSound ==
  ASSUME DataType, NEW r
  PROVE  LET best == Max({0} \cup {SubmissionScore(s) : s \in {u \in stored : ResultOf(u) = r}})
         IN  best \in Nat /\ best <= Cap(r)
  <1> DEFINE mine == {u \in stored : ResultOf(u) = r}
             f == [s \in mine |-> SubmissionScore(s)]
             m == Max({0} \cup {f[s] : s \in mine})
  <1>1. mine \subseteq Subs /\ \A s \in mine : s \in 1..sent /\ ResultOf(s) = r
    <2>1. 1..sent \subseteq Subs /\ stored \subseteq 1..sent
      BY HistoryAssumption DEF DataType, Subs
    <2>2. QED
      BY <2>1
  <1>2. IsFiniteSet(mine)
    <2> HIDE DEF mine
    <2> QED
      BY <1>1, FiniteSets, FS_Subset
  <1>3. /\ Cap(r) \in Nat
        /\ \A s \in 1..sent : ResultOf(s) = r =>
             (IF scored THEN History[s].score ELSE 1) <= Cap(r)
    BY CapIs DEF Cap, DataType
  <1>4. \A s \in mine : f[s] \in Nat /\ f[s] <= Cap(r)
    <2> SUFFICES ASSUME NEW s \in mine PROVE f[s] \in Nat /\ f[s] <= Cap(r)
      OBVIOUS
    <2>1. f[s] = IF scored THEN History[s].score ELSE 0
      BY DEF SubmissionScore
    <2> HIDE DEF f, mine
    <2>2. QED
      BY <1>1, <1>3, <2>1, HistoryAssumption
  <1>5. m \in Nat /\ (m = 0 \/ \E s \in mine : m = f[s])
    <2> HIDE DEF f, mine
    <2> QED
      BY <1>2, <1>4, MaxOfValues
  <1>6. m = Max({0} \cup {SubmissionScore(s) : s \in mine})
    <2>1. {f[s] : s \in mine} = {SubmissionScore(s) : s \in mine}
      OBVIOUS
    <2> HIDE DEF f, mine
    <2>2. QED
      BY <2>1
  <1>7. m \in Nat /\ m <= Cap(r)
    <2> HIDE DEF m, f, mine
    <2> QED
      BY <1>3, <1>4, <1>5
  <1> HIDE DEF m
  <1>8. QED
    BY <1>6, <1>7

LEMMA UnbanIsSound ==
  ASSUME DataType, PointsAreSound, NEW S \in SUBSET Subs
  PROVE  Unban(S).kind = "unban" /\ TxnSound(Unban(S))
  <1> DEFINE P == {Who(s) : s \in S}
             v == View(P)
             R == {ResultOf(s) : s \in S} \cap {r \in Results : banned[r]}
             restored == [r \in R |->
               Max({0} \cup {SubmissionScore(s) : s \in {u \in stored : ResultOf(u) = r}})]
             b == Unban(S)
             n == b.new
             Mine(p) == {r \in R : r[1] = p}
             given(p) == SumOf(restored, Mine(p))
  <1>1. P \in SUBSET Participants /\ \A s \in S : ResultOf(s) \in P \X Tasks /\ ResultOf(s) \in Results
    BY FiniteSets DEF ResultOf
  <1>2. /\ Sound(P, v) /\ v.rows \subseteq P /\ DOMAIN v.total = P
        /\ \A r \in P \X Tasks : v.banned[r] = banned[r]
    <2> HIDE DEF P
    <2> QED
      BY <1>1, ViewIsSound
  <1>3. /\ v.score \in [P \X Tasks -> Nat] /\ v.banned \in [P \X Tasks -> BOOLEAN]
        /\ v.total \in [P -> Nat]
    <2> HIDE DEF P, v
    <2> QED
      BY <1>2 DEF Sound, ValuesOf
  <1>4. R \subseteq P \X Tasks /\ \A r \in R : v.banned[r]
    <2> HIDE DEF v
    <2> QED
      BY <1>1, <1>2
  <1>5. /\ b.kind = "unban" /\ b.view = v
        /\ n.score = [r \in P \X Tasks |-> IF r \in R THEN restored[r] ELSE v.score[r]]
        /\ n.banned = [r \in P \X Tasks |-> r \notin R /\ v.banned[r]]
        /\ DOMAIN n.total = P /\ n.total = [p \in P |-> n.total[p]]
    BY DEF Unban
  <1>6. \A p \in P : n.total[p] = v.total[p] + given(p)
    BY DEF Unban, Total, FoldSet, SumOf, MapThenSumSet, MapThenFoldSet
  <1>7. \A p \in P : IsFiniteSet({p} \X Tasks) /\ {p} \X Tasks \subseteq P \X Tasks
                     /\ Mine(p) \subseteq {p} \X Tasks /\ Mine(p) \subseteq R
    <2> HIDE DEF P, R
    <2> QED
      BY <1>4, FiniteSets
  <1>8. \A r \in R : restored[r] \in Nat /\ restored[r] <= Cap(r)
    <2>1. \A r \in R : restored[r] = Max({0} \cup {SubmissionScore(s) : s \in {u \in stored : ResultOf(u) = r}})
      OBVIOUS
    <2> HIDE DEF R, restored
    <2>2. QED
      BY <2>1, RestoredIsSound
  <1>9. \A p \in P : given(p) \in Nat /\ IsFiniteSet(Mine(p)) /\ \A r \in Mine(p) : restored[r] \in Nat
    <2> TAKE p \in P
    <2>1. IsFiniteSet(Mine(p)) /\ \A r \in Mine(p) : restored[r] \in Nat
      <3> HIDE DEF P, R, restored
      <3> QED
        BY <1>7, <1>8, FS_Subset
    <2> HIDE DEF P, R, restored, Mine
    <2>2. SumOf(restored, Mine(p)) \in Nat
      BY <2>1, SumTakes
    <2>3. QED
      BY <2>1, <2>2
  <1>10. n.total \in [P -> Nat]
    <2>1. \A p \in P : n.total[p] \in Nat
      <3> HIDE DEF P, v, n, given, Mine
      <3> QED
        BY <1>3, <1>6, <1>9
    <2> HIDE DEF P, n
    <2>2. QED
      BY <1>5, <2>1
  <1>11. Sound(P, n)
    <2>1. \A r \in P \X Tasks : v.score[r] \in Nat /\ v.score[r] <= Cap(r) /\ (v.banned[r] => Reported(r))
      <3> HIDE DEF P, v
      <3> QED
        BY <1>2, <1>3 DEF Sound
    <2>2. /\ n.score \in [P \X Tasks -> Nat] /\ n.banned \in [P \X Tasks -> BOOLEAN]
          /\ \A r \in P \X Tasks : n.score[r] = IF r \in R THEN restored[r] ELSE v.score[r]
          /\ \A r \in P \X Tasks : n.banned[r] => v.banned[r]
      <3> HIDE DEF P, v, n, R, restored
      <3> QED
        BY <1>3, <1>5, <1>8
    <2>3. \A r \in P \X Tasks : n.score[r] <= Cap(r) /\ (n.banned[r] => Reported(r))
      <3> HIDE DEF P, v, n, R, restored
      <3> QED
        BY <1>8, <2>1, <2>2
    <2> HIDE DEF P, v, n, R, restored
    <2>4. QED
      BY <1>10, <2>2, <2>3 DEF Sound, ValuesOf
  <1>12. ASSUME NEW p \in P, v.total[p] = Counted(v, p) PROVE n.total[p] = Counted(n, p)
    <2> DEFINE U == {r \in {p} \X Tasks : ~v.banned[r]}
               W == {r \in {p} \X Tasks : ~n.banned[r]}
    <2>1. /\ U \cup Mine(p) = W /\ U \cap Mine(p) = {}
          /\ U \in SUBSET ({p} \X Tasks) /\ Mine(p) \in SUBSET ({p} \X Tasks)
          /\ \A r \in U : r \notin R /\ r \in P \X Tasks /\ r \in {p} \X Tasks
          /\ \A r \in Mine(p) : r \in R /\ r \in P \X Tasks
      <3>1. \A r \in {p} \X Tasks : r[1] = p /\ r \in P \X Tasks
        <4> HIDE DEF P
        <4> QED
          BY <1>7
      <3>2. \A r \in {p} \X Tasks : n.banned[r] <=> r \notin R /\ v.banned[r]
        <4> HIDE DEF P, n, v, R
        <4> QED
          BY <1>5, <3>1
      <3> HIDE DEF P, n, v, R
      <3>3. QED
        BY <1>4, <1>7, <3>1, <3>2
    <2>2. \A r \in P \X Tasks : n.score[r] \in Nat
      <3> HIDE DEF P, n
      <3> QED
        BY <1>11 DEF Sound, ValuesOf
    <2>3. SumOf(n.score, U \cup Mine(p)) = SumOf(n.score, U) + SumOf(n.score, Mine(p))
      <3> DEFINE all == {p} \X Tasks
      <3>1. IsFiniteSet(all) /\ \A r \in all : n.score[r] \in Nat
        <4> HIDE DEF P, n
        <4> QED
          BY <1>7, <2>2
      <3>2. U \in SUBSET all /\ Mine(p) \in SUBSET all /\ U \cap Mine(p) = {}
        BY <2>1
      <3> HIDE DEF all, U, Mine, n
      <3>3. \A C, D \in SUBSET all :
              C \cap D = {} => SumOf(n.score, C \cup D) = SumOf(n.score, C) + SumOf(n.score, D)
        BY <3>1, SumSplits
      <3>4. QED
        BY <3>2, <3>3
    <2>4. SumOf(n.score, U) = SumOf(v.score, U)
      <3>1. \A r \in U : n.score[r] = v.score[r] /\ v.score[r] \in Nat
        <4> HIDE DEF U, P, n, v, R
        <4> QED
          BY <1>3, <1>5, <2>1
      <3>2. IsFiniteSet(U)
        <4> HIDE DEF U, P
        <4> QED
          BY <1>7, <2>1, FS_Subset
      <3> HIDE DEF U, n, v
      <3>3. QED
        BY <3>1, <3>2, SumSame
    <2>5. SumOf(n.score, Mine(p)) = given(p)
      <3>1. \A r \in Mine(p) : n.score[r] = restored[r]
        <4> HIDE DEF Mine, P, n, v, R, restored
        <4> QED
          BY <1>5, <2>1
      <3>2. IsFiniteSet(Mine(p)) /\ \A r \in Mine(p) : restored[r] \in Nat
        <4> HIDE DEF P, Mine, restored
        <4> QED
          BY <1>9
      <3> HIDE DEF Mine, n, restored
      <3>3. QED
        BY <3>1, <3>2, SumSame
    <2>6. Counted(v, p) = SumOf(v.score, U) /\ Counted(n, p) = SumOf(n.score, W)
      BY DEF Counted
    <2>7. n.total[p] = v.total[p] + given(p)
      BY <1>6
    <2> HIDE DEF W, U, n, v, given, Mine
    <2>8. QED
      BY <1>12, <2>1, <2>3, <2>4, <2>5, <2>6, <2>7
  <1>13. TxnSound(b)
    <2> HIDE DEF P, n, v
    <2>1. b.kind = "unban" /\ b.view = v /\ b.new = n /\ DOMAIN b.new.total = P
      BY <1>5 DEF n
    <2> HIDE DEF b
    <2>2. QED
      BY <1>1, <1>2, <1>11, <1>12, <2>1 DEF TxnSound
  <1>14. QED
    BY <1>5, <1>13
-----------------------------------------------------------------------------
\* What a check finds, and what a juror may name.
LEMMA ComparedIsApart ==
  ASSUME DataType, NEW opt
  PROVE  LET prs == SimilarPairs(Compared(opt))
         IN  prs \in SUBSET (Subs \X Subs) /\ Apart(prs)
  <1> DEFINE C == Compared(opt)
             prs == SimilarPairs(C)
  <1>1. 1..sent \subseteq Subs /\ stored \subseteq 1..sent /\ 1..sent \subseteq Int
    BY HistoryAssumption DEF DataType, Subs
  <1>2. C \subseteq stored /\ \A u, s \in C : ResultOf(u) = ResultOf(s) => u <= s
    BY DEF Compared
  <1>3. C \subseteq Subs /\ C \subseteq Int
    <2> HIDE DEF C
    <2> QED
      BY <1>1, <1>2
  <1>4. \A u, s \in C : ResultOf(u) = ResultOf(s) => u = s
    <2> HIDE DEF C
    <2> QED
      BY <1>2, <1>3
  <1>5. \A x \in prs : x \in C \X C /\ x[1] < x[2]
    BY DEF SimilarPairs
  <1>6. Apart(prs)
    <2> HIDE DEF C, prs
    <2> SUFFICES ASSUME NEW x \in prs, NEW y \in prs,
                        {ResultOf(x[1]), ResultOf(x[2])} = {ResultOf(y[1]), ResultOf(y[2])}
                 PROVE  x = y
      BY DEF Apart
    <2>1. /\ x[1] \in C /\ x[2] \in C /\ y[1] \in C /\ y[2] \in C
          /\ x[1] < x[2] /\ y[1] < y[2] /\ x = <<x[1], x[2]>> /\ y = <<y[1], y[2]>>
      BY <1>5
    <2>2. CASE ResultOf(x[1]) = ResultOf(y[1]) /\ ResultOf(x[2]) = ResultOf(y[2])
      BY <1>4, <2>1, <2>2
    <2>3. CASE ResultOf(x[1]) = ResultOf(y[2]) /\ ResultOf(x[2]) = ResultOf(y[1])
      <3>1. x[1] = y[2] /\ x[2] = y[1]
        BY <1>4, <2>1, <2>3
      <3>2. QED
        BY <1>3, <2>1, <3>1
    <2>4. QED
      BY <2>2, <2>3
  <1>7. prs \in SUBSET (Subs \X Subs)
    <2> HIDE DEF C, prs
    <2> QED
      BY <1>3, <1>5
  <1>8. QED
    BY <1>6, <1>7

LEMMA NamedIsReported ==
  ASSUME \A c \in Reports : pairs[c] \in SUBSET (Subs \X Subs), NEW S \in Named
  PROVE  S \in SUBSET Subs /\ \A s \in S : Reported(ResultOf(s))
  <1>1. \A c \in Reports : \A pr \in pairs[c] :
          /\ pr[1] \in Subs /\ pr[2] \in Subs
          /\ pr[1] \in Sides(pairs[c]) /\ pr[2] \in Sides(pairs[c])
    BY DEF Sides
  <1>2. \A c \in Reports : \A s \in Sides(pairs[c]) : s \in Subs /\ Reported(ResultOf(s))
    <2>1. \A c \in Reports : \A s \in Sides(pairs[c]) : Reported(ResultOf(s))
      BY DEF Reported
    <2>2. QED
      BY <1>1, <2>1 DEF Sides
  <1>3. \E c \in Reports : S \subseteq Sides(pairs[c])
    <2>1. CASE S \in {{pr[i]} : pr \in UNION {pairs[c] : c \in Reports}, i \in 1..2}
      <3>1. PICK pr \in UNION {pairs[c] : c \in Reports}, i \in 1..2 : S = {pr[i]}
        BY <2>1
      <3>2. PICK c \in Reports : pr \in pairs[c]
        OBVIOUS
      <3>3. i = 1 \/ i = 2
        OBVIOUS
      <3>4. QED
        BY <1>1, <3>1, <3>2, <3>3
    <2>2. CASE S \in {Sides(pairs[c]) : c \in Reports}
      BY <2>2
    <2>3. CASE S \in {Sides({pr \in pairs[c] : TaskOf(pr[1]) = t}) : c \in Reports, t \in Tasks}
      <3>1. PICK c \in Reports, t \in Tasks : S = Sides({pr \in pairs[c] : TaskOf(pr[1]) = t})
        BY <2>3
      <3>2. QED
        BY <3>1 DEF Sides
    <2>4. QED
      BY <2>1, <2>2, <2>3 DEF Named
  <1>4. QED
    BY <1>2, <1>3

-----------------------------------------------------------------------------
\* The parts of the invariant that a step leaves as they are.
LEMMA TotalsStay ==
  ASSUME PointsAreSound, UNCHANGED <<score, banned, total, overlapped>>
  PROVE  TotalsAgree'
  <1>1. \A p \in Participants : EffectiveTotal(p)' = EffectiveTotal(p)
    BY EffectiveIs
  <1>2. QED
    BY <1>1 DEF PointsAreSound, TotalsAgree

LEMMA ScoresStay ==
  ASSUME DataType, PointsAreSound, UNCHANGED <<score, scored>>,
         sent' \in 0..Len(History), sent <= sent'
  PROVE  ScoresAreEarned'
  <1>1. \A r \in Results : score[r] <= Cap(r) /\ score[r] \in Nat
    BY DEF PointsAreSound, ScoresAreEarned, Cap, CapOf, DataType
  <1>2. \A r : Cap(r) <= Cap(r)' /\ Cap(r) \in Nat /\ Cap(r)' \in Nat
    BY CapGrows DEF Cap, DataType
  <1>3. \A r \in Results : score'[r] <= Cap(r)'
    BY <1>1, <1>2
  <1>4. QED
    BY <1>3 DEF ScoresAreEarned, Cap, CapOf

LEMMA BansStay ==
  ASSUME PointsAreSound, \A c \in Reports : pairs[c] \subseteq pairs'[c] /\ Apart(pairs'[c]),
         \A r \in Results : banned'[r] => Reported(r)
  PROVE  OnlyReportedAreBanned'
  <1>1. \A r \in Results : banned'[r] => Reported(r)'
    BY ReportsStay
  <1>2. QED
    BY <1>1 DEF OnlyReportedAreBanned, Reported, Apart, Sides, ResultOf, Who, TaskOf

LEMMA BannedIsReported ==
  ASSUME PointsAreSound
  PROVE  \A r \in Results : banned[r] => Reported(r)
  BY DEF PointsAreSound, OnlyReportedAreBanned, Reported

LEMMA CheckStays ==
  ASSUME NEW c \in Reports, CheckSound(c), pairs'[c] = pairs[c], check'[c] = check[c],
         report'[c] = report[c] \/ (report[c] # "none" /\ report'[c] = "deleted"),
         txn'[c] = txn[c]
  PROVE  CheckSound(c)'
  BY DEF CheckSound, Apart, ResultOf, Who, TaskOf
-----------------------------------------------------------------------------
\* A step that leaves the data alone and opens or ends transactions with
\* sound ones keeps all but the checks.
LEMMA QuietStep ==
  ASSUME IInv, UNCHANGED <<outside, contest, data, subsdata>>,
         DOMAIN report' = Reports, DOMAIN pairs' = Reports, DOMAIN check' = Reports,
         DOMAIN txn' = Actors,
         \A c \in Reports : pairs[c] \subseteq pairs'[c] /\ CheckSound(c)',
         \A a \in Actors : txn'[a] = txn[a] \/ TxnSound(txn'[a])
  PROVE  IInv'
  <1> USE DEF outside, contest, data, subsdata
  <1>1. DataType /\ PointsAreSound /\ (\A a \in Actors : TxnSound(txn[a]))
    BY DEF IInv
  <1>2. sent' \in 0..Len(History) /\ sent <= sent' /\ UNCHANGED scored
    BY <1>1 DEF DataType
  <1>3. DataType'
    BY <1>1 DEF DataType
  <1>4. \A c \in Reports : Apart(pairs'[c])
    BY DEF CheckSound, Apart, ResultOf, Who, TaskOf
  <1>5. TotalsAgree' /\ ScoresAreEarned'
    BY <1>1, <1>2, TotalsStay, ScoresStay
  <1>6. \A r \in Results : banned'[r] => Reported(r)
    BY <1>1, BannedIsReported
  <1>7. OnlyReportedAreBanned'
    BY <1>1, <1>4, <1>6, BansStay
  <1>8. ASSUME NEW a \in Actors PROVE TxnSound(txn[a])'
    <2>1. CASE txn'[a] = txn[a]
      BY <1>1, <1>2, <2>1, TxnStays
    <2>2. CASE TxnSound(txn'[a])
      <3>1. \A r : Cap(r)' = Cap(r)
        BY DEF Cap, CapOf, ResultOf, Who, TaskOf
      <3>2. \A r : Reported(r) => Reported(r)'
        BY ReportsStay
      <3>3. QED
        BY <2>2, <3>1, <3>2 DEF TxnSound, Sound, Counted, ValuesOf
    <2>3. QED
      BY <2>1, <2>2
  <1>9. QED
    BY <1>3, <1>5, <1>7, <1>8 DEF IInv, PointsAreSound

\* A transaction opened or ended by a request.
LEMMA RequestStep ==
  ASSUME IInv, UNCHANGED <<outside, contest, data, subsdata, checks>>,
         NEW r \in Requests, NEW t, TxnSound(t), txn' = [txn EXCEPT ![r] = t]
  PROVE  IInv'
  <1> USE DEF checks
  <1>1. DOMAIN txn = Actors /\ r \in Actors
    BY DEF IInv, DataType, Actors
  <1>2. DOMAIN txn' = Actors /\ txn'[r] = t /\ \A a \in Actors : a # r => txn'[a] = txn[a]
    BY <1>1
  <1>3. \A c \in Reports : c \in Actors /\ c # r
    BY ConstantsAssumption DEF Actors
  <1>4. \A c \in Reports : CheckSound(c)'
    BY <1>2, <1>3, CheckStays DEF IInv
  <1>5. QED
    BY <1>2, <1>4, QuietStep DEF IInv, DataType

LEMMA FetchedKeeps ==
  ASSUME IInv, NEW r \in Requests, NEW page \in Pages, NEW new, Fetched(r, new),
         new = FormatCodeforces(page) \/ new = FormatYandex(page)
  PROVE  IInv'
  <1> DEFINE t == [kind |-> "fetched", new |-> new]
  <1>1. /\ page \subseteq Participants /\ Sound(page, new) /\ DOMAIN new.total = page
        /\ \A p \in page : new.total[p] = Counted(new, p)
    BY PageIsSound DEF IInv
  <1>2. TxnSound(t)
    BY <1>1 DEF TxnSound
  <1>3. QED
    BY <1>2, RequestStep DEF Fetched

LEMMA LookUpKeeps ==
  ASSUME IInv, NEW r \in Requests, LookUpRows(r)
  PROVE  IInv'
  <1> DEFINE P == DOMAIN txn[r].new.total
             t == [kind |-> "merge", new |-> txn[r].new, view |-> View(P)]
  <1>1. TxnSound(txn[r]) /\ txn[r].kind = "fetched" /\ DataType /\ PointsAreSound
    BY DEF IInv, LookUpRows, Actors
  <1>2. /\ P \in SUBSET Participants /\ Sound(P, txn[r].new)
        /\ \A p \in P : txn[r].new.total[p] = Counted(txn[r].new, p)
    BY <1>1 DEF TxnSound
  <1>3. Sound(P, View(P)) /\ View(P).rows \subseteq P /\ DOMAIN View(P).total = P
    <2> HIDE DEF P
    <2> QED
      BY <1>1, <1>2, ViewIsSound
  <1>4. TxnSound(t)
    <2>1. t.kind = "merge" /\ t.new = txn[r].new /\ t.view = View(P) /\ P = DOMAIN t.new.total
      OBVIOUS
    <2> HIDE DEF P, t
    <2>2. QED
      BY <1>2, <1>3, <2>1 DEF TxnSound
  <1>5. QED
    BY <1>4, RequestStep DEF LookUpRows

LEMMA BeginBanKeeps ==
  ASSUME IInv, NEW r \in Requests, BeginBan(r)
  PROVE  IInv'
  <1>1. PICK S \in Named : \/ txn' = [txn EXCEPT ![r] = Ban(S)]
                           \/ txn' = [txn EXCEPT ![r] = Unban(S)]
    BY DEF BeginBan
  <1>2. DataType /\ PointsAreSound /\ \A c \in Reports : pairs[c] \in SUBSET (Subs \X Subs)
    BY DEF IInv, CheckSound
  <1>3. S \in SUBSET Subs /\ \A s \in S : Reported(ResultOf(s))
    BY <1>2, NamedIsReported
  <1>4. TxnSound(Ban(S)) /\ TxnSound(Unban(S))
    BY <1>2, <1>3, BanIsSound, UnbanIsSound
  <1>5. UNCHANGED <<outside, contest, data, subsdata, checks>>
    BY DEF BeginBan
  <1>6. QED
    BY <1>1, <1>4, <1>5, RequestStep

LEMMA AbortKeeps ==
  ASSUME IInv, NEW r \in Requests, Abort(r)
  PROVE  IInv'
  <1>1. TxnSound(Idle)
    BY DEF TxnSound, Idle
  <1>2. QED
    BY <1>1, RequestStep DEF Abort, Done

-----------------------------------------------------------------------------
\* The platform takes a submission; submissions are stored.
LEMMA SendKeeps ==
  ASSUME IInv, Send
  PROVE  IInv'
  <1>1. /\ sent' \in 0..Len(History) /\ sent <= sent' /\ UNCHANGED scored
        /\ UNCHANGED <<contest, data, subsdata, checks, txn>>
    BY HistoryAssumption DEF IInv, DataType, Send
  <1> USE DEF contest, data, subsdata, checks
  <1>2. DataType'
    BY <1>1 DEF IInv, DataType
  <1>3. \A c \in Reports : c \in Actors /\ pairs[c] \subseteq pairs'[c] /\ Apart(pairs'[c])
    BY <1>1 DEF IInv, CheckSound, Actors
  <1>4. \A c \in Reports : CheckSound(c)'
    BY <1>1, CheckStays DEF IInv
  <1>5. TotalsAgree' /\ ScoresAreEarned'
    BY <1>1, TotalsStay, ScoresStay DEF IInv
  <1>6. OnlyReportedAreBanned'
    BY <1>1, <1>3, BansStay, BannedIsReported DEF IInv
  <1>7. \A a \in Actors : TxnSound(txn[a])'
    BY <1>1, <1>3, TxnStays DEF IInv
  <1>8. QED
    BY <1>2, <1>4, <1>5, <1>6, <1>7 DEF IInv, PointsAreSound

LEMMA StoreKeeps ==
  ASSUME IInv, NEW found \in SUBSET (1..sent), Store(found)
  PROVE  IInv'
  <1> USE DEF contest, data, subsdata, checks, outside
  <1>1. /\ UNCHANGED <<outside, contest, data, checks, txn>>
        /\ stored' = stored \cup found
    BY DEF Store
  <1>2. sent' \in 0..Len(History) /\ sent <= sent' /\ UNCHANGED scored
    BY <1>1, HistoryAssumption DEF IInv, DataType
  <1>3. DataType'
    BY <1>1 DEF IInv, DataType
  <1>4. \A c \in Reports : c \in Actors /\ pairs[c] \subseteq pairs'[c] /\ Apart(pairs'[c])
    BY <1>1 DEF IInv, CheckSound, Actors
  <1>5. \A c \in Reports : CheckSound(c)'
    BY <1>1, CheckStays DEF IInv
  <1>6. TotalsAgree' /\ ScoresAreEarned'
    BY <1>1, <1>2, TotalsStay, ScoresStay DEF IInv
  <1>7. OnlyReportedAreBanned'
    BY <1>1, <1>4, BansStay, BannedIsReported DEF IInv
  <1>8. \A a \in Actors : TxnSound(txn[a])'
    BY <1>1, <1>2, <1>4, TxnStays DEF IInv
  <1>9. QED
    BY <1>3, <1>5, <1>6, <1>7, <1>8 DEF IInv, PointsAreSound
-----------------------------------------------------------------------------
\* The commits.
LEMMA CommitKeeps ==
  ASSUME IInv, NEW a \in Actors, txn[a].kind \in {"merge", "ban", "unban"},
         NEW Q \in SUBSET (DOMAIN txn[a].view.total), Write(txn[a].view, txn[a].new, Q), Done(a),
         UNCHANGED <<outside, stored, report, pairs>>, DOMAIN check' = Reports,
         rows' \subseteq Participants, \A c \in Reports : CheckSound(c)'
  PROVE  IInv'
  <1> USE DEF outside
  <1> DEFINE P == DOMAIN txn[a].view.total
             v == txn[a].view
             n == txn[a].new
  <1>1. /\ P \in SUBSET Participants /\ Sound(P, v) /\ Sound(P, n)
        /\ \A p \in P : v.total[p] = Counted(v, p) => n.total[p] = Counted(n, p)
    BY DEF IInv, TxnSound
  <1>2. DataType /\ PointsAreSound
    BY DEF IInv
  <1>3. /\ score' \in [Results -> Nat] /\ banned' \in [Results -> BOOLEAN]
        /\ total' \in [Participants -> Nat]
        /\ TotalsAgree' /\ ScoresAreEarned'
        /\ \A r \in Results : banned'[r] => Reported(r)
    <2> HIDE DEF P, v, n
    <2>1. Q \in SUBSET P /\ Write(v, n, Q)
      BY DEF P, v, n
    <2>2. QED
      BY <1>1, <1>2, <2>1, WriteKeeps
  <1>4. /\ DOMAIN txn' = Actors /\ txn'[a] = Idle
        /\ \A b \in Actors : b # a => txn'[b] = txn[b]
    BY <1>2 DEF Done, DataType
  <1>5. DataType'
    BY <1>2, <1>3, <1>4 DEF DataType
  <1>6. \A c \in Reports : pairs[c] \subseteq pairs'[c] /\ Apart(pairs'[c])
    BY DEF IInv, CheckSound
  <1>7. OnlyReportedAreBanned'
    BY <1>2, <1>3, <1>6, BansStay
  <1>8. sent' \in 0..Len(History) /\ sent <= sent'
    BY <1>2 DEF DataType
  <1>9. ASSUME NEW b \in Actors PROVE TxnSound(txn[b])'
    <2>1. CASE b = a
      BY <1>4, <2>1 DEF TxnSound, Idle
    <2>2. CASE b # a
      <3>1. TxnSound(txn[b]) /\ txn'[b] = txn[b]
        BY <1>4, <2>2 DEF IInv
      <3>2. QED
        BY <1>2, <1>6, <1>8, <3>1, TxnStays
    <2>3. QED
      BY <2>1, <2>2
  <1>10. QED
    BY <1>3, <1>5, <1>7, <1>9 DEF IInv, PointsAreSound

LEMMA MergeTableKeeps ==
  ASSUME IInv, NEW r \in Requests, MergeTable(r)
  PROVE  IInv'
  <1> DEFINE v == txn[r].view
             P == DOMAIN v.total
  <1>1. /\ txn[r].kind = "merge" /\ Done(r)
        /\ UNCHANGED <<outside, epoch, subsdata, checks>>
        /\ \/ UNCHANGED <<contest, data>>
           \/ rows' = rows \cup P /\ Write(v, txn[r].new, P \ (rows \ v.rows))
    BY DEF MergeTable
  <1>2. r \in Actors /\ DOMAIN txn = Actors
    BY DEF Actors, IInv, DataType
  <1>3. CASE UNCHANGED <<contest, data>>
    <2>1. TxnSound(Idle)
      BY DEF TxnSound, Idle
    <2>2. UNCHANGED <<outside, contest, data, subsdata, checks>>
      BY <1>1, <1>3 DEF outside, contest, data, subsdata, checks
    <2>3. QED
      BY <1>1, <2>1, <2>2, RequestStep DEF Done
  <1>4. CASE rows' = rows \cup P /\ Write(v, txn[r].new, P \ (rows \ v.rows))
    <2>1. P \subseteq Participants
      BY <1>1, <1>2 DEF IInv, TxnSound
    <2>2. rows' \subseteq Participants
      BY <1>4, <2>1 DEF IInv, DataType
    <2>3. \A c \in Reports : c \in Actors /\ c # r /\ txn'[c] = txn[c]
      BY <1>1, <1>2, ConstantsAssumption DEF Done, Actors
    <2>4. \A c \in Reports : CheckSound(c)'
      BY <1>1, <2>3, CheckStays DEF IInv, checks
    <2>5. P \ (rows \ v.rows) \in SUBSET P
      OBVIOUS
    <2>6. /\ UNCHANGED <<outside, stored, report, pairs>> /\ DOMAIN check' = Reports
      BY <1>1 DEF checks, subsdata, IInv, DataType
    <2>7. QED
      BY <1>1, <1>2, <1>4, <2>2, <2>4, <2>5, <2>6, CommitKeeps
  <1>5. QED
    BY <1>1, <1>3, <1>4

LEMMA CommitBanKeeps ==
  ASSUME IInv, NEW r \in Requests, CommitBan(r), UNCHANGED check
  PROVE  IInv'
  <1>1. /\ txn[r].kind \in {"ban", "unban"} /\ Done(r)
        /\ Write(txn[r].view, txn[r].new, DOMAIN txn[r].view.total)
        /\ UNCHANGED <<outside, contest, rows, stored, report, pairs, lost>>
    BY DEF CommitBan
  <1>2. r \in Actors /\ DOMAIN txn = Actors /\ rows' \subseteq Participants
        /\ DOMAIN check' = Reports
    BY <1>1 DEF Actors, IInv, DataType
  <1>3. \A c \in Reports : c \in Actors /\ c # r /\ txn'[c] = txn[c]
    BY <1>1, <1>2, ConstantsAssumption DEF Done, Actors
  <1>4. \A c \in Reports : CheckSound(c)'
    BY <1>1, <1>3, CheckStays DEF IInv
  <1>5. QED
    BY <1>1, <1>2, <1>4, CommitKeeps

LEMMA CommitAutoBanKeeps ==
  ASSUME IInv, NEW c \in Reports, CommitAutoBan(c)
  PROVE  IInv'
  <1>1. /\ txn[c].kind \in {"ban", "unban"} /\ Done(c)
        /\ Write(txn[c].view, txn[c].new, DOMAIN txn[c].view.total)
        /\ UNCHANGED <<outside, contest, rows, stored, report, pairs, lost>>
        /\ check' = [check EXCEPT ![c] = Idle]
    BY DEF CommitBan, CommitAutoBan
  <1>2. c \in Actors /\ DOMAIN txn = Actors /\ rows' \subseteq Participants
        /\ DOMAIN check = Reports /\ DOMAIN check' = Reports
    BY <1>1 DEF Actors, IInv, DataType
  <1>3. ASSUME NEW d \in Reports PROVE CheckSound(d)'
    <2>1. CASE d = c
      <3>1. txn'[c] = Idle /\ check'[c] = Idle /\ pairs'[c] = pairs[c] /\ report'[c] = report[c]
        BY <1>1, <1>2 DEF Done, Actors
      <3>2. CheckSound(c)
        BY DEF IInv
      <3>3. /\ pairs[c] \in SUBSET (Subs \X Subs) /\ Apart(pairs[c])
            /\ report[c] = "none" => pairs[c] = {}
        BY <3>2 DEF CheckSound
      <3>4. txn'[d].kind = "idle" /\ check'[d].kind = "idle"
        BY <2>1, <3>1 DEF Idle
      <3>5. /\ pairs'[d] \in SUBSET (Subs \X Subs) /\ Apart(pairs'[d])
            /\ report'[d] = "none" => pairs'[d] = {}
        BY <2>1, <3>1, <3>3
      <3>6. QED
        BY <3>4, <3>5 DEF CheckSound, Apart, ResultOf, Who, TaskOf
    <2>2. CASE d # c
      <3>1. txn'[d] = txn[d] /\ check'[d] = check[d] /\ CheckSound(d)
        BY <1>1, <1>2, <2>2 DEF Done, IInv, Actors
      <3>2. QED
        BY <1>1, <3>1, CheckStays
    <2>3. QED
      BY <2>1, <2>2
  <1>4. QED
    BY <1>1, <1>2, <1>3, CommitKeeps

-----------------------------------------------------------------------------
\* A contest that is deleted has no results.
LEMMA DeleteKeeps ==
  ASSUME IInv, DeleteContest
  PROVE  IInv'
  <1> USE DEF outside, subsdata
  <1>1. /\ rows' = {} /\ score' = [r \in Results |-> 0] /\ banned' = [r \in Results |-> FALSE]
        /\ total' = [p \in Participants |-> 0]
        /\ report' = [c \in Reports |-> IF report[c] = "none" THEN "none" ELSE "deleted"]
        /\ UNCHANGED <<outside, subsdata, pairs, check, lost, txn>>
    BY DEF DeleteContest
  <1>2. DataType /\ PointsAreSound
    BY DEF IInv
  <1>3. DataType'
    BY <1>1, <1>2 DEF DataType
  <1>4. TotalsAgree'
    <2> SUFFICES ASSUME NEW p \in Participants PROVE total'[p] = EffectiveTotal(p)'
      BY DEF TotalsAgree
    <2> DEFINE U == {r \in {p} \X Tasks : ~banned'[r]}
    <2>1. IsFiniteSet(U)
      BY FiniteSets, FS_Subset
    <2>2. \A r \in U : score'[r] = 0
      BY <1>1 DEF Results
    <2>3. SumOf(score', U) = 2 * SumOf(score', U) /\ SumOf(score', U) \in Nat
      <3>1. \A r \in U : score'[r] \in Nat /\ score'[r] = 2 * score'[r]
        BY <2>2
      <3> HIDE DEF U
      <3>2. SumOf(score', U) = 2 * SumOf(score', U)
        BY <2>1, <3>1, SumDoubles
      <3>3. SumOf(score', U) \in Nat
        BY <2>1, <3>1, SumTakes
      <3>4. QED
        BY <3>2, <3>3
    <2>4. EffectiveTotal(p)' = SumOf(score', U)
      BY EffectiveIs
    <2> HIDE DEF U
    <2>5. QED
      BY <1>1, <2>3, <2>4
  <1>5. ScoresAreEarned'
    <2>1. \A r : Cap(r)' = Cap(r) /\ Cap(r) \in Nat
      <3>1. sent' = sent /\ scored' = scored /\ sent \in 0..Len(History) /\ scored \in BOOLEAN
        BY <1>1, <1>2 DEF DataType
      <3>2. ASSUME NEW r
            PROVE  Cap(r)' = Cap(r)
        BY <3>1 DEF Cap, CapOf, ResultOf, Who, TaskOf
      <3>3. ASSUME NEW r
            PROVE  Cap(r) \in Nat
        BY <3>1, CapIs DEF Cap
      <3>4. QED
        BY <3>2, <3>3
    <2>2. \A r \in Results : score'[r] <= Cap(r)'
      BY <1>1, <2>1
    <2>3. QED
      BY <2>2 DEF ScoresAreEarned, Cap, CapOf
  <1>6. \A c \in Reports : c \in Actors /\ pairs[c] \subseteq pairs'[c] /\ Apart(pairs'[c])
    BY <1>1 DEF IInv, CheckSound, Actors
  <1>7. OnlyReportedAreBanned'
    BY <1>1, <1>2, <1>6, BansStay
  <1>8. \A c \in Reports : CheckSound(c)'
    BY <1>1, CheckStays DEF IInv
  <1>9. sent' \in 0..Len(History) /\ sent <= sent'
    BY <1>1, <1>2 DEF DataType
  <1>10. \A a \in Actors : TxnSound(txn[a])'
    BY <1>1, <1>2, <1>6, <1>9, TxnStays DEF IInv
  <1>11. QED
    BY <1>3, <1>4, <1>5, <1>7, <1>8, <1>10 DEF IInv, PointsAreSound

-----------------------------------------------------------------------------
\* The steps of a plagiarism check.
LEMMA TaskStep ==
  ASSUME IInv, UNCHANGED <<outside, contest, data, subsdata>>, NEW c \in Reports,
         DOMAIN report' = Reports, DOMAIN pairs' = Reports, DOMAIN check' = Reports,
         DOMAIN txn' = Actors,
         \A d \in Reports : d # c => /\ report'[d] = report[d] /\ pairs'[d] = pairs[d]
                                     /\ check'[d] = check[d],
         \A a \in Actors : a # c => txn'[a] = txn[a],
         txn'[c] = txn[c] \/ TxnSound(txn'[c]),
         pairs[c] \subseteq pairs'[c], CheckSound(c)'
  PROVE  IInv'
  <1>1. ASSUME NEW d \in Reports, d # c PROVE CheckSound(d)'
    <2>1. CheckSound(d) /\ txn'[d] = txn[d]
      BY <1>1 DEF IInv, Actors
    <2>2. QED
      BY <1>1, <2>1, CheckStays
  <1>2. \A d \in Reports : pairs[d] \subseteq pairs'[d] /\ CheckSound(d)'
    BY <1>1
  <1>3. \A a \in Actors : txn'[a] = txn[a] \/ TxnSound(txn'[a])
    OBVIOUS
  <1>4. QED
    BY <1>2, <1>3, QuietStep

LEMMA RestingCheck ==
  ASSUME NEW c \in Reports, CheckSound(c), pairs'[c] = pairs[c], check'[c] = Idle,
         txn'[c].kind = "idle", report'[c] # "none" \/ report[c] = "none"
  PROVE  CheckSound(c)'
  BY DEF CheckSound, Idle, Apart, ResultOf, Who, TaskOf

LEMMA CheckKeeps ==
  ASSUME IInv, NEW c \in Reports,
         RunPlagiarismCheck(c) \/ LoadSubmissions(c) \/ PersistPairs(c) \/ AutoBan(c)
           \/ NothingToBan(c) \/ CheckFails(c)
  PROVE  IInv'
  <1> USE DEF Apart, ResultOf, Who, TaskOf
  <1>1. /\ DOMAIN report = Reports /\ DOMAIN pairs = Reports /\ DOMAIN check = Reports
        /\ DOMAIN txn = Actors /\ c \in Actors /\ CheckSound(c) /\ DataType /\ PointsAreSound
    BY DEF IInv, DataType, Actors
  <1>2. CASE RunPlagiarismCheck(c)
    <2>1. PICK opt : check' = [check EXCEPT ![c] = [kind |-> "asked", opt |-> opt]]
      BY <1>2 DEF RunPlagiarismCheck
    <2>2. /\ report[c] = "none" /\ report'[c] = "processing" /\ check'[c].kind = "asked"
          /\ UNCHANGED <<pairs, txn>>
      BY <1>1, <1>2, <2>1 DEF RunPlagiarismCheck
    <2>3. CheckSound(c)'
      BY <1>1, <2>2 DEF CheckSound
    <2>4. QED
      BY <1>1, <1>2, <2>1, <2>3, TaskStep DEF RunPlagiarismCheck
  <1>3. CASE LoadSubmissions(c)
    <2> DEFINE prs == SimilarPairs(Compared(check[c].opt))
    <2>1. prs \in SUBSET (Subs \X Subs) /\ Apart(prs)
      BY <1>1, ComparedIsApart
    <2>2. /\ check[c].kind = "asked" /\ check'[c] = [kind |-> "found", pairs |-> prs]
          /\ UNCHANGED <<report, pairs, txn>>
      BY <1>1, <1>3 DEF LoadSubmissions
    <2> HIDE DEF prs
    <2>3. CheckSound(c)'
      BY <1>1, <2>1, <2>2 DEF CheckSound
    <2>4. QED
      BY <1>1, <1>3, <2>3, TaskStep DEF LoadSubmissions
  <1>4. CASE PersistPairs(c)
    <2> DEFINE ban == {pr \in check[c].pairs : Percent[pr] >= BanThreshold}
    <2>1. /\ check[c].kind = "found" /\ pairs'[c] = check[c].pairs
          /\ report'[c] = IF report[c] = "deleted" THEN "deleted" ELSE "completed"
          /\ check'[c] = [kind |-> "persisted", ban |-> ban]
          /\ UNCHANGED txn
      BY <1>1, <1>4 DEF PersistPairs
    <2>2. pairs[c] = {} /\ check[c].pairs \in SUBSET (Subs \X Subs) /\ Apart(check[c].pairs)
          /\ txn[c].kind = "idle"
      BY <1>1, <2>1 DEF CheckSound
    <2>3. ban = {pr \in pairs'[c] : Percent[pr] >= BanThreshold}
      BY <2>1
    <2> HIDE DEF ban
    <2>4. CheckSound(c)'
      BY <2>1, <2>2, <2>3 DEF CheckSound
    <2>5. QED
      BY <1>1, <1>4, <2>2, <2>4, TaskStep DEF PersistPairs
  <1>5. CASE AutoBan(c)
    <2> DEFINE S == Sides(check[c].ban)
    <2>1. check[c].kind = "persisted" /\ check[c].ban # {}
          /\ txn'[c] = Ban(S) /\ UNCHANGED <<report, pairs, check>>
      BY <1>1, <1>5 DEF AutoBan, checks
    <2>2. check[c].ban \subseteq pairs[c] /\ pairs[c] \in SUBSET (Subs \X Subs)
      BY <1>1, <2>1 DEF CheckSound
    <2>3. S \in SUBSET Subs /\ S \subseteq Sides(pairs[c])
          /\ \A pr \in check[c].ban : \A i \in 1..2 : pr[i] \in S
      BY <2>2 DEF Sides
    <2>4. \A s \in S : Reported(ResultOf(s))
      BY <2>3 DEF Reported
    <2> HIDE DEF S
    <2>5. LET b == Ban(S)
          IN  /\ b.kind = "ban" /\ TxnSound(b)
              /\ \A s \in S : Who(s) \in DOMAIN b.new.total /\ b.new.banned[ResultOf(s)]
      <3> USE <1>1, <2>3, <2>4
      <3> QED
        BY BanIsSound
    <2>6. CheckSound(c)'
      <3>1. /\ pairs'[c] = pairs[c] /\ check'[c] = check[c] /\ report'[c] = report[c]
            /\ txn'[c].kind = "ban"
            /\ \A pr \in check[c].ban : \A i \in 1..2 :
                 /\ Who(pr[i]) \in DOMAIN txn'[c].new.total
                 /\ txn'[c].new.banned[ResultOf(pr[i])]
        BY <2>1, <2>3, <2>5
      <3>2. QED
        BY <1>1, <2>1, <3>1 DEF CheckSound
    <2>7. QED
      BY <1>1, <1>5, <2>1, <2>5, <2>6, TaskStep DEF AutoBan, checks
  <1>6. CASE NothingToBan(c)
    <2>1. /\ check[c].kind = "persisted" /\ check[c].ban = {} /\ check'[c] = Idle
          /\ UNCHANGED <<report, pairs, txn>> /\ txn[c].kind = "idle"
      BY <1>1, <1>6 DEF NothingToBan, CheckSound
    <2>2. CheckSound(c)'
      BY <1>1, <2>1, RestingCheck
    <2>3. QED
      BY <1>1, <1>6, <2>2, TaskStep DEF NothingToBan
  <1>7. CASE CheckFails(c)
    <2>1. /\ check[c] # Idle /\ check'[c] = Idle /\ txn'[c] = Idle
          /\ report'[c] \in {"deleted", "failed"} /\ UNCHANGED pairs /\ txn'[c].kind = "idle"
      BY <1>1, <1>7 DEF CheckFails, Done, Idle
    <2>2. CheckSound(c)'
      BY <1>1, <2>1, RestingCheck
    <2>3. TxnSound(txn'[c])
      BY <2>1 DEF TxnSound, Idle
    <2>4. QED
      BY <1>1, <1>7, <2>2, <2>3, TaskStep DEF CheckFails, Done
  <1>8. QED
    BY <1>2, <1>3, <1>4, <1>5, <1>6, <1>7

LEMMA RestartKeeps ==
  ASSUME IInv, Restart
  PROVE  IInv'
  <1>1. /\ txn' = [a \in Actors |-> Idle] /\ check' = [c \in Reports |-> Idle]
        /\ UNCHANGED <<outside, contest, data, subsdata, report, pairs>>
    BY DEF Restart
  <1>2. \A c \in Reports : c \in Actors /\ CheckSound(c)
    BY DEF IInv, Actors
  <1>3. \A c \in Reports : CheckSound(c)'
    BY <1>1, <1>2 DEF CheckSound, Idle, Apart, ResultOf, Who, TaskOf
  <1>4. \A a \in Actors : TxnSound(txn'[a])
    BY <1>1 DEF TxnSound, Idle
  <1>5. QED
    BY <1>1, <1>3, <1>4, QuietStep DEF IInv, DataType
-----------------------------------------------------------------------------
LEMMA InitSound ==
  ASSUME Init
  PROVE  IInv
  <1>1. /\ sent = 0 /\ rows = {} /\ overlapped = {} /\ stored = {}
        /\ score = [r \in Results |-> 0] /\ banned = [r \in Results |-> FALSE]
        /\ total = [p \in Participants |-> 0]
        /\ report = [c \in Reports |-> "none"] /\ pairs = [c \in Reports |-> {}]
        /\ check = [c \in Reports |-> Idle] /\ txn = [a \in Actors |-> Idle]
    BY DEF Init
  <1>2. scored \in BOOLEAN
    BY ConstantsAssumption DEF Init
  <1>3. DataType
    BY <1>1, <1>2, HistoryAssumption DEF DataType
  <1>4. TotalsAgree
    <2> SUFFICES ASSUME NEW p \in Participants PROVE total[p] = EffectiveTotal(p)
      BY DEF TotalsAgree
    <2> DEFINE U == {r \in {p} \X Tasks : ~banned[r]}
    <2>1. IsFiniteSet(U)
      BY FiniteSets, FS_Subset
    <2>2. \A r \in U : score[r] \in Nat /\ score[r] = 2 * score[r]
      BY <1>1 DEF Results
    <2>3. EffectiveTotal(p) = SumOf(score, U)
      BY EffectiveIs
    <2> HIDE DEF U
    <2>4. SumOf(score, U) = 2 * SumOf(score, U)
      BY <2>1, <2>2, SumDoubles
    <2>5. SumOf(score, U) \in Nat
      BY <2>1, <2>2, SumTakes
    <2>6. QED
      BY <1>1, <2>3, <2>4, <2>5
  <1>5. ScoresAreEarned
    <2>1. \A r : Cap(r) \in Nat
      BY <1>3, CapIs DEF Cap, DataType
    <2>2. \A r \in Results : score[r] <= Cap(r)
      BY <1>1, <2>1
    <2>3. QED
      BY <2>2 DEF ScoresAreEarned, Cap, CapOf
  <1>6. OnlyReportedAreBanned
    BY <1>1 DEF OnlyReportedAreBanned
  <1>7. \A a \in Actors : TxnSound(txn[a])
    BY <1>1 DEF TxnSound, Idle
  <1>8. \A c \in Reports : CheckSound(c)
    BY <1>1 DEF CheckSound, Idle, Apart, Actors
  <1>9. QED
    BY <1>3, <1>4, <1>5, <1>6, <1>7, <1>8 DEF IInv, PointsAreSound

LEMMA StutterKeeps ==
  ASSUME IInv, UNCHANGED vars
  PROVE  IInv'
  <1>1. UNCHANGED <<outside, contest, data, subsdata, checks, txn>>
    BY DEF vars
  <1>2. \A c \in Reports : CheckSound(c)'
    BY <1>1, CheckStays DEF checks, IInv
  <1>3. QED
    BY <1>1, <1>2, QuietStep DEF checks, IInv, DataType

LEMMA StepKeeps ==
  ASSUME IInv, [Next]_vars
  PROVE  IInv'
  <1>1. CASE Send
    BY <1>1, SendKeeps
  <1>2. CASE CodeforcesSubmissions \/ YandexSubmissions
    <2>1. \A page \in SubmissionPages : page \subseteq 1..sent
      <3>1. sent \in Nat
        BY HistoryAssumption DEF IInv, DataType
      <3>2. QED
        BY <3>1 DEF SubmissionPages
    <2>2. \E found \in SUBSET (1..sent) : Store(found)
      <3>1. CASE CodeforcesSubmissions
        <4>1. PICK page \in SubmissionPages : Store({s \in page : Who(s) \in rows})
          BY <3>1 DEF CodeforcesSubmissions
        <4>2. {s \in page : Who(s) \in rows} \in SUBSET (1..sent)
          BY <2>1
        <4>3. QED
          BY <4>1, <4>2
      <3>2. CASE YandexSubmissions
        <4>1. PICK page \in SubmissionPages :
                Store({s \in page : \E p \in rows : Name[p] = Name[Who(s)]})
          BY <3>2 DEF YandexSubmissions
        <4>2. {s \in page : \E p \in rows : Name[p] = Name[Who(s)]} \in SUBSET (1..sent)
          BY <2>1
        <4>3. QED
          BY <4>1, <4>2
      <3>3. QED
        BY <1>2, <3>1, <3>2
    <2>3. QED
      BY <2>2, StoreKeeps
  <1>3. CASE DeleteContest
    BY <1>3, DeleteKeeps
  <1>4. CASE Restart
    BY <1>4, RestartKeeps
  <1>5. ASSUME NEW r \in Requests, Juror(r) PROVE IInv'
    <2>1. CASE CodeforcesStandings(r) \/ YandexStandings(r)
      BY <2>1, FetchedKeeps DEF CodeforcesStandings, YandexStandings
    <2>2. QED
      BY <1>5, <2>1, LookUpKeeps, MergeTableKeeps, BeginBanKeeps, CommitBanKeeps, AbortKeeps
      DEF Juror
  <1>6. ASSUME NEW c \in Reports, RunPlagiarismCheck(c) \/ Task(c) \/ CheckFails(c) PROVE IInv'
    BY <1>6, CheckKeeps, CommitAutoBanKeeps DEF Task
  <1>7. CASE UNCHANGED vars
    BY <1>7, StutterKeeps
  <1>8. QED
    BY <1>1, <1>2, <1>3, <1>4, <1>5, <1>6, <1>7 DEF Next

LEMMA InvariantHolds == Spec => []IInv
  <1>1. Init => IInv
    BY InitSound
  <1>2. IInv /\ [Next]_vars => IInv'
    BY StepKeeps
  <1>3. QED
    BY <1>1, <1>2, PTL DEF Spec

\* The points of a contest are those its platform awarded, less the bans of
\* its reports, and a total is the sum of its results (base_plagiarism.py,
\* merge_table.py): whatever the requests and checks in flight, for every
\* history of submissions and every number of participants, tasks and reports.
THEOREM PointsSound == Spec => []PointsAreSound
  <1>1. IInv => PointsAreSound
    BY DEF IInv
  <1>2. QED
    BY <1>1, InvariantHolds, PTL
-----------------------------------------------------------------------------
\* A commit lifts a ban only if it had seen it.
LEMMA WriteLifts ==
  ASSUME DataType, NEW P \in SUBSET Participants, NEW v, NEW n, ValuesOf(P, v), ValuesOf(P, n),
         NEW Q \in SUBSET P, Write(v, n, Q), NEW r \in Results, banned[r], ~banned'[r]
  PROVE  r \in P \X Tasks /\ v.banned[r] /\ ~n.banned[r]
  <1> DEFINE Set(old, loaded, new) == IF new # loaded THEN new ELSE old
  <1>1. banned' = [q \in Results |-> IF q[1] \in Q
                      THEN Set(banned[q], v.banned[q], n.banned[q]) ELSE banned[q]]
    BY DEF Write
  <1>2. r[1] \in Q /\ n.banned[r] # v.banned[r] /\ ~n.banned[r]
    BY <1>1
  <1>3. r \in P \X Tasks
    BY <1>2 DEF Results
  <1>4. v.banned[r] \in BOOLEAN /\ n.banned[r] \in BOOLEAN
    BY <1>3 DEF ValuesOf
  <1>5. QED
    BY <1>2, <1>3, <1>4

LEMMA CommitLifts ==
  ASSUME IInv, NEW a \in Actors, txn[a].kind \in {"merge", "ban", "unban"}, Done(a),
         NEW Q \in SUBSET (DOMAIN txn[a].view.total), Write(txn[a].view, txn[a].new, Q)
  PROVE  BanSurvivesStaleRequest
  <1> DEFINE P == DOMAIN txn[a].view.total
             v == txn[a].view
             n == txn[a].new
  <1>1. /\ P \in SUBSET Participants /\ ValuesOf(P, v) /\ ValuesOf(P, n)
        /\ txn[a].kind = "ban" => \A r \in P \X Tasks : v.banned[r] => n.banned[r]
    BY DEF IInv, TxnSound, Sound
  <1>2. txn'[a] = Idle
    BY DEF Done, IInv, DataType
  <1>3. ASSUME NEW r \in Results, banned[r], ~banned'[r]
        PROVE  /\ txn[a].kind \in {"merge", "unban"} /\ r \in DOMAIN v.banned /\ v.banned[r]
    <2>1. r \in P \X Tasks /\ v.banned[r] /\ ~n.banned[r]
      <3> HIDE DEF P, v, n
      <3>1. Q \in SUBSET P /\ Write(v, n, Q) /\ DataType
        BY DEF P, v, n, IInv
      <3>2. QED
        BY <1>1, <1>3, <3>1, WriteLifts
    <2>2. txn[a].kind # "ban"
      BY <1>1, <2>1
    <2>3. QED
      BY <1>1, <2>1, <2>2 DEF ValuesOf
  <1>4. QED
    BY <1>2, <1>3 DEF BanSurvivesStaleRequest

LEMMA BanSurvives ==
  ASSUME IInv, [Next]_vars
  PROVE  BanSurvivesStaleRequest
  <1> USE DEF data
  <1>1. CASE UNCHANGED banned \/ exists' = FALSE
    BY <1>1 DEF BanSurvivesStaleRequest
  <1>2. ASSUME NEW r \in Requests, Juror(r) PROVE BanSurvivesStaleRequest
    <2>1. r \in Actors
      BY DEF Actors
    <2>2. CASE MergeTable(r)
      <3> DEFINE v == txn[r].view
                 Q == DOMAIN v.total \ (rows \ v.rows)
      <3>1. CASE Write(v, txn[r].new, Q)
        <4>1. Q \in SUBSET (DOMAIN txn[r].view.total) /\ txn[r].kind = "merge" /\ Done(r)
          BY <2>2 DEF MergeTable
        <4>2. QED
          BY <2>1, <3>1, <4>1, CommitLifts
      <3>2. QED
        BY <1>1, <2>2, <3>1 DEF MergeTable
    <2>3. CASE CommitBan(r)
      BY <2>1, <2>3, CommitLifts DEF CommitBan
    <2>4. QED
      BY <1>1, <1>2, <2>2, <2>3
      DEF Juror, CodeforcesStandings, YandexStandings, Fetched, LookUpRows, BeginBan, Abort
  <1>3. ASSUME NEW c \in Reports, RunPlagiarismCheck(c) \/ Task(c) \/ CheckFails(c)
        PROVE  BanSurvivesStaleRequest
    <2>1. CASE CommitAutoBan(c)
      <3>1. c \in Actors
        BY DEF Actors
      <3>2. QED
        BY <2>1, <3>1, CommitLifts DEF CommitAutoBan, CommitBan
    <2>2. QED
      BY <1>1, <1>3, <2>1
      DEF Task, RunPlagiarismCheck, LoadSubmissions, PersistPairs, AutoBan, NothingToBan, CheckFails
  <1>4. CASE Send \/ CodeforcesSubmissions \/ YandexSubmissions \/ Restart \/ UNCHANGED vars
    BY <1>1, <1>4 DEF Send, CodeforcesSubmissions, YandexSubmissions, Store, Restart, vars
  <1>5. CASE DeleteContest
    BY <1>1, <1>5 DEF DeleteContest
  <1>6. QED
    BY <1>2, <1>3, <1>4, <1>5 DEF Next

\* The pairs of a report stay, and its automatic bans are in place.
LEMMA AutoBansAll ==
  ASSUME IInv, NEW c \in Reports, CommitAutoBan(c), NEW pr \in pairs[c],
         Percent[pr] >= BanThreshold, NEW i \in 1..2
  PROVE  banned'[ResultOf(pr[i])] \/ (txn[c].kind = "ban" /\ txn[c].view.banned[ResultOf(pr[i])])
  <1> DEFINE P == DOMAIN txn[c].view.total
             v == txn[c].view
             n == txn[c].new
             r == ResultOf(pr[i])
  <1>1. txn[c].kind = "ban" /\ Write(v, n, P)
    BY DEF CommitAutoBan, CommitBan, IInv, CheckSound
  <1>2. /\ pairs[c] \in SUBSET (Subs \X Subs) /\ check[c].ban = {q \in pairs[c] : Percent[q] >= BanThreshold}
        /\ \A q \in check[c].ban : \A j \in 1..2 :
             Who(q[j]) \in DOMAIN n.total /\ n.banned[ResultOf(q[j])]
    BY <1>1 DEF IInv, CheckSound
  <1>3. P = DOMAIN n.total /\ P \subseteq Participants /\ ValuesOf(P, v) /\ ValuesOf(P, n)
    BY <1>1 DEF IInv, TxnSound, Sound, Actors
  <1>4. Who(pr[i]) \in P /\ n.banned[r]
    BY <1>2, <1>3
  <1>5. pr[i] \in Subs
    <2>1. i = 1 \/ i = 2
      OBVIOUS
    <2>2. QED
      BY <1>2, <2>1
  <1>6. r \in Results /\ r[1] \in P /\ r \in P \X Tasks
    BY <1>4, <1>5, FiniteSets DEF ResultOf
  <1>7. v.banned[r] \in BOOLEAN /\ n.banned[r] \in BOOLEAN
    BY <1>3, <1>6 DEF ValuesOf
  <1>8. banned'[r] = IF n.banned[r] # v.banned[r] THEN n.banned[r] ELSE banned[r]
    <2> HIDE DEF r, P, v, n
    <2> QED
      BY <1>1, <1>6 DEF Write
  <1>9. QED
    BY <1>1, <1>4, <1>7, <1>8

LEMMA ReportsKept ==
  ASSUME IInv, [Next]_vars
  PROVE  ReportsAreKept
  <1> SUFFICES ASSUME NEW c \in Reports
               PROVE  /\ report[c] = "completed" => /\ pairs'[c] = pairs[c]
                                                    /\ report'[c] \in {"completed", "failed", "deleted"}
                      /\ check[c].kind = "persisted" /\ check'[c] = Idle
                           /\ report'[c] = "completed" /\ c \notin lost' =>
                           \A pr \in pairs[c] : Percent[pr] >= BanThreshold =>
                              \A i \in 1..2 : \/ banned'[ResultOf(pr[i])]
                                              \/ /\ txn[c].kind = "ban"
                                                 /\ txn[c].view.banned[ResultOf(pr[i])]
    BY DEF ReportsAreKept
  <1> DEFINE Surviving == report[c] = "completed" => /\ pairs'[c] = pairs[c]
                                                /\ report'[c] \in {"completed", "failed", "deleted"}
             Ends == /\ check[c].kind = "persisted" /\ check'[c] = Idle
                     /\ report'[c] = "completed" /\ c \notin lost'
  <1> USE DEF checks
  <1>0. /\ CheckSound(c) /\ DOMAIN report = Reports /\ DOMAIN pairs = Reports
        /\ DOMAIN check = Reports /\ Idle.kind = "idle"
    BY DEF IInv, DataType, Idle
  <1>1. CASE UNCHANGED <<report, pairs, check>>
    BY <1>0, <1>1
  <1>2. CASE DeleteContest
    BY <1>0, <1>2 DEF DeleteContest
  <1>3. CASE Restart
    BY <1>0, <1>3 DEF Restart
  <1>4. ASSUME NEW d \in Reports, RunPlagiarismCheck(d) \/ LoadSubmissions(d) \/ PersistPairs(d)
                                  \/ AutoBan(d)
        PROVE  Surviving /\ ~Ends
    BY <1>0, <1>4 DEF RunPlagiarismCheck, LoadSubmissions, PersistPairs, AutoBan, CheckSound, Idle
  <1>5. ASSUME NEW d \in Reports, CheckFails(d)
        PROVE  Surviving /\ ~Ends
    BY <1>0, <1>5 DEF CheckFails
  <1>6. ASSUME NEW d \in Reports, NothingToBan(d)
        PROVE  Surviving /\ (Ends => \A pr \in pairs[c] : ~(Percent[pr] >= BanThreshold))
    <2>1. UNCHANGED <<report, pairs>> /\ check' = [check EXCEPT ![d] = Idle] /\ check[d].ban = {}
      BY <1>6 DEF NothingToBan
    <2>2. Ends => d = c
      BY <1>0, <2>1
    <2>3. QED
      BY <1>0, <2>1, <2>2 DEF CheckSound
  <1>7. ASSUME NEW d \in Reports, CommitAutoBan(d)
        PROVE  Surviving /\ (Ends => d = c)
    BY <1>0, <1>7 DEF CommitAutoBan, CommitBan
  <1>8. CASE \E r \in Requests : Juror(r)
    BY <1>1, <1>8 DEF Juror, CodeforcesStandings, YandexStandings, Fetched, LookUpRows, BeginBan,
       Abort, MergeTable, CommitBan
  <1>9. CASE Send \/ CodeforcesSubmissions \/ YandexSubmissions \/ UNCHANGED vars
    BY <1>1, <1>9 DEF Send, CodeforcesSubmissions, YandexSubmissions, Store, vars
  <1>10. CASE \E d \in Reports : CommitAutoBan(d)
    BY <1>7, <1>10, AutoBansAll
  <1>11. QED
    BY <1>2, <1>3, <1>4, <1>5, <1>6, <1>8, <1>9, <1>10 DEF Next, Task

\* No request and no check undoes a ban or a report it has not seen: a commit
\* writes the attributes it changed and leaves the others (base_plagiarism.py).
THEOREM BansKept == Spec => BansAreKept
  <1>1. IInv /\ [Next]_vars => [BanSurvivesStaleRequest /\ ReportsAreKept]_vars
    BY BanSurvives, ReportsKept
  <1>2. QED
    BY <1>1, InvariantHolds, PTL DEF Spec, BansAreKept

-----------------------------------------------------------------------------
\* The steps there are.
ListStep == Must("create", "list", 0)
CommitStep == Must("commit", "commitChanges", 0)
BuildStep == Must("build", "buildPackage", 0)
CommitCall == Call("commitChanges", 0)
BuildCall == Call("buildPackage", 0)
OwnKinds == {"updateInfo", "saveStatement", "saveImage", "enablePoints", "enableGroups",
             "saveSolution", "saveTest", "saveTestGroup"}
SourceKinds == {"saveSource", "saveTestlib", "saveAgain", "set"}
OwnSteps == {s \in UNION {ToSet(UploadTask[u]) : u \in Uploads} :
               /\ s.part = "must" /\ s.stage \in {"statement", "files", "tests", "groups"}
               /\ \A c \in s.calls : c = Call(c.kind, c.item) /\ c.kind \in OwnKinds}
SourceStep(part, kind, n) == Step("files", part, {Call(kind, n)})
SourceStepSet == {SourceStep(x[1], x[2], x[3]) : x \in {"checker", "validator"} \X SourceKinds \X (0..2)}
Early == OwnSteps \cup SourceStepSet \cup {AiStep, CreateStep(TRUE), CreateStep(FALSE)}
AllSteps == Early \cup {ListStep, CommitStep, BuildStep}
AllCalls == UNION {s.calls : s \in AllSteps}
Records == [stage : {"wait", "done", "error", "create", "statement", "files", "tests", "groups", "commit", "build"},
            todo : Seq(AllSteps), busy : SUBSET (AllCalls \X Nat), failed : BOOLEAN, ended : BOOLEAN]

\* What an upload may still have before it: what comes before the commit, the
\* commit, and after it a build or nothing.
Commits(steps) ==
    \E n \in 1..Len(steps) :
       /\ steps[n] = CommitStep
       /\ \A k \in 1..(n - 1) : steps[k] \in Early
       /\ n = Len(steps) \/ (n + 1 = Len(steps) /\ steps[n + 1] = BuildStep)
InPlan(steps) == steps = <<BuildStep>> \/ Commits(steps)

ImportTyped ==
    /\ job \in [Imports -> {"new", "parsing", "running", "done", "done with errors", "error", "lost"}]
    /\ up \in [Uploads -> Records]
    /\ ai \in [Uploads -> DOMAIN AiService \cup {"none", "running", "cancelled"}]
    /\ saved = [p \in Problems |-> saved[p]]
    /\ late \subseteq Uploads \X AllCalls
    /\ revision = [u \in Uploads |-> revision[u]]
    /\ built \in [Uploads -> 0..1]
    /\ raced \subseteq Uploads

\* On Polygon, unless another import came between, the upload's own.
Stored(u, c) == c \in DOMAIN saved[u[2]] /\ (u \in raced \/ saved[u[2]][c] = u[1])
IsStored(u) == \A c \in Wanted[u] : Stored(u, c)

\* An upload under way: it waits for calls of the step at hand, each once.
Going(r) ==
    /\ r \in Records /\ r.todo # <<>> /\ ~r.ended /\ r.stage \notin {"wait", "done", "error"}
    /\ \A x \in r.busy : x[1] \in r.todo[1].calls
    /\ \A x, y \in r.busy : x[1] = y[1] => x = y
    /\ \/ r.todo = <<ListStep>> /\ ~r.failed
       \/ InPlan(r.todo) /\ (r.failed => r.todo[1] \notin {CommitStep, BuildStep, AiStep})
\* What it is doing or will do.
Left(r, c) == \/ \E x \in r.busy : x[1] = c
              \/ \E k \in 2..Len(r.todo) : c \in r.todo[k].calls

\* It has done or will do all that is wanted, and has not asked for its package.
UnderWay(u) ==
    /\ Going(up[u])
    /\ built[u] = 0 /\ <<u, BuildCall>> \notin late
    /\ up[u].todo # <<ListStep>> =>
         /\ ~up[u].failed => \A c \in Wanted[u] : Stored(u, c) \/ Left(up[u], c)
         /\ up[u].todo[1] = BuildStep => revision[u] # {}
UploadOK(u) ==
    /\ job[u[1]] \in {"new", "parsing"} =>
         /\ up[u] = NoUpload /\ ai[u] = "none" /\ built[u] = 0 /\ revision[u] = {}
         /\ \A c \in AllCalls : <<u, c>> \notin late
    /\ Running(u[1]) /\ ~up[u].ended => UnderWay(u)
    /\ up[u].ended => up[u].busy = {} /\ ai[u] # "running"
    /\ <<u, BuildCall>> \in late => built[u] = 0
    /\ <<u, CommitCall>> \in late => IsStored(u)
    /\ \A taken \in revision[u], c \in Wanted[u] : c \in DOMAIN taken /\ (u \in raced \/ taken[c] = u[1])
    /\ up[u].stage = "done" => revision[u] # {}
ImportInv == ImportTyped /\ \A u \in Uploads : UploadOK(u)

\* Sequences.
LEMMA SeqSet ==
  ASSUME NEW S, NEW q \in Seq(S)
  PROVE  /\ ToSet(q) \subseteq S /\ q \in Seq(ToSet(q))
         /\ \A k \in 1..Len(q) : q[k] \in ToSet(q)
         /\ \A x \in ToSet(q) : \E k \in 1..Len(q) : q[k] = x
  BY DEF ToSet

LEMMA SeqWider ==
  ASSUME NEW S, NEW T, S \subseteq T, NEW q \in Seq(S)
  PROVE  q \in Seq(T)
  OBVIOUS

LEMMA SeqMade ==
  ASSUME NEW n \in Nat, NEW q, q = [k \in 1..n |-> q[k]]
  PROVE  q \in Seq({q[k] : k \in 1..n}) /\ Len(q) = n
  OBVIOUS

LEMMA SeqJoined ==
  ASSUME NEW S, NEW a \in Seq(S), NEW b \in Seq(S)
  PROVE  /\ a \o b \in Seq(S) /\ Len(a \o b) = Len(a) + Len(b)
         /\ \A k \in 1..Len(a) : (a \o b)[k] = a[k]
         /\ \A k \in 1..Len(b) : (a \o b)[Len(a) + k] = b[k]
  OBVIOUS

LEMMA SeqShort ==
  ASSUME NEW S
  PROVE  /\ <<>> \in Seq(S) /\ Len(<<>>) = 0
         /\ \A x \in S : <<x>> \in Seq(S) /\ Len(<<x>>) = 1 /\ <<x>>[1] = x
  OBVIOUS

LEMMA TailIs ==
  ASSUME NEW S, NEW q \in Seq(S), q # <<>>
  PROVE  /\ Tail(q) \in Seq(S) /\ Len(Tail(q)) = Len(q) - 1
         /\ \A k \in 1..(Len(q) - 1) : Tail(q)[k] = q[k + 1]
  OBVIOUS

\* A group's steps are as many as there are groups with tests.
LEMMA GroupStepsAre ==
  ASSUME NEW p \in Problems
  PROVE  /\ GroupSteps(p) \in Seq(ToSet(GroupSteps(p)))
         /\ \A s \in ToSet(GroupSteps(p)) :
               \E x : s = Must("groups", "saveTestGroup", x)
  <1> DEFINE groups == Archive[p].groups
             used == {Archive[p].tests[k].group : k \in DOMAIN Archive[p].tests}
             kept == {k \in DOMAIN groups : groups[k].number \in used}
             n == Cardinality(kept)
  <1>1. groups \in Seq(ToSet(groups))
    BY ImportAssumption
  <1>2. kept \subseteq 1..Len(groups) /\ Len(groups) \in Nat
    BY <1>1
  <1>3. IsFiniteSet(kept)
    BY <1>2, FS_Interval, FS_Subset
  <1>4. n \in Nat
    BY <1>3, FS_CardinalityType
  <1>5. GroupSteps(p) = [k \in 1..n |-> Must("groups", "saveTestGroup", groups[Nth(k, kept)].number)]
    BY DEF GroupSteps
  <1> HIDE DEF groups, used, kept, n
  <1>6. GroupSteps(p) = [k \in 1..n |-> GroupSteps(p)[k]]
    BY <1>5
  <1>7. GroupSteps(p) \in Seq({GroupSteps(p)[k] : k \in 1..n}) /\ Len(GroupSteps(p)) = n
    BY <1>6, <1>4, SeqMade
  <1>8. ToSet(GroupSteps(p)) = {GroupSteps(p)[k] : k \in 1..n}
    BY <1>7 DEF ToSet
  <1>9. QED
    BY <1>5, <1>7, <1>8

\* What an upload does of its own before it commits.
IsOwn(s) == /\ s.part = "must" /\ s.stage \in {"statement", "files", "tests", "groups"}
            /\ \A c \in s.calls : c = Call(c.kind, c.item) /\ c.kind \in OwnKinds
BeforeCommit(u) == StatementSteps(u[2]) \o <<FilesStep(u[2])>> \o When(WantsAi(u), <<AiStep>>) \o
             TestsSteps(u[2]) \o GroupSteps(u[2])

LEMMA StatementStepsAre ==
  ASSUME NEW p \in Problems
  PROVE  /\ StatementSteps(p) \in Seq(ToSet(StatementSteps(p)))
         /\ \A s \in ToSet(StatementSteps(p)) : IsOwn(s)
  <1> DEFINE images == [k \in 1..Archive[p].images |-> Must("statement", "saveImage", k)]
             two == <<Must("statement", "updateInfo", 0), Must("statement", "saveStatement", 0)>>
             points == <<Must("statement", "enablePoints", 0), Must("statement", "enableGroups", 0)>>
             S == {Must("statement", kind, k) : kind \in OwnKinds, k \in Nat}
  <1>1. images \in Seq(S) /\ two \in Seq(S) /\ points \in Seq(S)
    <2>1. Archive[p].images \in Nat
      BY ImportAssumption
    <2>2. \A k \in 1..Archive[p].images : Must("statement", "saveImage", k) \in S
      BY <2>1 DEF OwnKinds
    <2>3. images \in Seq(S)
      BY <2>1, <2>2
    <2>4. /\ Must("statement", "updateInfo", 0) \in S /\ Must("statement", "saveStatement", 0) \in S
          /\ Must("statement", "enablePoints", 0) \in S /\ Must("statement", "enableGroups", 0) \in S
      BY DEF OwnKinds
    <2>5. QED
      BY <2>3, <2>4
  <1>2. \A s \in S : IsOwn(s)
    BY DEF IsOwn, Must, Step, Call, OwnKinds
  <1>3. StatementSteps(p) = When(HasStatement(p), two \o images) \o When(Archive[p].groups # <<>>, points)
    BY DEF StatementSteps
  <1> HIDE DEF images, two, points, S
  <1>4. StatementSteps(p) \in Seq(S)
    BY <1>1, <1>3 DEF When
  <1>5. QED
    BY <1>2, <1>4, SeqSet

LEMMA BeforeIs ==
  ASSUME NEW u \in Uploads
  PROVE  /\ BeforeCommit(u) \in Seq(ToSet(BeforeCommit(u)))
         /\ \A s \in ToSet(BeforeCommit(u)) : IsOwn(s) \/ s = AiStep
  <1> DEFINE p == u[2]
             S == ToSet(StatementSteps(p)) \cup {FilesStep(p), AiStep} \cup ToSet(TestsSteps(p))
                  \cup ToSet(GroupSteps(p))
  <1>0. p \in Problems
    BY DEF Uploads
  <1>1. StatementSteps(p) \in Seq(S) /\ \A s \in ToSet(StatementSteps(p)) : IsOwn(s)
    BY <1>0, StatementStepsAre, SeqWider
  <1>2. IsOwn(FilesStep(p))
    BY DEF IsOwn, FilesStep, Step, Call, OwnKinds
  <1>3. TestsSteps(p) \in Seq(S) /\ \A s \in ToSet(TestsSteps(p)) : IsOwn(s)
    <2> DEFINE all == Step("tests", "must", {Call("saveTest", k) : k \in DOMAIN Archive[p].tests})
    <2>1. IsOwn(all)
      BY DEF IsOwn, Step, Call, OwnKinds
    <2>2. TestsSteps(p) = <<>> \/ TestsSteps(p) = <<all>>
      BY DEF TestsSteps, When
    <2> HIDE DEF all
    <2>3. TestsSteps(p) \in Seq({all})
      BY <2>2, SeqShort
    <2>4. ToSet(TestsSteps(p)) \subseteq {all} /\ TestsSteps(p) \in Seq(ToSet(TestsSteps(p)))
      BY <2>3, SeqSet
    <2>5. QED
      BY <2>1, <2>4, SeqWider
  <1>4. GroupSteps(p) \in Seq(S) /\ \A s \in ToSet(GroupSteps(p)) : IsOwn(s)
    <2>1. GroupSteps(p) \in Seq(ToSet(GroupSteps(p)))
      BY <1>0, GroupStepsAre
    <2>2. \A x : IsOwn(Must("groups", "saveTestGroup", x))
      BY DEF IsOwn, Must, Step, Call, OwnKinds
    <2>3. QED
      BY <1>0, <2>1, <2>2, GroupStepsAre, SeqWider
  <1>5. When(WantsAi(u), <<AiStep>>) \in Seq(S) /\ <<FilesStep(p)>> \in Seq(S)
    <2>1. AiStep \in S /\ FilesStep(p) \in S
      OBVIOUS
    <2> HIDE DEF S
    <2>2. QED
      BY <2>1, SeqShort DEF When
  <1>6. BeforeCommit(u) = StatementSteps(p) \o <<FilesStep(p)>> \o When(WantsAi(u), <<AiStep>>) \o
                    TestsSteps(p) \o GroupSteps(p)
    BY DEF BeforeCommit
  <1>7. \A s \in S : IsOwn(s) \/ s = AiStep
    BY <1>1, <1>2, <1>3, <1>4
  <1> HIDE DEF S
  <1>8. BeforeCommit(u) \in Seq(S)
    BY <1>1, <1>3, <1>4, <1>5, <1>6
  <1>9. QED
    BY <1>7, <1>8, SeqSet

\* A plan is recognised by the place of its commit.
LEMMA PlanFrom ==
  ASSUME NEW q, NEW n \in 1..Len(q), q[n] = CommitStep, \A k \in 1..(n - 1) : q[k] \in Early,
         n = Len(q) \/ (n + 1 = Len(q) /\ q[n + 1] = BuildStep)
  PROVE  Commits(q)
  BY DEF Commits

\* One or two places more.
LEMMA RangeGrows ==
  ASSUME NEW n \in Nat, NEW m \in Nat, m = n + 1 \/ m = n + 2
  PROVE  1..n \subseteq 1..m
  OBVIOUS

\* An upload's plan is in order and holds all that is wanted of it.
LEMMA TaskIs ==
  ASSUME NEW u \in Uploads
  PROVE  /\ \A k \in 1..Len(UploadTask[u]) : \/ IsOwn(UploadTask[u][k])
                                              \/ UploadTask[u][k] \in {AiStep, CommitStep, BuildStep}
         /\ UploadTask[u] \in Seq(AllSteps) /\ UploadTask[u] # <<>> /\ Commits(UploadTask[u])
         /\ \A c \in Wanted[u] : /\ \E k \in 1..Len(UploadTask[u]) : c \in UploadTask[u][k].calls
                                 /\ Writes(c)
  <1> DEFINE b == BeforeCommit(u)
             n == Len(b)
             last == When(Asked[u[1]].build, <<BuildStep>>)
             t == UploadTask[u]
  <1>1. t = b \o <<CommitStep>> \o last
    BY DEF UploadTask, BeforeCommit, CommitStep, BuildStep
  <1>2. b \in Seq(ToSet(b)) /\ \A s \in ToSet(b) : IsOwn(s) \/ s = AiStep
    BY BeforeIs
  <1>3. last = <<>> \/ last = <<BuildStep>>
    BY DEF When
  <1>4. /\ n \in Nat /\ Len(t) \in Nat /\ t \in Seq(ToSet(b) \cup {CommitStep, BuildStep})
        /\ DOMAIN t = 1..Len(t) /\ t[n + 1] = CommitStep /\ \A k \in 1..n : t[k] = b[k]
        /\ Len(t) = n + 1 \/ (Len(t) = n + 2 /\ t[n + 2] = BuildStep)
    <2> HIDE DEF b, n, last, t
    <2> DEFINE S == ToSet(b) \cup {CommitStep, BuildStep}
    <2>1. b \in Seq(S) /\ <<CommitStep>> \in Seq(S) /\ last \in Seq(S)
      <3>1. CommitStep \in S /\ BuildStep \in S /\ ToSet(b) \subseteq S
        OBVIOUS
      <3> HIDE DEF S
      <3>2. QED
        BY <1>2, <1>3, <3>1, SeqWider, SeqShort
    <2> HIDE DEF S
    <2>2. n \in Nat /\ n = Len(b)
      BY <2>1 DEF n
    <2>3. b \o <<CommitStep>> \in Seq(S) /\ Len(b \o <<CommitStep>>) = n + 1
          /\ (b \o <<CommitStep>>)[n + 1] = CommitStep
          /\ \A k \in 1..n : (b \o <<CommitStep>>)[k] = b[k]
      BY <2>1, <2>2
    <2> DEFINE x == b \o <<CommitStep>>
    <2>4. t = x \o last
      BY <1>1
    <2>5. x \in Seq(S) /\ Len(x) = n + 1 /\ x[n + 1] = CommitStep /\ \A k \in 1..n : x[k] = b[k]
      BY <2>3
    <2> HIDE DEF x
    <2>6. /\ t \in Seq(S) /\ Len(t) = Len(x) + Len(last)
          /\ \A k \in 1..Len(x) : t[k] = x[k]
          /\ \A k \in 1..Len(last) : t[Len(x) + k] = last[k]
      <3>1. /\ x \o last \in Seq(S) /\ Len(x \o last) = Len(x) + Len(last)
            /\ \A k \in 1..Len(x) : (x \o last)[k] = x[k]
            /\ \A k \in 1..Len(last) : (x \o last)[Len(x) + k] = last[k]
        <4>1. x \in Seq(S) /\ last \in Seq(S)
          BY <2>1, <2>5
        <4>2. QED
          BY <4>1, SeqJoined
      <3>2. QED
        BY <2>4, <3>1, Zenon
    <2>7. \/ last = <<>> /\ Len(last) = 0
          \/ last = <<BuildStep>> /\ Len(last) = 1 /\ last[1] = BuildStep
      BY <1>3
    <2>8. Len(x) + 1 = n + 2 /\ Len(x) = n + 1 /\ n + 1 \in 1..Len(x) /\ 1..n \subseteq 1..Len(x)
      BY <2>2, <2>5
    <2>9. Len(t) = n + 1 \/ (Len(t) = n + 2 /\ t[n + 2] = BuildStep)
      BY <2>2, <2>6, <2>7, <2>8, SMTT(30)
    <2>10. DOMAIN t = 1..Len(t) /\ Len(t) \in Nat
      BY <2>6
    <2>11. t[n + 1] = CommitStep /\ \A k \in 1..n : t[k] = b[k]
      BY <2>5, <2>6, <2>8
    <2>12. QED
      BY <2>2, <2>6, <2>9, <2>10, <2>11 DEF S
  <1>5. \A k \in 1..n : t[k] \in Early
    <2> SUFFICES ASSUME NEW k \in 1..n
                 PROVE  t[k] \in Early
      OBVIOUS
    <2>1. b[k] \in ToSet(b) /\ t[k] = b[k]
      BY <1>2, <1>4, SeqSet
    <2>2. t[k] \in ToSet(UploadTask[u])
      <3>1. t[k] \in ToSet(t)
        <4> HIDE DEF b, n, last, t
        <4>1. n \in Nat /\ DOMAIN t = 1..Len(t) /\ Len(t) \in Nat
          BY <1>4
        <4>2. Len(t) = n + 1 \/ Len(t) = n + 2
          BY <1>4
        <4>3. 1..n \subseteq 1..Len(t)
          BY <4>1, <4>2, RangeGrows
        <4>4. k \in DOMAIN t
          BY <4>1, <4>3, Zenon
        <4>5. QED
          BY <4>4 DEF ToSet
      <3>2. QED
        BY <3>1
    <2>3. IsOwn(t[k]) \/ t[k] = AiStep
      BY <1>2, <2>1
    <2>4. QED
      BY <2>2, <2>3 DEF Early, OwnSteps, IsOwn
  <1>6. Commits(t) /\ t # <<>>
    <2> HIDE DEF b, n, last, t
    <2>0. n \in Nat /\ Len(t) \in Nat /\ (Len(t) = n + 1 \/ Len(t) = n + 2)
      BY <1>4
    <2> DEFINE m == n + 1
    <2>1. m \in 1..Len(t) /\ t[m] = CommitStep
      <3>1. m \in 1..Len(t)
        BY <2>0
      <3>2. t[m] = CommitStep
        BY <1>4
      <3>3. QED
        BY <3>1, <3>2
    <2>2. \A k \in 1..(m - 1) : t[k] \in Early
      BY <2>0, <1>5
    <2>3. m = Len(t) \/ (m + 1 = Len(t) /\ t[m + 1] = BuildStep)
      <3>1. m + 1 = n + 2
        BY <2>0
      <3>2. QED
        BY <1>4, <3>1
    <2> HIDE DEF m
    <2>4. Commits(t)
      BY <2>1, <2>2, <2>3, PlanFrom
    <2>5. QED
      BY <2>0, <2>1, <2>4
  <1>7. t \in Seq(AllSteps)
    <2>1. \A k \in 1..Len(t) : t[k] \in AllSteps
      BY <1>4, <1>5 DEF AllSteps
    <2>2. t \in Seq(ToSet(b) \cup {CommitStep, BuildStep})
      BY <1>4
    <2> HIDE DEF t
    <2>3. QED
      BY <2>1, <2>2
  <1>8. ASSUME NEW c \in Wanted[u]
        PROVE  (\E k \in 1..Len(t) : c \in t[k].calls) /\ Writes(c)
    BY <1>4 DEF Wanted, ToSet
  <1>9. ASSUME NEW k \in 1..Len(t)
        PROVE  IsOwn(t[k]) \/ t[k] \in {AiStep, CommitStep, BuildStep}
    <2>1. CASE k \in 1..n
      <3>1. b[k] \in ToSet(b) /\ t[k] = b[k]
        BY <1>2, <1>4, <2>1, SeqSet
      <3>2. QED
        BY <1>2, <3>1
    <2>2. CASE k \notin 1..n
      <3>1. k = n + 1 \/ (k = n + 2 /\ Len(t) = n + 2)
        BY <1>4, <2>2
      <3>2. QED
        BY <1>4, <3>1
    <2>3. QED
      BY <2>1, <2>2
  <1>10. QED
    BY <1>6, <1>7, <1>8, <1>9

\* A step of a part.
LEMMA SourceStepIs ==
  ASSUME NEW part \in {"checker", "validator"}, NEW kind \in SourceKinds, NEW n \in 0..2
  PROVE  Step("files", part, {Call(kind, n)}) \in SourceStepSet
  <1>1. <<part, kind, n>> \in {"checker", "validator"} \X SourceKinds \X (0..2)
    OBVIOUS
  <1>2. SourceStep(part, kind, n) \in SourceStepSet
    BY <1>1 DEF SourceStepSet
  <1>3. QED
    BY <1>2 DEF SourceStep


\* The kinds of steps are told apart by their calls.
LEMMA StepsDiffer ==
  /\ CommitStep \notin Early /\ BuildStep \notin Early /\ ListStep \notin Early
  /\ CommitStep # BuildStep /\ ListStep # CommitStep /\ ListStep # BuildStep
  /\ CommitStep.calls = {CommitCall} /\ BuildStep.calls = {BuildCall} /\ ListStep.calls = {Call("list", 0)}
  /\ CommitStep.part = "must" /\ BuildStep.part = "must" /\ ListStep.part = "must"
  /\ AiStep \in Early /\ AiStep.calls = {} /\ AiStep.part = "ai"
  /\ CreateStep(TRUE) \in Early /\ CreateStep(FALSE) \in Early
  <1>1. \A s \in OwnSteps : s.stage \notin {"commit", "build", "create"}
    BY DEF OwnSteps
  <1>2. \A s \in SourceStepSet : s.stage = "files"
    BY DEF SourceStepSet, SourceStep, Step
  <1>3. AiStep.stage = "files" /\ AiStep.calls = {} /\ AiStep.part = "ai"
    BY DEF AiStep, Step
  <1>4. CommitStep.stage = "commit" /\ BuildStep.stage = "build" /\ ListStep.stage = "create"
    BY DEF CommitStep, BuildStep, ListStep, Must, Step
  <1>5. /\ CommitStep.calls = {CommitCall} /\ BuildStep.calls = {BuildCall}
        /\ ListStep.calls = {Call("list", 0)}
        /\ CommitStep.part = "must" /\ BuildStep.part = "must" /\ ListStep.part = "must"
    BY DEF CommitStep, BuildStep, ListStep, Must, Step, CommitCall, BuildCall
  <1>6. \A f \in BOOLEAN : /\ CreateStep(f).stage = "create"
                           /\ Call("list", 0) \notin CreateStep(f).calls
    BY DEF CreateStep, Must, Step, Call
  <1>7. QED
    BY <1>1, <1>2, <1>3, <1>4, <1>5, <1>6 DEF Early

\* Which calls a step makes, and of which part it is.
LEMMA CallsAre ==
  /\ \A s \in Early : \A c \in s.calls : /\ c.kind \notin {"commitChanges", "buildPackage", "list"}
                                     /\ c # CommitCall /\ c # BuildCall
  /\ \A s \in Early : s.part # "must" => \/ s = AiStep
                                         \/ s \in SourceStepSet
  /\ \A s \in SourceStepSet : /\ s.part \in {"checker", "validator"}
                              /\ \A c \in s.calls : c.kind \in SourceKinds /\ c.item \in 0..2
  /\ \A s \in AllSteps : /\ s.stage \notin {"wait", "done", "error"}
                         /\ s \in Early \/ s \in {ListStep, CommitStep, BuildStep}
                         /\ s.calls \subseteq AllCalls
                         /\ s.part = "ai" => s = AiStep
  /\ \A c \in AllCalls : /\ c.kind = "commitChanges" => c = CommitCall
                         /\ c.kind = "buildPackage" => c = BuildCall
                         /\ c.kind = "list" => c = Call("list", 0)
  /\ CommitCall.kind = "commitChanges" /\ BuildCall.kind = "buildPackage"
  /\ CommitCall # BuildCall
  <1>1. \A s \in OwnSteps : /\ s.stage \notin {"wait", "done", "error"} /\ s.part = "must"
                            /\ \A c \in s.calls : c.kind \in OwnKinds
    BY DEF OwnSteps
  <1>2. \A s \in SourceStepSet : /\ s.stage \notin {"wait", "done", "error"}
                                 /\ s.part \in {"checker", "validator"}
                                 /\ \A c \in s.calls : c.kind \in SourceKinds /\ c.item \in 0..2
    BY DEF SourceStepSet, SourceStep, Step, Call
  <1>3. AiStep.stage = "files" /\ AiStep.calls = {} /\ AiStep.part = "ai"
    BY DEF AiStep, Step
  <1>4. \A f \in BOOLEAN : /\ CreateStep(f).stage = "create" /\ CreateStep(f).part = "must"
                           /\ \A c \in CreateStep(f).calls : c.kind \in {"create", "updateWorkingCopy"}
    BY DEF CreateStep, Must, Step, Call
  <1>5. CommitCall.kind = "commitChanges" /\ BuildCall.kind = "buildPackage" /\ Call("list", 0).kind = "list"
    BY DEF CommitCall, BuildCall, Call
  <1>6. \A s \in Early : \A c \in s.calls : c.kind \notin {"commitChanges", "buildPackage", "list"}
    BY <1>1, <1>2, <1>3, <1>4 DEF Early, OwnKinds, SourceKinds
  <1>7. \A s \in {ListStep, CommitStep, BuildStep} :
          /\ s.stage \notin {"wait", "done", "error"} /\ s.part = "must"
          /\ s.calls \in {{CommitCall}, {BuildCall}, {Call("list", 0)}}
    BY StepsDiffer DEF CommitStep, BuildStep, ListStep, Must, Step, CommitCall, BuildCall
  <1>8. \A c \in AllCalls : (\E s \in Early : c \in s.calls) \/ c \in {CommitCall, BuildCall, Call("list", 0)}
    BY <1>7 DEF AllCalls, AllSteps
  <1>9. \A s \in AllSteps : /\ s.stage \notin {"wait", "done", "error"}
                            /\ s \in Early \/ s \in {ListStep, CommitStep, BuildStep}
                            /\ s.calls \subseteq AllCalls
                            /\ s.part = "ai" => s = AiStep
    BY <1>1, <1>2, <1>3, <1>4, <1>7 DEF AllSteps, AllCalls, Early
  <1>10. \A s \in Early : s.part # "must" => s = AiStep \/ s \in SourceStepSet
    BY <1>1, <1>4 DEF Early
  <1>11. QED
    BY <1>2, <1>5, <1>6, <1>8, <1>9, <1>10

\* The kinds that write, and what an upload wants.
LEMMA WantedAre ==
  ASSUME NEW u \in Uploads, NEW c \in Wanted[u]
  PROVE  /\ c \in AllCalls /\ c.kind \in OwnKinds /\ Writes(c) /\ Saved(c) = c
         /\ c # CommitCall /\ c # BuildCall /\ c # Call("list", 0)
         /\ \A s \in AllSteps : c \in s.calls => s \in Early
         /\ \A s \in Early : c \in s.calls => s.part = "must"
  <1>1. UploadTask[u] \in Seq(AllSteps) /\ Writes(c)
        /\ \E k \in 1..Len(UploadTask[u]) : c \in UploadTask[u][k].calls
    BY TaskIs
  <1>2. PICK s \in AllSteps : c \in s.calls /\ s \in ToSet(UploadTask[u])
    BY <1>1 DEF ToSet
  <1>3. c.kind \notin {"commitChanges", "buildPackage", "list", "create", "updateWorkingCopy"}
    BY <1>1 DEF Writes, ReadsOnly
  <1>4. CommitCall.kind = "commitChanges" /\ BuildCall.kind = "buildPackage" /\ Call("list", 0).kind = "list"
    BY DEF CommitCall, BuildCall, Call
  <1>5. \A t \in AllSteps : c \in t.calls => t \in Early
    BY <1>3, <1>4, CallsAre, StepsDiffer
  <1>6. ASSUME NEW t \in ToSet(UploadTask[u]), c \in t.calls
        PROVE  IsOwn(t)
    <2>1. PICK k \in 1..Len(UploadTask[u]) : UploadTask[u][k] = t
      BY <1>1, <1>6 DEF ToSet
    <2>2. QED
      BY <2>1, <1>3, <1>4, <1>6, TaskIs, StepsDiffer
  <1>7. c.kind \in OwnKinds
    BY <1>2, <1>6 DEF IsOwn
  <1>8. Saved(c) = c
    BY <1>7 DEF Saved, OwnKinds
  <1>9. \A t \in Early : c \in t.calls => t.part = "must"
    <2> SUFFICES ASSUME NEW t \in Early, c \in t.calls, t.part # "must"
                 PROVE  FALSE
      OBVIOUS
    <2>1. t \in SourceStepSet
      BY CallsAre, StepsDiffer
    <2>2. c.kind \in SourceKinds
      BY <2>1, CallsAre
    <2>3. QED
      BY <2>2, <1>7 DEF OwnKinds, SourceKinds
  <1>10. QED
    BY <1>1, <1>2, <1>3, <1>4, <1>5, <1>7, <1>8, <1>9, CallsAre

\* Plans.
LEMMA CommitsJoined ==
  ASSUME NEW a \in Seq(Early), NEW q \in Seq(AllSteps), Commits(q)
  PROVE  /\ a \o q \in Seq(AllSteps) /\ Commits(a \o q)
         /\ \A k \in 1..Len(q) : Len(a) + k \in 1..Len(a \o q) /\ (a \o q)[Len(a) + k] = q[k]
  <1> DEFINE j == a \o q
             m == Len(a)
  <1>1. a \in Seq(AllSteps)
    BY SeqWider DEF AllSteps
  <1>2. /\ j \in Seq(AllSteps) /\ Len(j) = m + Len(q)
        /\ \A k \in 1..m : j[k] = a[k]
        /\ \A k \in 1..Len(q) : j[m + k] = q[k]
    BY <1>1, SeqJoined
  <1>3. m \in Nat /\ Len(q) \in Nat /\ \A k \in 1..m : a[k] \in Early
    OBVIOUS
  <1>4. PICK n \in 1..Len(q) : /\ q[n] = CommitStep /\ \A k \in 1..(n - 1) : q[k] \in Early
                               /\ n = Len(q) \/ (n + 1 = Len(q) /\ q[n + 1] = BuildStep)
    BY DEF Commits
  <1> HIDE DEF j, m
  <1> DEFINE l == m + n
  <1>5. l \in 1..Len(j) /\ j[l] = CommitStep
    BY <1>2, <1>3, <1>4
  <1>6. \A k \in 1..(l - 1) : j[k] \in Early
    <2> SUFFICES ASSUME NEW k \in 1..(l - 1)
                 PROVE  j[k] \in Early
      OBVIOUS
    <2>1. CASE k \in 1..m
      BY <1>2, <1>3, <2>1
    <2>2. CASE k \notin 1..m
      <3>1. k - m \in 1..(n - 1) /\ k - m \in 1..Len(q) /\ m + (k - m) = k
        BY <1>3, <2>2
      <3>2. j[k] = q[k - m]
        BY <1>2, <3>1
      <3>3. QED
        BY <1>4, <3>1, <3>2
    <2>3. QED
      BY <2>1, <2>2
  <1>7. l = Len(j) \/ (l + 1 = Len(j) /\ j[l + 1] = BuildStep)
    <2>1. CASE n = Len(q)
      BY <1>2, <1>3, <2>1
    <2>2. CASE n + 1 = Len(q) /\ q[n + 1] = BuildStep
      <3>1. n + 1 \in 1..Len(q) /\ m + (n + 1) = l + 1
        BY <1>3, <2>2
      <3>2. j[l + 1] = q[n + 1]
        BY <1>2, <3>1
      <3>3. l + 1 = Len(j)
        <4>1. Len(j) = m + Len(q) /\ n \in Nat /\ m \in Nat /\ Len(q) = n + 1
          BY <1>2, <1>3, <2>2
        <4>2. QED
          BY <4>1
      <3>4. QED
        BY <2>2, <3>2, <3>3
    <2>3. QED
      BY <1>4, <2>1, <2>2
  <1> HIDE DEF l
  <1>8. Commits(j)
    BY <1>5, <1>6, <1>7, PlanFrom
  <1>9. \A k \in 1..Len(q) : m + k \in 1..Len(j) /\ j[m + k] = q[k]
    BY <1>2, <1>3
  <1>10. QED
    BY <1>2, <1>8, <1>9 DEF j, m

\* A plan loses its first step.
LEMMA CommitsTail ==
  ASSUME NEW q \in Seq(AllSteps), Commits(q)
  PROVE  /\ q # <<>> /\ q[1] \in Early \cup {CommitStep}
         /\ q[1] \in Early => Commits(Tail(q)) /\ Len(q) > 1
         /\ q[1] = CommitStep => \/ Len(q) = 1
                                 \/ Len(q) > 1 /\ Tail(q) = <<BuildStep>>
  <1>1. PICK n \in 1..Len(q) : /\ q[n] = CommitStep /\ \A k \in 1..(n - 1) : q[k] \in Early
                               /\ n = Len(q) \/ (n + 1 = Len(q) /\ q[n + 1] = BuildStep)
    BY DEF Commits
  <1>2. Len(q) \in Nat /\ q # <<>> /\ 1 \in 1..Len(q)
    BY <1>1
  <1> DEFINE t == Tail(q)
  <1>3. t \in Seq(AllSteps) /\ Len(t) = Len(q) - 1 /\ \A k \in 1..(Len(q) - 1) : t[k] = q[k + 1]
    BY <1>2, TailIs
  <1> HIDE DEF t
  <1>4. CASE n = 1
    <2>1. q[1] = CommitStep /\ q[1] \notin Early
      BY <1>1, <1>4, StepsDiffer
    <2>2. CASE Len(q) = 1
      BY <1>2, <2>1, <2>2
    <2>3. CASE Len(q) = 2 /\ q[2] = BuildStep
      <3>1. Len(t) = 1 /\ t[1] = BuildStep
        BY <1>3, <2>3
      <3>2. t = <<BuildStep>>
        BY <1>3, <3>1
      <3>3. QED
        BY <1>2, <2>1, <2>3, <3>2 DEF t
    <2>4. QED
      BY <1>1, <1>4, <2>2, <2>3
  <1>5. CASE n > 1
    <2> DEFINE l == n - 1
    <2>1. q[1] \in Early /\ q[1] # CommitStep
      BY <1>1, <1>5, StepsDiffer
    <2>2. l \in 1..Len(t) /\ t[l] = CommitStep
      BY <1>1, <1>3, <1>5
    <2>3. \A k \in 1..(l - 1) : t[k] \in Early
      BY <1>1, <1>2, <1>3, <1>5
    <2>4. l = Len(t) \/ (l + 1 = Len(t) /\ t[l + 1] = BuildStep)
      <3>1. CASE n = Len(q)
        BY <1>2, <1>3, <1>5, <3>1
      <3>2. CASE n + 1 = Len(q) /\ q[n + 1] = BuildStep
        <4>1. l + 1 \in 1..(Len(q) - 1) /\ l + 1 + 1 = n + 1 /\ l + 1 = Len(t)
          BY <1>2, <1>3, <1>5, <3>2
        <4>2. QED
          BY <1>3, <3>2, <4>1
      <3>3. QED
        BY <1>1, <3>1, <3>2
    <2> HIDE DEF l
    <2>5. Commits(t)
      BY <2>2, <2>3, <2>4, PlanFrom
    <2>6. QED
      BY <1>1, <1>2, <1>5, <2>1, <2>5 DEF t
  <1>6. QED
    BY <1>1, <1>4, <1>5

\* What is left when a part is dropped is still a plan with all the rest.
LEMMA CommitsDropped ==
  ASSUME NEW q \in Seq(AllSteps), Commits(q), NEW part, part # "must"
  PROVE  /\ FromNextPart(q, part) \in Seq(AllSteps) /\ Commits(FromNextPart(q, part))
         /\ \A k \in 1..Len(q) : q[k].part = "must" =>
              \E j \in 1..Len(FromNextPart(q, part)) : FromNextPart(q, part)[j] = q[k]
  <1>1. PICK n \in 1..Len(q) : /\ q[n] = CommitStep /\ \A k \in 1..(n - 1) : q[k] \in Early
                               /\ n = Len(q) \/ (n + 1 = Len(q) /\ q[n + 1] = BuildStep)
    BY DEF Commits
  <1> DEFINE S == {k \in DOMAIN q : q[k].part # part}
             m == Min(S)
             f == FromNextPart(q, part)
  <1>2. Len(q) \in Nat /\ DOMAIN q = 1..Len(q)
    OBVIOUS
  <1>3. S \in SUBSET Nat /\ IsFiniteSet(S)
    <2>1. S \in SUBSET (1..Len(q)) /\ IsFiniteSet(1..Len(q))
      BY <1>2, FS_Interval
    <2>2. IsFiniteSet(S)
      BY <2>1, FS_Subset
    <2>3. S \in SUBSET Nat
      BY <2>1
    <2>4. QED
      BY <2>2, <2>3
  <1>4. n \in S
    BY <1>1, <1>2, StepsDiffer
  <1>5. m \in S /\ \A y \in S : m <= y
    BY <1>3, <1>4, MinIsLeast
  <1>6. f = SubSeq(q, m, Len(q))
    BY DEF FromNextPart
  <1>7. m \in 1..n /\ m \in 1..Len(q) /\ \A k \in 1..Len(q) : q[k].part = "must" => k >= m
    BY <1>2, <1>4, <1>5
  <1> HIDE DEF S, m, f
  <1>8. /\ f \in Seq(AllSteps) /\ Len(f) = Len(q) - m + 1
        /\ \A k \in 1..(Len(q) - m + 1) : f[k] = q[m + k - 1]
    <2>1. m \in 1..(Len(q) + 1) /\ Len(q) \in (m - 1)..Len(q)
      BY <1>2, <1>7
    <2>2. QED
      BY <1>2, <1>6, <1>7, <2>1
  <1> DEFINE l == n - m + 1
  <1>9. l \in 1..Len(f) /\ m + l - 1 = n
    <2>1. Len(f) = Len(q) - m + 1 /\ n \in 1..Len(q) /\ m \in 1..n /\ Len(q) \in Nat
      BY <1>2, <1>7, <1>8
    <2>2. QED
      BY <2>1
  <1>10. f[l] = CommitStep
    <2>1. l \in 1..(Len(q) - m + 1)
      BY <1>8, <1>9
    <2>2. f[l] = q[m + l - 1]
      BY <1>8, <2>1
    <2>3. QED
      BY <1>1, <1>9, <2>2
  <1>11. \A k \in 1..(l - 1) : f[k] \in Early
    <2> SUFFICES ASSUME NEW k \in 1..(l - 1)
                 PROVE  f[k] \in Early
      OBVIOUS
    <2>1. k \in 1..(Len(q) - m + 1) /\ m + k - 1 \in 1..(n - 1)
      BY <1>2, <1>7
    <2>2. f[k] = q[m + k - 1]
      BY <1>8, <2>1
    <2>3. QED
      BY <1>1, <2>1, <2>2
  <1>12. l = Len(f) \/ (l + 1 = Len(f) /\ f[l + 1] = BuildStep)
    <2>1. CASE n = Len(q)
      BY <1>2, <1>7, <1>8, <2>1
    <2>2. CASE n + 1 = Len(q) /\ q[n + 1] = BuildStep
      <3>1. l + 1 = Len(f) /\ m + (l + 1) - 1 = n + 1 /\ l + 1 \in 1..(Len(q) - m + 1)
        BY <1>2, <1>7, <1>8, <2>2
      <3>2. QED
        BY <1>8, <2>2, <3>1
    <2>3. QED
      BY <1>1, <2>1, <2>2
  <1>13. Commits(f)
    <2> HIDE DEF l
    <2>1. QED
      BY <1>9, <1>10, <1>11, <1>12, PlanFrom
  <1>14. ASSUME NEW k \in 1..Len(q), q[k].part = "must"
         PROVE  \E j \in 1..Len(f) : f[j] = q[k]
    <2>1. k - m + 1 \in 1..Len(f) /\ m + (k - m + 1) - 1 = k
      BY <1>2, <1>7, <1>8, <1>14
    <2>2. f[k - m + 1] = q[k]
      BY <1>8, <2>1
    <2>3. QED
      BY <2>1, <2>2
  <1>15. QED
    BY <1>8, <1>13, <1>14 DEF f

\* A record of an upload, field by field.
LEMMA RecordIs ==
  ASSUME NEW r \in Records
  PROVE  /\ r.todo \in Seq(AllSteps) /\ r.busy \subseteq AllCalls \X Nat
         /\ r.failed \in BOOLEAN /\ r.ended \in BOOLEAN
         /\ \A b \in SUBSET (AllCalls \X Nat) :
              /\ [r EXCEPT !.busy = b] \in Records
              /\ [r EXCEPT !.busy = b].busy = b /\ [r EXCEPT !.busy = b].todo = r.todo
              /\ [r EXCEPT !.busy = b].failed = r.failed /\ [r EXCEPT !.busy = b].ended = r.ended
              /\ [r EXCEPT !.busy = b].stage = r.stage
         /\ \A t \in Seq(AllSteps) :
              /\ [r EXCEPT !.todo = t] \in Records
              /\ [r EXCEPT !.todo = t].todo = t /\ [r EXCEPT !.todo = t].busy = r.busy
              /\ [r EXCEPT !.todo = t].failed = r.failed /\ [r EXCEPT !.todo = t].ended = r.ended
              /\ [r EXCEPT !.todo = t].stage = r.stage
         /\ \A f \in BOOLEAN :
              /\ [r EXCEPT !.failed = f] \in Records
              /\ [r EXCEPT !.failed = f].failed = f /\ [r EXCEPT !.failed = f].busy = r.busy
              /\ [r EXCEPT !.failed = f].todo = r.todo /\ [r EXCEPT !.failed = f].ended = r.ended
              /\ [r EXCEPT !.failed = f].stage = r.stage
  BY DEF Records

LEMMA BusyRecord ==
  ASSUME NEW r \in Records, NEW b \in SUBSET (AllCalls \X Nat)
  PROVE  /\ [r EXCEPT !.busy = b] \in Records
         /\ [r EXCEPT !.busy = b].busy = b /\ [r EXCEPT !.busy = b].todo = r.todo
         /\ [r EXCEPT !.busy = b].failed = r.failed /\ [r EXCEPT !.busy = b].ended = r.ended
         /\ [r EXCEPT !.busy = b].stage = r.stage
  BY DEF Records

\* The next step is taken: all of its calls are made.
LEMMA TookIs ==
  ASSUME NEW r \in Records, NEW steps \in Seq(AllSteps), steps # <<>>
  PROVE  /\ Took(r, steps) \in Records
         /\ Took(r, steps).todo = steps /\ Took(r, steps).busy = {<<c, 1>> : c \in steps[1].calls}
         /\ Took(r, steps).failed = r.failed /\ Took(r, steps).ended = r.ended
         /\ Took(r, steps).stage \notin {"wait", "done", "error"}
         /\ \A k \in 1..Len(steps) : \A c \in steps[k].calls : Left(Took(r, steps), c)
  <1> DEFINE t == Took(r, steps)
             b == {<<c, 1>> : c \in steps[1].calls}
  <1>1. steps[1] \in AllSteps /\ Len(steps) \in Nat /\ 1 \in 1..Len(steps)
    OBVIOUS
  <1>2. b \subseteq AllCalls \X Nat
    BY <1>1, CallsAre
  <1>3. steps[1].stage \in {"create", "statement", "files", "tests", "groups", "commit", "build"}
    <2>1. \A s \in OwnSteps : s.stage \in {"statement", "files", "tests", "groups"}
      BY DEF OwnSteps
    <2>2. \A s \in SourceStepSet \cup {AiStep} : s.stage = "files"
      BY DEF SourceStepSet, SourceStep, AiStep, Step
    <2>3. \A s \in {CreateStep(TRUE), CreateStep(FALSE), ListStep, CommitStep, BuildStep} :
            s.stage \in {"create", "commit", "build"}
      BY DEF CreateStep, ListStep, CommitStep, BuildStep, Must, Step
    <2>4. QED
      BY <1>1, <2>1, <2>2, <2>3 DEF AllSteps, Early
  <1>4. t = [[[r EXCEPT !.stage = steps[1].stage] EXCEPT !.todo = steps] EXCEPT !.busy = b]
    BY DEF Took
  <1> HIDE DEF b
  <1>5. /\ t \in Records /\ t.todo = steps /\ t.busy = b /\ t.failed = r.failed /\ t.ended = r.ended
        /\ t.stage = steps[1].stage
    BY <1>2, <1>3, <1>4 DEF Records
  <1> HIDE DEF t
  <1>6. ASSUME NEW k \in 1..Len(steps), NEW c \in steps[k].calls
        PROVE  Left(t, c)
    <2>1. CASE k = 1
      <3>1. <<c, 1>> \in t.busy
        BY <1>5, <1>6, <2>1 DEF b
      <3>2. <<c, 1>>[1] = c
        OBVIOUS
      <3>3. QED
        BY <3>1, <3>2 DEF Left
    <2>2. CASE k # 1
      <3>1. k \in 2..Len(t.todo) /\ c \in t.todo[k].calls
        BY <1>1, <1>5, <1>6, <2>2
      <3>2. QED
        BY <3>1 DEF Left
    <2>3. QED
      BY <2>1, <2>2
  <1>7. QED
    BY <1>3, <1>5, <1>6 DEF b, t

\* Steps taken from a plan are under way.
LEMMA TookGoes ==
  ASSUME NEW r \in Records, ~r.ended, ~r.failed, NEW steps \in Seq(AllSteps), InPlan(steps)
  PROVE  Going(Took(r, steps)) /\ Took(r, steps).todo = steps /\ ~Took(r, steps).failed
         /\ \A k \in 1..Len(steps) : \A c \in steps[k].calls : Left(Took(r, steps), c)
  <1>1. steps # <<>>
    <2>1. CASE steps = <<BuildStep>>
      BY <2>1
    <2>2. CASE Commits(steps)
      BY <2>2, CommitsTail
    <2>3. QED
      BY <2>1, <2>2 DEF InPlan
  <1> DEFINE t == Took(r, steps)
  <1>2. /\ t \in Records /\ t.todo = steps /\ t.busy = {<<c, 1>> : c \in steps[1].calls}
        /\ t.failed = r.failed /\ t.ended = r.ended
        /\ t.stage \notin {"wait", "done", "error"}
        /\ \A k \in 1..Len(steps) : \A c \in steps[k].calls : Left(t, c)
    BY <1>1, TookIs
  <1> HIDE DEF t
  <1>3. \A x \in t.busy : x[1] \in t.todo[1].calls
    BY <1>2
  <1>4. \A x, y \in t.busy : x[1] = y[1] => x = y
    BY <1>2
  <1>5. Going(t)
    BY <1>1, <1>2, <1>3, <1>4 DEF Going
  <1>6. QED
    BY <1>2, <1>5 DEF t

\* The steps of an answer of the AI service.
LEMMA AiStepsAre ==
  ASSUME NEW answer \in AiResults
  PROVE  AiSteps(answer) \in Seq(Early)
  <1>2. ASSUME NEW n \in 1..2, NEW how
        PROVE  SourceSteps(n, how) \in Seq(Early)
    <2> DEFINE save == Step("files", Sources[n], {Call("saveSource", n)})
               set == Step("files", Sources[n], {Call("set", n)})
    <2>1. Sources[n] \in {"checker", "validator"}
      BY DEF Sources
    <2>2. save \in SourceStepSet /\ set \in SourceStepSet
      <3>1. "saveSource" \in SourceKinds /\ "set" \in SourceKinds
        BY DEF SourceKinds
      <3>2. n \in 0..2
        OBVIOUS
      <3>3. QED
        BY <2>1, <3>1, <3>2, SourceStepIs
    <2>3. save \in Early /\ set \in Early
      BY <2>2 DEF Early
    <2>4. SourceSteps(n, how) = When(how = "code", <<save>>) \o When(how # "none", <<set>>)
      BY DEF SourceSteps
    <2> HIDE DEF save, set
    <2> DEFINE one == When(how = "code", <<save>>)
               two == When(how # "none", <<set>>)
    <2>5. one \in Seq(Early) /\ two \in Seq(Early)
      BY <2>3, SeqShort DEF When
    <2> HIDE DEF one, two
    <2>6. one \o two \in Seq(Early)
      BY <2>5, SeqJoined
    <2>7. QED
      BY <2>4, <2>6 DEF one, two
  <1>4. SourceSteps(1, AiService[answer][1]) \in Seq(Early) /\ SourceSteps(2, AiService[answer][2]) \in Seq(Early)
    <2>1. 1 \in 1..2 /\ 2 \in 1..2
      OBVIOUS
    <2>2. QED
      BY <1>2, <2>1
  <1>5. QED
    BY <1>4, SeqJoined DEF AiSteps

\* The next step of a plan, with the answer of the AI service if it is there.
LEMMA BeginIs ==
  ASSUME NEW r \in Records, ~r.ended, ~r.failed, NEW steps \in Seq(AllSteps), InPlan(steps), NEW answer
  PROVE  /\ Going(Begin(r, steps, answer)) /\ ~Begin(r, steps, answer).failed
         /\ Begin(r, steps, answer).todo # <<ListStep>>
         /\ \A k \in 1..Len(steps) : \A c \in steps[k].calls : Left(Begin(r, steps, answer), c)
         /\ Begin(r, steps, answer).todo[1] = BuildStep => steps[1] = BuildStep
  <1>0. \A q \in Seq(AllSteps) : InPlan(q) => q # <<ListStep>>
    <2> SUFFICES ASSUME NEW q \in Seq(AllSteps), InPlan(q), q = <<ListStep>>
                 PROVE  FALSE
      OBVIOUS
    <2>1. q[1] = ListStep
      OBVIOUS
    <2>2. q[1] # BuildStep
      BY <2>1, StepsDiffer
    <2>3. Commits(q)
      BY <2>2 DEF InPlan
    <2>4. QED
      BY <2>1, <2>3, CommitsTail, StepsDiffer
  <1>1. CASE ~(steps[1].part = "ai" /\ Ready(answer))
    <2> DEFINE t == Took(r, steps)
    <2>1. Begin(r, steps, answer) = t
      BY <1>1 DEF Begin
    <2>2. /\ Going(t) /\ t.todo = steps /\ ~t.failed
          /\ \A k \in 1..Len(steps) : \A c \in steps[k].calls : Left(t, c)
      BY TookGoes
    <2>3. steps # <<ListStep>>
      BY <1>0
    <2> HIDE DEF t
    <2>4. QED
      BY <2>1, <2>2, <2>3
  <1>2. CASE steps[1].part = "ai" /\ Ready(answer)
    <2> DEFINE a == AiSteps(answer)
               q == Tail(steps)
    <2>1. steps[1] # BuildStep /\ steps[1] # CommitStep
      BY <1>2, StepsDiffer
    <2>2. Commits(steps)
      BY <2>1 DEF InPlan
    <2>3. steps # <<>> /\ steps[1] \in Early /\ Commits(q) /\ Len(steps) > 1
      BY <2>1, <2>2, CommitsTail
    <2>4. q \in Seq(AllSteps) /\ Len(q) = Len(steps) - 1 /\ \A k \in 1..(Len(steps) - 1) : q[k] = steps[k + 1]
      BY <2>3, TailIs
    <2>5. a \in Seq(Early)
      BY <1>2, AiStepsAre DEF Ready
    <2> HIDE DEF a, q
    <2>6. /\ a \o q \in Seq(AllSteps) /\ Commits(a \o q)
          /\ \A k \in 1..Len(q) : Len(a) + k \in 1..Len(a \o q) /\ (a \o q)[Len(a) + k] = q[k]
      BY <2>3, <2>4, <2>5, CommitsJoined
    <2>7. Begin(r, steps, answer) = Took(r, a \o q)
      BY <1>2 DEF Begin, a, q
    <2> DEFINE t == Took(r, a \o q)
    <2>8. /\ Going(t) /\ t.todo = a \o q /\ ~t.failed
          /\ \A k \in 1..Len(a \o q) : \A c \in (a \o q)[k].calls : Left(t, c)
      BY <2>6, TookGoes DEF InPlan
    <2> HIDE DEF t
    <2>9. steps[1] = AiStep
      <3>1. steps[1] \in AllSteps
        BY <2>3 DEF AllSteps
      <3>2. QED
        BY <1>2, <3>1, CallsAre
    <2>10. ASSUME NEW k \in 1..Len(steps), NEW c \in steps[k].calls
           PROVE  Left(t, c)
      <3>1. k # 1
        BY <2>9, <2>10, StepsDiffer
      <3>2. k - 1 \in 1..Len(q) /\ k - 1 \in 1..(Len(steps) - 1) /\ (k - 1) + 1 = k
        BY <2>4, <3>1
      <3>3. q[k - 1] = steps[k]
        BY <2>4, <3>2
      <3>4. (a \o q)[Len(a) + (k - 1)] = q[k - 1] /\ Len(a) + (k - 1) \in 1..Len(a \o q)
        BY <2>6, <3>2
      <3>5. QED
        BY <2>8, <2>10, <3>3, <3>4
    <2>11. t.todo[1] # BuildStep
      BY <2>6, <2>8, CommitsTail, StepsDiffer
    <2>12. t.todo # <<ListStep>>
      BY <1>0, <2>6, <2>8 DEF InPlan
    <2>13. QED
      BY <2>7, <2>8, <2>10, <2>11, <2>12 DEF t
  <1>3. QED
    BY <1>1, <1>2

\* Between a call and the next step: the list of problems has come and the plan is
\* known, or it did not come, or the plan is under way.
Paused(r) ==
    /\ r \in Records /\ r.todo # <<>> /\ ~r.ended /\ r.stage \notin {"wait", "done", "error"}
    /\ \A x \in r.busy : x[1] \in r.todo[1].calls
    /\ \A x, y \in r.busy : x[1] = y[1] => x = y
    /\ \/ /\ r.todo[1] = ListStep /\ r.busy = {}
          /\ r.failed \/ (Len(r.todo) > 1 /\ Commits(Tail(r.todo)))
       \/ /\ InPlan(r.todo)
          /\ r.failed => /\ r.todo[1] # AiStep
                         /\ r.todo[1] \in {CommitStep, BuildStep} => r.busy = {}

\* A plan of several steps without its first.
LEMMA PlanTail ==
  ASSUME NEW q \in Seq(AllSteps), InPlan(q), Len(q) # 1
  PROVE  /\ q # <<>> /\ Len(q) > 1 /\ Tail(q) \in Seq(AllSteps) /\ InPlan(Tail(q))
         /\ Tail(q)[1] = BuildStep => q[1] = CommitStep
  <1>1. q # <<BuildStep>>
    OBVIOUS
  <1>2. Commits(q)
    BY <1>1 DEF InPlan
  <1>3. q # <<>> /\ q[1] \in Early \cup {CommitStep}
    BY <1>2, CommitsTail
  <1>4. Tail(q) \in Seq(AllSteps)
    BY <1>3, TailIs
  <1>5. CASE q[1] \in Early
    <2>1. Commits(Tail(q)) /\ Len(q) > 1
      BY <1>2, <1>5, CommitsTail
    <2>2. Tail(q)[1] # BuildStep
      BY <1>4, <2>1, CommitsTail, StepsDiffer
    <2>3. QED
      BY <1>3, <1>4, <2>1, <2>2 DEF InPlan
  <1>6. CASE q[1] = CommitStep
    <2>1. Len(q) > 1 /\ Tail(q) = <<BuildStep>>
      BY <1>2, <1>6, CommitsTail
    <2>2. QED
      BY <1>3, <1>4, <1>6, <2>1 DEF InPlan
  <1>7. QED
    BY <1>3, <1>5, <1>6

\* What the upload goes on with (n).
GoesOnAs(r, n) ==
    /\ n \in Records
    /\ n.ended => /\ n.busy = {}
                  /\ n.stage = "done" => ~r.failed /\ r.busy = {} /\ r.todo[1] \in {CommitStep, BuildStep}
    /\ ~n.ended => /\ Going(n) /\ n.todo # <<ListStep>> /\ n.failed = r.failed
                   /\ ~n.failed => \A c \in AllCalls : Left(r, c) => Left(n, c)
                   /\ n.todo[1] = BuildStep =>
                        \/ r.todo[1] = BuildStep
                        \/ r.todo[1] = CommitStep /\ r.busy = {} /\ ~r.failed
    /\ r.busy = {} /\ r.todo[1] = BuildStep => n.ended
    /\ r.busy = {} /\ r.failed => n.ended

LEMMA AdvanceIs ==
  ASSUME NEW r, Paused(r), NEW answer
  PROVE  GoesOnAs(r, Advance(r, answer))
  <1> DEFINE n == Advance(r, answer)
  <1>1. /\ r \in Records /\ r.todo # <<>> /\ ~r.ended /\ r.stage \notin {"wait", "done", "error"}
        /\ \A x \in r.busy : x[1] \in r.todo[1].calls
        /\ \A x, y \in r.busy : x[1] = y[1] => x = y
        /\ r.todo \in Seq(AllSteps) /\ Len(r.todo) \in Nat /\ Len(r.todo) >= 1
    BY RecordIs DEF Paused
  <1>2. \A q \in Seq(AllSteps) : InPlan(q) => q[1] # ListStep
    <2> SUFFICES ASSUME NEW q \in Seq(AllSteps), InPlan(q)
                 PROVE  q[1] # ListStep
      OBVIOUS
    <2>1. CASE q = <<BuildStep>>
      BY <2>1, StepsDiffer
    <2>2. CASE Commits(q)
      BY <2>2, CommitsTail, StepsDiffer
    <2>3. QED
      BY <2>1, <2>2 DEF InPlan
  <1>3. CASE r.busy # {}
    <2>1. n = r
      BY <1>3 DEF Advance
    <2>2. InPlan(r.todo) /\ (r.failed => r.todo[1] \notin {CommitStep, BuildStep, AiStep})
      BY <1>3 DEF Paused
    <2>3. r.todo # <<ListStep>>
      <3>1. r.todo[1] # ListStep
        BY <1>1, <1>2, <2>2
      <3>2. QED
        BY <3>1
    <2>4. Going(r)
      BY <1>1, <2>2 DEF Going
    <2>5. QED
      BY <1>1, <1>3, <2>1, <2>3, <2>4 DEF GoesOnAs
  <1>4. CASE r.busy = {} /\ r.failed
    <2>1. n = [[r EXCEPT !.todo = <<>>] EXCEPT !.ended = TRUE]
      BY <1>4 DEF Advance
    <2>2. n \in Records /\ n.ended /\ n.busy = {} /\ n.stage = r.stage
      <3>1. <<>> \in Seq(AllSteps)
        BY SeqShort
      <3>2. QED
        BY <1>1, <1>4, <2>1, <3>1 DEF Records
    <2>3. QED
      BY <1>1, <1>4, <2>2 DEF GoesOnAs
  <1>5. CASE r.busy = {} /\ ~r.failed /\ Len(r.todo) = 1
    <2>1. n = [[[r EXCEPT !.stage = "done"] EXCEPT !.todo = <<>>] EXCEPT !.ended = TRUE]
      BY <1>5 DEF Advance
    <2>2. n \in Records /\ n.ended /\ n.busy = {} /\ n.stage = "done"
      <3>1. <<>> \in Seq(AllSteps)
        BY SeqShort
      <3>2. QED
        BY <1>1, <1>5, <2>1, <3>1 DEF Records
    <2>3. InPlan(r.todo)
      BY <1>5 DEF Paused
    <2>4. r.todo[1] \in {CommitStep, BuildStep}
      <3>1. CASE r.todo = <<BuildStep>>
        BY <3>1
      <3>2. CASE Commits(r.todo)
        <4>1. r.todo[1] \in Early \cup {CommitStep} /\ (r.todo[1] \in Early => Len(r.todo) > 1)
          BY <1>1, <3>2, CommitsTail
        <4>2. QED
          BY <1>5, <4>1
      <3>3. QED
        BY <2>3, <3>1, <3>2 DEF InPlan
    <2>5. QED
      BY <1>5, <2>2, <2>4 DEF GoesOnAs
  <1>6. CASE r.busy = {} /\ ~r.failed /\ Len(r.todo) # 1
    <2> DEFINE t == Tail(r.todo)
    <2>1. n = Begin(r, t, answer)
      BY <1>6 DEF Advance
    <2>2. /\ t \in Seq(AllSteps) /\ InPlan(t)
          /\ t[1] = BuildStep => r.todo[1] = CommitStep
          /\ r.todo[1] # BuildStep
      <3>1. CASE r.todo[1] = ListStep
        <4>1. Commits(t)
          BY <1>1, <1>2, <1>6, <3>1 DEF Paused
        <4>2. t \in Seq(AllSteps)
          BY <1>1, TailIs
        <4>3. t[1] # BuildStep
          BY <4>1, <4>2, CommitsTail, StepsDiffer
        <4>4. QED
          BY <3>1, <4>1, <4>2, <4>3, StepsDiffer DEF InPlan
      <3>2. CASE r.todo[1] # ListStep
        <4>1. InPlan(r.todo)
          BY <3>2 DEF Paused
        <4>2. r.todo[1] # BuildStep
          <5>1. r.todo # <<BuildStep>>
            BY <1>6
          <5>2. Commits(r.todo)
            BY <4>1, <5>1 DEF InPlan
          <5>3. QED
            BY <1>1, <5>2, CommitsTail, StepsDiffer
        <4>3. QED
          BY <1>1, <1>6, <4>1, <4>2, PlanTail
      <3>3. QED
        BY <3>1, <3>2
    <2>3. Len(t) = Len(r.todo) - 1 /\ \A k \in 1..(Len(r.todo) - 1) : t[k] = r.todo[k + 1]
      BY <1>1, TailIs
    <2> HIDE DEF t
    <2>4. /\ Going(n) /\ ~n.failed /\ n.todo # <<ListStep>>
          /\ \A k \in 1..Len(t) : \A c \in t[k].calls : Left(n, c)
          /\ n.todo[1] = BuildStep => t[1] = BuildStep
      BY <1>1, <1>6, <2>1, <2>2, BeginIs
    <2>5. ASSUME NEW c \in AllCalls, Left(r, c)
          PROVE  Left(n, c)
      <3>1. PICK k \in 2..Len(r.todo) : c \in r.todo[k].calls
        BY <1>6, <2>5 DEF Left
      <3>2. k - 1 \in 1..Len(t) /\ k - 1 \in 1..(Len(r.todo) - 1) /\ (k - 1) + 1 = k
        BY <1>1, <2>3
      <3>3. t[k - 1] = r.todo[k]
        BY <2>3, <3>2
      <3>4. QED
        BY <2>4, <3>1, <3>2, <3>3
    <2>6. ~n.ended /\ n \in Records
      BY <2>4 DEF Going
    <2>7. n.todo[1] = BuildStep => r.todo[1] = CommitStep
      BY <2>2, <2>4
    <2> HIDE DEF n
    <2>8. n.failed = r.failed
      <3>1. n.failed \in BOOLEAN /\ r.failed \in BOOLEAN
        BY <1>1, <2>6, RecordIs
      <3>2. QED
        BY <1>6, <2>4, <3>1
    <2>9. /\ Going(n) /\ n.todo # <<ListStep>> /\ n.failed = r.failed
          /\ \A c \in AllCalls : Left(r, c) => Left(n, c)
          /\ n.todo[1] = BuildStep => r.todo[1] = CommitStep /\ r.busy = {} /\ ~r.failed
      BY <1>6, <2>4, <2>5, <2>7, <2>8
    <2>10. r.todo[1] # BuildStep /\ ~r.failed /\ n \in Records /\ ~n.ended
      BY <1>6, <2>2, <2>6
    <2>11. GoesOnAs(r, n)
      BY <2>9, <2>10 DEF GoesOnAs
    <2>12. QED
      BY <2>11 DEF n
  <1>7. QED
    BY <1>3, <1>4, <1>5, <1>6 DEF n

\* The only call of a step is awaited alone.
LEMMA AloneIs ==
  ASSUME NEW r, Going(r), NEW x \in r.busy, NEW c, r.todo[1].calls = {c}
  PROVE  r.busy \ {x} = {} /\ x[1] = c
  BY DEF Going

\* What an upload has at hand.
LEMMA GoingIs ==
  ASSUME NEW r, Going(r), NEW x \in r.busy
  PROVE  /\ r \in Records /\ r.todo \in Seq(AllSteps) /\ r.todo # <<>> /\ r.todo[1] \in AllSteps
         /\ Len(r.todo) \in Nat /\ Len(r.todo) >= 1
         /\ r.busy \subseteq AllCalls \X Nat /\ x[1] \in AllCalls /\ x[2] \in Nat /\ x = <<x[1], x[2]>>
         /\ x[1] \in r.todo[1].calls /\ r.todo[1] # AiStep
         /\ x[1].kind = "list" <=> r.todo = <<ListStep>>
         /\ x[1] = CommitCall <=> r.todo[1] = CommitStep
         /\ x[1] = BuildCall <=> r.todo[1] = BuildStep
         /\ r.todo # <<ListStep>> => InPlan(r.todo) /\ r.todo[1] # ListStep
         /\ r.failed => r.todo # <<ListStep>> /\ r.todo[1] \notin {CommitStep, BuildStep, AiStep}
  <1>1. /\ r \in Records /\ r.todo # <<>> /\ x[1] \in r.todo[1].calls
        /\ \/ r.todo = <<ListStep>> /\ ~r.failed
           \/ InPlan(r.todo) /\ (r.failed => r.todo[1] \notin {CommitStep, BuildStep, AiStep})
    BY DEF Going
  <1>2. r.todo \in Seq(AllSteps) /\ r.busy \subseteq AllCalls \X Nat
    BY <1>1, RecordIs
  <1>3. x \in AllCalls \X Nat /\ Len(r.todo) \in Nat /\ Len(r.todo) >= 1 /\ r.todo[1] \in AllSteps
    BY <1>1, <1>2
  <1>4. r.todo[1] # AiStep
    BY <1>1, StepsDiffer
  <1>5. InPlan(r.todo) => r.todo[1] \in Early \cup {CommitStep, BuildStep}
    <2>1. CASE r.todo = <<BuildStep>>
      BY <2>1
    <2>2. CASE Commits(r.todo)
      BY <1>2, <2>2, CommitsTail
    <2>3. QED
      BY <2>1, <2>2 DEF InPlan
  <1>6. r.todo = <<ListStep>> => r.todo[1] = ListStep
    OBVIOUS
  <1>7. r.todo[1] = ListStep => r.todo = <<ListStep>>
    BY <1>1, <1>5, StepsDiffer
  <1>8. Call("list", 0).kind = "list"
    BY DEF Call
  <1>9. /\ x[1].kind = "list" <=> r.todo[1] = ListStep
        /\ x[1] = CommitCall <=> r.todo[1] = CommitStep
        /\ x[1] = BuildCall <=> r.todo[1] = BuildStep
    BY <1>1, <1>5, <1>6, <1>8, StepsDiffer, CallsAre
  <1>10. r.todo # <<ListStep>> => InPlan(r.todo) /\ r.todo[1] # ListStep
    BY <1>1, <1>7
  <1>11. r.failed => r.todo # <<ListStep>> /\ r.todo[1] \notin {CommitStep, BuildStep, AiStep}
    BY <1>1, <1>5, <1>6, StepsDiffer
  <1>12. QED
    BY <1>1, <1>2, <1>3, <1>4, <1>6, <1>7, <1>9, <1>10, <1>11

\* A call has succeeded.
LEMMA SucceededIs ==
  ASSUME NEW u \in Uploads, NEW r, Going(r), NEW x \in r.busy
  PROVE  /\ Paused(Succeeded(u, r, x)) /\ Succeeded(u, r, x).busy = r.busy \ {x}
         /\ Succeeded(u, r, x).failed = r.failed /\ Succeeded(u, r, x).todo[1] = r.todo[1]
         /\ r.todo # <<ListStep>> => \A c \in AllCalls : Left(r, c) => Left(Succeeded(u, r, x), c) \/ c = x[1]
         /\ r.todo = <<ListStep>> => \A c \in Wanted[u] : Left(Succeeded(u, r, x), c)
  <1> DEFINE b == [r EXCEPT !.busy = r.busy \ {x}]
             n == Succeeded(u, r, x)
  <1>1. /\ r \in Records /\ r.todo \in Seq(AllSteps) /\ r.todo # <<>> /\ Len(r.todo) \in Nat
        /\ r.busy \subseteq AllCalls \X Nat
        /\ x[1].kind = "list" <=> r.todo = <<ListStep>>
        /\ r.todo # <<ListStep>> => InPlan(r.todo) /\ r.todo[1] # ListStep
    BY GoingIs
  <1>2. /\ b \in Records /\ b.busy = r.busy \ {x} /\ b.todo = r.todo /\ b.failed = r.failed
        /\ b.ended = r.ended /\ b.stage = r.stage
    <2>1. r \in Records /\ r.busy \ {x} \in SUBSET (AllCalls \X Nat)
      BY <1>1
    <2> DEFINE rest == r.busy \ {x}
    <2> HIDE DEF rest, n, b
    <2>2. rest \in SUBSET (AllCalls \X Nat)
      BY <2>1 DEF rest
    <2>3. LET e == [r EXCEPT !.busy = rest]
          IN  /\ e \in Records /\ e.busy = rest /\ e.todo = r.todo /\ e.failed = r.failed
              /\ e.ended = r.ended /\ e.stage = r.stage
      BY <2>1, <2>2, BusyRecord
    <2>4. QED
      BY <2>3, Zenon DEF rest, b
  <1>3. /\ ~r.ended /\ r.stage \notin {"wait", "done", "error"}
        /\ \A y \in r.busy : y[1] \in r.todo[1].calls
        /\ \A y, z \in r.busy : y[1] = z[1] => y = z
        /\ r.failed => r.todo # <<ListStep>> /\ r.todo[1] \notin {CommitStep, BuildStep, AiStep}
    BY GoingIs DEF Going
  <1>4. CASE r.todo # <<ListStep>>
    <2>1. n = b
      BY <1>1, <1>4 DEF Succeeded
    <2> HIDE DEF n, b
    <2>2. \A c \in AllCalls : Left(r, c) => Left(b, c) \/ c = x[1]
      BY <1>2 DEF Left
    <2>3. Paused(b)
      BY <1>1, <1>2, <1>3, <1>4 DEF Paused
    <2>4. QED
      BY <1>2, <1>4, <2>1, <2>2, <2>3 DEF n
  <1>5. CASE r.todo = <<ListStep>>
    <2> DEFINE t == <<CreateStep(u[2] \in present)>> \o UploadTask[u]
               l == <<ListStep>> \o t
    <2>1. n = [b EXCEPT !.todo = <<ListStep>> \o <<CreateStep(u[2] \in present)>> \o UploadTask[u]]
      BY <1>1, <1>2, <1>5 DEF Succeeded
    <2>2. /\ UploadTask[u] \in Seq(AllSteps) /\ Commits(UploadTask[u])
          /\ \A c \in Wanted[u] : \E k \in 1..Len(UploadTask[u]) : c \in UploadTask[u][k].calls
      BY TaskIs
    <2>3. CreateStep(u[2] \in present) \in Early /\ CreateStep(u[2] \in present) \in AllSteps
      <3>1. CreateStep(u[2] \in present) = CreateStep(TRUE) \/ CreateStep(u[2] \in present) = CreateStep(FALSE)
        BY DEF CreateStep
      <3>2. QED
        BY <3>1, StepsDiffer DEF AllSteps
    <2>4. <<CreateStep(u[2] \in present)>> \in Seq(Early) /\ Len(<<CreateStep(u[2] \in present)>>) = 1
      BY <2>3, SeqShort
    <2>5. /\ t \in Seq(AllSteps) /\ Commits(t)
          /\ \A k \in 1..Len(UploadTask[u]) : 1 + k \in 1..Len(t) /\ t[1 + k] = UploadTask[u][k]
      BY <2>2, <2>4, CommitsJoined
    <2>6. ListStep \in AllSteps
      BY DEF AllSteps
    <2>7. l = <<ListStep>> \o <<CreateStep(u[2] \in present)>> \o UploadTask[u]
      BY <2>2, <2>3, <2>6
    <2> HIDE DEF t
    <2>8. /\ l \in Seq(AllSteps) /\ Len(l) = 1 + Len(t) /\ l[1] = ListStep
          /\ \A k \in 1..Len(t) : l[1 + k] = t[k]
          /\ Tail(l) = t /\ Len(t) \in Nat
      BY <2>5, <2>6
    <2>9. Len(t) > 0
      <3>1. t # <<>>
        BY <2>5, CommitsTail
      <3>2. QED
        BY <2>5, <3>1
    <2> HIDE DEF l
    <2>15. n = [b EXCEPT !.todo = l]
      BY <2>1, <2>7
    <2> HIDE DEF b, n
    <2>10. /\ n \in Records /\ n.todo = l /\ n.busy = r.busy \ {x} /\ n.failed = r.failed
           /\ n.ended = r.ended /\ n.stage = r.stage
      BY <1>2, <2>8, <2>15, RecordIs
    <2>11. n.busy = {} /\ r.todo[1] = ListStep /\ ~r.failed
      BY <1>3, <1>5, <2>10, AloneIs, StepsDiffer
    <2>12. Paused(n)
      <3>1. n.todo # <<>> /\ Len(n.todo) > 1 /\ n.todo[1] = ListStep /\ Commits(Tail(n.todo))
        <4>1. Len(l) > 1 /\ l \in Seq(AllSteps)
          BY <2>8, <2>9
        <4>2. l # <<>>
          BY <4>1
        <4>3. QED
          BY <2>5, <2>8, <2>10, <4>1, <4>2
      <3>2. QED
        BY <1>3, <2>10, <2>11, <3>1 DEF Paused
    <2>13. ASSUME NEW c \in Wanted[u]
           PROVE  Left(n, c)
      <3>1. PICK k \in 1..Len(UploadTask[u]) : c \in UploadTask[u][k].calls
        BY <2>2
      <3>2. 1 + k \in 1..Len(t) /\ t[1 + k] = UploadTask[u][k]
        BY <2>5
      <3>3. l[1 + (1 + k)] = t[1 + k] /\ 1 + (1 + k) \in 2..Len(n.todo)
        BY <2>8, <2>10, <3>2
      <3>4. QED
        BY <2>10, <3>1, <3>2, <3>3 DEF Left
    <2>14. QED
      BY <1>5, <2>8, <2>10, <2>11, <2>12, <2>13 DEF n
  <1>6. QED
    BY <1>4, <1>5

\* A call has failed for good: the part it is of is dropped, or the upload fails.
LEMMA FailedIs ==
  ASSUME NEW u \in Uploads, NEW r, Going(r), NEW x \in r.busy, NEW answer
  PROVE  /\ Paused(Failed(r, x, answer)) /\ Failed(r, x, answer).busy = r.busy \ {x}
         /\ Failed(r, x, answer).todo[1] = r.todo[1]
         /\ r.todo[1].part = "must" => Failed(r, x, answer).failed
         /\ ~Failed(r, x, answer).failed =>
              /\ r.todo # <<ListStep>> /\ ~r.failed
              /\ \A c \in Wanted[u] : Left(r, c) => Left(Failed(r, x, answer), c)
  <1> DEFINE b == [r EXCEPT !.busy = r.busy \ {x}]
             n == Failed(r, x, answer)
             h == r.todo[1]
             rest == Tail(r.todo)
  <1>1. /\ r \in Records /\ r.todo \in Seq(AllSteps) /\ r.todo # <<>> /\ h \in AllSteps
        /\ Len(r.todo) \in Nat /\ Len(r.todo) >= 1
        /\ r.busy \subseteq AllCalls \X Nat
        /\ x[1] \in h.calls /\ h # AiStep
        /\ r.todo # <<ListStep>> => InPlan(r.todo) /\ r.todo[1] # ListStep
        /\ r.failed => r.todo # <<ListStep>> /\ r.todo[1] \notin {CommitStep, BuildStep, AiStep}
    BY GoingIs
  <1>2. /\ b \in Records /\ b.busy = r.busy \ {x} /\ b.todo = r.todo /\ b.failed = r.failed
        /\ b.ended = r.ended /\ b.stage = r.stage
    <2>1. r \in Records /\ r.busy \ {x} \in SUBSET (AllCalls \X Nat)
      BY <1>1
    <2>2. QED
      BY <2>1, RecordIs
  <1>3. /\ ~r.ended /\ r.stage \notin {"wait", "done", "error"}
        /\ \A y \in r.busy : y[1] \in r.todo[1].calls
        /\ \A y, z \in r.busy : y[1] = z[1] => y = z
    BY DEF Going
  <1>4. CASE h.part = "must"
    <2>1. n = [b EXCEPT !.failed = TRUE]
      BY <1>4 DEF Failed
    <2> HIDE DEF b
    <2>2. /\ n \in Records /\ n.failed /\ n.busy = r.busy \ {x} /\ n.todo = r.todo
          /\ n.ended = r.ended /\ n.stage = r.stage
      <3>1. b \in Records /\ TRUE \in BOOLEAN
        BY <1>2
      <3>2. /\ [b EXCEPT !.failed = TRUE] \in Records /\ [b EXCEPT !.failed = TRUE].failed = TRUE
            /\ [b EXCEPT !.failed = TRUE].busy = b.busy /\ [b EXCEPT !.failed = TRUE].todo = b.todo
            /\ [b EXCEPT !.failed = TRUE].ended = b.ended /\ [b EXCEPT !.failed = TRUE].stage = b.stage
        BY <3>1, RecordIs
      <3>3. QED
        BY <1>2, <2>1, <3>2
    <2> HIDE DEF n, h
    <2>3. r.todo[1] \in {ListStep, CommitStep, BuildStep} => n.busy = {}
      <3>1. ASSUME NEW c, r.todo[1].calls = {c}
            PROVE  n.busy = {}
        <4>1. r.busy \ {x} = {}
          BY <3>1, AloneIs
        <4>2. QED
          BY <2>2, <4>1
      <3>2. QED
        BY <3>1, StepsDiffer
    <2>4. r.todo = <<ListStep>> => r.todo[1] = ListStep
      OBVIOUS
    <2>5. Paused(n)
      BY <1>1, <1>3, <2>2, <2>3, <2>4 DEF Paused, h
    <2>6. QED
      BY <2>2, <2>5 DEF n
  <1>5. CASE h.part # "must"
    <2>1. h \in SourceStepSet /\ h \in Early /\ h.part \in {"checker", "validator"} /\ x[1].item \in 0..2
      <3>1. h \in Early
        BY <1>1, <1>5, CallsAre, StepsDiffer
      <3>2. h \in SourceStepSet
        BY <1>1, <1>5, <3>1, CallsAre
      <3>3. QED
        BY <1>1, <3>1, <3>2, CallsAre
    <2>2. Commits(r.todo) /\ r.todo # <<ListStep>>
      <3>1. h # BuildStep /\ h # ListStep
        BY <2>1, StepsDiffer
      <3>2. r.todo # <<ListStep>> /\ r.todo # <<BuildStep>>
        BY <3>1
      <3>3. QED
        BY <1>1, <3>2 DEF InPlan
    <2>3. /\ Commits(rest) /\ rest \in Seq(AllSteps) /\ Len(rest) = Len(r.todo) - 1
          /\ \A k \in 1..(Len(r.todo) - 1) : rest[k] = r.todo[k + 1]
      BY <1>1, <2>1, <2>2, CommitsTail, TailIs
    <2> DEFINE early == IF answer = "testlib" THEN <<h>> \o TestlibSteps(h.part, x[1]) ELSE <<h>>
               late1 == IF answer = "testlib" THEN rest ELSE FromNextPart(rest, h.part)
    <2>4. early \in Seq(Early) /\ Len(early) >= 1 /\ early[1] = h /\ Len(early) \in Nat
      <3>1. TestlibSteps(h.part, x[1]) \in Seq(Early)
        <4> DEFINE lib == Step("files", h.part, {Call("saveTestlib", 0)})
                   again == Step("files", h.part, {Call("saveAgain", x[1].item)})
        <4>1. lib \in Early /\ again \in Early
          <5> HIDE DEF h
          <5>1. 0 \in 0..2 /\ x[1].item \in 0..2 /\ h.part \in {"checker", "validator"}
            BY <2>1
          <5>2. "saveTestlib" \in SourceKinds /\ "saveAgain" \in SourceKinds
            BY DEF SourceKinds
          <5>3. \A part \in {"checker", "validator"}, kind \in SourceKinds, n2 \in 0..2 :
                  Step("files", part, {Call(kind, n2)}) \in SourceStepSet
            BY SourceStepIs
          <5>4. lib \in SourceStepSet /\ again \in SourceStepSet
            BY <5>1, <5>2, <5>3
          <5>5. QED
            BY <5>4 DEF Early
        <4>2. TestlibSteps(h.part, x[1]) = <<lib, again>>
          BY DEF TestlibSteps
        <4> HIDE DEF lib, again
        <4>3. QED
          BY <4>1, <4>2
      <3> HIDE DEF h
      <3>2. <<h>> \in Seq(Early) /\ Len(<<h>>) = 1 /\ <<h>>[1] = h
        BY <2>1, SeqShort
      <3>3. QED
        BY <3>1, <3>2, SeqJoined
    <2>5. /\ late1 \in Seq(AllSteps) /\ Commits(late1)
          /\ \A k \in 1..Len(rest) : rest[k].part = "must" => \E j \in 1..Len(late1) : late1[j] = rest[k]
      <3> HIDE DEF h, rest
      <3>1. CASE answer = "testlib"
        BY <2>3, <3>1
      <3>2. CASE answer # "testlib"
        <4>1. late1 = FromNextPart(rest, h.part)
          BY <3>2
        <4>2. Commits(rest) /\ rest \in Seq(AllSteps) /\ h.part # "must"
          BY <1>5, <2>3
        <4> HIDE DEF late1
        <4>3. QED
          BY <4>1, <4>2, CommitsDropped
      <3>3. QED
        BY <3>1, <3>2
    <2>6. n = [b EXCEPT !.todo = early \o late1]
      <3>1. CASE answer = "testlib"
        <4>1. n = [b EXCEPT !.todo = <<h>> \o TestlibSteps(h.part, x[1]) \o rest]
          BY <1>5, <3>1 DEF Failed
        <4>2. QED
          BY <3>1, <4>1
      <3>2. CASE answer # "testlib"
        <4>1. n = [b EXCEPT !.todo = <<h>> \o FromNextPart(rest, h.part)]
          BY <1>5, <3>2 DEF Failed
        <4>2. QED
          BY <3>2, <4>1
      <3>3. QED
        BY <3>1, <3>2
    <2> HIDE DEF early, late1, rest
    <2>7. /\ early \o late1 \in Seq(AllSteps) /\ Commits(early \o late1)
          /\ \A k \in 1..Len(late1) : /\ Len(early) + k \in 1..Len(early \o late1)
                                      /\ (early \o late1)[Len(early) + k] = late1[k]
      BY <2>4, <2>5, CommitsJoined
    <2>8. (early \o late1)[1] = h /\ early \o late1 # <<>> /\ Len(late1) \in Nat
      <3>1. 1 \in 1..Len(early)
        BY <2>4
      <3>2. early \in Seq(AllSteps)
        BY <2>4, SeqWider DEF AllSteps
      <3>3. (early \o late1)[1] = early[1] /\ Len(early \o late1) = Len(early) + Len(late1) /\ Len(late1) \in Nat
        BY <2>5, <3>1, <3>2, SeqJoined
      <3>4. Len(early \o late1) # 0
        BY <2>4, <3>3
      <3>5. QED
        BY <2>4, <2>7, <3>3, <3>4
    <2> HIDE DEF b
    <2>9. /\ n \in Records /\ n.todo = early \o late1 /\ n.busy = r.busy \ {x} /\ n.failed = r.failed
          /\ n.ended = r.ended /\ n.stage = r.stage
      <3> DEFINE q == early \o late1
      <3>1. b \in Records /\ q \in Seq(AllSteps)
        BY <1>2, <2>7
      <3>2. n = [b EXCEPT !.todo = q]
        BY <2>6
      <3> HIDE DEF q, n
      <3>3. /\ [b EXCEPT !.todo = q] \in Records /\ [b EXCEPT !.todo = q].todo = q
            /\ [b EXCEPT !.todo = q].busy = b.busy /\ [b EXCEPT !.todo = q].failed = b.failed
            /\ [b EXCEPT !.todo = q].ended = b.ended /\ [b EXCEPT !.todo = q].stage = b.stage
        BY <3>1, RecordIs
      <3>4. QED
        BY <1>2, <3>2, <3>3 DEF q
    <2> HIDE DEF n
    <2>10. Paused(n)
      <3>1. h # AiStep /\ h \notin {CommitStep, BuildStep}
        BY <1>1, <2>1, StepsDiffer
      <3>2. QED
        BY <1>3, <2>7, <2>8, <2>9, <3>1 DEF Paused, InPlan
    <2>11. ASSUME NEW c \in Wanted[u], Left(r, c)
           PROVE  Left(n, c)
      <3>1. c # x[1]
        BY <1>1, <1>5, <2>1, WantedAre
      <3>2. CASE \E y \in r.busy : y[1] = c
        BY <2>9, <3>1, <3>2 DEF Left
      <3>3. CASE \E k \in 2..Len(r.todo) : c \in r.todo[k].calls
        <4>1. PICK k \in 2..Len(r.todo) : c \in r.todo[k].calls
          BY <3>3
        <4>2. k - 1 \in 1..Len(rest) /\ k - 1 \in 1..(Len(r.todo) - 1) /\ (k - 1) + 1 = k
          BY <1>1, <2>3
        <4>3. rest[k - 1] = r.todo[k] /\ r.todo[k] \in AllSteps
          BY <1>1, <2>3, <4>2
        <4>4. r.todo[k].part = "must"
          BY <4>1, <4>3, WantedAre
        <4>5. PICK j \in 1..Len(late1) : late1[j] = r.todo[k]
          BY <2>5, <4>2, <4>3, <4>4
        <4>6. n.todo[Len(early) + j] = r.todo[k] /\ Len(early) + j \in 2..Len(n.todo)
          BY <2>4, <2>7, <2>9, <4>5
        <4>7. QED
          BY <4>1, <4>6 DEF Left
      <3>4. QED
        BY <2>11, <3>2, <3>3 DEF Left
    <2>12. QED
      BY <1>5, <2>2, <2>8, <2>9, <2>10, <2>11 DEF n
  <1>6. QED
    BY <1>4, <1>5

\* What an upload becomes with an answer (n).
OutcomeOf(u, r, x, answer, n) ==
    /\ n \in Records
    /\ n.ended => /\ n.busy = {}
                  /\ n.stage = "done" => answer = "ok" /\ r.todo[1] \in {CommitStep, BuildStep}
    /\ ~n.ended => /\ Going(n)
                   /\ n.todo # <<ListStep>> /\ ~n.failed =>
                        /\ ~r.failed
                        /\ \A c \in Wanted[u] :
                             \/ r.todo # <<ListStep>> /\ ~Left(r, c)
                             \/ Left(n, c)
                             \/ answer = "ok" /\ c = x[1]
                   /\ n.todo[1] = BuildStep =>
                        (r.todo[1] = BuildStep \/ (r.todo[1] = CommitStep /\ answer = "ok"))
    /\ x[1] = BuildCall /\ answer \in MaybeExecuted \cup {"ok"} => n.ended

\* A call is made again.
LEMMA AgainIs ==
  ASSUME NEW u \in Uploads, NEW r, Going(r), NEW x \in r.busy, NEW answer,
         Again(x[1].kind, answer, x[2])
  PROVE  OutcomeOf(u, r, x, answer, [r EXCEPT !.busy = (r.busy \ {x}) \cup {<<x[1], x[2] + 1>>}])
  <1> DEFINE y == <<x[1], x[2] + 1>>
             b == (r.busy \ {x}) \cup {y}
             n == [r EXCEPT !.busy = b]
  <1>1. /\ r \in Records /\ r.todo \in Seq(AllSteps) /\ r.todo # <<>>
        /\ r.busy \subseteq AllCalls \X Nat /\ x[1] \in AllCalls /\ x[2] \in Nat
        /\ x[1] \in r.todo[1].calls
    BY GoingIs
  <1>2. y \in AllCalls \X Nat /\ y[1] = x[1]
    BY <1>1
  <1> HIDE DEF y
  <1>3. b \in SUBSET (AllCalls \X Nat)
    BY <1>1, <1>2
  <1> HIDE DEF b
  <1>4. /\ n \in Records /\ n.busy = b /\ n.todo = r.todo /\ n.failed = r.failed
        /\ n.ended = r.ended /\ n.stage = r.stage
    <2>1. r \in Records
      BY <1>1
    <2>2. QED
      BY <2>1, <1>3, BusyRecord
  <1> HIDE DEF n
  <1>5. /\ ~r.ended /\ r.stage \notin {"wait", "done", "error"}
        /\ \A z \in r.busy : z[1] \in r.todo[1].calls
        /\ \A z, w \in r.busy : z[1] = w[1] => z = w
        /\ \/ r.todo = <<ListStep>> /\ ~r.failed
           \/ InPlan(r.todo) /\ (r.failed => r.todo[1] \notin {CommitStep, BuildStep, AiStep})
    BY DEF Going
  <1>6. \A z \in b : z[1] \in r.todo[1].calls
    BY <1>1, <1>2, <1>5 DEF b
  <1>7. \A z, w \in b : z[1] = w[1] => z = w
    BY <1>2, <1>5 DEF b
  <1>8. Going(n)
    BY <1>1, <1>4, <1>5, <1>6, <1>7 DEF Going
  <1>9. \A c : Left(r, c) => Left(n, c)
    <2> SUFFICES ASSUME NEW c, Left(r, c)
                 PROVE  Left(n, c)
      OBVIOUS
    <2>1. CASE \E z \in r.busy : z[1] = c
      <3>1. \E z \in b : z[1] = c
        BY <1>2, <2>1 DEF b
      <3>2. QED
        BY <1>4, <3>1 DEF Left
    <2>2. CASE \E k \in 2..Len(r.todo) : c \in r.todo[k].calls
      BY <1>4, <2>2 DEF Left
    <2>3. QED
      BY <2>1, <2>2 DEF Left
  <1>10. ~(x[1] = BuildCall /\ answer \in MaybeExecuted \cup {"ok"})
    <2>1. IsTransient(x[1].kind, answer)
      BY DEF Again
    <2>2. x[1] = BuildCall => x[1].kind \in NotRepeatable
      BY CallsAre DEF NotRepeatable
    <2>3. QED
      BY <2>1, <2>2 DEF IsTransient, MaybeExecuted
  <1>11. OutcomeOf(u, r, x, answer, n)
    <2>1. n \in Records /\ ~n.ended /\ (~n.failed => ~r.failed)
      BY <1>4, <1>5
    <2>2. \A c \in Wanted[u] : ~Left(r, c) \/ Left(n, c)
      BY <1>9
    <2>3. n.todo # <<ListStep>> => r.todo # <<ListStep>>
      BY <1>4
    <2>4. n.todo[1] = BuildStep => r.todo[1] = BuildStep
      BY <1>4
    <2> QED
      BY <1>8, <1>10, <2>1, <2>2, <2>3, <2>4 DEF OutcomeOf
  <1>12. QED
    BY <1>11 DEF n, b, y

\* Whatever the answer, the upload goes on as it should.
LEMMA OutcomeIs ==
  ASSUME NEW u \in Uploads, Going(up[u]), NEW x \in up[u].busy, NEW answer
  PROVE  OutcomeOf(u, up[u], x, answer, Outcome(u, x, answer))
  <1> DEFINE r == up[u]
             n == Outcome(u, x, answer)
  <1>1. CASE Again(x[1].kind, answer, x[2])
    <2>1. n = [r EXCEPT !.busy = (r.busy \ {x}) \cup {<<x[1], x[2] + 1>>}]
      BY <1>1 DEF Outcome
    <2>2. QED
      BY <1>1, <2>1, AgainIs
  <1>2. CASE ~Again(x[1].kind, answer, x[2]) /\ answer = "ok"
    <2> DEFINE p == Succeeded(u, r, x)
    <2>1. n = Advance(p, ai[u])
      BY <1>2 DEF Outcome
    <2>2. /\ Paused(p) /\ p.busy = r.busy \ {x} /\ p.failed = r.failed /\ p.todo[1] = r.todo[1]
          /\ r.todo # <<ListStep>> => \A c \in AllCalls : Left(r, c) => Left(p, c) \/ c = x[1]
          /\ r.todo = <<ListStep>> => \A c \in Wanted[u] : Left(p, c)
      BY SucceededIs
    <2> HIDE DEF p
    <2>3. GoesOnAs(p, n)
      BY <2>1, <2>2, AdvanceIs
    <2> HIDE DEF n, r
    <2>4. Going(r) /\ x \in r.busy
      BY DEF r
    <2>5. \A c \in Wanted[u] : c \in AllCalls
      BY WantedAre
    <2>6. x[1] = BuildCall => n.ended
      <3> SUFFICES ASSUME x[1] = BuildCall
                   PROVE  n.ended
        OBVIOUS
      <3>1. r.todo[1] = BuildStep
        BY <2>4, GoingIs
      <3>2. r.busy \ {x} = {}
        BY <2>4, <3>1, AloneIs, StepsDiffer, SMTT(30)
      <3>3. QED
        BY <2>2, <2>3, <3>1, <3>2 DEF GoesOnAs
    <2>7. QED
      BY <1>2, <2>2, <2>3, <2>5, <2>6 DEF OutcomeOf, GoesOnAs, r, n
  <1>3. CASE ~Again(x[1].kind, answer, x[2]) /\ answer # "ok"
    <2> DEFINE p == Failed(r, x, answer)
    <2>1. n = Advance(p, ai[u])
      BY <1>3 DEF Outcome
    <2>2. /\ Paused(p) /\ p.busy = r.busy \ {x} /\ p.todo[1] = r.todo[1]
          /\ r.todo[1].part = "must" => p.failed
          /\ ~p.failed => /\ r.todo # <<ListStep>> /\ ~r.failed
                          /\ \A c \in Wanted[u] : Left(r, c) => Left(p, c)
      BY FailedIs
    <2> HIDE DEF p
    <2>3. GoesOnAs(p, n)
      BY <2>1, <2>2, AdvanceIs
    <2> HIDE DEF n, r
    <2>4. Going(r) /\ x \in r.busy
      BY DEF r
    <2>5. \A c \in Wanted[u] : c \in AllCalls
      BY WantedAre
    <2>6. x[1] = BuildCall => n.ended
      <3> SUFFICES ASSUME x[1] = BuildCall
                   PROVE  n.ended
        OBVIOUS
      <3>1. r.todo[1] = BuildStep
        BY <2>4, GoingIs
      <3>2. r.busy \ {x} = {}
        BY <2>4, <3>1, AloneIs, StepsDiffer
      <3>3. QED
        BY <2>2, <2>3, <3>1, <3>2 DEF GoesOnAs
    <2>7. r.todo[1] \in {CommitStep, BuildStep} => p.failed
      BY <2>2, StepsDiffer
    <2>8. n.ended => n.busy = {} /\ n.stage # "done"
      BY <2>2, <2>3, <2>7 DEF GoesOnAs
    <2>9. ~n.ended => Going(n) /\ (n.todo[1] = BuildStep => r.todo[1] = BuildStep)
      BY <2>2, <2>3, <2>7 DEF GoesOnAs
    <2>10. ~n.ended /\ ~n.failed => ~r.failed /\ \A c \in Wanted[u] : Left(r, c) => Left(n, c)
      BY <2>2, <2>3, <2>5 DEF GoesOnAs
    <2>11. ~n.ended /\ ~n.failed => r.todo # <<ListStep>>
      BY <2>2, <2>3 DEF GoesOnAs
    <2>12. n \in Records
      BY <2>3 DEF GoesOnAs
    <2>13. OutcomeOf(u, r, x, answer, n)
      BY <2>6, <2>8, <2>9, <2>10, <2>11, <2>12 DEF OutcomeOf
    <2>14. QED
      BY <2>13 DEF r, n
  <1>4. QED
    BY <1>1, <1>2, <1>3

\* No upload yet.
LEMMA NoUploadIs == NoUpload \in Records /\ NoUpload.busy = {} /\ ~NoUpload.ended /\ ~NoUpload.failed
                    /\ NoUpload.stage = "wait"
  <1>1. <<>> \in Seq(AllSteps)
    BY SeqShort
  <1>2. QED
    BY <1>1 DEF NoUpload, Records

\* The commit is asked for when all that is wanted is there.
LEMMA CommitTime ==
  ASSUME NEW u \in Uploads, UnderWay(u), NEW x \in up[u].busy, x[1] = CommitCall
  PROVE  IsStored(u)
  <1> DEFINE r == up[u]
  <1>1. Going(r) /\ x \in r.busy
    BY DEF UnderWay
  <1>2. /\ r.todo \in Seq(AllSteps) /\ r.todo[1] = CommitStep /\ r.todo # <<ListStep>> /\ ~r.failed
        /\ InPlan(r.todo) /\ Len(r.todo) \in Nat
    <2>1. r.todo[1] = CommitStep
      BY <1>1, GoingIs
    <2>2. r.todo # <<ListStep>>
      <3>1. r.todo[1] # ListStep
        BY <2>1, StepsDiffer
      <3>2. QED
        BY <3>1
    <2> HIDE DEF r
    <2>3. QED
      BY <1>1, <2>1, <2>2, GoingIs
  <1>3. \A c \in Wanted[u] : Stored(u, c) \/ Left(r, c)
    BY <1>2 DEF UnderWay
  <1> HIDE DEF r
  <1>4. Commits(r.todo)
    <2>1. r.todo # <<BuildStep>>
      <3>1. r.todo[1] # BuildStep
        BY <1>2, StepsDiffer
      <3>2. QED
        BY <3>1
    <2>2. QED
      BY <1>2, <2>1 DEF InPlan
  <1>5. Len(r.todo) = 1 \/ (Len(r.todo) > 1 /\ Tail(r.todo) = <<BuildStep>>)
    BY <1>2, <1>4, CommitsTail
  <1>6. \A k \in 2..Len(r.todo) : r.todo[k] = BuildStep
    <2>1. CASE Len(r.todo) = 1
      BY <2>1
    <2>2. CASE Len(r.todo) > 1 /\ Tail(r.todo) = <<BuildStep>>
      <3>1. r.todo # <<>>
        BY <2>2
      <3>2. /\ Len(Tail(r.todo)) = Len(r.todo) - 1
            /\ \A k \in 1..(Len(r.todo) - 1) : Tail(r.todo)[k] = r.todo[k + 1]
        BY <1>2, <3>1, TailIs
      <3> DEFINE t == Tail(r.todo)
      <3>6. t = <<BuildStep>> /\ Len(t) = Len(r.todo) - 1 /\ \A k \in 1..(Len(r.todo) - 1) : t[k] = r.todo[k + 1]
        BY <2>2, <3>2
      <3> HIDE DEF t
      <3>7. Len(t) = 1 /\ t[1] = BuildStep
        BY <3>6
      <3>3. Len(r.todo) = 2
        BY <1>2, <3>6, <3>7
      <3>4. r.todo[2] = BuildStep
        <4>1. 1 \in 1..(Len(r.todo) - 1) /\ 1 + 1 = 2
          BY <3>3
        <4>2. QED
          BY <3>6, <3>7, <4>1
      <3>5. QED
        BY <3>3, <3>4
    <2>3. QED
      BY <1>5, <2>1, <2>2
  <1>7. ASSUME NEW c \in Wanted[u], Left(r, c)
        PROVE  FALSE
    <2>1. c # CommitCall /\ c # BuildCall
      BY WantedAre
    <2>2. \A y \in r.busy : y[1] = CommitCall
      BY <1>1, <1>2, StepsDiffer DEF Going
    <2>3. \A k \in 2..Len(r.todo) : r.todo[k].calls = {BuildCall}
      BY <1>6, StepsDiffer
    <2>4. QED
      BY <1>7, <2>1, <2>2, <2>3 DEF Left
  <1>8. QED
    BY <1>3, <1>7 DEF IsStored

\* What a call does on Polygon.
LEMMA ExecuteIs ==
  ASSUME ImportTyped, NEW u \in Uploads, NEW c \in AllCalls, Execute(u, c)
  PROVE  /\ saved' = [p \in Problems |-> saved'[p]]
         /\ raced \subseteq raced' /\ raced' \subseteq Uploads
         /\ \A v \in Uploads : job[v[1]] # "new" => \A d : Stored(v, d) => Stored(v, d)'
         /\ Writes(c) /\ Saved(c) = c => Stored(u, c)'
         /\ revision' = IF c = CommitCall THEN [revision EXCEPT ![u] = {saved[u[2]]}] ELSE revision
         /\ built' = IF c = BuildCall THEN [built EXCEPT ![u] = built[u] + 1] ELSE built
  <1> DEFINE p == u[2]
             w == With(saved[p], Saved(c), u[1])
  <1>1. /\ saved' = IF Writes(c) THEN [saved EXCEPT ![p] = w] ELSE saved
        /\ raced' = raced \union {v \in Uploads : Writes(c) /\ v[2] = p /\ v[1] # u[1] /\ job[v[1]] # "new"}
    BY DEF Execute
  <1>2. p \in Problems /\ u[1] \in Imports
    BY DEF Uploads
  <1>3. saved = [q \in Problems |-> saved[q]] /\ raced \subseteq Uploads
    BY DEF ImportTyped
  <1>4. /\ DOMAIN w = DOMAIN saved[p] \cup {Saved(c)}
        /\ \A d \in DOMAIN w : w[d] = IF d = Saved(c) THEN u[1] ELSE saved[p][d]
    BY DEF With
  <1> HIDE DEF w
  <1>5. /\ saved' = [q \in Problems |-> saved'[q]]
        /\ Writes(c) => saved'[p] = w /\ \A q \in Problems : q # p => saved'[q] = saved[q]
        /\ ~Writes(c) => saved' = saved
    <2>1. CASE Writes(c)
      <3>1. saved' = [saved EXCEPT ![p] = w]
        BY <1>1, <2>1
      <3> HIDE DEF p
      <3>2. QED
        BY <1>2, <1>3, <2>1, <3>1
    <2>2. CASE ~Writes(c)
      BY <1>1, <1>3, <2>2
    <2>3. QED
      BY <2>1, <2>2
  <1>6. raced \subseteq raced' /\ raced' \subseteq Uploads
    BY <1>1, <1>3
  <1>7. ASSUME NEW v \in Uploads, job[v[1]] # "new", NEW d, Stored(v, d)
        PROVE  Stored(v, d)'
    <2>1. v[2] \in Problems
      BY DEF Uploads
    <2>2. d \in DOMAIN saved[v[2]] /\ (v \in raced \/ saved[v[2]][d] = v[1])
      BY <1>7 DEF Stored
    <2>3. CASE ~Writes(c) \/ v[2] # p
      <3>1. saved'[v[2]] = saved[v[2]]
        BY <1>5, <2>1, <2>3
      <3>2. QED
        BY <1>6, <2>2, <3>1 DEF Stored
    <2>4. CASE Writes(c) /\ v[2] = p
      <3>1. saved'[v[2]] = w /\ d \in DOMAIN w
        BY <1>4, <1>5, <2>2, <2>4
      <3>2. CASE v[1] = u[1]
        <4>1. v \in raced \/ w[d] = v[1]
          BY <1>4, <2>2, <2>4, <3>1, <3>2
        <4>2. QED
          BY <1>6, <3>1, <4>1 DEF Stored
      <3>3. CASE v[1] # u[1]
        <4>1. v \in raced'
          BY <1>1, <1>7, <2>4, <3>3
        <4>2. QED
          BY <3>1, <4>1 DEF Stored
      <3>4. QED
        BY <3>2, <3>3
    <2>5. QED
      BY <2>3, <2>4
  <1>8. ASSUME Writes(c), Saved(c) = c
        PROVE  Stored(u, c)'
    <2>1. saved'[p] = w /\ c \in DOMAIN w /\ w[c] = u[1]
      BY <1>4, <1>5, <1>8
    <2>2. QED
      BY <2>1 DEF Stored
  <1>9. c.kind = "commitChanges" <=> c = CommitCall
    BY CallsAre
  <1>10. c.kind = "buildPackage" <=> c = BuildCall
    BY CallsAre
  <1>11. revision' = IF c = CommitCall THEN [revision EXCEPT ![u] = {saved[p]}] ELSE revision
    BY <1>9 DEF Execute
  <1>12. built' = IF c = BuildCall THEN [built EXCEPT ![u] = built[u] + 1] ELSE built
    <2>1. built' = [built EXCEPT ![u] = built[u] + (IF c.kind = "buildPackage" THEN 1 ELSE 0)]
      BY DEF Execute
    <2>2. built \in [Uploads -> 0..1]
      BY DEF ImportTyped
    <2>3. CASE c = BuildCall
      BY <1>10, <2>1, <2>3
    <2>4. CASE c # BuildCall
      <3>1. built' = [built EXCEPT ![u] = built[u] + 0] /\ built[u] \in 0..1
        BY <1>10, <2>1, <2>2, <2>4
      <3>2. built' = built
        BY <2>2, <3>1
      <3>3. QED
        BY <2>4, <3>2
    <2>5. QED
      BY <2>3, <2>4
  <1>13. QED
    BY <1>5, <1>6, <1>7, <1>8, <1>11, <1>12

\* An upload nothing happens to but that Polygon goes on.
LEMMA OtherIs ==
  ASSUME NEW v \in Uploads, UploadOK(v),
         up'[v] = up[v], ai'[v] = ai[v], revision'[v] = revision[v], built'[v] = built[v],
         \A c : <<v, c>> \in late' => <<v, c>> \in late,
         job'[v[1]] \in {"new", "parsing"} => job[v[1]] \in {"new", "parsing"},
         job'[v[1]] = "running" => job[v[1]] = "running",
         raced \subseteq raced',
         job[v[1]] # "new" => \A d : Stored(v, d) => Stored(v, d)'
  PROVE  UploadOK(v)'
  <1>1. <<v, CommitCall>> \in late' => IsStored(v)'
    <2> SUFFICES ASSUME <<v, CommitCall>> \in late'
                 PROVE  IsStored(v)'
      OBVIOUS
    <2>1. <<v, CommitCall>> \in late /\ IsStored(v)
      BY DEF UploadOK
    <2>2. CommitCall \in AllCalls
      BY StepsDiffer DEF AllCalls, AllSteps
    <2>3. job[v[1]] # "new"
      BY <2>1, <2>2 DEF UploadOK
    <2>4. QED
      BY <2>1, <2>3 DEF IsStored
  <1>2. Running(v[1])' /\ ~up'[v].ended => UnderWay(v)'
    <2> SUFFICES ASSUME job'[v[1]] = "running", ~up'[v].ended
                 PROVE  UnderWay(v)'
      BY DEF Running
    <2>1. UnderWay(v) /\ job[v[1]] # "new"
      BY DEF UploadOK, Running
    <2>2. QED
      BY <2>1 DEF UnderWay, Going, Left
  <1>3. job'[v[1]] \in {"new", "parsing"} =>
          /\ up'[v] = NoUpload /\ ai'[v] = "none" /\ built'[v] = 0 /\ revision'[v] = {}
          /\ \A c \in AllCalls : <<v, c>> \notin late'
    BY DEF UploadOK
  <1>4. /\ up'[v].ended => up'[v].busy = {} /\ ai'[v] # "running"
        /\ <<v, BuildCall>> \in late' => built'[v] = 0
        /\ up'[v].stage = "done" => revision'[v] # {}
        /\ \A taken \in revision'[v], c \in Wanted[v] : c \in DOMAIN taken /\ (v \in raced' \/ taken[c] = v[1])
    BY DEF UploadOK
  <1>5. QED
    BY <1>1, <1>2, <1>3, <1>4 DEF UploadOK

\* What a call does to the upload it is of, and to the others.
LEMMA EffectsAre ==
  ASSUME ImportTyped, NEW u \in Uploads, NEW c \in AllCalls, Execute(u, c),
         c = BuildCall => built[u] = 0
  PROVE  /\ revision' = [v \in Uploads |-> revision'[v]] /\ built' \in [Uploads -> 0..1]
         /\ \A v \in Uploads : v # u => revision'[v] = revision[v] /\ built'[v] = built[v]
         /\ c = CommitCall => revision'[u] = {saved[u[2]]}
         /\ c # CommitCall => revision'[u] = revision[u]
         /\ c # BuildCall => built'[u] = built[u]
  <1>1. /\ revision' = IF c = CommitCall THEN [revision EXCEPT ![u] = {saved[u[2]]}] ELSE revision
        /\ built' = IF c = BuildCall THEN [built EXCEPT ![u] = built[u] + 1] ELSE built
    BY ExecuteIs
  <1>2. revision = [v \in Uploads |-> revision[v]] /\ built \in [Uploads -> 0..1]
    BY DEF ImportTyped
  <1>3. /\ revision' = [v \in Uploads |-> revision'[v]]
        /\ \A v \in Uploads : v # u => revision'[v] = revision[v]
        /\ c = CommitCall => revision'[u] = {saved[u[2]]}
        /\ c # CommitCall => revision'[u] = revision[u]
    <2>1. CASE c = CommitCall
      <3>1. revision' = [revision EXCEPT ![u] = {saved[u[2]]}]
        BY <1>1, <2>1
      <3>2. QED
        BY <1>2, <2>1, <3>1
    <2>2. CASE c # CommitCall
      BY <1>1, <1>2, <2>2
    <2>3. QED
      BY <2>1, <2>2
  <1>4. /\ built' \in [Uploads -> 0..1]
        /\ \A v \in Uploads : v # u => built'[v] = built[v]
        /\ c # BuildCall => built'[u] = built[u]
    <2>1. CASE c = BuildCall
      <3>3. built' = [built EXCEPT ![u] = built[u] + 1] /\ built[u] = 0 /\ 0 + 1 = 1
        BY <1>1, <2>1
      <3>1. built' = [built EXCEPT ![u] = 1]
        BY <3>3
      <3>2. QED
        BY <1>2, <2>1, <3>1
    <2>2. CASE c # BuildCall
      BY <1>1, <1>2, <2>2
    <2>3. QED
      BY <2>1, <2>2
  <1>5. QED
    BY <1>3, <1>4

\* What was stored when the commit is executed is in the revision.
LEMMA TakenIs ==
  ASSUME NEW u \in Uploads, IsStored(u), raced \subseteq raced',
         NEW c \in Wanted[u]
  PROVE  c \in DOMAIN saved[u[2]] /\ (u \in raced' \/ saved[u[2]][c] = u[1])
  BY DEF IsStored, Stored

\* A call is executed that nobody waits for.
LEMMA LateIs ==
  ASSUME ImportInv, NEW u, NEW c, LateExecution(u, c)
  PROVE  ImportInv'
  <1>1. /\ <<u, c>> \in late /\ late' = late \ {<<u, c>>} /\ Execute(u, c)
        /\ job' = job /\ up' = up /\ ai' = ai
    BY DEF LateExecution
  <1>2. ImportTyped /\ \A v \in Uploads : UploadOK(v)
    BY DEF ImportInv
  <1>3. u \in Uploads /\ c \in AllCalls
    BY <1>1, <1>2 DEF ImportTyped
  <1>4. c = BuildCall => built[u] = 0
    BY <1>1, <1>2, <1>3 DEF UploadOK
  <1>5. /\ revision' = [v \in Uploads |-> revision'[v]] /\ built' \in [Uploads -> 0..1]
        /\ \A v \in Uploads : v # u => revision'[v] = revision[v] /\ built'[v] = built[v]
        /\ c = CommitCall => revision'[u] = {saved[u[2]]}
        /\ c # CommitCall => revision'[u] = revision[u]
        /\ c # BuildCall => built'[u] = built[u]
    BY <1>1, <1>2, <1>3, <1>4, EffectsAre
  <1>6. /\ saved' = [p \in Problems |-> saved'[p]]
        /\ raced \subseteq raced' /\ raced' \subseteq Uploads
        /\ \A v \in Uploads : job[v[1]] # "new" => \A d : Stored(v, d) => Stored(v, d)'
    BY <1>1, <1>2, <1>3, ExecuteIs
  <1>7. ImportTyped'
    BY <1>1, <1>2, <1>5, <1>6 DEF ImportTyped
  <1>8. ASSUME NEW v \in Uploads, v # u
        PROVE  UploadOK(v)'
    <2>1. UploadOK(v) /\ revision'[v] = revision[v] /\ built'[v] = built[v]
      BY <1>2, <1>5, <1>8
    <2>2. /\ up'[v] = up[v] /\ ai'[v] = ai[v] /\ job'[v[1]] = job[v[1]]
          /\ \A d : <<v, d>> \in late' => <<v, d>> \in late
      BY <1>1
    <2>3. QED
      BY <1>6, <2>1, <2>2, OtherIs
  <1>9. UploadOK(u)'
    <2>1. UploadOK(u)
      BY <1>2, <1>3
    <2>2. job[u[1]] \notin {"new", "parsing"}
      BY <1>1, <1>3, <2>1 DEF UploadOK
    <2>3. \A d : Stored(u, d) => Stored(u, d)'
      BY <1>3, <1>6, <2>2
    <2>4. c # CommitCall \/ revision'[u] # {}
      BY <1>5
    <2>5. revision'[u] # {} \/ revision'[u] = revision[u]
      BY <1>5, <2>4
    <2>6. Running(u[1])' /\ ~up'[u].ended => UnderWay(u)'
      <3> SUFFICES ASSUME job'[u[1]] = "running", ~up'[u].ended
                   PROVE  UnderWay(u)'
        BY DEF Running
      <3>1. UnderWay(u)
        BY <1>1, <2>1 DEF UploadOK, Running
      <3>2. c # BuildCall /\ built'[u] = 0
        BY <1>1, <1>5, <3>1 DEF UnderWay
      <3>3. <<u, BuildCall>> \notin late'
        BY <1>1, <3>1 DEF UnderWay
      <3>4. Going(up[u])' /\ \A d : Left(up[u], d)' <=> Left(up[u], d)
        BY <1>1, <3>1 DEF UnderWay, Going, Left
      <3>5. QED
        BY <1>1, <2>3, <2>5, <3>1, <3>2, <3>3, <3>4 DEF UnderWay
    <2>7. <<u, BuildCall>> \in late' => built'[u] = 0
      BY <1>1, <1>5, <2>1 DEF UploadOK
    <2>8. <<u, CommitCall>> \in late' => IsStored(u)'
      BY <1>1, <2>1, <2>3 DEF UploadOK, IsStored
    <2>9. \A taken \in revision'[u], d \in Wanted[u] : d \in DOMAIN taken /\ (u \in raced' \/ taken[d] = u[1])
      <3>1. CASE c = CommitCall
        <4>1. IsStored(u)
          BY <1>1, <2>1, <3>1 DEF UploadOK
        <4>2. QED
          BY <1>3, <1>5, <1>6, <3>1, <4>1, TakenIs
      <3>2. CASE c # CommitCall
        BY <1>5, <1>6, <2>1, <3>2 DEF UploadOK
      <3>3. QED
        BY <3>1, <3>2
    <2>10. QED
      BY <1>1, <2>1, <2>2, <2>5, <2>6, <2>7, <2>8, <2>9 DEF UploadOK
  <1>10. QED
    BY <1>7, <1>8, <1>9 DEF ImportInv

\* What an attempt changes, whatever its answer.
LEMMA AttemptDoes ==
  ASSUME ImportTyped, NEW u \in Uploads, UnderWay(u), NEW x \in up[u].busy, NEW answer,
         Attempt(u, x, answer)
  PROVE  /\ x[1] \in AllCalls
         /\ revision' = [v \in Uploads |-> revision'[v]] /\ built' \in [Uploads -> 0..1]
         /\ saved' = [p \in Problems |-> saved'[p]]
         /\ raced \subseteq raced' /\ raced' \subseteq Uploads
         /\ \A v \in Uploads : v # u => revision'[v] = revision[v] /\ built'[v] = built[v]
         /\ x[1] = CommitCall /\ answer = "ok" => revision'[u] = {saved[u[2]]}
         /\ ~(x[1] = CommitCall /\ answer = "ok") => revision'[u] = revision[u]
         /\ ~(x[1] = BuildCall /\ answer = "ok") => built'[u] = 0
         /\ \A v \in Uploads : job[v[1]] # "new" => \A d : Stored(v, d) => Stored(v, d)'
         /\ answer = "ok" => \A d \in Wanted[u] : d = x[1] => Stored(u, d)'
         /\ \A v \in Uploads : \A d : <<v, d>> \in late' =>
              <<v, d>> \in late \/ (v = u /\ d = x[1] /\ answer # "ok" /\ answer \in MaybeExecuted)
         /\ late' \subseteq Uploads \X AllCalls
  <1>1. Going(up[u]) /\ built[u] = 0
    BY DEF UnderWay
  <1>2. x[1] \in AllCalls
    BY <1>1, GoingIs
  <1>3. /\ revision = [v \in Uploads |-> revision[v]] /\ built \in [Uploads -> 0..1]
        /\ saved = [p \in Problems |-> saved[p]] /\ raced \subseteq Uploads
        /\ late \subseteq Uploads \X AllCalls
    BY DEF ImportTyped
  <1>4. CASE answer = "ok"
    <2>1. Execute(u, x[1]) /\ late' = late
      BY <1>4 DEF Attempt
    <2>2. /\ revision' = [v \in Uploads |-> revision'[v]] /\ built' \in [Uploads -> 0..1]
          /\ \A v \in Uploads : v # u => revision'[v] = revision[v] /\ built'[v] = built[v]
          /\ x[1] = CommitCall => revision'[u] = {saved[u[2]]}
          /\ x[1] # CommitCall => revision'[u] = revision[u]
          /\ x[1] # BuildCall => built'[u] = built[u]
      BY <1>1, <1>2, <2>1, EffectsAre
    <2>3. /\ saved' = [p \in Problems |-> saved'[p]]
          /\ raced \subseteq raced' /\ raced' \subseteq Uploads
          /\ \A v \in Uploads : job[v[1]] # "new" => \A d : Stored(v, d) => Stored(v, d)'
          /\ Writes(x[1]) /\ Saved(x[1]) = x[1] => Stored(u, x[1])'
      BY <1>2, <2>1, ExecuteIs
    <2>4. \A d \in Wanted[u] : d = x[1] => Stored(u, d)'
      <3> SUFFICES ASSUME x[1] \in Wanted[u]
                   PROVE  Stored(u, x[1])'
        BY DEF Stored
      <3>1. Writes(x[1]) /\ Saved(x[1]) = x[1]
        BY WantedAre
      <3>2. QED
        BY <2>3, <3>1
    <2>5. QED
      BY <1>1, <1>2, <1>3, <1>4, <2>1, <2>2, <2>3, <2>4
  <1>5. CASE answer # "ok"
    <2>1. /\ saved' = saved /\ revision' = revision /\ built' = built /\ raced' = raced
          /\ late' = late \union (IF answer \in MaybeExecuted /\ x[1].kind \notin ReadsOnly
                                  THEN {<<u, x[1]>>} ELSE {})
      BY <1>5 DEF Attempt
    <2>2. \A v \in Uploads : \A d : <<v, d>> \in late' =>
            <<v, d>> \in late \/ (v = u /\ d = x[1] /\ answer # "ok" /\ answer \in MaybeExecuted)
      BY <1>5, <2>1
    <2>3. late' \subseteq Uploads \X AllCalls
      BY <1>2, <1>3, <2>1
    <2>4. \A v \in Uploads : \A d : Stored(v, d) => Stored(v, d)'
      BY <2>1 DEF Stored
    <2>5. QED
      BY <1>1, <1>2, <1>3, <1>5, <2>1, <2>2, <2>3, <2>4
  <1>6. QED
    BY <1>4, <1>5

\* An attempt of a call, by the outcome of its upload and its effects.
LEMMA AttemptIs ==
  ASSUME ImportInv, NEW u \in Uploads, NEW x \in up[u].busy, NEW answer, Attempt(u, x, answer)
  PROVE  ImportInv'
  <1> DEFINE n == Outcome(u, x, answer)
             r == up[u]
  <1>1. ImportTyped /\ \A v \in Uploads : UploadOK(v)
    BY DEF ImportInv
  <1>2. /\ job[u[1]] = "running" /\ job' = job
        /\ up' = [up EXCEPT ![u] = n] /\ ai' = [ai EXCEPT ![u] = AiOf(u, x, n)]
    BY DEF Attempt, Running
  <1>3. UploadOK(u) /\ ~r.ended /\ UnderWay(u)
    <2>1. UploadOK(u)
      BY <1>1
    <2>2. ~r.ended
      BY <2>1 DEF UploadOK
    <2>3. QED
      BY <1>2, <2>1, <2>2 DEF UploadOK, Running
  <1>4. Going(r)
    BY <1>3 DEF UnderWay
  <1>5. OutcomeOf(u, r, x, answer, n)
    BY <1>4, OutcomeIs
  <1>6. /\ x[1] \in AllCalls
        /\ revision' = [v \in Uploads |-> revision'[v]] /\ built' \in [Uploads -> 0..1]
        /\ saved' = [p \in Problems |-> saved'[p]]
        /\ raced \subseteq raced' /\ raced' \subseteq Uploads
        /\ \A v \in Uploads : v # u => revision'[v] = revision[v] /\ built'[v] = built[v]
        /\ x[1] = CommitCall /\ answer = "ok" => revision'[u] = {saved[u[2]]}
        /\ ~(x[1] = CommitCall /\ answer = "ok") => revision'[u] = revision[u]
        /\ ~(x[1] = BuildCall /\ answer = "ok") => built'[u] = 0
        /\ \A v \in Uploads : job[v[1]] # "new" => \A d : Stored(v, d) => Stored(v, d)'
        /\ answer = "ok" => \A d \in Wanted[u] : d = x[1] => Stored(u, d)'
        /\ \A v \in Uploads : \A d : <<v, d>> \in late' =>
             <<v, d>> \in late \/ (v = u /\ d = x[1] /\ answer # "ok" /\ answer \in MaybeExecuted)
        /\ late' \subseteq Uploads \X AllCalls
    BY <1>1, <1>3, AttemptDoes
  <1>7. /\ r.todo[1] = CommitStep => x[1] = CommitCall
        /\ r.todo[1] = BuildStep => x[1] = BuildCall /\ r.todo # <<ListStep>>
        /\ r.todo # <<ListStep>> \/ r.todo[1] = ListStep
    <2>1. r.todo[1] = BuildStep => r.todo # <<ListStep>>
      <3>1. r.todo = <<ListStep>> => r.todo[1] = ListStep
        OBVIOUS
      <3>2. QED
        BY <3>1, StepsDiffer
    <2>2. r.todo # <<ListStep>> \/ r.todo[1] = ListStep
      OBVIOUS
    <2> HIDE DEF r
    <2>3. x \in r.busy
      BY DEF r
    <2>4. QED
      BY <1>4, <2>1, <2>2, <2>3, GoingIs
  <1> HIDE DEF n
  <1>8. up \in [Uploads -> Records] /\ ai \in [Uploads -> DOMAIN AiService \cup {"none", "running", "cancelled"}]
    BY <1>1 DEF ImportTyped
  <1>9. AiOf(u, x, n) \in {"cancelled", "running", ai[u]} /\ (n.ended => AiOf(u, x, n) # "running")
    BY DEF AiOf
  <1>10. /\ up' \in [Uploads -> Records] /\ up'[u] = n /\ ai'[u] = AiOf(u, x, n)
         /\ ai' \in [Uploads -> DOMAIN AiService \cup {"none", "running", "cancelled"}]
         /\ \A v \in Uploads : v # u => up'[v] = up[v] /\ ai'[v] = ai[v]
    <2>1. n \in Records
      BY <1>5 DEF OutcomeOf
    <2>2. AiOf(u, x, n) \in DOMAIN AiService \cup {"none", "running", "cancelled"}
      BY <1>8, <1>9
    <2> DEFINE a == AiOf(u, x, n)
               S == DOMAIN AiService \cup {"none", "running", "cancelled"}
    <2>3. ai' = [ai EXCEPT ![u] = a] /\ a \in S /\ ai \in [Uploads -> S]
      BY <1>2, <1>8, <2>2
    <2> HIDE DEF a, S
    <2>4. ai'[u] = a /\ ai' \in [Uploads -> S] /\ \A v \in Uploads : v # u => ai'[v] = ai[v]
      BY <2>3
    <2>5. up'[u] = n /\ up' \in [Uploads -> Records] /\ \A v \in Uploads : v # u => up'[v] = up[v]
      BY <1>2, <1>8, <2>1
    <2>6. QED
      BY <2>4, <2>5 DEF a, S
  <1>11. ImportTyped'
    BY <1>1, <1>2, <1>6, <1>10 DEF ImportTyped
  <1>12. ASSUME NEW v \in Uploads, v # u
         PROVE  UploadOK(v)'
    <2>1. UploadOK(v) /\ revision'[v] = revision[v] /\ built'[v] = built[v]
      BY <1>1, <1>6, <1>12
    <2>2. /\ up'[v] = up[v] /\ ai'[v] = ai[v] /\ job'[v[1]] = job[v[1]]
          /\ \A d : <<v, d>> \in late' => <<v, d>> \in late
      BY <1>2, <1>6, <1>10, <1>12
    <2>3. QED
      BY <1>6, <2>1, <2>2, OtherIs
  <1>13. UploadOK(u)'
    <2>1. \A d : Stored(u, d) => Stored(u, d)'
      BY <1>2, <1>6
    <2>2. r.todo[1] \in {CommitStep, BuildStep} /\ answer = "ok" => revision'[u] # {}
      <3>1. CASE r.todo[1] = CommitStep
        BY <1>6, <1>7, <3>1
      <3>2. CASE r.todo[1] = BuildStep
        <4>1. revision[u] # {}
          BY <1>3, <1>7, <3>2 DEF UnderWay
        <4>2. QED
          BY <1>6, <4>1
      <3>3. QED
        BY <3>1, <3>2
    <2>3. r.todo[1] = BuildStep => revision'[u] # {}
      <3> SUFFICES ASSUME r.todo[1] = BuildStep
                   PROVE  revision'[u] # {}
        OBVIOUS
      <3>1. revision[u] # {}
        BY <1>3, <1>7 DEF UnderWay
      <3>2. QED
        BY <1>6, <3>1
    <2>4. /\ n.ended => n.busy = {} /\ (n.stage = "done" => revision'[u] # {})
          /\ ~n.ended => Going(n) /\ n.stage # "done" /\ (n.todo[1] = BuildStep => revision'[u] # {})
      <3> HIDE DEF r
      <3>1. n.ended => n.busy = {} /\ (n.stage = "done" => revision'[u] # {})
        BY <1>5, <2>2 DEF OutcomeOf
      <3>2. ~n.ended => Going(n) /\ (n.todo[1] = BuildStep => revision'[u] # {})
        BY <1>5, <2>2, <2>3 DEF OutcomeOf
      <3>3. QED
        BY <3>1, <3>2 DEF Going
    <2>5. ~n.ended => built'[u] = 0 /\ <<u, BuildCall>> \notin late'
      <3> HIDE DEF r
      <3> SUFFICES ASSUME ~n.ended
                   PROVE  built'[u] = 0 /\ <<u, BuildCall>> \notin late'
        OBVIOUS
      <3>1. ~(x[1] = BuildCall /\ answer \in MaybeExecuted \cup {"ok"})
        BY <1>5 DEF OutcomeOf
      <3>2. <<u, BuildCall>> \notin late
        BY <1>3 DEF UnderWay
      <3>3. QED
        BY <1>6, <3>1, <3>2
    <2>6. ASSUME ~n.ended, n.todo # <<ListStep>>, ~n.failed, NEW c \in Wanted[u]
          PROVE  Stored(u, c)' \/ Left(n, c)
      <3>1. \/ r.todo # <<ListStep>> /\ ~Left(r, c) /\ ~r.failed
            \/ Left(n, c)
            \/ answer = "ok" /\ c = x[1]
        <4> HIDE DEF r
        <4>1. QED
          BY <1>5, <2>6 DEF OutcomeOf
      <3>2. CASE r.todo # <<ListStep>> /\ ~Left(r, c) /\ ~r.failed
        <4>1. Stored(u, c)
          BY <1>3, <3>2 DEF UnderWay
        <4>2. QED
          BY <2>1, <4>1
      <3>3. CASE answer = "ok" /\ c = x[1]
        BY <1>6, <3>3
      <3>4. QED
        BY <3>1, <3>2, <3>3
    <2>7. ~n.ended => UnderWay(u)'
      <3> SUFFICES ASSUME ~n.ended
                   PROVE  UnderWay(u)'
        OBVIOUS
      <3>1. up'[u] = n /\ Wanted' = Wanted
        BY <1>10 DEF Wanted
      <3>2. Going(up[u])' /\ \A c : Left(up[u], c)' <=> Left(n, c)
        BY <2>4, <3>1 DEF Going, Left
      <3>3. QED
        BY <2>4, <2>5, <2>6, <3>1, <3>2 DEF UnderWay
    <2>8. <<u, BuildCall>> \in late' => built'[u] = 0
      <3>1. <<u, BuildCall>> \notin late
        BY <1>3 DEF UnderWay
      <3>2. QED
        BY <1>6, <3>1
    <2>9. x[1] = CommitCall => IsStored(u)
      BY <1>3, CommitTime
    <2>10. <<u, CommitCall>> \in late' => IsStored(u)'
      <3> SUFFICES ASSUME <<u, CommitCall>> \in late'
                   PROVE  IsStored(u)'
        OBVIOUS
      <3>1. <<u, CommitCall>> \in late \/ x[1] = CommitCall
        BY <1>6
      <3>2. IsStored(u)
        BY <1>3, <2>9, <3>1 DEF UploadOK
      <3>3. QED
        BY <2>1, <3>2 DEF IsStored
    <2>11. \A taken \in revision'[u], c \in Wanted[u] : c \in DOMAIN taken /\ (u \in raced' \/ taken[c] = u[1])
      <3>1. CASE x[1] = CommitCall /\ answer = "ok"
        <4>1. IsStored(u) /\ revision'[u] = {saved[u[2]]}
          BY <1>6, <2>9, <3>1
        <4>2. QED
          BY <1>6, <4>1, TakenIs
      <3>2. CASE ~(x[1] = CommitCall /\ answer = "ok")
        BY <1>3, <1>6, <3>2 DEF UploadOK
      <3>3. QED
        BY <3>1, <3>2
    <2>12. job'[u[1]] = "running"
      BY <1>2
    <2>13. QED
      BY <1>9, <1>10, <2>4, <2>7, <2>8, <2>10, <2>11, <2>12 DEF UploadOK
  <1>14. QED
    BY <1>11, <1>12, <1>13 DEF ImportInv

\* The answer of the AI service goes to the upload, at once if it is awaited.
LEMMA AiAnswersIs ==
  ASSUME ImportInv, NEW u \in Uploads, NEW answer \in AiResults, AiAnswers(u, answer)
  PROVE  ImportInv'
  <1> DEFINE r == up[u]
  <1>1. ImportTyped /\ \A v \in Uploads : UploadOK(v)
    BY DEF ImportInv
  <1>2. /\ job[u[1]] = "running" /\ ai[u] = "running" /\ ai' = [ai EXCEPT ![u] = answer]
        /\ up' = IF r.todo[1].part = "ai" THEN [up EXCEPT ![u] = Begin(r, r.todo, answer)] ELSE up
        /\ job' = job /\ present' = present /\ saved' = saved /\ late' = late
        /\ revision' = revision /\ built' = built /\ raced' = raced
    BY DEF AiAnswers, Running, polygon
  <1>3. up \in [Uploads -> Records] /\ ai \in [Uploads -> DOMAIN AiService \cup {"none", "running", "cancelled"}]
    BY <1>1 DEF ImportTyped
  <1>4. UploadOK(u) /\ ~r.ended /\ UnderWay(u)
    <2>1. UploadOK(u)
      BY <1>1
    <2>2. ~r.ended
      BY <1>2, <2>1 DEF UploadOK
    <2>3. QED
      BY <1>2, <2>1, <2>2 DEF UploadOK, Running
  <1>5. Going(r) /\ r \in Records /\ r.todo \in Seq(AllSteps) /\ r.todo # <<>>
    BY <1>4, RecordIs DEF UnderWay, Going
  <1> DEFINE n == up'[u]
  <1>6. /\ n \in Records /\ Going(n) /\ (~n.failed => ~r.failed)
        /\ n.todo # <<ListStep>> => r.todo # <<ListStep>>
        /\ ~r.failed => \A c : Left(r, c) => Left(n, c)
        /\ n.todo[1] = BuildStep => r.todo[1] = BuildStep
    <2>1. CASE r.todo[1].part # "ai"
      <3>1. n = r
        BY <1>2, <2>1
      <3>2. QED
        BY <1>5, <3>1
    <2>2. CASE r.todo[1].part = "ai"
      <3>1. n = Begin(r, r.todo, answer)
        BY <1>2, <1>3, <2>2
      <3> HIDE DEF r, n
      <3>2. r.todo[1] = AiStep
        <4>1. r.todo[1] \in AllSteps
          BY <1>5
        <4>2. QED
          BY <2>2, <4>1, CallsAre
      <3>3. InPlan(r.todo) /\ ~r.failed /\ r.todo # <<ListStep>>
        <4>1. r.todo # <<ListStep>>
          <5>1. r.todo = <<ListStep>> => r.todo[1] = ListStep
            OBVIOUS
          <5>2. QED
            BY <3>2, <5>1, StepsDiffer
        <4>2. QED
          BY <1>5, <3>2, <4>1 DEF Going
      <3>4. /\ Going(n) /\ ~n.failed
            /\ \A k \in 1..Len(r.todo) : \A c \in r.todo[k].calls : Left(n, c)
            /\ n.todo[1] = BuildStep => r.todo[1] = BuildStep
        <4>1. ~r.ended
          BY <1>5 DEF Going
        <4>2. QED
          BY <1>5, <3>1, <3>3, <4>1, BeginIs
      <3>5. r.busy = {}
        BY <1>5, <3>2, StepsDiffer DEF Going
      <3>6. \A c : Left(r, c) => Left(n, c)
        <4> SUFFICES ASSUME NEW c, Left(r, c)
                     PROVE  Left(n, c)
          OBVIOUS
        <4>1. PICK k \in 2..Len(r.todo) : c \in r.todo[k].calls
          BY <3>5 DEF Left
        <4>2. k \in 1..Len(r.todo)
          BY <1>5
        <4>3. QED
          BY <3>4, <4>1, <4>2
      <3>7. n \in Records
        BY <3>4 DEF Going
      <3>8. QED
        BY <3>3, <3>4, <3>6, <3>7
    <2>3. QED
      BY <2>1, <2>2
  <1>7. answer \in DOMAIN AiService /\ answer # "running"
    BY AiAssumption DEF AiService
  <1>8. /\ ai' \in [Uploads -> DOMAIN AiService \cup {"none", "running", "cancelled"}]
        /\ ai'[u] = answer /\ \A v \in Uploads : v # u => ai'[v] = ai[v]
    <2> DEFINE S == DOMAIN AiService \cup {"none", "running", "cancelled"}
    <2>1. answer \in S /\ ai \in [Uploads -> S]
      BY <1>3, <1>7
    <2> HIDE DEF S
    <2>2. ai' \in [Uploads -> S] /\ ai'[u] = answer /\ \A v \in Uploads : v # u => ai'[v] = ai[v]
      BY <1>2, <2>1
    <2>3. QED
      BY <2>2 DEF S
  <1>9. up' \in [Uploads -> Records] /\ \A v \in Uploads : v # u => up'[v] = up[v]
    <2>1. CASE r.todo[1].part # "ai"
      BY <1>2, <1>3, <2>1
    <2>2. CASE r.todo[1].part = "ai"
      <3> DEFINE b == Begin(r, r.todo, answer)
      <3>1. up' = [up EXCEPT ![u] = b]
        BY <1>2, <2>2
      <3>2. b \in Records
        <4>1. n = b
          BY <1>3, <3>1
        <4>2. QED
          BY <1>6, <4>1
      <3> HIDE DEF b
      <3>3. QED
        BY <1>3, <3>1, <3>2
    <2>3. QED
      BY <2>1, <2>2
  <1> HIDE DEF n
  <1>10. ImportTyped'
    BY <1>1, <1>2, <1>8, <1>9 DEF ImportTyped
  <1>11. \A v \in Uploads : \A d : Stored(v, d) <=> Stored(v, d)'
    BY <1>2 DEF Stored
  <1>12. ASSUME NEW v \in Uploads, v # u
         PROVE  UploadOK(v)'
    <2>1. UploadOK(v) /\ revision'[v] = revision[v] /\ built'[v] = built[v]
      BY <1>1, <1>2
    <2>2. /\ up'[v] = up[v] /\ ai'[v] = ai[v] /\ job'[v[1]] = job[v[1]] /\ raced \subseteq raced'
          /\ \A d : <<v, d>> \in late' => <<v, d>> \in late
      BY <1>2, <1>8, <1>9, <1>12
    <2>3. QED
      BY <1>11, <2>1, <2>2, OtherIs
  <1>13. UploadOK(u)'
    <2>1. ~n.ended /\ n.stage # "done"
      BY <1>6 DEF Going
    <2>2. Going(up[u])' /\ \A c : Left(up[u], c)' <=> Left(n, c)
      BY <1>6 DEF Going, Left, n
    <2>3. UnderWay(u)'
      <3>1. built'[u] = 0 /\ <<u, BuildCall>> \notin late'
        BY <1>2, <1>4 DEF UnderWay
      <3>2. ASSUME n.todo # <<ListStep>>, ~n.failed, NEW c \in Wanted[u]
            PROVE  Stored(u, c)' \/ Left(n, c)
        <4>1. r.todo # <<ListStep>> /\ ~r.failed
          BY <1>6, <3>2
        <4>2. Stored(u, c) \/ Left(r, c)
          BY <1>4, <4>1 DEF UnderWay
        <4>3. QED
          BY <1>6, <1>11, <4>1, <4>2
      <3>3. ASSUME n.todo # <<ListStep>>, n.todo[1] = BuildStep
            PROVE  revision'[u] # {}
        <4>1. r.todo # <<ListStep>> /\ r.todo[1] = BuildStep
          BY <1>6, <3>3
        <4>2. QED
          BY <1>2, <1>4, <4>1 DEF UnderWay
      <3>4. n = up'[u] /\ Wanted' = Wanted
        BY DEF n, Wanted
      <3>5. QED
        BY <2>2, <3>1, <3>2, <3>3, <3>4 DEF UnderWay
    <2>4. <<u, CommitCall>> \in late' => IsStored(u)'
      BY <1>2, <1>4, <1>11 DEF UploadOK, IsStored
    <2>5. /\ <<u, BuildCall>> \in late' => built'[u] = 0
          /\ \A taken \in revision'[u], c \in Wanted[u] : c \in DOMAIN taken /\ (u \in raced' \/ taken[c] = u[1])
          /\ job'[u[1]] = "running"
      BY <1>2, <1>4 DEF UploadOK
    <2>6. QED
      BY <2>1, <2>3, <2>4, <2>5 DEF UploadOK, n
  <1>14. QED
    BY <1>10, <1>12, <1>13 DEF ImportInv

\* A request has come.
LEMMA RouteIs ==
  ASSUME ImportInv, NEW i \in Imports, RouteImportArchive(i)
  PROVE  ImportInv'
  <1>1. ImportTyped /\ \A v \in Uploads : UploadOK(v)
    BY DEF ImportInv
  <1>2. /\ job[i] = "new" /\ job' = [job EXCEPT ![i] = "parsing"]
        /\ up' = up /\ ai' = ai /\ present' = present /\ saved' = saved /\ late' = late
        /\ revision' = revision /\ built' = built /\ raced' = raced
    BY DEF RouteImportArchive, polygon
  <1>3. ImportTyped'
    BY <1>1, <1>2 DEF ImportTyped
  <1>4. ASSUME NEW v \in Uploads
        PROVE  UploadOK(v)'
    <2>1. v[1] \in Imports
      BY DEF Uploads
    <2>2. /\ job'[v[1]] \in {"new", "parsing"} => job[v[1]] \in {"new", "parsing"}
          /\ job'[v[1]] = "running" => job[v[1]] = "running"
      BY <1>1, <1>2, <2>1 DEF ImportTyped
    <2>3. \A d : Stored(v, d) => Stored(v, d)'
      BY <1>2 DEF Stored
    <2>4. UploadOK(v)
      BY <1>1
    <2>5. QED
      BY <1>2, <2>2, <2>3, <2>4, OtherIs
  <1>5. QED
    BY <1>3, <1>4 DEF ImportInv

\* The archive is read: the uploads begin, or it is no archive.
LEMMA ParseIs ==
  ASSUME ImportInv, NEW i \in Imports, Parse(i)
  PROVE  ImportInv'
  <1>1. ImportTyped /\ \A v \in Uploads : UploadOK(v)
    BY DEF ImportInv
  <1> DEFINE t == Took(NoUpload, <<Must("create", "list", 0)>>)
  <1>2. /\ job[i] = "parsing" /\ \E s \in {"running", "error"} : job' = [job EXCEPT ![i] = s]
        /\ \/ up' = up /\ job'[i] # "running"
           \/ up' = [u \in Uploads |-> IF u[1] = i THEN t ELSE up[u]]
        /\ ai' = ai /\ present' = present /\ saved' = saved /\ late' = late
        /\ revision' = revision /\ built' = built /\ raced' = raced
    <2>1. job \in [Imports -> {"new", "parsing", "running", "done", "done with errors", "error", "lost"}]
      BY <1>1 DEF ImportTyped
    <2>2. QED
      BY <2>1 DEF Parse, polygon
  <1>3. /\ t \in Records /\ Going(t) /\ t.todo = <<ListStep>>
    <2>1. ListStep \in AllSteps /\ t = Took(NoUpload, <<ListStep>>)
      BY DEF AllSteps, ListStep
    <2>2. <<ListStep>> \in Seq(AllSteps) /\ <<ListStep>> # <<>> /\ <<ListStep>>[1] = ListStep
      BY <2>1
    <2> HIDE DEF t
    <2>3. /\ t \in Records /\ t.todo = <<ListStep>> /\ t.busy = {<<c, 1>> : c \in ListStep.calls}
          /\ t.failed = FALSE /\ t.ended = FALSE /\ t.stage \notin {"wait", "done", "error"}
      <3>1. NoUpload.failed = FALSE /\ NoUpload.ended = FALSE
        BY DEF NoUpload
      <3>2. QED
        BY <2>1, <2>2, <3>1, NoUploadIs, TookIs
    <2>4. Going(t)
      <3>1. \A x \in t.busy : x[1] \in t.todo[1].calls
        BY <2>2, <2>3
      <3>2. \A x, y \in t.busy : x[1] = y[1] => x = y
        BY <2>3
      <3>3. QED
        BY <2>2, <2>3, <3>1, <3>2 DEF Going
    <2>5. QED
      BY <2>3, <2>4
  <1> HIDE DEF t
  <1>4. up \in [Uploads -> Records]
    BY <1>1 DEF ImportTyped
  <1>5. ImportTyped'
    <2>1. up' \in [Uploads -> Records]
      BY <1>2, <1>3, <1>4
    <2>2. job' \in [Imports -> {"new", "parsing", "running", "done", "done with errors", "error", "lost"}]
      BY <1>1, <1>2 DEF ImportTyped
    <2>3. QED
      BY <1>1, <1>2, <2>1, <2>2 DEF ImportTyped
  <1>6. ASSUME NEW v \in Uploads
        PROVE  UploadOK(v)'
    <2>1. v[1] \in Imports
      BY DEF Uploads
    <2>2. \A d : Stored(v, d) => Stored(v, d)'
      BY <1>2 DEF Stored
    <2>3. UploadOK(v)
      BY <1>1
    <2>4. v[1] # i => job'[v[1]] = job[v[1]]
      BY <1>1, <1>2, <2>1 DEF ImportTyped
    <2>5. job'[i] \in {"running", "error"}
      BY <1>1, <1>2 DEF ImportTyped
    <2>6. CASE up'[v] = up[v] /\ (v[1] = i => job'[i] # "running")
      <3>1. /\ job'[v[1]] \in {"new", "parsing"} => job[v[1]] \in {"new", "parsing"}
            /\ job'[v[1]] = "running" => job[v[1]] = "running"
        BY <2>4, <2>5, <2>6
      <3>2. QED
        BY <1>2, <2>2, <2>3, <2>6, <3>1, OtherIs
    <2>7. CASE v[1] = i /\ up'[v] = t
      <3>1. /\ ai[v] = "none" /\ built[v] = 0 /\ revision[v] = {}
            /\ \A c \in AllCalls : <<v, c>> \notin late
        BY <1>2, <2>3, <2>7 DEF UploadOK
      <3>2. BuildCall \in AllCalls /\ CommitCall \in AllCalls
        BY StepsDiffer DEF AllCalls, AllSteps
      <3>3. ~t.ended /\ t.stage # "done"
        BY <1>3 DEF Going
      <3>4. Going(up[v])'
        BY <1>3, <2>7 DEF Going
      <3>5. UnderWay(v)'
        BY <1>2, <1>3, <2>7, <3>1, <3>2, <3>4 DEF UnderWay
      <3>6. QED
        BY <1>2, <2>5, <2>7, <3>1, <3>2, <3>3, <3>5 DEF UploadOK
    <2>8. QED
      <3>1. CASE v[1] = i
        BY <1>2, <2>6, <2>7, <3>1
      <3>2. CASE v[1] # i
        BY <1>2, <2>6, <3>2
      <3>3. QED
        BY <3>1, <3>2
  <1>7. QED
    BY <1>5, <1>6 DEF ImportInv

\* An import ends when all of its uploads have.
LEMMA RunEndsIs ==
  ASSUME ImportInv, NEW i \in Imports, RunImportEnds(i)
  PROVE  ImportInv'
  <1>1. ImportTyped /\ \A v \in Uploads : UploadOK(v)
    BY DEF ImportInv
  <1>2. /\ job[i] = "running" /\ Ended(i)
        /\ \E s \in {"done", "done with errors"} : job' = [job EXCEPT ![i] = s]
        /\ up' = [u \in Uploads |-> IF u[1] = i /\ up[u].failed THEN [up[u] EXCEPT !.stage = "error"] ELSE up[u]]
        /\ ai' = ai /\ present' = present /\ saved' = saved /\ late' = late
        /\ revision' = revision /\ built' = built /\ raced' = raced
    BY DEF RunImportEnds, Running, polygon
  <1>3. up \in [Uploads -> Records]
    BY <1>1 DEF ImportTyped
  <1>4. \A r \in Records : /\ [r EXCEPT !.stage = "error"] \in Records
                           /\ [r EXCEPT !.stage = "error"].ended = r.ended
                           /\ [r EXCEPT !.stage = "error"].busy = r.busy
                           /\ [r EXCEPT !.stage = "error"].stage = "error"
    BY DEF Records
  <1>5. ImportTyped'
    <2>1. up' \in [Uploads -> Records]
      BY <1>2, <1>3, <1>4
    <2>2. job' \in [Imports -> {"new", "parsing", "running", "done", "done with errors", "error", "lost"}]
      BY <1>1, <1>2 DEF ImportTyped
    <2>3. QED
      BY <1>1, <1>2, <2>1, <2>2 DEF ImportTyped
  <1>6. ASSUME NEW v \in Uploads
        PROVE  UploadOK(v)'
    <2>1. v[1] \in Imports
      BY DEF Uploads
    <2>2. \A d : Stored(v, d) <=> Stored(v, d)'
      BY <1>2 DEF Stored
    <2>3. UploadOK(v)
      BY <1>1
    <2>4. v[1] # i => job'[v[1]] = job[v[1]] /\ up'[v] = up[v]
      BY <1>1, <1>2, <2>1 DEF ImportTyped
    <2>5. job'[i] \in {"done", "done with errors"}
      BY <1>1, <1>2 DEF ImportTyped
    <2>6. CASE v[1] # i
      BY <1>2, <2>2, <2>3, <2>4, <2>6, OtherIs
    <2>7. CASE v[1] = i
      <3>1. up[v].ended /\ up[v] \in Records
        BY <1>2, <1>3, <2>7 DEF Ended
      <3>2. /\ up'[v].ended /\ up'[v].busy = up[v].busy
            /\ up'[v].stage = "done" => up[v].stage = "done"
        <4>1. CASE up[v].failed
          <5>1. up'[v] = [up[v] EXCEPT !.stage = "error"]
            BY <1>2, <2>7, <4>1
          <5>2. QED
            BY <1>4, <3>1, <5>1
        <4>2. CASE ~up[v].failed
          <5>1. up'[v] = up[v]
            BY <1>2, <2>7, <4>2
          <5>2. QED
            BY <3>1, <5>1
        <4>3. QED
          BY <4>1, <4>2
      <3>3. <<v, CommitCall>> \in late' => IsStored(v)'
        BY <1>2, <2>2, <2>3 DEF UploadOK, IsStored
      <3>4. /\ up[v].busy = {} /\ ai'[v] # "running"
            /\ <<v, BuildCall>> \in late' => built'[v] = 0
            /\ up'[v].stage = "done" => revision'[v] # {}
            /\ \A taken \in revision'[v], c \in Wanted[v] : c \in DOMAIN taken /\ (v \in raced' \/ taken[c] = v[1])
        BY <1>2, <2>3, <3>1, <3>2 DEF UploadOK
      <3>5. QED
        BY <2>5, <2>7, <3>2, <3>3, <3>4 DEF UploadOK, Running
    <2>8. QED
      BY <2>6, <2>7
  <1>7. QED
    BY <1>5, <1>6 DEF ImportInv

\* The process is restarted: what it waited for may still be executed.
LEMMA RestartsIs ==
  ASSUME ImportInv, ProcessRestarts
  PROVE  ImportInv'
  <1>1. ImportTyped /\ \A v \in Uploads : UploadOK(v)
    BY DEF ImportInv
  <1> DEFINE asked(u) == {<<u, x[1]>> : x \in {y \in up[u].busy : y[1].kind \notin ReadsOnly}}
  <1>2. /\ job' = [i \in Imports |-> IF job[i] \in {"parsing", "running"} THEN "lost" ELSE job[i]]
        /\ late' = late \union UNION {asked(u) : u \in {v \in Uploads : Running(v[1])}}
        /\ up' = [u \in Uploads |-> IF job[u[1]] = "running" THEN NoUpload ELSE up[u]]
        /\ ai' = [u \in Uploads |-> IF job[u[1]] = "running" THEN "none" ELSE ai[u]]
        /\ present' = present /\ saved' = saved
        /\ revision' = revision /\ built' = built /\ raced' = raced
    BY DEF ProcessRestarts, Running
  <1>3. up \in [Uploads -> Records] /\ late \subseteq Uploads \X AllCalls
        /\ ai \in [Uploads -> DOMAIN AiService \cup {"none", "running", "cancelled"}]
        /\ job \in [Imports -> {"new", "parsing", "running", "done", "done with errors", "error", "lost"}]
    BY <1>1 DEF ImportTyped
  <1>4. \A u \in Uploads : \A z \in asked(u) : \E x \in up[u].busy : z = <<u, x[1]>> /\ x[1] \in AllCalls
    <2> SUFFICES ASSUME NEW u \in Uploads, NEW x \in up[u].busy
                 PROVE  x[1] \in AllCalls
      OBVIOUS
    <2>1. up[u] \in Records
      BY <1>3
    <2>2. up[u].busy \subseteq AllCalls \X Nat
      BY <2>1, RecordIs
    <2>3. QED
      BY <2>2
  <1>5. \A z \in late' : \/ z \in late
                         \/ \E u \in Uploads : Running(u[1]) /\ z \in asked(u)
    BY <1>2
  <1> HIDE DEF asked
  <1>6. ImportTyped'
    <2>1. up' \in [Uploads -> Records]
      BY <1>2, <1>3, NoUploadIs
    <2>2. late' \subseteq Uploads \X AllCalls
      <3> SUFFICES ASSUME NEW z \in late', z \notin late
                   PROVE  z \in Uploads \X AllCalls
        BY <1>3
      <3>1. PICK u \in Uploads : z \in asked(u)
        BY <1>5
      <3>2. PICK x \in up[u].busy : z = <<u, x[1]>> /\ x[1] \in AllCalls
        BY <1>4, <3>1
      <3>3. QED
        BY <3>2
    <2>3. job' \in [Imports -> {"new", "parsing", "running", "done", "done with errors", "error", "lost"}]
      BY <1>2, <1>3
    <2>4. ai' \in [Uploads -> DOMAIN AiService \cup {"none", "running", "cancelled"}]
      BY <1>2, <1>3
    <2>5. QED
      BY <1>1, <1>2, <2>1, <2>2, <2>3, <2>4 DEF ImportTyped
  <1>7. ASSUME NEW v \in Uploads
        PROVE  UploadOK(v)'
    <2>1. v[1] \in Imports /\ UploadOK(v)
      BY <1>1 DEF Uploads
    <2>2. \A d : Stored(v, d) <=> Stored(v, d)'
      BY <1>2 DEF Stored
    <2>3. CASE job[v[1]] # "running"
      <3>1. up'[v] = up[v] /\ ai'[v] = ai[v] /\ revision'[v] = revision[v] /\ built'[v] = built[v]
        BY <1>2, <2>3
      <3>2. /\ job'[v[1]] \in {"new", "parsing"} => job[v[1]] \in {"new", "parsing"}
            /\ job'[v[1]] = "running" => job[v[1]] = "running"
        BY <1>2, <1>3, <2>1
      <3>3. \A c : <<v, c>> \in late' => <<v, c>> \in late
        <4> SUFFICES ASSUME NEW c, <<v, c>> \in late', <<v, c>> \notin late
                     PROVE  FALSE
          OBVIOUS
        <4>1. PICK u \in Uploads : Running(u[1]) /\ <<v, c>> \in asked(u)
          BY <1>5
        <4>2. \E x \in up[u].busy : <<v, c>> = <<u, x[1]>>
          BY <1>4, <4>1
        <4>3. u = v
          BY <4>2
        <4>4. QED
          BY <2>3, <4>1, <4>3 DEF Running
      <3>4. QED
        BY <1>2, <2>1, <2>2, <3>1, <3>2, <3>3, OtherIs
    <2>4. CASE job[v[1]] = "running"
      <3>1. up'[v] = NoUpload /\ ai'[v] = "none" /\ job'[v[1]] = "lost"
        BY <1>2, <2>1, <2>4
      <3>2. \A c : <<v, c>> \in late' => <<v, c>> \in late \/ \E x \in up[v].busy : c = x[1]
        <4> SUFFICES ASSUME NEW c, <<v, c>> \in late', <<v, c>> \notin late
                     PROVE  \E x \in up[v].busy : c = x[1]
          OBVIOUS
        <4>1. PICK u \in Uploads : Running(u[1]) /\ <<v, c>> \in asked(u)
          BY <1>5
        <4>2. \E x \in up[u].busy : <<v, c>> = <<u, x[1]>>
          BY <1>4, <4>1
        <4>3. QED
          BY <4>2
      <3>3. up[v].busy # {} => UnderWay(v)
        BY <2>1, <2>4 DEF UploadOK, Running
      <3>4. <<v, BuildCall>> \in late' => built'[v] = 0
        <4>1. <<v, BuildCall>> \in late => built[v] = 0
          BY <2>1 DEF UploadOK
        <4>2. up[v].busy # {} => built[v] = 0
          BY <3>3 DEF UnderWay
        <4>3. QED
          BY <1>2, <3>2, <4>1, <4>2
      <3>5. <<v, CommitCall>> \in late' => IsStored(v)'
        <4>1. <<v, CommitCall>> \in late => IsStored(v)
          BY <2>1 DEF UploadOK
        <4>2. (\E x \in up[v].busy : CommitCall = x[1]) => IsStored(v)
          BY <3>3, CommitTime
        <4>3. <<v, CommitCall>> \in late' => IsStored(v)
          BY <3>2, <4>1, <4>2
        <4>4. QED
          BY <2>2, <4>3 DEF IsStored
      <3>6. \A taken \in revision'[v], c \in Wanted[v] : c \in DOMAIN taken /\ (v \in raced' \/ taken[c] = v[1])
        BY <1>2, <2>1 DEF UploadOK
      <3>7. QED
        BY <3>1, <3>4, <3>5, <3>6, NoUploadIs DEF UploadOK, Running
    <2>5. QED
      BY <2>3, <2>4
  <1>8. QED
    BY <1>6, <1>7 DEF ImportInv

\* The invariant holds at first and with every step, and is what is claimed.
LEMMA ImportInit_Inv == ImportInit => ImportInv
  <1> SUFFICES ASSUME ImportInit
               PROVE  ImportInv
    OBVIOUS
  <1>1. \A v \in Uploads : v[1] \in Imports /\ v[2] \in Problems
    BY DEF Uploads
  <1>2. ImportTyped
    BY NoUploadIs DEF ImportInit, ImportTyped
  <1>3. ASSUME NEW v \in Uploads
        PROVE  UploadOK(v)
    <2>1. /\ job[v[1]] = "new" /\ up[v] = NoUpload /\ ai[v] = "none" /\ late = {}
          /\ revision[v] = {} /\ built[v] = 0
      BY <1>1 DEF ImportInit
    <2>2. QED
      BY <2>1, NoUploadIs DEF UploadOK, Running
  <1>4. QED
    BY <1>2, <1>3 DEF ImportInv

LEMMA ImportNext_Inv ==
  ASSUME ImportInv, [ImportNext]_importVars
  PROVE  ImportInv'
  <1>1. CASE ImportNext
    <2>1. ASSUME NEW i \in Imports, RouteImportArchive(i)
          PROVE  ImportInv'
      BY <2>1, RouteIs
    <2>2. ASSUME NEW i \in Imports, Parse(i)
          PROVE  ImportInv'
      BY <2>2, ParseIs
    <2>3. ASSUME NEW i \in Imports, RunImportEnds(i)
          PROVE  ImportInv'
      BY <2>3, RunEndsIs
    <2>4. ASSUME NEW u \in Uploads, NEW x \in up[u].busy, NEW answer, Attempt(u, x, answer)
          PROVE  ImportInv'
      BY <2>4, AttemptIs
    <2>5. ASSUME NEW u \in Uploads, NEW answer \in AiResults, AiAnswers(u, answer)
          PROVE  ImportInv'
      BY <2>5, AiAnswersIs
    <2>6. ASSUME NEW x \in late, LateExecution(x[1], x[2])
          PROVE  ImportInv'
      BY <2>6, LateIs
    <2>7. ASSUME ProcessRestarts
          PROVE  ImportInv'
      BY <2>7, RestartsIs
    <2>8. QED
      BY <1>1, <2>1, <2>2, <2>3, <2>4, <2>5, <2>6, <2>7 DEF ImportNext, Work
  <1>2. CASE UNCHANGED importVars
    <2>1. /\ job' = job /\ up' = up /\ ai' = ai /\ saved' = saved /\ late' = late
          /\ revision' = revision /\ built' = built /\ raced' = raced
      BY <1>2 DEF importVars
    <2>2. ImportTyped /\ \A v \in Uploads : UploadOK(v)
      BY DEF ImportInv
    <2>3. ImportTyped'
      BY <2>1, <2>2 DEF ImportTyped
    <2>4. ASSUME NEW v \in Uploads
          PROVE  UploadOK(v)'
      <3>1. \A d : Stored(v, d) => Stored(v, d)'
        BY <2>1 DEF Stored
      <3>2. UploadOK(v)
        BY <2>2
      <3>3. QED
        BY <2>1, <3>1, <3>2, OtherIs
    <2>5. QED
      BY <2>3, <2>4 DEF ImportInv
  <1>3. QED
    BY <1>1, <1>2

LEMMA ImportInv_Whole == ImportInv => ImportIsWhole
  <1> SUFFICES ASSUME ImportInv
               PROVE  ImportIsWhole
    OBVIOUS
  <1>1. ImportTyped /\ \A u \in Uploads : UploadOK(u)
    BY DEF ImportInv
  <1>2. CommittedIsWhole
    BY <1>1 DEF CommittedIsWhole, UploadOK
  <1>3. BuiltOnce
    <2>1. \A u \in Uploads : built[u] \in 0..1
      BY <1>1 DEF ImportTyped
    <2>2. QED
      BY <2>1 DEF BuiltOnce
  <1>4. AiIsNotLeft
    BY <1>1 DEF AiIsNotLeft, UploadOK
  <1>5. QED
    BY <1>2, <1>3, <1>4 DEF ImportIsWhole

\* For every archive and any imports side by side (run_import, upload_task), whatever
\* calls of Polygon are lost, late, refused or made again and whenever the process
\* restarts: a committed revision holds all that its upload saves, its own content
\* unless another import wrote to the problem; no upload is done without a commit; a
\* package is built once at most; no AI call outlives its upload.
THEOREM ImportsAreWhole == ImportSpec => []ImportIsWhole
  <1>1. ImportInv /\ [ImportNext]_importVars => ImportInv'
    BY ImportNext_Inv
  <1>2. ImportSpec => []ImportInv
    BY <1>1, ImportInit_Inv, PTL DEF ImportSpec
  <1>3. QED
    BY <1>2, ImportInv_Whole, PTL
=============================================================================
