----------------------------- MODULE JudgeProofs ------------------------------
(***************************************************************************)
(* Proofs about judging for every value of the constants, in two parts     *)
(* that share no variable.  JudgeService: the box pool neither shares nor  *)
(* loses a box, and an answer blames a program only for what the program   *)
(* did and pays only for what it passed.  Grading, the job that asks for   *)
(* the answer and stores it: a verdict from the tests is the verdict of    *)
(* the stored run rows, and what a finished job says is stored.            *)
(***************************************************************************)
EXTENDS JudgeService, Grading, SumProofs

Inside == {"init", "compile", "checker", "test", "generate", "refer", "candidate",
           "compare", "cleanup"}

PoolType ==
  /\ free \in Seq(Boxes)
  /\ box \in [Requests -> Boxes \cup {NoBox}]
  /\ pc \in [Requests -> Inside \cup {"wait", "done"}]

\* A request has a box exactly while it is in a session.
BoxInside == \A r \in Requests : box[r] # NoBox <=> pc[r] \in Inside

PoolInv == PoolType /\ BoxInside /\ BoxesAreExclusive

\* What Tail and Append do to a sequence without repetitions.
LEMMA TailOf ==
  ASSUME NEW S, NEW s \in Seq(S), s # <<>>,
         \A i, j \in DOMAIN s : i # j => s[i] # s[j]
  PROVE  /\ Tail(s) \in Seq(S) /\ Head(s) \in S
         /\ \A i, j \in DOMAIN Tail(s) : i # j => Tail(s)[i] # Tail(s)[j]
         /\ {Tail(s)[i] : i \in DOMAIN Tail(s)} = {s[i] : i \in DOMAIN s} \ {Head(s)}
         /\ Head(s) \in {s[i] : i \in DOMAIN s}
  <1>1. Len(s) \in Nat /\ Len(s) > 0 /\ DOMAIN s = 1..Len(s) /\ Head(s) = s[1]
    OBVIOUS
  <1>2. /\ Tail(s) \in Seq(S) /\ DOMAIN Tail(s) = 1..(Len(s) - 1)
        /\ \A i \in 1..(Len(s) - 1) : Tail(s)[i] = s[i + 1]
    BY <1>1
  <1>3. Head(s) \in S /\ Head(s) \in {s[i] : i \in DOMAIN s}
    BY <1>1
  <1>4. \A i, j \in DOMAIN Tail(s) : i # j => Tail(s)[i] # Tail(s)[j]
    BY <1>1, <1>2
  <1>5. ASSUME NEW x \in {Tail(s)[i] : i \in DOMAIN Tail(s)}
        PROVE  x \in {s[i] : i \in DOMAIN s} \ {Head(s)}
    <2>1. PICK i \in 1..(Len(s) - 1) : x = s[i + 1]
      BY <1>2
    <2>2. i + 1 \in DOMAIN s /\ 1 \in DOMAIN s /\ i + 1 # 1
      BY <1>1
    <2>3. QED
      BY <1>1, <2>1, <2>2
  <1>6. ASSUME NEW x \in {s[i] : i \in DOMAIN s} \ {Head(s)}
        PROVE  x \in {Tail(s)[i] : i \in DOMAIN Tail(s)}
    <2>1. PICK i \in 1..Len(s) : x = s[i] /\ i # 1
      BY <1>1
    <2>2. i - 1 \in 1..(Len(s) - 1) /\ (i - 1) + 1 = i
      BY <1>1, <2>1
    <2>3. QED
      BY <1>2, <2>1, <2>2
  <1>7. QED
    BY <1>2, <1>3, <1>4, <1>5, <1>6

LEMMA AppendTo ==
  ASSUME NEW S, NEW s \in Seq(S), NEW b \in S,
         \A i, j \in DOMAIN s : i # j => s[i] # s[j],
         b \notin {s[i] : i \in DOMAIN s}
  PROVE  /\ Append(s, b) \in Seq(S)
         /\ \A i, j \in DOMAIN Append(s, b) : i # j => Append(s, b)[i] # Append(s, b)[j]
         /\ {Append(s, b)[i] : i \in DOMAIN Append(s, b)} = {s[i] : i \in DOMAIN s} \cup {b}
  <1>1. Len(s) \in Nat /\ DOMAIN s = 1..Len(s)
    OBVIOUS
  <1>2. /\ Append(s, b) \in Seq(S) /\ DOMAIN Append(s, b) = 1..(Len(s) + 1)
        /\ \A i \in 1..Len(s) : Append(s, b)[i] = s[i]
        /\ Append(s, b)[Len(s) + 1] = b
    BY <1>1
  <1>3. \A i \in 1..(Len(s) + 1) : i \in 1..Len(s) \/ i = Len(s) + 1
    BY <1>1
  <1>4. \A i \in 1..Len(s) : i \in 1..(Len(s) + 1) /\ s[i] # b
    BY <1>1
  <1>5. QED
    BY <1>1, <1>2, <1>3, <1>4

LEMMA PoolInit == Init => PoolInv
  <1> SUFFICES ASSUME Init PROVE PoolInv
    OBVIOUS
  <1>1. Size \in Nat /\ NoBox \notin Boxes
    BY RequestsAssumption DEF NoBox, Boxes
  <1>2. free = [i \in 1..Size |-> i - 1] /\ DOMAIN free = 1..Size
    BY DEF Init
  <1>3. free \in Seq(Boxes)
    BY <1>1, <1>2 DEF Boxes
  <1>4. PoolType
    BY <1>3 DEF PoolType, Init
  <1>5. BoxInside
    BY DEF BoxInside, Init, Inside
  <1>6. Held = {}
    BY DEF Held, Init
  <1>7. InFree = Boxes
    <2>1. \A b \in Boxes : b + 1 \in 1..Size /\ free[b + 1] = b
      BY <1>1, <1>2 DEF Boxes
    <2>2. \A i \in 1..Size : free[i] \in Boxes
      BY <1>1, <1>2 DEF Boxes
    <2>3. QED
      BY <1>2, <2>1, <2>2 DEF InFree
  <1>8. \A i, j \in DOMAIN free : i # j => free[i] # free[j]
    BY <1>1, <1>2
  <1>9. \A r \in Requests : box[r] = NoBox
    BY DEF Init
  <1>10. QED
    BY <1>4, <1>5, <1>6, <1>7, <1>8, <1>9 DEF PoolInv, BoxesAreExclusive

\* The head of the queue becomes the box of the request.
LEMMA LeaseKeeps ==
  ASSUME PoolInv, NEW r \in Requests, Lease(r)
  PROVE  PoolInv'
  <1> DEFINE b == Head(free)
  <1>1. /\ free \in Seq(Boxes) /\ free # <<>> /\ box \in [Requests -> Boxes \cup {NoBox}]
        /\ \A i, j \in DOMAIN free : i # j => free[i] # free[j]
    BY DEF PoolInv, PoolType, BoxesAreExclusive, Lease
  <1>2. /\ free' = Tail(free) /\ box' = [box EXCEPT ![r] = b]
        /\ pc' = [pc EXCEPT ![r] = "init"] /\ pc[r] = "wait"
    BY DEF Lease, Goto
  <1>3. /\ Tail(free) \in Seq(Boxes) /\ b \in Boxes
        /\ \A i, j \in DOMAIN Tail(free) : i # j => Tail(free)[i] # Tail(free)[j]
        /\ InFree' = InFree \ {b} /\ b \in InFree
    BY <1>1, <1>2, TailOf, ZenonT(30) DEF InFree
  <1>4. b # NoBox
    BY <1>3 DEF Boxes, NoBox
  <1>5. box[r] = NoBox
    BY <1>2 DEF PoolInv, BoxInside, Inside
  <1>6. b \notin Held
    BY <1>3 DEF PoolInv, BoxesAreExclusive
  <1> HIDE DEF b
  <1>7. Held' = Held \cup {b}
    <2>1. \A q \in Requests : box'[q] = IF q = r THEN b ELSE box[q]
      BY <1>1, <1>2
    <2>2. QED
      BY <1>4, <1>5, <2>1 DEF Held
  <1>8. PoolType'
    BY <1>1, <1>2, <1>3 DEF PoolInv, PoolType, Inside
  <1>9. BoxInside'
    BY <1>1, <1>2, <1>4 DEF PoolInv, PoolType, BoxInside, Inside
  <1>10. \A p, q \in Requests : p # q /\ box'[p] # NoBox => box'[p] # box'[q]
    BY <1>1, <1>2, <1>6 DEF PoolInv, BoxesAreExclusive, Held
  <1>11. InFree' \cap Held' = {} /\ InFree' \cup Held' = Boxes
    BY <1>3, <1>6, <1>7 DEF PoolInv, BoxesAreExclusive
  <1>12. QED
    BY <1>2, <1>3, <1>8, <1>9, <1>10, <1>11 DEF PoolInv, BoxesAreExclusive

\* The box of the request goes to the end of the queue.
LEMMA GiveBackKeeps ==
  ASSUME PoolInv, NEW r \in Requests, pc[r] \in Inside, GiveBack(r)
  PROVE  PoolInv'
  <1> DEFINE b == box[r]
  <1>1. /\ free \in Seq(Boxes) /\ box \in [Requests -> Boxes \cup {NoBox}]
        /\ \A i, j \in DOMAIN free : i # j => free[i] # free[j]
    BY DEF PoolInv, PoolType, BoxesAreExclusive
  <1>2. /\ free' = Append(free, b) /\ box' = [box EXCEPT ![r] = NoBox]
        /\ pc' = [pc EXCEPT ![r] = "done"]
    BY DEF GiveBack, Goto
  <1>3. b # NoBox /\ b \in Boxes /\ b \in Held
    BY <1>1 DEF PoolInv, BoxInside, Held
  <1>4. b \notin {free[i] : i \in DOMAIN free}
    BY <1>3 DEF PoolInv, BoxesAreExclusive, InFree
  <1>5. /\ Append(free, b) \in Seq(Boxes)
        /\ \A i, j \in DOMAIN Append(free, b) : i # j => Append(free, b)[i] # Append(free, b)[j]
        /\ InFree' = InFree \cup {b}
    <2> HIDE DEF b
    <2> QED
      BY <1>1, <1>2, <1>3, <1>4, AppendTo DEF InFree
  <1>6. \A q \in Requests : q # r => box[q] # b
    BY <1>3 DEF PoolInv, BoxesAreExclusive
  <1>7. Held' = Held \ {b}
    <2>1. \A q \in Requests : box'[q] = IF q = r THEN NoBox ELSE box[q]
      BY <1>1, <1>2
    <2>2. QED
      BY <1>3, <1>6, <2>1 DEF Held
  <1>8. PoolType'
    BY <1>1, <1>2, <1>5 DEF PoolInv, PoolType
  <1>9. BoxInside'
    BY <1>1, <1>2 DEF PoolInv, PoolType, BoxInside, Inside
  <1>10. \A p, q \in Requests : p # q /\ box'[p] # NoBox => box'[p] # box'[q]
    BY <1>1, <1>2 DEF PoolInv, BoxesAreExclusive
  <1>11. InFree' \cap Held' = {} /\ InFree' \cup Held' = Boxes
    BY <1>3, <1>5, <1>7 DEF PoolInv, BoxesAreExclusive
  <1>12. QED
    BY <1>2, <1>5, <1>8, <1>9, <1>10, <1>11 DEF PoolInv, BoxesAreExclusive

\* A step inside a session leaves the pool alone.
LEMMA InsideKeeps ==
  ASSUME PoolInv, NEW r \in Requests, NEW label \in Inside, pc[r] \in Inside,
         Goto(r, label) \/ pc' = pc, free' = free, box' = box
  PROVE  PoolInv'
  <1>1. InFree' = InFree /\ Held' = Held
    BY DEF InFree, Held
  <1>2. PoolType'
    BY DEF PoolInv, PoolType, Goto
  <1>3. BoxInside'
    BY DEF PoolInv, PoolType, BoxInside, Goto
  <1>4. BoxesAreExclusive'
    BY <1>1 DEF PoolInv, BoxesAreExclusive
  <1>5. QED
    BY <1>2, <1>3, <1>4 DEF PoolInv

LEMMA PoolStep == PoolInv /\ [Next]_vars => PoolInv'
  <1> SUFFICES ASSUME PoolInv, [Next]_vars PROVE PoolInv'
    OBVIOUS
  <1>1. CASE UNCHANGED vars
    <2>1. free' = free /\ box' = box /\ pc' = pc
      BY <1>1 DEF vars
    <2>2. InFree' = InFree /\ Held' = Held
      BY <2>1 DEF InFree, Held
    <2>3. QED
      BY <2>1, <2>2 DEF PoolInv, PoolType, BoxInside, BoxesAreExclusive
  <1>2. ASSUME NEW r \in Requests, Lease(r) PROVE PoolInv'
    BY <1>2, LeaseKeeps
  <1>3. ASSUME NEW r \in Requests, InitBox(r) PROVE PoolInv'
    <2>1. pc[r] \in Inside
      BY <1>3 DEF InitBox, Inside
    <2>2. CASE GiveBack(r)
      BY <2>1, <2>2, GiveBackKeeps
    <2>3. CASE Goto(r, "compile") /\ UNCHANGED <<free, box>>
      <3>1. "compile" \in Inside
        BY DEF Inside
      <3>2. QED
        BY <2>1, <2>3, <3>1, InsideKeeps
    <2>4. QED
      BY <1>3, <2>2, <2>3 DEF InitBox
  <1>4. ASSUME NEW r \in Requests, Cleanup(r) PROVE PoolInv'
    <2>1. pc[r] \in Inside /\ GiveBack(r)
      BY <1>4 DEF Cleanup, Inside
    <2>2. QED
      BY <2>1, GiveBackKeeps
  <1>5. ASSUME NEW r \in Requests, Raise(r) PROVE PoolInv'
    <2>1. /\ pc[r] \in Inside /\ "cleanup" \in Inside
          /\ Goto(r, "cleanup") /\ free' = free /\ box' = box
      BY <1>5 DEF Raise, Leave, pool, PoolInv, PoolType, Inside
    <2>2. QED
      BY <2>1, InsideKeeps
  <1>6. ASSUME NEW r \in Requests, Judge(r) \/ Stress(r) PROVE PoolInv'
    <2>1. pc[r] \in Inside /\ free' = free /\ box' = box
      BY <1>6 DEF Judge, Stress, Compile, BuildChecker, RunTest, CompileAll, Generate, Refer,
                  Candidate, Compare, pool, Inside
    <2>2. \E label \in Inside : Goto(r, label) \/ pc' = pc
      <3>1. {"checker", "cleanup", "test", "generate", "refer", "candidate", "compare"}
              \subseteq Inside
        BY DEF Inside
      <3>2. \/ pc' = pc
            \/ \E label \in {"checker", "cleanup", "test", "generate", "refer", "candidate",
                             "compare"} : Goto(r, label)
        <4>1. CASE Compile(r)
          BY <4>1 DEF Compile, Leave
        <4>2. CASE BuildChecker(r)
          BY <4>2 DEF BuildChecker, Leave
        <4>3. CASE RunTest(r)
          BY <4>3 DEF RunTest, Leave
        <4>4. CASE CompileAll(r)
          BY <4>4 DEF CompileAll, Leave
        <4>5. CASE Generate(r)
          BY <4>5 DEF Generate, Leave
        <4>6. CASE Refer(r)
          BY <4>6 DEF Refer, Leave
        <4>7. CASE Candidate(r)
          BY <4>7 DEF Candidate, Leave
        <4>8. CASE Compare(r)
          BY <4>8 DEF Compare, Leave
        <4>9. QED
          BY <1>6, <4>1, <4>2, <4>3, <4>4, <4>5, <4>6, <4>7, <4>8 DEF Judge, Stress
      <3>3. QED
        BY <3>1, <3>2 DEF Inside
    <2>3. QED
      BY <2>1, <2>2, InsideKeeps
  <1>7. QED
    BY <1>1, <1>2, <1>3, <1>4, <1>5, <1>6 DEF Next, Session

\* However many requests and boxes there are and whatever fails in a session,
\* no two requests share a box and every box is free once or leased once
\* (BoxPool.lease, IsolateSandbox.session).
THEOREM PoolIsExclusive == Spec => []BoxesAreExclusive
  <1>1. PoolInv => BoxesAreExclusive
    BY DEF PoolInv
  <1>2. QED
    BY PoolInit, PoolStep, <1>1, PTL DEF Spec

-----------------------------------------------------------------------------
\* The points of any results are earned: what pays is a part of the tests that
\* are worth their points, and nothing pays more than in full.

\* A ratio or a least ratio is one of 0, 1 and 2.
LEMMA GroupScoreIs ==
  ASSUME NEW rs \in Seq(Result), NEW g \in Groups,
         \A t \in Members(g) : Passed(rs, t)
  PROVE  \E k \in 0..2 : /\ GroupScore(rs, g) = SumOf(Points, Members(g)) * k
                         /\ (\A t \in Members(g) : rs[t].ratio = 2) => k = 2
  <1> DEFINE ratios == {rs[t].ratio : t \in Members(g)}
  <1>1. Members(g) # {} /\ Members(g) \subseteq DOMAIN rs
    BY DEF Groups, Members, Passed
  <1>2. \A t \in DOMAIN rs : rs[t] \in Result
    OBVIOUS
  <1>3. \A t \in DOMAIN rs : rs[t].ratio \in 0..2
    BY <1>2 DEF Result
  <1>4. ratios \in SUBSET (0..2) /\ ratios # {}
    BY <1>1, <1>3
  <1>5. IsFiniteSet(ratios)
    <2>1. IsFiniteSet(0..2)
      BY 0 \in Int, 2 \in Int, FS_Interval
    <2> HIDE DEF ratios
    <2>2. QED
      BY <1>4, <2>1, FS_Subset
  <1>6. Min(ratios) \in ratios
    <2> HIDE DEF ratios
    <2>1. ratios \in SUBSET Nat
      BY <1>4
    <2>2. QED
      BY <1>4, <1>5, <2>1, MinIsLeast
  <1>7. GroupScore(rs, g) = SumOf(Points, Members(g)) * Min(ratios)
    BY DEF GroupScore, SumOf
  <1>8. (\A t \in Members(g) : rs[t].ratio = 2) => Min(ratios) = 2
    BY <1>6
  <1>9. QED
    <2> HIDE DEF ratios
    <2> QED
      BY <1>4, <1>6, <1>7, <1>8

LEMMA ScoreEarned ==
  ASSUME NEW rs \in Seq(Result)
  PROVE  LET full == 2 * MapThenSumSet(LAMBDA t : Points[t], Earning(rs))
         IN  /\ ScoreTests(rs) <= full
             /\ (\A t \in Earning(rs) : rs[t].ratio = 2) => ScoreTests(rs) = full
  <1> DEFINE A == {t \in Tests : GroupOf[t] = None /\ Passed(rs, t)}
             paid == [t \in Tests \cap DOMAIN rs |-> Points[t] * rs[t].ratio]
             score == [g \in Groups |-> GroupScore(rs, g)]
             double == [t \in Tests |-> 2 * Points[t]]
             Whole(g) == \A t \in Members(g) : Passed(rs, t)
             part == [g \in Groups |-> IF Whole(g) THEN Members(g) ELSE {}]
             most == [g \in Groups |-> SumOf(double, part[g])]
             B == UNION {part[g] : g \in Groups}
             InFull == \A t \in Earning(rs) : rs[t].ratio = 2
  <1>1. ScoreTests(rs) = SumOf(paid, A) + SumOf(score, Groups)
    BY DEF ScoreTests, SumOf
  <1>2. MapThenSumSet(LAMBDA t : Points[t], Earning(rs)) = SumOf(Points, Earning(rs))
    BY DEF SumOf
  <1>3. /\ IsFiniteSet(Tests) /\ A \in SUBSET Tests /\ Earning(rs) \in SUBSET Tests
        /\ \A g : Members(g) \in SUBSET Tests
    <2>1. 1 \in Int /\ NTests \in Int
      BY ProblemAssumption
    <2>2. IsFiniteSet(Tests)
      BY <2>1, FS_Interval DEF Tests
    <2>3. QED
      BY <2>2 DEF Earning, Members
  <1>4. IsFiniteSet(A) /\ IsFiniteSet(Earning(rs)) /\ \A g : IsFiniteSet(Members(g))
    <2> HIDE DEF A
    <2> QED
      BY <1>3, FS_Subset
  <1>5. IsFiniteSet(Groups)
    <2>1. IsFiniteSet({GroupOf[t] : t \in Tests})
      BY <1>3, ImageIsFinite
    <2>2. QED
      BY <2>1, FS_Subset DEF Groups
  <1>6. \A t \in Tests : Points[t] \in Nat /\ double[t] \in Nat /\ double[t] = 2 * Points[t]
    BY ProblemAssumption
  <1>7. \A t \in DOMAIN rs : rs[t].ratio \in 0..2
    <2>1. \A t \in DOMAIN rs : rs[t] \in Result
      OBVIOUS
    <2>2. QED
      BY <2>1 DEF Result
  \* The tests outside groups.
  <1>8. A \subseteq Earning(rs)
    BY DEF Earning
  <1>9. \A t \in A : /\ paid[t] \in Nat /\ double[t] \in Nat /\ paid[t] <= double[t]
                     /\ InFull => paid[t] = double[t]
    <2> SUFFICES ASSUME NEW t \in A
                 PROVE  /\ paid[t] \in Nat /\ double[t] \in Nat /\ paid[t] <= double[t]
                        /\ InFull => paid[t] = double[t]
      OBVIOUS
    <2>1. t \in Tests /\ t \in DOMAIN rs
      BY DEF Passed
    <2>2. paid[t] = Points[t] * rs[t].ratio /\ double[t] = 2 * Points[t]
      BY <2>1
    <2>3. Points[t] \in Nat /\ rs[t].ratio \in {0, 1, 2} /\ (InFull => rs[t].ratio = 2)
      BY <1>6, <1>7, <1>8, <2>1
    <2> HIDE DEF paid, double, InFull, A
    <2>4. QED
      BY <2>2, <2>3
  <1>10. SumOf(paid, A) <= SumOf(double, A) /\ SumOf(double, A) \in Nat /\ SumOf(paid, A) \in Nat
    <2> HIDE DEF paid, double, InFull, A
    <2>1. SumOf(paid, A) <= SumOf(double, A)
      BY <1>4, <1>9, SumGrows
    <2>2. SumOf(double, A) \in Nat
      BY <1>4, <1>9, SumTakes
    <2>3. SumOf(paid, A) \in Nat
      BY <1>4, <1>9, SumTakes
    <2>4. QED
      BY <2>1, <2>2, <2>3
  <1>11. InFull => SumOf(paid, A) = SumOf(double, A)
    <2> HIDE DEF paid, double, InFull, A
    <2> SUFFICES ASSUME InFull PROVE SumOf(paid, A) = SumOf(double, A)
      OBVIOUS
    <2>1. \A t \in A : double[t] \in Nat /\ paid[t] \in Nat /\ double[t] <= paid[t]
      BY <1>9
    <2>2. SumOf(double, A) <= SumOf(paid, A)
      BY <1>4, <2>1, SumGrows
    <2>3. QED
      BY <1>10, <2>2
  \* The groups.
  <1>12. /\ part \in [Groups -> SUBSET Tests]
         /\ \A g, h \in Groups : g # h => part[g] \cap part[h] = {}
    BY DEF Members
  <1>13. \A g \in Groups : /\ score[g] \in Nat /\ most[g] \in Nat /\ score[g] <= most[g]
                           /\ InFull => score[g] = most[g]
    <2> SUFFICES ASSUME NEW g \in Groups
                 PROVE  /\ score[g] \in Nat /\ most[g] \in Nat /\ score[g] <= most[g]
                        /\ InFull => score[g] = most[g]
      OBVIOUS
    <2>1. CASE Whole(g)
      <3> DEFINE sum == SumOf(Points, Members(g))
      <3>1. PICK k \in 0..2 : /\ GroupScore(rs, g) = sum * k
                              /\ (\A t \in Members(g) : rs[t].ratio = 2) => k = 2
        BY <2>1, GroupScoreIs
      <3>2. sum \in Nat
        <4>1. \A t \in Members(g) : Points[t] \in Nat
          BY <1>3, <1>6
        <4>2. QED
          BY <1>4, <4>1, SumTakes
      <3>3. SumOf(double, Members(g)) = 2 * sum
        <4>1. \A t \in Members(g) : Points[t] \in Nat /\ double[t] = 2 * Points[t]
          BY <1>3, <1>6
        <4> HIDE DEF double
        <4>2. QED
          BY <1>4, <4>1, SumDoubles
      <3>4. part[g] = Members(g)
        BY <2>1
      <3>5. score[g] = sum * k /\ most[g] = 2 * sum
        <4>1. score[g] = GroupScore(rs, g) /\ most[g] = SumOf(double, part[g])
          OBVIOUS
        <4> HIDE DEF score, most, part, double, sum
        <4>2. QED
          BY <3>1, <3>3, <3>4, <4>1
      <3>6. Members(g) \subseteq Earning(rs)
        <4>1. \A t \in Members(g) : t \in Tests /\ GroupOf[t] = g /\ g # None
          BY DEF Members, Groups
        <4>2. QED
          BY <2>1, <4>1 DEF Earning, Members
      <3>7. InFull => k = 2
        BY <3>1, <3>6
      <3>8. k \in {0, 1, 2}
        OBVIOUS
      <3> HIDE DEF score, most, part, double, sum, InFull
      <3>9. QED
        BY <3>2, <3>5, <3>7, <3>8
    <2>2. CASE ~Whole(g)
      <3>1. score[g] = 0
        BY <2>2 DEF GroupScore
      <3>2. part[g] = {}
        BY <2>2
      <3>3. most[g] = SumOf(double, {})
        BY <3>2
      <3>4. SumOf(double, {}) = 0
        <4> HIDE DEF double
        <4> QED
          BY <1>3, <1>6, SumTakes
      <3> HIDE DEF score, most, part, double, InFull
      <3>5. QED
        BY <3>1, <3>3, <3>4
    <2>3. QED
      BY <2>1, <2>2
  <1>14. /\ SumOf(score, Groups) <= SumOf(most, Groups)
         /\ SumOf(score, Groups) \in Nat /\ SumOf(most, Groups) \in Nat
         /\ InFull => SumOf(score, Groups) = SumOf(most, Groups)
    <2> HIDE DEF score, most, InFull
    <2>1. SumOf(score, Groups) <= SumOf(most, Groups)
      BY <1>5, <1>13, SumGrows
    <2>2. SumOf(score, Groups) \in Nat
      BY <1>5, <1>13, SumTakes
    <2>3. SumOf(most, Groups) \in Nat
      BY <1>5, <1>13, SumTakes
    <2>4. ASSUME InFull PROVE SumOf(score, Groups) = SumOf(most, Groups)
      <3>1. \A g \in Groups : most[g] \in Nat /\ score[g] \in Nat /\ most[g] <= score[g]
        BY <1>13, <2>4
      <3>2. SumOf(most, Groups) <= SumOf(score, Groups)
        BY <1>5, <3>1, SumGrows
      <3>3. QED
        BY <2>1, <2>2, <2>3, <3>2
    <2>5. QED
      BY <2>1, <2>2, <2>3, <2>4
  <1>15. SumOf(most, Groups) = SumOf(double, B)
    <2>1. \A g \in Groups : most[g] = SumOf(double, part[g])
      OBVIOUS
    <2>2. \A t \in Tests : double[t] \in Nat
      BY <1>6
    <2> HIDE DEF double, part, most
    <2>3. QED
      BY <1>3, <1>5, <1>12, <2>1, <2>2, SumOfParts
  \* All together.
  <1>16. A \cap B = {} /\ A \cup B = Earning(rs) /\ B \in SUBSET Tests
    <2>1. \A t \in B : t \in Tests /\ GroupOf[t] \in Groups /\ Whole(GroupOf[t])
      BY DEF Members
    <2>2. \A t \in Tests : GroupOf[t] \in Groups /\ Whole(GroupOf[t]) => t \in B
      BY DEF Members
    <2>3. \A t \in Tests : GroupOf[t] \in Groups <=> GroupOf[t] # None
      BY DEF Groups
    <2>4. \A t \in Tests : t \in Earning(rs) <=> t \in A \/ t \in B
      <3> HIDE DEF B
      <3> QED
        BY <2>1, <2>2, <2>3 DEF Earning, Members
    <2> HIDE DEF B
    <2>5. QED
      BY <1>3, <2>1, <2>3, <2>4
  <1>17. SumOf(double, Earning(rs)) = SumOf(double, A) + SumOf(double, B)
    <2>1. \A t \in Tests : double[t] \in Nat
      BY <1>6
    <2> HIDE DEF double, A, B
    <2>2. \A C, D \in SUBSET Tests :
            C \cap D = {} => SumOf(double, C \cup D) = SumOf(double, C) + SumOf(double, D)
      BY <1>3, <2>1, SumSplits
    <2>3. QED
      BY <1>3, <1>16, <2>2
  <1>18. SumOf(double, Earning(rs)) = 2 * SumOf(Points, Earning(rs))
    <2>1. \A t \in Earning(rs) : Points[t] \in Nat /\ double[t] = 2 * Points[t]
      BY <1>3, <1>6
    <2> HIDE DEF double
    <2>2. QED
      BY <1>4, <2>1, SumDoubles
  <1>19. QED
    <2> HIDE DEF paid, score, double, most, A, B, InFull
    <2>1. /\ ScoreTests(rs) <= 2 * SumOf(Points, Earning(rs))
          /\ InFull => ScoreTests(rs) = 2 * SumOf(Points, Earning(rs))
      BY <1>1, <1>10, <1>11, <1>14, <1>15, <1>17, <1>18
    <2> USE DEF InFull
    <2>2. QED
      BY <1>2, <2>1

-----------------------------------------------------------------------------
\* What the answers rest on, request by request.

\* A judged submission runs the steps of engine/judge.py, a hunt those of
\* stress/runner.py; who has an answer is leaving.
StepsKept ==
  /\ pc \in [Requests -> Inside \cup {"wait", "done"}]
  /\ answer \in [Requests -> Answers]
  /\ results \in [Judged -> Seq(Result)]
  /\ hunt \in [Hunts -> Hunt]
  /\ \A r \in Requests : /\ pc[r] \in {"checker", "test"} => r \in Judged
                         /\ pc[r] \in {"generate", "refer", "candidate", "compare"} => r \in Hunts
                         /\ answer[r] # None => pc[r] \in {"cleanup", "done"}

\* A fault among the results is a program's, and the answer of a judged
\* submission is a compilation error or decided by its results.
ResultsKept ==
  \A r \in Judged :
    /\ \A i \in DOMAIN results[r] : results[r][i].verdict \in Faults =>
                                      results[r][i].by = "program"
    /\ answer[r] \in Faults \ {"CE"} => answer[r] = Aggregate(results[r])

\* The files of a hunt that are already of the round it is in.
HuntKept ==
  \A r \in Hunts :
    LET h == hunt[r] IN
    /\ pc[r] \in {"refer", "candidate", "compare"} \/ answer[r] = "found" => h.input = h.seed
    /\ pc[r] \in {"candidate", "compare"} \/ answer[r] = "found" => h.expected = h.seed
    /\ pc[r] = "compare" \/ answer[r] = "found" => h.actual = h.seed \/ h.broke

\* The first failure is one of the results, and its verdict is the aggregate.
LEMMA FirstFailure ==
  ASSUME NEW rs \in Seq(Result)
  PROVE  /\ Aggregate(rs) \in Verdict
         /\ Aggregate(rs) # "OK" => /\ Min(Failures(rs)) \in DOMAIN rs
                                    /\ rs[Min(Failures(rs))].verdict = Aggregate(rs)
  <1>1. CASE Failures(rs) = {}
    BY <1>1 DEF Aggregate, Verdict
  <1>2. CASE Failures(rs) # {}
    <2>1. Len(rs) \in Nat /\ DOMAIN rs = 1..Len(rs) /\ 1 \in Int
      OBVIOUS
    <2>2. Failures(rs) \in SUBSET (1..Len(rs)) /\ Failures(rs) \in SUBSET Nat
      BY <2>1 DEF Failures
    <2>3. IsFiniteSet(Failures(rs))
      <3>1. Len(rs) \in Int
        BY <2>1
      <3>2. IsFiniteSet(1..Len(rs))
        BY <2>1, <3>1, FS_Interval
      <3>3. QED
        BY <2>2, <3>2, FS_Subset
    <2>4. Min(Failures(rs)) \in Failures(rs)
      BY <1>2, <2>2, <2>3, MinIsLeast
    <2>5. rs[Min(Failures(rs))] \in Result
      BY <2>1, <2>2, <2>4
    <2>6. Aggregate(rs) = rs[Min(Failures(rs))].verdict
      BY <1>2 DEF Aggregate
    <2>7. QED
      BY <2>1, <2>2, <2>4, <2>5, <2>6 DEF Result
  <1>3. QED
    BY <1>1, <1>2

\* A fault is one of the program.
LEMMA OutcomeIs ==
  ASSUME NEW o \in Outcomes
  PROVE  o \in Result /\ (o.verdict \in Faults => o.by = "program")
  <1>1. CASE \E s \in Endings \ {"OK"} :
               o = [verdict |-> FromRun[s], ratio |-> 2,
                    by |-> IF s = "XX" THEN "judge" ELSE "program"]
    <2>1. PICK s \in RunStatus \ {"OK"} :
                 o = [verdict |-> FromRun[s], ratio |-> 2,
                      by |-> IF s = "XX" THEN "judge" ELSE "program"]
      BY <1>1, EndingsAssumption
    <2>2. FromRun[s] \in Verdict /\ (FromRun[s] \in Faults => s # "XX")
      BY DEF FromRun, RunStatus, Verdict, Faults
    <2>3. QED
      BY <2>1, <2>2 DEF Result
  <1>2. CASE \E e \in Exits, ratio \in Ratios : o = Checked(e, ratio)
    <2>1. PICK e \in CheckerExits, ratio \in 0..2 : o = Checked(e, ratio)
      BY <1>2, EndingsAssumption
    <2>2. CheckerVerdict[e] \in Verdict /\ (CheckerVerdict[e] \in Faults => ~JudgeBroke(e))
      BY DEF CheckerVerdict, CheckerExits, Verdict, Faults, JudgeBroke
    <2>3. QED
      BY <2>1, <2>2 DEF Result, Checked
  <1>3. QED
    BY <1>1, <1>2 DEF Outcomes

LEMMA StepsInit == Init => StepsKept /\ ResultsKept /\ HuntKept
  <1> SUFFICES ASSUME Init PROVE StepsKept /\ ResultsKept /\ HuntKept
    OBVIOUS
  <1>1. NewHunt \in Hunt
    BY ProblemAssumption DEF NewHunt, Hunt
  <1>2. <<>> \in Seq(Result)
    OBVIOUS
  <1>3. StepsKept
    BY <1>1, <1>2 DEF Init, StepsKept, Inside, Answers
  <1>4. ResultsKept
    BY DEF Init, ResultsKept, Faults, None, Requests
  <1>5. HuntKept
    BY DEF Init, HuntKept, None, Requests
  <1>6. QED
    BY <1>3, <1>4, <1>5

\* A test judged is one more result; after the last, or the first that fails
\* when that is asked for, the answer follows from the results.
LEMMA RunTestKeeps ==
  ASSUME StepsKept, ResultsKept, HuntKept, NEW r \in Requests, RunTest(r)
  PROVE  (StepsKept /\ ResultsKept /\ HuntKept)'
  <1>1. /\ r \in Judged /\ r \notin Hunts /\ pc[r] = "test" /\ answer[r] = None
        /\ results \in [Judged -> Seq(Result)] /\ results[r] \in Seq(Result) /\ UNCHANGED hunt
    BY RequestsAssumption DEF StepsKept, RunTest
  <1>2. PICK o \in Outcomes :
          LET rs == Append(results[r], o) IN
          /\ results' = [results EXCEPT ![r] = rs]
          /\ Leave(r, Aggregate(rs)) \/ UNCHANGED <<pc, answer>>
    BY DEF RunTest
  <1> DEFINE rs == Append(results[r], o)
  <1>3. o \in Result /\ (o.verdict \in Faults => o.by = "program")
    BY OutcomeIs
  <1>4. rs \in Seq(Result) /\ DOMAIN rs = 1..(Len(results[r]) + 1)
        /\ \A i \in DOMAIN rs : rs[i] = IF i \in DOMAIN results[r] THEN results[r][i] ELSE o
    BY <1>1, <1>3
  <1>5. Aggregate(rs) \in Verdict
    BY <1>4, FirstFailure
  <1>6. /\ results' = [results EXCEPT ![r] = rs] /\ results' \in [Judged -> Seq(Result)]
        /\ results'[r] = rs /\ \A q \in Judged \ {r} : results'[q] = results[q]
    BY <1>1, <1>2, <1>4
  <1>7. \/ UNCHANGED <<pc, answer>>
        \/ pc' = [pc EXCEPT ![r] = "cleanup"] /\ answer' = [answer EXCEPT ![r] = Aggregate(rs)]
    BY <1>2 DEF Leave, Goto
  <1> HIDE DEF rs
  <1>8. StepsKept'
    <2>1. Aggregate(rs) \in Answers
      BY <1>5 DEF Answers
    <2>2. CASE UNCHANGED <<pc, answer>>
      BY <1>1, <1>6, <2>2 DEF StepsKept
    <2>3. CASE pc' = [pc EXCEPT ![r] = "cleanup"] /\ answer' = [answer EXCEPT ![r] = Aggregate(rs)]
      BY <1>1, <1>6, <2>1, <2>3 DEF StepsKept, Inside
    <2>4. QED
      BY <1>7, <2>2, <2>3
  <1>9. ResultsKept'
    <2>1. \A i \in DOMAIN rs : rs[i].verdict \in Faults => rs[i].by = "program"
      BY <1>1, <1>3, <1>4 DEF ResultsKept
    <2>2. answer'[r] \in {None, Aggregate(rs)} /\ None \notin Faults
      BY <1>1, <1>7 DEF StepsKept, None, Faults
    <2>3. \A q \in Judged \ {r} : answer'[q] = answer[q]
      BY <1>7 DEF StepsKept, Requests
    <2>4. QED
      BY <1>1, <1>6, <2>1, <2>2, <2>3 DEF ResultsKept
  <1>10. HuntKept'
    <2>1. \A q \in Hunts : pc'[q] = pc[q] /\ answer'[q] = answer[q] /\ hunt'[q] = hunt[q]
      BY <1>1, <1>7 DEF StepsKept, Requests
    <2>2. QED
      BY <2>1 DEF HuntKept
  <1>11. QED
    BY <1>8, <1>9, <1>10

\* A step of the hunt r moves its round, its place and its answer together.
LEMMA StressKeeps ==
  ASSUME StepsKept, ResultsKept, HuntKept, NEW r \in Requests, Stress(r)
  PROVE  (StepsKept /\ ResultsKept /\ HuntKept)'
  <1>1. /\ r \in Hunts /\ r \notin Judged /\ answer[r] = None /\ UNCHANGED results
        /\ hunt \in [Hunts -> Hunt] /\ hunt[r] \in Hunt /\ pc[r] \notin {"cleanup", "done"}
    <2>1. \/ pc[r] \in {"generate", "refer", "candidate", "compare"}
          \/ pc[r] = "compile" /\ r \in Hunts
      BY DEF Stress, CompileAll, Generate, Refer, Candidate, Compare
    <2>2. UNCHANGED results
      BY DEF Stress, CompileAll, Generate, Refer, Candidate, Compare
    <2>3. QED
      BY <2>1, <2>2, RequestsAssumption DEF StepsKept
  <1>2. /\ hunt[r].seed \in 1..Rounds /\ hunt[r].input \in 0..Rounds /\ hunt[r].expected \in 0..Rounds
        /\ hunt[r].actual \in 0..Rounds /\ hunt[r].broke \in BOOLEAN
    BY <1>1 DEF Hunt
  <1> DEFINE To(h, label, a) == /\ hunt' = [hunt EXCEPT ![r] = h]
                                /\ pc' = [pc EXCEPT ![r] = label]
                                /\ answer' = [answer EXCEPT ![r] = a]
             Right(h, label, a) ==
               /\ label \in {"refer", "candidate", "compare"} \/ a = "found" => h.input = h.seed
               /\ label \in {"candidate", "compare"} \/ a = "found" => h.expected = h.seed
               /\ label = "compare" \/ a = "found" => h.actual = h.seed \/ h.broke
  <1>3. \E h \in Hunt : \E label \in {"generate", "refer", "candidate", "compare", "cleanup"} :
          \E a \in Answers :
            /\ To(h, label, a) /\ Right(h, label, a)
            /\ a # None => label = "cleanup"
    <2>1. /\ Right(hunt[r], pc[r], None) /\ None # "found"
          /\ None \in Answers /\ "found" \in Answers /\ "stage" \in Answers /\ "clean" \in Answers
      BY <1>1 DEF HuntKept, None, Answers
    <2>2. /\ hunt = [hunt EXCEPT ![r] = hunt[r]] /\ answer = [answer EXCEPT ![r] = None]
      BY <1>1 DEF StepsKept
    <2>3. CASE CompileAll(r)
      <3>1. UNCHANGED hunt
        BY <2>3 DEF CompileAll
      <3>2. \/ To(hunt[r], "generate", None)
            \/ To(hunt[r], "cleanup", "stage")
        BY <2>2, <2>3, <3>1 DEF CompileAll, Leave, Goto
      <3>3. QED
        BY <1>1, <2>1, <3>2
    <2>4. CASE Generate(r)
      <3> DEFINE h == [hunt[r] EXCEPT !.input = hunt[r].seed]
      <3>1. \/ To(h, "refer", None)
            \/ To(hunt[r], "cleanup", "stage")
        BY <2>2, <2>4 DEF Generate, Leave, Goto
      <3>2. h \in Hunt /\ h.input = h.seed
        BY <1>1, <1>2 DEF Hunt
      <3>3. Right(h, "refer", None) /\ Right(hunt[r], "cleanup", "stage")
        BY <2>1, <3>2
      <3> HIDE DEF h, To, Right
      <3>4. QED
        BY <1>1, <2>1, <3>1, <3>2, <3>3
    <2>5. CASE Refer(r)
      <3> DEFINE h == [hunt[r] EXCEPT !.expected = hunt[r].seed]
      <3>1. \/ To(h, "candidate", None)
            \/ To(hunt[r], "cleanup", "stage")
        BY <2>2, <2>5 DEF Refer, Leave, Goto
      <3>2. pc[r] = "refer" /\ hunt[r].input = hunt[r].seed
        BY <1>1, <2>5 DEF Refer, HuntKept
      <3>3. h \in Hunt /\ h.expected = h.seed /\ h.input = h.seed
        BY <1>1, <1>2, <3>2 DEF Hunt
      <3>4. Right(h, "candidate", None) /\ Right(hunt[r], "cleanup", "stage")
        BY <2>1, <3>3
      <3> HIDE DEF h, To, Right
      <3>5. QED
        BY <1>1, <2>1, <3>1, <3>3, <3>4
    <2>6. CASE Candidate(r)
      <3>1. pc[r] = "candidate" /\ hunt[r].input = hunt[r].seed /\ hunt[r].expected = hunt[r].seed
        BY <1>1, <2>6 DEF Candidate, HuntKept
      <3>2. CASE \E old \in {hunt[r].actual, hunt[r].seed} :
                   To([hunt[r] EXCEPT !.actual = old, !.broke = TRUE], "compare", None)
        <4>1. PICK old \in 0..Rounds :
                     To([hunt[r] EXCEPT !.actual = old, !.broke = TRUE], "compare", None)
          <5>1. {hunt[r].actual, hunt[r].seed} \subseteq 0..Rounds
            BY <1>2
          <5> HIDE DEF To
          <5>2. QED
            BY <3>2, <5>1
        <4> DEFINE h == [hunt[r] EXCEPT !.actual = old, !.broke = TRUE]
        <4>2. h \in Hunt /\ h.expected = h.seed /\ h.input = h.seed /\ h.broke
          BY <1>1, <1>2, <3>1 DEF Hunt
        <4>3. Right(h, "compare", None)
          BY <2>1, <4>2
        <4> HIDE DEF h, To, Right
        <4>4. QED
          BY <2>1, <4>1, <4>2, <4>3 DEF h
      <3>3. CASE \/ To([hunt[r] EXCEPT !.actual = hunt[r].seed], "compare", None)
                 \/ To([hunt[r] EXCEPT !.actual = hunt[r].seed], "cleanup", "found")
        <4> DEFINE h == [hunt[r] EXCEPT !.actual = hunt[r].seed]
        <4>1. h \in Hunt /\ h.expected = h.seed /\ h.input = h.seed /\ h.actual = h.seed
          BY <1>1, <1>2, <3>1 DEF Hunt
        <4>2. Right(h, "compare", None) /\ Right(h, "cleanup", "found")
          BY <4>1
        <4>3. To(h, "compare", None) \/ To(h, "cleanup", "found")
          BY <3>3
        <4> HIDE DEF h, To, Right
        <4>4. QED
          BY <2>1, <4>1, <4>2, <4>3
      <3>4. \/ \E old \in {hunt[r].actual, hunt[r].seed} :
                 To([hunt[r] EXCEPT !.actual = old, !.broke = TRUE], "compare", None)
            \/ To([hunt[r] EXCEPT !.actual = hunt[r].seed], "compare", None)
            \/ To([hunt[r] EXCEPT !.actual = hunt[r].seed], "cleanup", "found")
        <4>1. \/ \E old \in {hunt[r].actual, hunt[r].seed} :
                   /\ hunt' = [hunt EXCEPT ![r].actual = old, ![r].broke = TRUE]
                   /\ Goto(r, "compare") /\ UNCHANGED answer
              \/ /\ hunt' = [hunt EXCEPT ![r].actual = hunt[r].seed]
                 /\ (Goto(r, "compare") /\ UNCHANGED answer) \/ Leave(r, "found")
          BY <2>6 DEF Candidate
        <4>2. CASE \E old \in {hunt[r].actual, hunt[r].seed} :
                     /\ hunt' = [hunt EXCEPT ![r].actual = old, ![r].broke = TRUE]
                     /\ Goto(r, "compare") /\ UNCHANGED answer
          <5>1. PICK old \in {hunt[r].actual, hunt[r].seed} :
                     /\ hunt' = [hunt EXCEPT ![r].actual = old, ![r].broke = TRUE]
                     /\ Goto(r, "compare") /\ UNCHANGED answer
            BY <4>2
          <5>2. To([hunt[r] EXCEPT !.actual = old, !.broke = TRUE], "compare", None)
            BY <1>1, <2>2, <5>1 DEF Goto
          <5> HIDE DEF To
          <5>3. QED
            BY <5>2
        <4>3. CASE /\ hunt' = [hunt EXCEPT ![r].actual = hunt[r].seed]
                   /\ (Goto(r, "compare") /\ UNCHANGED answer) \/ Leave(r, "found")
          BY <2>2, <4>3 DEF Leave, Goto
        <4>4. QED
          BY <4>1, <4>2, <4>3
      <3>5. QED
        BY <3>2, <3>3, <3>4
    <2>7. CASE Compare(r)
      <3>1. /\ pc[r] = "compare" /\ hunt[r].input = hunt[r].seed /\ hunt[r].expected = hunt[r].seed
            /\ hunt[r].actual = hunt[r].seed \/ hunt[r].broke
        BY <1>1, <2>7 DEF Compare, HuntKept
      <3> DEFINE h == [hunt[r] EXCEPT !.seed = @ + 1, !.broke = FALSE]
      <3>2. \/ To(hunt[r], "cleanup", "stage") \/ To(hunt[r], "cleanup", "found")
            \/ To(hunt[r], "cleanup", "clean")
            \/ hunt[r].seed # Rounds /\ To(h, "generate", None)
        BY <2>2, <2>7, ZenonT(30) DEF Compare, Leave, Goto
      <3>3. hunt[r].seed # Rounds => h \in Hunt
        <4> SUFFICES ASSUME hunt[r].seed # Rounds PROVE h \in Hunt
          OBVIOUS
        <4>1. hunt[r].seed + 1 \in 1..Rounds
          BY <1>2, ProblemAssumption
        <4>2. QED
          BY <1>1, <4>1 DEF Hunt
      <3>4. /\ Right(hunt[r], "cleanup", "stage") /\ Right(hunt[r], "cleanup", "found")
            /\ Right(hunt[r], "cleanup", "clean") /\ Right(h, "generate", None)
        BY <2>1, <3>1
      <3> HIDE DEF h, To, Right
      <3>5. QED
        BY <1>1, <2>1, <3>2, <3>3, <3>4
    <2>8. QED
      BY <2>3, <2>4, <2>5, <2>6, <2>7 DEF Stress
  <1>4. PICK h \in Hunt, label \in {"generate", "refer", "candidate", "compare", "cleanup"},
             a \in Answers : /\ To(h, label, a) /\ Right(h, label, a)
                             /\ a # None => label = "cleanup"
    BY <1>3
  <1>5. /\ hunt'[r] = h /\ pc'[r] = label /\ answer'[r] = a
        /\ hunt' \in [Hunts -> Hunt]
        /\ \A q \in Hunts \ {r} : hunt'[q] = hunt[q]
        /\ \A q \in Requests \ {r} : pc'[q] = pc[q] /\ answer'[q] = answer[q]
    BY <1>1, <1>4 DEF StepsKept
  <1>6. StepsKept'
    BY <1>1, <1>4, <1>5 DEF StepsKept, Inside
  <1>7. ResultsKept'
    <2>1. \A q \in Judged : answer'[q] = answer[q] /\ results'[q] = results[q]
      BY <1>1, <1>5 DEF Requests
    <2>2. QED
      BY <2>1 DEF ResultsKept
  <1>8. HuntKept'
    <2>1. \A q \in Hunts \ {r} : pc'[q] = pc[q] /\ answer'[q] = answer[q] /\ hunt'[q] = hunt[q]
      BY <1>5 DEF Requests
    <2>2. Right(hunt'[r], pc'[r], answer'[r])
      BY <1>4, <1>5
    <2>3. QED
      BY <2>1, <2>2 DEF HuntKept
  <1>9. QED
    BY <1>6, <1>7, <1>8

\* Leaving, a request forgets what it does not answer with.
LEMMA CleanupKeeps ==
  ASSUME StepsKept, ResultsKept, HuntKept, NEW r \in Requests, Cleanup(r)
  PROVE  (StepsKept /\ ResultsKept /\ HuntKept)'
  <1>1. /\ pc[r] = "cleanup" /\ pc' = [pc EXCEPT ![r] = "done"] /\ UNCHANGED answer
        /\ results' = [q \in Judged |-> IF q = r /\ answer[q] = "error" THEN <<>> ELSE results[q]]
        /\ hunt' = [q \in Hunts |-> IF q = r /\ answer[q] # "found" THEN NewHunt ELSE hunt[q]]
    BY DEF Cleanup, GiveBack, Goto
  <1>2. NewHunt \in Hunt /\ <<>> \in Seq(Result)
    BY ProblemAssumption DEF NewHunt, Hunt
  <1>3. results' \in [Judged -> Seq(Result)] /\ hunt' \in [Hunts -> Hunt]
    BY <1>1, <1>2 DEF StepsKept
  <1>4. StepsKept'
    BY <1>1, <1>3 DEF StepsKept, Inside
  <1>5. ResultsKept'
    <2>1. \A q \in Judged : results'[q] = IF q = r /\ answer[q] = "error" THEN <<>> ELSE results[q]
      BY <1>1
    <2>2. "error" \notin Faults
      BY DEF Faults
    <2>3. QED
      BY <1>1, <2>1, <2>2 DEF ResultsKept
  <1>6. HuntKept'
    <2>1. \A q \in Hunts : hunt'[q] = IF q = r /\ answer[q] # "found" THEN NewHunt ELSE hunt[q]
      BY <1>1
    <2>2. pc'[r] = "done" /\ \A q \in Hunts \ {r} : pc'[q] = pc[q]
      BY <1>1 DEF StepsKept, Requests
    <2>3. QED
      BY <1>1, <2>1, <2>2 DEF HuntKept
  <1>7. QED
    BY <1>4, <1>5, <1>6

\* The steps that neither judge a test nor belong to a hunt's round: the
\* request goes on, or leaves with an answer that blames nobody's program.
LEMMA OthersKeep ==
  ASSUME StepsKept, ResultsKept, HuntKept, NEW r \in Requests,
         Lease(r) \/ InitBox(r) \/ Compile(r) \/ BuildChecker(r) \/ Raise(r)
  PROVE  (StepsKept /\ ResultsKept /\ HuntKept)'
  <1>1. /\ UNCHANGED <<results, hunt>> /\ pc[r] \notin {"cleanup", "done"}
        /\ answer[r] = None
    <2>1. /\ UNCHANGED <<results, hunt>> /\ pc[r] \notin {"cleanup", "done"}
      BY DEF Lease, InitBox, Compile, BuildChecker, Raise
    <2>2. QED
      BY <2>1 DEF StepsKept
  <1>2. \E label \in {"init", "compile", "checker", "test", "cleanup", "done"} :
        \E a \in {None, "XX", "CE", "stage", "error"} :
          /\ pc' = [pc EXCEPT ![r] = label] /\ answer' = [answer EXCEPT ![r] = a]
          /\ label \in {"checker", "test"} => r \in Judged
          /\ a # None => label \in {"cleanup", "done"}
    <2>1. answer = [answer EXCEPT ![r] = None]
      BY <1>1 DEF StepsKept
    <2>2. CASE Lease(r)
      BY <2>1, <2>2 DEF Lease, Goto
    <2>3. CASE InitBox(r)
      BY <2>1, <2>3 DEF InitBox, GiveBack, Goto
    <2>4. CASE Compile(r)
      <3>1. r \in Judged /\ \/ Goto(r, "checker") /\ UNCHANGED answer
                            \/ \E a \in {"XX", "CE"} : Leave(r, a)
        BY <2>4 DEF Compile
      <3>2. QED
        BY <2>1, <3>1 DEF Leave, Goto
    <2>5. CASE BuildChecker(r)
      <3>1. /\ (Goto(r, "test") /\ UNCHANGED answer) \/ Leave(r, "XX")
            /\ pc[r] = "checker"
        BY <2>5 DEF BuildChecker
      <3>2. QED
        BY <2>1, <3>1 DEF Leave, Goto, StepsKept
    <2>6. CASE Raise(r)
      BY <2>6 DEF Raise, Leave, Goto
    <2>7. QED
      BY <2>2, <2>3, <2>4, <2>5, <2>6
  <1>3. PICK label \in {"init", "compile", "checker", "test", "cleanup", "done"},
             a \in {None, "XX", "CE", "stage", "error"} :
          /\ pc' = [pc EXCEPT ![r] = label] /\ answer' = [answer EXCEPT ![r] = a]
          /\ label \in {"checker", "test"} => r \in Judged
          /\ a # None => label \in {"cleanup", "done"}
    BY <1>2
  <1>4. /\ pc'[r] = label /\ answer'[r] = a
        /\ \A q \in Requests \ {r} : pc'[q] = pc[q] /\ answer'[q] = answer[q]
    BY <1>3 DEF StepsKept
  <1>5. a \in Answers
    BY <1>3 DEF Answers, Verdict, Faults
  <1>6. StepsKept'
    BY <1>1, <1>3, <1>4, <1>5 DEF StepsKept, Inside
  <1>7. ResultsKept'
    <2>1. a \notin Faults \ {"CE"}
      BY DEF Faults, None
    <2>2. QED
      BY <1>1, <1>4, <2>1 DEF ResultsKept, Requests
  <1>8. HuntKept'
    BY <1>1, <1>3, <1>4 DEF HuntKept, Requests, None
  <1>9. QED
    BY <1>6, <1>7, <1>8

LEMMA StepsNext ==
  ASSUME StepsKept, ResultsKept, HuntKept, [Next]_vars
  PROVE  (StepsKept /\ ResultsKept /\ HuntKept)'
  <1>1. CASE UNCHANGED vars
    <2>1. pc' = pc /\ answer' = answer /\ results' = results /\ hunt' = hunt
      BY <1>1 DEF vars
    <2>2. StepsKept'
      BY <2>1 DEF StepsKept
    <2>3. ResultsKept'
      BY <2>1 DEF ResultsKept, Aggregate, Failures
    <2>4. HuntKept'
      BY <2>1 DEF HuntKept
    <2>5. QED
      BY <2>2, <2>3, <2>4
  <1>2. CASE Next
    <2>1. PICK r \in Requests : Lease(r) \/ Session(r) \/ Raise(r)
      BY <1>2 DEF Next
    <2>2. CASE RunTest(r)
      BY <2>2, RunTestKeeps
    <2>3. CASE Stress(r)
      BY <2>3, StressKeeps
    <2>4. CASE Cleanup(r)
      BY <2>4, CleanupKeeps
    <2>5. CASE Lease(r) \/ InitBox(r) \/ Compile(r) \/ BuildChecker(r) \/ Raise(r)
      BY <2>5, OthersKeep
    <2>6. QED
      BY <2>1, <2>2, <2>3, <2>4, <2>5 DEF Session, Judge
  <1>3. QED
    BY <1>1, <1>2

\* JudgeService!VerdictIsEarned, for any tests, points and groups and any
\* number of requests: the failure that decides a contestant's verdict is of
\* his own program, the points are those of what he passed, and the files of a
\* counterexample are of one round unless isolate broke in it.
THEOREM VerdictsEarned == Spec => []VerdictIsEarned
  <1>1. StepsKept /\ ResultsKept /\ HuntKept => VerdictIsEarned
    <2> SUFFICES ASSUME StepsKept, ResultsKept, HuntKept PROVE VerdictIsEarned
      OBVIOUS
    <2>1. \A r \in Judged : results[r] \in Seq(Result)
      BY DEF StepsKept
    <2>2. NeverBlamed
      <3> SUFFICES ASSUME NEW r \in Judged, answer[r] \in Faults \ {"CE"}
                   PROVE  results[r][Min(Failures(results[r]))].by = "program"
        BY DEF NeverBlamed
      <3>1. answer[r] = Aggregate(results[r]) /\ answer[r] \in Faults /\ "OK" \notin Faults
        BY DEF ResultsKept, Faults
      <3>2. /\ Min(Failures(results[r])) \in DOMAIN results[r]
            /\ results[r][Min(Failures(results[r]))].verdict = Aggregate(results[r])
        BY <2>1, <3>1, FirstFailure
      <3>3. QED
        BY <3>1, <3>2 DEF ResultsKept
    <2>3. ScoreIsEarned
      BY <2>1, ScoreEarned DEF ScoreIsEarned
    <2>4. ExampleIsOfOneRound
      BY DEF HuntKept, ExampleIsOfOneRound
    <2>5. QED
      BY <2>2, <2>3, <2>4 DEF VerdictIsEarned
  <1>2. QED
    BY <1>1, StepsInit, StepsNext, PTL DEF Spec

-----------------------------------------------------------------------------
(***************************************************************************)
(* Grading: types, the agreement of verdicts and run rows, stored results. *)
(***************************************************************************)

\* Writing some columns of a submission leaves a submission.
LEMMA SubUpdates ==
  ASSUME NEW o \in Sub
  PROVE  /\ \A st \in {"queued", "running", "judged"} : [o EXCEPT !.status = st] \in Sub
         /\ \A v \in Verdicts : [o EXCEPT !.status = "judged", !.verdict = v] \in Sub
         /\ [o EXCEPT !.log = TRUE] \in Sub
  BY DEF Sub

\* A commit writes a submission, and copies the new values.
LEMMA CommitWrites ==
  ASSUME GradingTypeOK, NEW w \in Workers, NEW new \in Sub, Commit(w, new)
  PROVE  /\ sub' \in [Submissions -> Sub]
         /\ obj' \in [Workers -> Sub]
         /\ obj'[w] = new
         /\ \A v \in Workers \ {w} : obj'[v] = obj[v]
         /\ \A s \in Submissions \ {task[w]} : sub'[s] = sub[s]
         /\ sub'[task[w]].verdict = Changed(sub[task[w]].verdict, obj[w].verdict, new.verdict)
         /\ sub'[task[w]].log = Changed(sub[task[w]].log, obj[w].log, new.log)
         /\ obj[w] = sub[task[w]] => sub'[task[w]] = new
  <1> DEFINE s == task[w]
  <1>1. s \in Submissions /\ sub \in [Submissions -> Sub] /\ obj \in [Workers -> Sub]
    BY DEF GradingTypeOK
  <1> DEFINE merged == [status  |-> Changed(sub[s].status, obj[w].status, new.status),
                        verdict |-> Changed(sub[s].verdict, obj[w].verdict, new.verdict),
                        log     |-> Changed(sub[s].log, obj[w].log, new.log)]
  <1>2. merged \in Sub
    BY <1>1 DEF Changed, Sub
  <1>3. sub' = [sub EXCEPT ![s] = merged] /\ obj' = [obj EXCEPT ![w] = new]
    BY DEF Commit
  <1> HIDE DEF merged
  <1>4. sub' \in [Submissions -> Sub] /\ sub'[s] = merged
    BY <1>1, <1>2, <1>3
  <1>5. /\ merged.verdict = Changed(sub[s].verdict, obj[w].verdict, new.verdict)
        /\ merged.log = Changed(sub[s].log, obj[w].log, new.log)
    BY DEF merged
  <1>6. obj[w] = sub[s] => merged = new
    BY <1>1 DEF merged, Changed, Sub
  <1>7. QED
    BY <1>1, <1>3, <1>4, <1>5, <1>6

\* A raised error leaves a job.
LEMMA RaiseKeepsJobs ==
  ASSUME GradingTypeOK, NEW w \in Workers, RaiseError(w)
  PROVE  job' \in [Submissions -> Job] /\ at' = [at EXCEPT ![w] = "idle"]
  <1>1. task[w] \in Submissions /\ job[task[w]] \in Job
    BY DEF GradingTypeOK
  <1>2. \A st \in {"queued", "failed"} : [job[task[w]] EXCEPT !.status = st] \in Job
    BY <1>1 DEF Job
  <1>3. job' = [job EXCEPT ![task[w]] =
                  [@ EXCEPT !.status = IF mine[w] < MaxAttempts THEN "queued" ELSE "failed"]]
    BY DEF RaiseError
  <1>4. QED
    BY <1>1, <1>2, <1>3 DEF GradingTypeOK, RaiseError, Proceed

\* Whoever inserts a log has a verdict that comes with one.
LogPath == \A w \in Workers : at[w] = "insert" => verdict[w] \in Untested

TypeInv == GradingTypeOK /\ LogPath

LEMMA TypeInit == GradingInit => TypeInv
  <1> SUFFICES ASSUME GradingInit
               PROVE  TypeInv
    OBVIOUS
  <1>1. NewSub \in Sub
    BY DEF NewSub, Sub
  <1>2. sub \in [Submissions -> Sub] /\ obj \in [Workers -> Sub]
    BY <1>1 DEF GradingInit
  <1>3. job \in [Submissions -> Job]
    BY DEF GradingInit, Job
  <1>4. task \in [Workers -> Submissions]
    <2>1. (CHOOSE s \in Submissions : TRUE) \in Submissions
      BY SubmissionsAssumption
    <2>2. QED
      BY <2>1 DEF GradingInit
  <1>5. runs \in [Submissions -> Tested \cup {NoVerdict}] /\ verdict \in [Workers -> Verdicts \cup {NoVerdict}]
    BY DEF GradingInit
  <1>6. mine \in [Workers -> Nat] /\ logRow \in BOOLEAN
    BY DEF GradingInit
  <1>7. aborts \in 0..MaxAborts /\ overruns \in 0..MaxOverruns /\ outages \in 0..MaxOutages
    BY BoundsAssumption DEF GradingInit
  <1>8. at = [w \in Workers |-> "idle"]
    BY DEF GradingInit
  <1>9. QED
    BY <1>2, <1>3, <1>4, <1>5, <1>6, <1>7, <1>8 DEF TypeInv, GradingTypeOK, LogPath

LEMMA TypeStep == TypeInv /\ [GradingNext]_gradingVars => TypeInv'
  <1> SUFFICES ASSUME TypeInv, [GradingNext]_gradingVars
               PROVE  TypeInv'
    OBVIOUS
  <1>0. GradingTypeOK /\ LogPath
    BY DEF TypeInv
  <1> USE <1>0, BoundsAssumption DEF LogPath
  <1>1. ASSUME NEW w \in Workers, NEW s \in Submissions, Deliver(w, s)
        PROVE  TypeInv'
    <2>1. job[s].attempts \in Nat
      BY DEF GradingTypeOK, Job
    <2>2. [status |-> "running", attempts |-> job[s].attempts + 1] \in Job
      BY <2>1 DEF Job
    <2>3. job' = [job EXCEPT ![s] = [status |-> "running", attempts |-> job[s].attempts + 1]]
      BY <1>1 DEF Deliver
    <2>4. job' \in [Submissions -> Job]
      BY <2>2, <2>3 DEF GradingTypeOK
    <2>5. mine' \in [Workers -> Nat] /\ task' \in [Workers -> Submissions]
      BY <1>1, <2>1 DEF GradingTypeOK, Deliver
    <2>6. overruns' \in 0..MaxOverruns
      BY <1>1 DEF GradingTypeOK, Deliver
    <2>7. QED
      BY <1>1, <2>4, <2>5, <2>6 DEF TypeInv, GradingTypeOK, Deliver, Proceed
  <1>2. ASSUME NEW w \in Workers, Load(w)
        PROVE  TypeInv'
    <2>1. CASE task[w] \in Broken
      BY <1>2, <2>1, RaiseKeepsJobs DEF Load, TypeInv, GradingTypeOK, budgets
    <2>2. CASE task[w] \notin Broken
      BY <1>2, <2>2 DEF Load, TypeInv, GradingTypeOK, Proceed, budgets
    <2>3. QED
      BY <2>1, <2>2
  <1>3. ASSUME NEW w \in Workers, Mark(w)
        PROVE  TypeInv'
    <2>1. [obj[w] EXCEPT !.status = "running"] \in Sub
      BY SubUpdates DEF GradingTypeOK
    <2>2. sub' \in [Submissions -> Sub] /\ obj' \in [Workers -> Sub]
      BY <1>3, <2>1, CommitWrites DEF Mark
    <2>3. QED
      BY <1>3, <2>2 DEF Mark, TypeInv, GradingTypeOK, Proceed, budgets
  <1>4. ASSUME NEW w \in Workers, AskJudge(w)
        PROVE  TypeInv'
    BY <1>4 DEF AskJudge, TypeInv, GradingTypeOK, Proceed, budgets
  <1>5. ASSUME NEW w \in Workers, Unavailable(w)
        PROVE  TypeInv'
    BY <1>5, RaiseKeepsJobs DEF Unavailable, TypeInv, GradingTypeOK, local
  <1>6. ASSUME NEW w \in Workers, verdict[w] \in Verdicts
        PROVE  Outcome(w) \in Sub
    BY <1>6, SubUpdates DEF GradingTypeOK, Outcome
  <1>7. ASSUME NEW w \in Workers, StoreRuns(w)
        PROVE  TypeInv'
    <2>1. verdict[w] \in Tested /\ task[w] \in Submissions
      BY <1>7 DEF StoreRuns, GradingTypeOK
    <2>2. CASE Conflict(w)
      BY <1>7, <2>2, RaiseKeepsJobs DEF StoreRuns, TypeInv, GradingTypeOK, budgets
    <2>3. CASE ~Conflict(w)
      <3>1. Outcome(w) \in Sub
        BY <1>6, <2>1 DEF Verdicts
      <3>2. sub' \in [Submissions -> Sub] /\ obj' \in [Workers -> Sub]
        BY <1>7, <2>3, <3>1, CommitWrites DEF StoreRuns
      <3>3. runs' \in [Submissions -> Tested \cup {NoVerdict}]
        BY <1>7, <2>1, <2>3 DEF StoreRuns, GradingTypeOK
      <3>4. QED
        BY <1>7, <2>3, <3>2, <3>3 DEF StoreRuns, TypeInv, GradingTypeOK, Proceed, budgets
    <2>4. QED
      BY <2>2, <2>3
  <1>8. ASSUME NEW w \in Workers, PutLog(w)
        PROVE  TypeInv'
    <2>1. verdict[w] \in Verdicts
      BY <1>8 DEF PutLog, Verdicts
    <2>2. Outcome(w) \in Sub
      BY <1>6, <2>1
    <2>3. sub' \in [Submissions -> Sub] /\ obj' \in [Workers -> Sub]
      BY <1>8, <2>2, CommitWrites DEF PutLog, GradingTypeOK
    <2>4. QED
      BY <1>8, <2>3 DEF PutLog, TypeInv, GradingTypeOK, Proceed, budgets
  <1>9. ASSUME NEW w \in Workers, InsertLog(w)
        PROVE  TypeInv'
    <2>1. verdict[w] \in Verdicts
      BY <1>9 DEF InsertLog, Verdicts
    <2>2. Outcome(w) \in Sub
      BY <1>6, <2>1
    <2>3. sub' \in [Submissions -> Sub] /\ obj' \in [Workers -> Sub]
      BY <1>9, <2>2, CommitWrites DEF InsertLog, GradingTypeOK
    <2>4. QED
      BY <1>9, <2>3 DEF InsertLog, TypeInv, GradingTypeOK, Proceed, budgets
  <1>10. ASSUME NEW w \in Workers, Raced(w)
         PROVE  TypeInv'
    <2>1. task[w] \in Submissions /\ sub[task[w]] \in Sub
      BY DEF GradingTypeOK
    <2>2. sub' \in [Submissions -> Sub]
      BY <1>10, <2>1, SubUpdates DEF Raced, GradingTypeOK
    <2>3. QED
      BY <1>10, <2>2, RaiseKeepsJobs DEF Raced, TypeInv, GradingTypeOK, local, budgets
  <1>11. ASSUME NEW w \in Workers, Final(w)
         PROVE  TypeInv'
    <2>1. [obj[w] EXCEPT !.log = TRUE] \in Sub
      BY SubUpdates DEF GradingTypeOK
    <2>2. sub' \in [Submissions -> Sub] /\ obj' \in [Workers -> Sub]
      BY <1>11, <2>1, CommitWrites DEF Final
    <2>3. QED
      BY <1>11, <2>2 DEF Final, TypeInv, GradingTypeOK, Proceed, budgets
  <1>12. ASSUME NEW w \in Workers, Finish(w)
         PROVE  TypeInv'
    <2>1. job[task[w]] \in Job
      BY DEF GradingTypeOK
    <2>2. [job[task[w]] EXCEPT !.status = "done"] \in Job
      BY <2>1 DEF Job
    <2>3. job' = [job EXCEPT ![task[w]] = [@ EXCEPT !.status = "done"]]
      BY <1>12 DEF Finish
    <2>4. job' \in [Submissions -> Job]
      BY <2>2, <2>3 DEF GradingTypeOK
    <2>5. QED
      BY <1>12, <2>4 DEF Finish, TypeInv, GradingTypeOK, Proceed, local, budgets
  <1>13. ASSUME NEW w \in Workers, Abort(w)
         PROVE  TypeInv'
    BY <1>13 DEF Abort, TypeInv, GradingTypeOK, Proceed, local
  <1>14. CASE UNCHANGED gradingVars
    BY <1>14 DEF gradingVars, TypeInv, GradingTypeOK
  <1>15. QED
    BY <1>1, <1>2, <1>3, <1>4, <1>5, <1>7, <1>8, <1>9, <1>10, <1>11, <1>12, <1>13, <1>14
       DEF GradingNext, Handler

\* Every variable keeps its type.  (Grading's rows, copies and jobs.)
THEOREM TypeCorrect == GradingSpec => []GradingTypeOK
  <1>1. TypeInv => GradingTypeOK
    BY DEF TypeInv
  <1>2. QED
    BY <1>1, TypeInit, TypeStep, PTL DEF GradingSpec

-----------------------------------------------------------------------------
\* VerdictHasRuns says nothing of a submission that is being judged again, nor
\* of the copies graders hold.  Both must agree with the run rows as well: it
\* is a stale copy, not the row, that decides which columns a commit writes.

Holding == {"mark", "judge", "store", "insert", "final"}

RowsAgree ==
  \A s \in Submissions : sub[s].verdict \in Tested => runs[s] = sub[s].verdict

CopiesAgree ==
  \A w \in Workers :
    at[w] \in Holding /\ obj[w].verdict \in Tested => runs[task[w]] = obj[w].verdict

Agreement == RowsAgree /\ CopiesAgree

LEMMA AgreementInit == GradingInit => Agreement
  BY VerdictsAssumption
     DEF GradingInit, NewSub, Agreement, RowsAgree, CopiesAgree, Holding

\* A commit that changes no verdict.
LEMMA SameVerdict ==
  ASSUME GradingTypeOK, RowsAgree, NEW w \in Workers, NEW new \in Sub, Commit(w, new),
         new.verdict = obj[w].verdict, UNCHANGED runs
  PROVE  RowsAgree'
  <1>1. task[w] \in Submissions
    BY DEF GradingTypeOK
  <1>2. \A s \in Submissions : sub'[s].verdict = sub[s].verdict
    BY <1>1, CommitWrites DEF Changed
  <1>3. QED
    BY <1>2 DEF RowsAgree

\* A commit that writes a verdict without tests.
LEMMA UntestedVerdict ==
  ASSUME GradingTypeOK, RowsAgree, NEW w \in Workers, NEW new \in Sub, Commit(w, new),
         new.verdict \in Untested, UNCHANGED runs
  PROVE  RowsAgree'
  <1>1. task[w] \in Submissions
    BY DEF GradingTypeOK
  <1>2. \A s \in Submissions :
          sub'[s].verdict = sub[s].verdict \/ sub'[s].verdict \in Untested
    BY <1>1, CommitWrites DEF Changed
  <1>3. QED
    BY <1>2, VerdictsAssumption DEF RowsAgree

LEMMA AgreementStep == TypeInv /\ Agreement /\ [GradingNext]_gradingVars => Agreement'
  <1> SUFFICES ASSUME TypeInv, RowsAgree, CopiesAgree, [GradingNext]_gradingVars
               PROVE  RowsAgree' /\ CopiesAgree'
    BY DEF Agreement
  <1>0. GradingTypeOK /\ LogPath
    BY DEF TypeInv
  <1> USE <1>0
  <1>1. ASSUME NEW w \in Workers, NEW s \in Submissions, Deliver(w, s)
        PROVE  RowsAgree' /\ CopiesAgree'
    <2>1. at' = [at EXCEPT ![w] = "load"] /\ task' = [task EXCEPT ![w] = s]
      BY <1>1 DEF Deliver, Proceed
    <2>2. UNCHANGED <<sub, runs, obj>>
      BY <1>1 DEF Deliver
    <2>3. QED
      BY <2>1, <2>2 DEF GradingTypeOK, RowsAgree, CopiesAgree, Holding
  <1>2. ASSUME NEW w \in Workers, Load(w)
        PROVE  RowsAgree' /\ CopiesAgree'
    <2>1. UNCHANGED <<sub, runs, task>>
      BY <1>2 DEF Load
    <2>2. CASE task[w] \in Broken
      BY <1>2, <2>1, <2>2, RaiseKeepsJobs DEF Load, GradingTypeOK, RowsAgree, CopiesAgree, Holding
    <2>3. CASE task[w] \notin Broken
      BY <1>2, <2>1, <2>3 DEF Load, Proceed, GradingTypeOK, RowsAgree, CopiesAgree, Holding
    <2>4. QED
      BY <2>2, <2>3
  <1>3. ASSUME NEW w \in Workers, Mark(w)
        PROVE  RowsAgree' /\ CopiesAgree'
    <2> DEFINE new == [obj[w] EXCEPT !.status = "running"]
    <2>1. obj[w] \in Sub
      BY DEF GradingTypeOK
    <2>2. new \in Sub /\ new.verdict = obj[w].verdict
      BY <2>1, SubUpdates DEF Sub
    <2>3. Commit(w, new) /\ at[w] = "mark" /\ UNCHANGED <<runs, task>>
      BY <1>3 DEF Mark
    <2> HIDE DEF new
    <2>4. RowsAgree'
      BY <2>2, <2>3, SameVerdict
    <2>5. at' = [at EXCEPT ![w] = "judge"]
      BY <1>3 DEF Mark, Proceed
    <2>6. CopiesAgree'
      BY <2>2, <2>3, <2>5, CommitWrites DEF GradingTypeOK, CopiesAgree, Holding
    <2>7. QED
      BY <2>4, <2>6
  <1>4. ASSUME NEW w \in Workers, AskJudge(w)
        PROVE  RowsAgree' /\ CopiesAgree'
    BY <1>4 DEF AskJudge, Proceed, GradingTypeOK, RowsAgree, CopiesAgree, Holding
  <1>5. ASSUME NEW w \in Workers, Unavailable(w)
        PROVE  RowsAgree' /\ CopiesAgree'
    BY <1>5, RaiseKeepsJobs DEF Unavailable, local, GradingTypeOK, RowsAgree, CopiesAgree, Holding
  <1>6. ASSUME NEW w \in Workers, verdict[w] \in Verdicts
        PROVE  Outcome(w) \in Sub /\ Outcome(w).verdict = verdict[w]
    <2>1. obj[w] \in Sub
      BY DEF GradingTypeOK
    <2>2. QED
      BY <1>6, <2>1, SubUpdates DEF Outcome, Sub
  <1>7. ASSUME NEW w \in Workers, StoreRuns(w)
        PROVE  RowsAgree' /\ CopiesAgree'
    <2>1. /\ verdict[w] \in Tested /\ task[w] \in Submissions /\ at[w] = "store"
          /\ UNCHANGED task
      BY <1>7 DEF StoreRuns, GradingTypeOK
    <2>2. CASE Conflict(w)
      BY <1>7, <2>2, RaiseKeepsJobs DEF StoreRuns, GradingTypeOK, RowsAgree, CopiesAgree, Holding
    <2>3. CASE ~Conflict(w)
      <3>1. runs[task[w]] = NoVerdict /\ NoVerdict \notin Tested
        BY <2>3, VerdictsAssumption DEF Conflict
      <3>2. Outcome(w) \in Sub /\ Outcome(w).verdict = verdict[w]
        BY <1>6, <2>1 DEF Verdicts
      <3>3. Commit(w, Outcome(w)) /\ runs' = [runs EXCEPT ![task[w]] = verdict[w]]
        BY <1>7, <2>3 DEF StoreRuns
      <3>4. runs'[task[w]] = verdict[w] /\ \A s \in Submissions \ {task[w]} : runs'[s] = runs[s]
        BY <2>1, <3>3 DEF GradingTypeOK
      <3>5. obj[w].verdict \notin Tested
        BY <2>1, <3>1 DEF CopiesAgree, Holding
      <3>6. sub'[task[w]].verdict = verdict[w]
        BY <2>1, <3>2, <3>3, <3>5, CommitWrites DEF Changed
      <3>7. \A s \in Submissions \ {task[w]} : sub'[s] = sub[s]
        BY <3>2, <3>3, CommitWrites
      <3>8. RowsAgree'
        BY <3>4, <3>6, <3>7 DEF RowsAgree
      <3>9. at' = [at EXCEPT ![w] = "finish"]
        BY <1>7, <2>3 DEF StoreRuns, Proceed
      <3>10. \A v \in Workers \ {w} : obj'[v] = obj[v]
        BY <3>2, <3>3, CommitWrites
      <3>11. ASSUME NEW v \in Workers, at'[v] \in Holding, obj'[v].verdict \in Tested
             PROVE  runs'[task'[v]] = obj'[v].verdict
        <4>1. v # w
          BY <3>9, <3>11 DEF GradingTypeOK, Holding
        <4>2. at[v] \in Holding /\ obj'[v] = obj[v] /\ task[v] \in Submissions
          BY <3>9, <3>10, <3>11, <4>1 DEF GradingTypeOK
        <4>3. runs[task[v]] = obj[v].verdict
          BY <3>11, <4>2 DEF CopiesAgree
        <4>4. task[v] # task[w]
          BY <3>1, <3>11, <4>2, <4>3
        <4>5. QED
          BY <2>1, <3>4, <4>2, <4>3, <4>4
      <3>12. QED
        BY <3>8, <3>11 DEF CopiesAgree
    <2>4. QED
      BY <2>2, <2>3
  <1>8. ASSUME NEW w \in Workers, PutLog(w) \/ InsertLog(w)
        PROVE  RowsAgree' /\ CopiesAgree'
    <2>1. verdict[w] \in Untested /\ UNCHANGED <<runs, task>>
      BY <1>8 DEF PutLog, InsertLog, LogPath
    <2>2. Outcome(w) \in Sub /\ Outcome(w).verdict = verdict[w]
      BY <1>6, <2>1 DEF Verdicts
    <2>3. CASE Commit(w, Outcome(w)) /\ Proceed(w, "final")
      <3>1. RowsAgree'
        BY <2>1, <2>2, <2>3, UntestedVerdict
      <3>2. obj'[w].verdict \notin Tested
        BY <2>1, <2>2, <2>3, CommitWrites, VerdictsAssumption
      <3>3. QED
        BY <2>1, <2>2, <2>3, <3>1, <3>2, CommitWrites DEF Proceed, GradingTypeOK, CopiesAgree, Holding
    <2>4. CASE UNCHANGED <<sub, obj>> /\ (Proceed(w, "insert") \/ Proceed(w, "raced")) /\ at[w] \in Holding
      BY <2>1, <2>4 DEF Proceed, GradingTypeOK, RowsAgree, CopiesAgree, Holding
    <2>5. QED
      BY <1>8, <2>3, <2>4 DEF PutLog, InsertLog, Holding
  <1>9. ASSUME NEW w \in Workers, Raced(w)
        PROVE  RowsAgree' /\ CopiesAgree'
    <2>1. task[w] \in Submissions /\ sub[task[w]] \in Sub
      BY DEF GradingTypeOK
    <2>2. \A s \in Submissions : sub'[s].verdict = sub[s].verdict
      BY <1>9, <2>1 DEF Raced, GradingTypeOK, Sub
    <2>3. UNCHANGED <<runs, task, obj>> /\ at' = [at EXCEPT ![w] = "idle"]
      BY <1>9, RaiseKeepsJobs DEF Raced, local
    <2>4. QED
      BY <2>2, <2>3 DEF GradingTypeOK, RowsAgree, CopiesAgree, Holding
  <1>10. ASSUME NEW w \in Workers, Final(w)
         PROVE  RowsAgree' /\ CopiesAgree'
    <2> DEFINE new == [obj[w] EXCEPT !.log = TRUE]
    <2>1. obj[w] \in Sub
      BY DEF GradingTypeOK
    <2>2. new \in Sub /\ new.verdict = obj[w].verdict
      BY <2>1, SubUpdates DEF Sub
    <2>3. Commit(w, new) /\ UNCHANGED <<runs, task>>
      BY <1>10 DEF Final
    <2> HIDE DEF new
    <2>4. RowsAgree'
      BY <2>2, <2>3, SameVerdict
    <2>5. at' = [at EXCEPT ![w] = "finish"]
      BY <1>10 DEF Final, Proceed
    <2>6. CopiesAgree'
      BY <2>2, <2>3, <2>5, CommitWrites DEF GradingTypeOK, CopiesAgree, Holding
    <2>7. QED
      BY <2>4, <2>6
  <1>11. ASSUME NEW w \in Workers, Finish(w) \/ Abort(w)
         PROVE  RowsAgree' /\ CopiesAgree'
    BY <1>11 DEF Finish, Abort, Proceed, local, GradingTypeOK, RowsAgree, CopiesAgree, Holding
  <1>12. CASE UNCHANGED gradingVars
    BY <1>12 DEF gradingVars, RowsAgree, CopiesAgree
  <1>13. QED
    BY <1>1, <1>2, <1>3, <1>4, <1>5, <1>7, <1>8, <1>9, <1>10, <1>11, <1>12
       DEF GradingNext, Handler

\* However many graders judge a submission, whichever of them are late, repeat
\* or die, a verdict from the tests is the verdict of the stored run rows.
THEOREM VerdictMatchesRuns == GradingSpec => []VerdictHasRuns
  <1>1. Agreement => VerdictHasRuns
    BY DEF Agreement, RowsAgree, VerdictHasRuns
  <1>2. QED
    BY <1>1, TypeInit, TypeStep, AgreementInit, AgreementStep, PTL DEF GradingSpec
-----------------------------------------------------------------------------
(***************************************************************************)
(* What a finished job says is stored.  For the logs, a copy must not know *)
(* a log the blobs table does not (LogsKnown).  For the verdict, as long   *)
(* as no busy job was delivered twice, the job is what keeps graders       *)
(* apart: a busy grader's job is running, it is the only one, and its copy *)
(* is the row (SoleGrader).                                                *)
(***************************************************************************)
LogsKnown ==
  /\ \A s \in Submissions : sub[s].log => logRow
  /\ \A w \in Workers : /\ obj[w].log => logRow
                        /\ at[w] \in {"final", "raced"} => logRow

SoleGrader ==
  /\ \A w, v \in Workers :
       at[w] # "idle" /\ at[v] # "idle" /\ task[w] = task[v] => w = v
  /\ \A w \in Workers :
       /\ at[w] # "idle" => job[task[w]].status = "running"
       /\ at[w] \in Holding => obj[w] = sub[task[w]]
       /\ at[w] \in {"final", "finish"} => sub[task[w]].status = "judged"
  /\ \A s \in Submissions : job[s].status = "done" => sub[s].status = "judged"

\* A step that commits: what it writes, and where the grader goes from there.
Commits(w, new) ==
  /\ Commit(w, new) /\ UNCHANGED <<job, task, overruns>>
  /\ \/ /\ at[w] = "mark" /\ Proceed(w, "judge")
        /\ new.log = obj[w].log /\ logRow' = logRow
     \/ /\ at[w] = "store" /\ Proceed(w, "finish")
        /\ new.status = "judged" /\ new.log = obj[w].log /\ logRow' = logRow
     \/ /\ at[w] \in {"store", "insert"} /\ Proceed(w, "final")
        /\ new.status = "judged" /\ new.log = obj[w].log /\ logRow' = TRUE
     \/ /\ at[w] = "final" /\ Proceed(w, "finish")
        /\ new.status = obj[w].status /\ logRow' = logRow

\* A step that fails: the worker decides about the retry and is idle again.
Fails(w) ==
  /\ at[w] # "idle" /\ RaiseError(w)
  /\ UNCHANGED <<logRow, task, obj, overruns>>
  /\ \/ UNCHANGED sub
     \/ at[w] = "raced" /\ sub' = [sub EXCEPT ![task[w]].log = TRUE]

\* A step of a grader that touches no row.
Moves(w) ==
  /\ UNCHANGED <<sub, job, task, obj, overruns>>
  /\ \/ at[w] = "judge" /\ Proceed(w, "store") /\ logRow' = logRow
     \/ at[w] = "store" /\ Proceed(w, "insert") /\ logRow' = logRow
     \/ at[w] = "insert" /\ Proceed(w, "raced") /\ logRow' = TRUE
     \/ Proceed(w, "idle") /\ logRow' = logRow

LEMMA GraderSteps ==
  ASSUME TypeInv, NEW w \in Workers, Handler(w) \/ Abort(w), ~Load(w), ~Finish(w)
  PROVE  (\E new \in Sub : Commits(w, new)) \/ Fails(w) \/ Moves(w)
  <1>1. obj[w] \in Sub /\ logRow \in BOOLEAN
    BY DEF TypeInv, GradingTypeOK
  <1>2. verdict[w] \in Verdicts =>
          /\ Outcome(w) \in Sub
          /\ Outcome(w).status = "judged" /\ Outcome(w).log = obj[w].log
    BY <1>1, SubUpdates DEF Outcome, Sub
  <1>3. CASE Mark(w)
    <2> DEFINE new == [obj[w] EXCEPT !.status = "running"]
    <2>1. new \in Sub /\ new.log = obj[w].log
      BY <1>1, SubUpdates DEF Sub
    <2>2. Commits(w, new)
      BY <1>3, <2>1 DEF Mark, Commits, budgets
    <2>3. QED
      BY <2>1, <2>2
  <1>4. CASE StoreRuns(w)
    <2>1. CASE Conflict(w)
      BY <1>4, <2>1 DEF StoreRuns, Fails, budgets
    <2>2. CASE ~Conflict(w)
      <3>1. verdict[w] \in Verdicts
        BY <1>4 DEF StoreRuns, Verdicts
      <3>2. Commits(w, Outcome(w))
        BY <1>2, <1>4, <2>2, <3>1 DEF StoreRuns, Commits, budgets
      <3>3. QED
        BY <1>2, <3>1, <3>2
    <2>3. QED
      BY <2>1, <2>2
  <1>5. CASE PutLog(w)
    <2>1. CASE logRow
      <3>1. verdict[w] \in Verdicts
        BY <1>5 DEF PutLog, Verdicts
      <3>2. Commits(w, Outcome(w))
        BY <1>2, <1>5, <2>1, <3>1 DEF PutLog, Commits, budgets
      <3>3. QED
        BY <1>2, <3>1, <3>2
    <2>2. CASE ~logRow
      BY <1>5, <2>2 DEF PutLog, Moves, budgets
    <2>3. QED
      BY <2>1, <2>2
  <1>6. CASE InsertLog(w)
    <2>1. CASE logRow
      BY <1>6, <2>1 DEF InsertLog, Moves, budgets
    <2>2. CASE ~logRow
      <3>1. verdict[w] \in Verdicts
        BY <1>6 DEF InsertLog, TypeInv, LogPath, Verdicts
      <3>2. Commits(w, Outcome(w))
        BY <1>2, <1>6, <2>2, <3>1 DEF InsertLog, Commits, budgets
      <3>3. QED
        BY <1>2, <3>1, <3>2
    <2>3. QED
      BY <2>1, <2>2
  <1>7. CASE Final(w)
    <2> DEFINE new == [obj[w] EXCEPT !.log = TRUE]
    <2>1. new \in Sub /\ new.status = obj[w].status
      BY <1>1, SubUpdates DEF Sub
    <2>2. Commits(w, new)
      BY <1>7, <2>1 DEF Final, Commits, budgets
    <2>3. QED
      BY <2>1, <2>2
  <1>8. CASE Raced(w) \/ Unavailable(w)
    BY <1>8 DEF Raced, Unavailable, Fails, local, budgets
  <1>9. CASE AskJudge(w) \/ Abort(w)
    BY <1>9 DEF AskJudge, Abort, Moves, local, budgets
  <1>10. QED
    BY <1>3, <1>4, <1>5, <1>6, <1>7, <1>8, <1>9 DEF Handler

LEMMA StoredInit == GradingInit => LogsKnown /\ SoleGrader
  BY DEF GradingInit, NewSub, LogsKnown, SoleGrader, Holding

LEMMA LogsKnownStep ==
  ASSUME TypeInv, LogsKnown, [GradingNext]_gradingVars
  PROVE  LogsKnown'
  <1>1. /\ GradingTypeOK /\ task \in [Workers -> Submissions] /\ logRow \in BOOLEAN
        /\ sub \in [Submissions -> Sub] /\ obj \in [Workers -> Sub]
        /\ DOMAIN at = Workers /\ at = [w \in Workers |-> at[w]]
    BY DEF TypeInv, GradingTypeOK
  <1> USE DEF LogsKnown
  <1>2. ASSUME NEW w \in Workers, NEW s \in Submissions, Deliver(w, s)
        PROVE  LogsKnown'
    BY <1>1, <1>2 DEF Deliver, Proceed
  <1>3. ASSUME NEW w \in Workers, Load(w)
        PROVE  LogsKnown'
    BY <1>1, <1>3 DEF Load, RaiseError, Proceed
  <1>4. ASSUME NEW w \in Workers, Finish(w)
        PROVE  LogsKnown'
    BY <1>1, <1>4 DEF Finish, Proceed, local
  <1>5. ASSUME NEW w \in Workers, NEW new \in Sub, Commits(w, new)
        PROVE  LogsKnown'
    <2>1. /\ \A v \in Workers \ {w} : obj'[v] = obj[v] /\ at'[v] = at[v]
          /\ obj'[w] = new
          /\ \A s \in Submissions \ {task[w]} : sub'[s] = sub[s]
          /\ sub'[task[w]].log \in {sub[task[w]].log, new.log}
      BY <1>1, <1>5, CommitWrites DEF Commits, Proceed, Changed
    <2>2. (logRow => logRow') /\ (at'[w] \in {"final", "raced"} => logRow')
      BY <1>1, <1>5 DEF Commits, Proceed
    <2>3. new.log => logRow'
      <3>1. new.log = obj[w].log \/ logRow
        BY <1>5 DEF Commits
      <3>2. obj[w].log => logRow
        OBVIOUS
      <3>3. logRow => logRow'
        BY <2>2
      <3>4. QED
        BY <3>1, <3>2, <3>3
    <2>4. QED
      BY <1>1, <2>1, <2>2, <2>3
  <1>6. ASSUME NEW w \in Workers, Fails(w)
        PROVE  LogsKnown'
    <2>1. \A s \in Submissions : sub'[s].log => logRow
      BY <1>1, <1>6 DEF Fails, Sub
    <2>2. \A v \in Workers : at'[v] \in {"final", "raced"} => at[v] \in {"final", "raced"}
      BY <1>1, <1>6 DEF Fails, RaiseError, Proceed
    <2>3. QED
      BY <1>6, <2>1, <2>2 DEF Fails
  <1>7. ASSUME NEW w \in Workers, Moves(w)
        PROVE  LogsKnown'
    BY <1>1, <1>7 DEF Moves, Proceed
  <1>8. CASE UNCHANGED gradingVars
    BY <1>8 DEF gradingVars
  <1>9. QED
    BY <1>2, <1>3, <1>4, <1>5, <1>6, <1>7, <1>8, GraderSteps DEF GradingNext, Handler

\* An overrun is not forgotten.
LEMMA OverrunsStay ==
  ASSUME TypeInv, [GradingNext]_gradingVars, overruns' = 0
  PROVE  overruns = 0
  <1>1. overruns \in Nat
    BY BoundsAssumption DEF TypeInv, GradingTypeOK
  <1>2. ASSUME NEW w \in Workers, NEW s \in Submissions, Deliver(w, s)
        PROVE  overruns = 0
    BY <1>1, <1>2 DEF Deliver
  <1>3. ASSUME NEW w \in Workers, Handler(w) \/ Abort(w)
        PROVE  overruns = 0
    BY <1>3 DEF Handler, Load, Mark, AskJudge, Unavailable, StoreRuns, PutLog, InsertLog, Raced,
                Final, Finish, Abort, budgets
  <1>4. CASE UNCHANGED gradingVars
    BY <1>4 DEF gradingVars
  <1>5. QED
    BY <1>2, <1>3, <1>4 DEF GradingNext

LEMMA SoleGraderStep ==
  ASSUME TypeInv, SoleGrader, [GradingNext]_gradingVars, overruns' = 0
  PROVE  SoleGrader'
  <1>1. /\ GradingTypeOK /\ task \in [Workers -> Submissions]
        /\ sub \in [Submissions -> Sub] /\ obj \in [Workers -> Sub]
        /\ DOMAIN at = Workers /\ at = [w \in Workers |-> at[w]]
        /\ job \in [Submissions -> Job] /\ overruns \in Nat
    BY BoundsAssumption DEF TypeInv, GradingTypeOK
  <1>2. overruns = 0
    BY OverrunsStay
  <1>3. ASSUME NEW w \in Workers, NEW s \in Submissions, Deliver(w, s)
        PROVE  SoleGrader'
    <2>1. /\ job[s].status \in {"queued", "running"} /\ ~Busy(s)
          /\ job'[s].status = "running" /\ \A t \in Submissions \ {s} : job'[t] = job[t]
          /\ at'[w] = "load" /\ task'[w] = s
          /\ \A v \in Workers \ {w} : at'[v] = at[v] /\ task'[v] = task[v]
          /\ UNCHANGED <<sub, obj>>
      <3>1. job[s].status \in {"queued", "running"} /\ ~Busy(s)
        <4>1. job[s].status = "queued" => ~Busy(s)
          BY DEF Busy, SoleGrader
        <4>2. QED
          BY <1>2, <1>3, <4>1 DEF Deliver
      <3>2. job' = [job EXCEPT ![s] = [status |-> "running", attempts |-> @.attempts + 1]]
        BY <1>3 DEF Deliver
      <3>3. job'[s].status = "running" /\ \A t \in Submissions \ {s} : job'[t] = job[t]
        BY <1>1, <3>2
      <3>4. QED
        BY <1>1, <1>3, <3>1, <3>3 DEF Deliver, Proceed
    <2>2. \A v \in Workers \ {w} : at[v] # "idle" => task[v] # s
      BY <2>1 DEF Busy
    <2>3. QED
      BY <1>1, <2>1, <2>2 DEF SoleGrader, Holding
  <1>4. ASSUME NEW w \in Workers, at[w] # "idle", RaiseError(w), UNCHANGED <<task, obj>>,
               \A s \in Submissions : s # task[w] => sub'[s] = sub[s],
               sub'[task[w]].status = sub[task[w]].status
        PROVE  SoleGrader'
    <2>1. /\ at'[w] = "idle" /\ \A v \in Workers \ {w} : at'[v] = at[v]
          /\ job'[task[w]].status \in {"queued", "failed"}
          /\ \A s \in Submissions : s # task[w] => job'[s] = job[s]
      <3>1. job[task[w]] \in Job
        BY <1>1
      <3>2. QED
        BY <1>1, <1>4, <3>1 DEF RaiseError, Proceed, Job
    <2>2. \A v \in Workers \ {w} : at[v] # "idle" => task[v] # task[w]
      BY <1>4 DEF SoleGrader
    <2>3. QED
      BY <1>1, <1>4, <2>1, <2>2 DEF SoleGrader, Holding
  <1>5. ASSUME NEW w \in Workers, Load(w)
        PROVE  SoleGrader'
    <2>1. CASE task[w] \in Broken
      BY <1>4, <1>5, <2>1 DEF Load
    <2>2. CASE task[w] \notin Broken
      <3>1. /\ UNCHANGED <<sub, job, task>> /\ at[w] = "load" /\ at'[w] = "mark"
            /\ obj'[w] = sub[task[w]]
            /\ \A v \in Workers \ {w} : at'[v] = at[v] /\ obj'[v] = obj[v]
        BY <1>1, <1>5, <2>2 DEF Load, Proceed
      <3>2. QED
        BY <3>1 DEF SoleGrader, Holding
    <2>3. QED
      BY <2>1, <2>2
  <1>6. ASSUME NEW w \in Workers, Finish(w)
        PROVE  SoleGrader'
    <2>1. /\ at[w] = "finish" /\ at'[w] = "idle" /\ \A v \in Workers \ {w} : at'[v] = at[v]
          /\ UNCHANGED <<sub, task, obj>>
          /\ \A s \in Submissions : s # task[w] => job'[s] = job[s]
      BY <1>1, <1>6 DEF Finish, Proceed, local
    <2>2. \A v \in Workers \ {w} : at[v] # "idle" => task[v] # task[w]
      BY <2>1 DEF SoleGrader, Holding
    <2>3. QED
      BY <1>1, <2>1, <2>2 DEF SoleGrader, Holding
  <1>7. ASSUME NEW w \in Workers, NEW new \in Sub, Commits(w, new)
        PROVE  SoleGrader'
    <2>1. /\ \A v \in Workers \ {w} : obj'[v] = obj[v] /\ at'[v] = at[v]
          /\ obj'[w] = new
          /\ \A s \in Submissions \ {task[w]} : sub'[s] = sub[s]
          /\ obj[w] = sub[task[w]] => sub'[task[w]] = new
          /\ UNCHANGED <<job, task>>
      BY <1>1, <1>7, CommitWrites DEF Commits, Proceed
    <2>2. at[w] \in Holding /\ obj[w] = sub[task[w]] /\ sub'[task[w]] = new
      BY <1>7, <2>1 DEF Commits, Holding, SoleGrader
    <2>3. /\ at'[w] # "idle"
          /\ at'[w] \in {"final", "finish"} => new.status = "judged"
      BY <1>1, <1>7, <2>2 DEF Commits, Proceed, SoleGrader
    <2>4. at[w] # "idle" /\ job[task[w]].status = "running"
      BY <2>2 DEF Holding, SoleGrader
    <2>5. \A v \in Workers \ {w} : at[v] # "idle" => task[v] # task[w]
      BY <2>4 DEF SoleGrader
    <2>6. QED
      BY <1>1, <2>1, <2>2, <2>3, <2>4, <2>5 DEF SoleGrader, Holding
  <1>8. ASSUME NEW w \in Workers, Fails(w)
        PROVE  SoleGrader'
    <2>1. \A s \in Submissions : s # task[w] => sub'[s] = sub[s]
      BY <1>1, <1>8 DEF Fails
    <2>2. sub'[task[w]].status = sub[task[w]].status
      BY <1>1, <1>8 DEF Fails, Sub
    <2>3. QED
      BY <1>4, <1>8, <2>1, <2>2 DEF Fails
  <1>9. ASSUME NEW w \in Workers, Moves(w)
        PROVE  SoleGrader'
    <2>1. /\ UNCHANGED <<sub, job, task, obj>>
          /\ \A v \in Workers :
               /\ at'[v] # "idle" => at[v] # "idle"
               /\ at'[v] \in Holding => at[v] \in Holding
               /\ at'[v] \in {"final", "finish"} => at[v] \in {"final", "finish"}
      BY <1>1, <1>9 DEF Moves, Proceed, Holding
    <2>2. QED
      BY <2>1 DEF SoleGrader, Holding
  <1>10. CASE UNCHANGED gradingVars
    BY <1>10 DEF gradingVars, SoleGrader, Holding
  <1>11. QED
    BY <1>3, <1>5, <1>6, <1>7, <1>8, <1>9, <1>10, GraderSteps DEF GradingNext, Handler

\* What a finished job says is stored: a log that is referenced is in the blobs
\* table, always; and until a busy job is delivered twice, a job that is done
\* has left a judged submission, whatever workers die and whatever is retried.
THEOREM ResultsStored == GradingSpec => []ResultsAreStored
  <1> DEFINE IInv == TypeInv /\ LogsKnown /\ (overruns = 0 => SoleGrader)
  <1>1. GradingInit => IInv
    BY TypeInit, StoredInit
  <1>2. IInv /\ [GradingNext]_gradingVars => IInv'
    BY TypeStep, LogsKnownStep, SoleGraderStep, OverrunsStay
  <1>3. IInv => ResultsAreStored
    BY DEF LogsKnown, SoleGrader, ResultsAreStored, DoneMeansJudged, LogIsStored
  <1>4. QED
    BY <1>1, <1>2, <1>3, PTL DEF GradingSpec
=============================================================================
