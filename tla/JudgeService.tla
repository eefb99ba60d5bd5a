----------------------------- MODULE JudgeService -----------------------------
(***************************************************************************)
(* The judge service (backend/judge/app): requests to judge a submission   *)
(* or to hunt for a counterexample lease an isolate box from a shared      *)
(* pool, run programs in it and give it back.                              *)
(*                                                                         *)
(* How a sandboxed program ends is an input; what the service makes of it  *)
(* (verdicts, scores, counterexamples) is computed.                        *)
(***************************************************************************)
EXTENDS Integers, Sequences, FiniteSets, FiniteSetsExt

CONSTANTS
  Judged, Hunts,   \* requests: POST /judge and POST /stress
  Size,            \* boxes of the pool
  NTests,          \* tests of the problem
  GroupOf, Points, \* group (or None) and points of each test
  Stops,           \* values of stop_on_first_failure
  Rounds,          \* iterations of a hunt
  Endings,         \* how programs end: values of RunStatus
  Exits,           \* how checkers end
  Ratios           \* partial credit a checker gives, in halves

None == "none"
NoBox == -1
Boxes == 0..(Size - 1)
Requests == Judged \cup Hunts
Tests == 1..NTests

RunStatus == {"OK", "RE", "TL", "ML", "OL", "XX"}
CheckerExits == {"ok", "wa", "pe", "fail", "dirt", "points", "eof", "unknown",
                 "timeout", "broken", "killed"}

ASSUME RequestsAssumption == Judged \cap Hunts = {} /\ Size \in 1..1000
ASSUME ProblemAssumption ==
  NTests \in Nat \ {0} /\ Rounds \in Nat \ {0} /\ DOMAIN GroupOf = Tests /\ Points \in [Tests -> Nat]
ASSUME EndingsAssumption ==
  "OK" \in Endings /\ Endings \subseteq RunStatus /\ Exits \subseteq CheckerExits
  /\ Stops \subseteq BOOLEAN /\ Ratios \subseteq 0..2

VARIABLES
  free,     \* BoxPool._free
  broken,   \* BoxPool._broken
  box,      \* the box a request has leased
  pc,
  stop,     \* stop_on_first_failure of a request
  results,  \* results of the tests judged so far
  hunt,     \* round of a hunt and the rounds its files come from
  answer    \* what the request answers with

pool    == <<free, broken>>
vars    == <<free, broken, box, pc, stop, results, hunt, answer>>

Faults == {"WA", "PE", "TLE", "MLE", "RE", "CE"}
Verdict == Faults \cup {"OK", "XX"}

\* ratio: points_ratio in halves.  by: what the verdict comes from (history).
Result == [verdict : Verdict, ratio : 0..2, by : {"program", "judge"}]
Hunt == [seed : 1..Rounds, input : 0..Rounds, expected : 0..Rounds, actual : 0..Rounds,
         broke : BOOLEAN]   \* history: isolate broke under the candidate
NewHunt == [seed |-> 1, input |-> 0, expected |-> 0, actual |-> 0, broke |-> FALSE]
Answers == {None, "error", "found", "clean", "stage"} \cup Verdict

Held == {box[r] : r \in Requests} \ {NoBox}
InFree == {free[i] : i \in DOMAIN free}

TypeOK ==
  /\ free \in Seq(Boxes) /\ Len(free) <= Size
  /\ broken \subseteq Boxes
  /\ box \in [Requests -> Boxes \cup {NoBox}]
  /\ pc \in [Requests -> {"wait", "init", "compile", "checker", "test", "generate",
                          "refer", "candidate", "compare", "cleanup", "done"}]
  /\ stop \in [Judged -> Stops]
  /\ results \in [Judged -> Seq(Result)] /\ \A r \in Judged : Len(results[r]) <= NTests
  /\ hunt \in [Hunts -> Hunt]
  /\ answer \in [Requests -> Answers]

Init ==
  /\ free = [i \in 1..Size |-> i - 1]
  /\ broken = {}
  /\ box = [r \in Requests |-> NoBox]
  /\ pc = [r \in Requests |-> "wait"]
  /\ stop \in [Judged -> Stops]
  /\ results = [r \in Judged |-> <<>>]
  /\ hunt = [r \in Hunts |-> NewHunt]
  /\ answer = [r \in Requests |-> None]

Goto(r, label) == pc' = [pc EXCEPT ![r] = label]

\* The request knows its answer and leaves the sandbox session.
Leave(r, a) == Goto(r, "cleanup") /\ answer' = [answer EXCEPT ![r] = a]

-----------------------------------------------------------------------------
\* sandbox/pool.py and sandbox/isolate.py

Lease(r) ==
  /\ pc[r] = "wait" /\ free # <<>>
  /\ box' = [box EXCEPT ![r] = Head(free)]
  /\ free' = Tail(free)
  /\ Goto(r, "init")
  /\ UNCHANGED <<broken, stop, results, hunt, answer>>

\* The finally clause of lease(): only BoxCorrupted keeps a box out, and
\* nothing raises it.
GiveBack(r) ==
  /\ free' = Append(free, box[r])
  /\ box' = [box EXCEPT ![r] = NoBox]
  /\ Goto(r, "done")

\* Mutant: the box is lost with the failure.
InitLoses(r) ==
  /\ pc[r] = "init"
  /\ \/ Goto(r, "compile") /\ UNCHANGED <<answer, free, box>>
     \/ /\ answer' = [answer EXCEPT ![r] = IF r \in Judged THEN "XX" ELSE "stage"]
        /\ box' = [box EXCEPT ![r] = NoBox]
        /\ Goto(r, "done")
        /\ UNCHANGED free
  /\ UNCHANGED <<broken, stop, results, hunt>>

\* Mutant: a box that cannot be made is asked for again, for ever.
InitAgain(r) ==
  /\ pc[r] = "init"
  /\ \/ Goto(r, "compile") /\ UNCHANGED <<free, box>>
     \/ Goto(r, "wait") /\ free' = Append(free, box[r]) /\ box' = [box EXCEPT ![r] = NoBox]
  /\ UNCHANGED <<answer, broken, stop, results, hunt>>

\* isolate --init: a box that cannot be made goes back without a cleanup.
InitBox(r) ==
  /\ pc[r] = "init"
  /\ \/ Goto(r, "compile") /\ UNCHANGED <<answer, free, box>>
     \/ /\ answer' = [answer EXCEPT ![r] = IF r \in Judged THEN "XX" ELSE "stage"]
        /\ GiveBack(r)
  /\ UNCHANGED <<broken, stop, results, hunt>>

\* isolate --cleanup: when it fails the box is retired.  What the request does
\* not answer with is gone with the box.
Cleanup(r) ==
  /\ pc[r] = "cleanup"
  /\ \/ UNCHANGED broken
     \/ broken' = broken \cup {box[r]}
  /\ GiveBack(r)
  /\ results' = [q \in Judged |-> IF q = r /\ answer[q] = "error" THEN <<>> ELSE results[q]]
  /\ hunt' = [q \in Hunts |-> IF q = r /\ answer[q] # "found" THEN NewHunt ELSE hunt[q]]
  /\ UNCHANGED <<stop, answer>>

\* An exception inside the session (a full disk) is a 500 for the client.
Raise(r) ==
  /\ pc[r] \notin {"wait", "init", "cleanup", "done"}
  /\ Leave(r, "error")
  /\ UNCHANGED <<pool, box, stop, results, hunt>>

-----------------------------------------------------------------------------
\* engine/verdict.py and engine/checker.py

\* Mutant: a run that isolate could not carry out counts as clean.
FromRunClean == [s \in RunStatus \ {"OK"} |->
  CASE s = "RE" -> "RE" [] s = "TL" -> "TLE" [] s = "ML" -> "MLE" [] s = "OL" -> "RE"
    [] s = "XX" -> "RE"]

FromRun == [s \in RunStatus \ {"OK"} |->
  CASE s = "RE" -> "RE" [] s = "TL" -> "TLE" [] s = "ML" -> "MLE" [] s = "OL" -> "RE"
    [] s = "XX" -> "XX"]

\* A checker killed by a signal or for its memory has no exit code, which is
\* read as 0.
CheckerVerdict == [e \in CheckerExits |->
  CASE e \in {"ok", "points", "killed"} -> "OK"
    [] e = "wa" -> "WA"
    [] e \in {"pe", "dirt", "eof"} -> "PE"
    [] e \in {"fail", "unknown", "timeout", "broken"} -> "XX"]

JudgeBroke(e) == e \in {"fail", "unknown", "timeout", "broken", "killed"}

Checked(e, ratio) == [verdict |-> CheckerVerdict[e],
                      ratio |-> IF e = "points" THEN ratio ELSE 2,
                      by |-> IF JudgeBroke(e) THEN "judge" ELSE "program"]

\* What one test can come to: the program fails, or the checker decides.
Outcomes ==
  {[verdict |-> FromRun[s], ratio |-> 2, by |-> IF s = "XX" THEN "judge" ELSE "program"] :
     s \in Endings \ {"OK"}}
  \cup {Checked(e, ratio) : e \in Exits, ratio \in Ratios}

-----------------------------------------------------------------------------
\* engine/judge.py

\* A compiler that fails or hits its limits is the submission's fault.
Compile(r) ==
  /\ pc[r] = "compile" /\ r \in Judged
  /\ \E s \in Endings :
       CASE s = "OK" -> Goto(r, "checker") /\ UNCHANGED answer
         [] s = "XX" -> Leave(r, "XX")
         [] OTHER    -> Leave(r, "CE")
  /\ UNCHANGED <<pool, box, stop, results, hunt>>

BuildChecker(r) ==
  /\ pc[r] = "checker"
  /\ \E s \in Endings : IF s = "OK" THEN Goto(r, "test") /\ UNCHANGED answer
                                    ELSE Leave(r, "XX")
  /\ UNCHANGED <<pool, box, stop, results, hunt>>

\* The first failure decides.
Failures(rs) == {i \in DOMAIN rs : rs[i].verdict # "OK"}
Aggregate(rs) == IF Failures(rs) = {} THEN "OK" ELSE rs[Min(Failures(rs))].verdict

RunTest(r) ==
  /\ pc[r] = "test"
  /\ \E o \in Outcomes :
       LET rs == Append(results[r], o) IN
       /\ results' = [results EXCEPT ![r] = rs]
       /\ IF Len(rs) = NTests \/ (o.verdict # "OK" /\ stop[r])
            THEN Leave(r, Aggregate(rs))
            ELSE UNCHANGED <<pc, answer>>
  /\ UNCHANGED <<pool, box, stop, hunt>>

\* engine/scoring.py: points in halves.  A group pays if all its tests passed,
\* by the worst of its ratios.
Passed(rs, t) == t \in DOMAIN rs /\ rs[t].verdict = "OK"
Groups == {GroupOf[t] : t \in Tests} \ {None}
Members(g) == {t \in Tests : GroupOf[t] = g}

GroupScore(rs, g) ==
  IF \A t \in Members(g) : Passed(rs, t)
    THEN MapThenSumSet(LAMBDA t : Points[t], Members(g)) * Min({rs[t].ratio : t \in Members(g)})
    ELSE 0

ScoreTests(rs) ==
  LET paid  == [t \in Tests \cap DOMAIN rs |-> Points[t] * rs[t].ratio]
      score == [g \in Groups |-> GroupScore(rs, g)]
  IN MapThenSumSet(LAMBDA t : paid[t], {t \in Tests : GroupOf[t] = None /\ Passed(rs, t)})
     + MapThenSumSet(LAMBDA g : score[g], Groups)

-----------------------------------------------------------------------------
\* stress/runner.py

\* Candidate, reference, generator and checker are compiled.
CompileAll(r) ==
  /\ pc[r] = "compile" /\ r \in Hunts
  /\ \/ Goto(r, "generate") /\ UNCHANGED answer
     \/ Leave(r, "stage")
  /\ UNCHANGED <<pool, box, stop, results, hunt>>

Generate(r) ==
  /\ pc[r] = "generate"
  /\ \E s \in Endings :
       IF s = "OK"
         THEN /\ hunt' = [hunt EXCEPT ![r].input = hunt[r].seed]
              /\ Goto(r, "refer") /\ UNCHANGED answer
         ELSE Leave(r, "stage") /\ UNCHANGED hunt
  /\ UNCHANGED <<pool, box, stop, results>>

Refer(r) ==
  /\ pc[r] = "refer"
  /\ \E s \in Endings :
       IF s = "OK"
         THEN /\ hunt' = [hunt EXCEPT ![r].expected = hunt[r].seed]
              /\ Goto(r, "candidate") /\ UNCHANGED answer
         ELSE Leave(r, "stage") /\ UNCHANGED hunt
  /\ UNCHANGED <<pool, box, stop, results>>

\* When isolate breaks, the output of an earlier round may still lie there, and
\* the checker is run on it.
Candidate(r) ==
  /\ pc[r] = "candidate"
  /\ \E s \in Endings :
       \/ /\ s = "XX"
          /\ \E old \in {hunt[r].actual, hunt[r].seed} :
               hunt' = [hunt EXCEPT ![r].actual = old, ![r].broke = TRUE]
          /\ Goto(r, "compare") /\ UNCHANGED answer
       \/ /\ s # "XX"
          /\ hunt' = [hunt EXCEPT ![r].actual = hunt[r].seed]
          /\ IF s = "OK" THEN Goto(r, "compare") /\ UNCHANGED answer
                         ELSE Leave(r, "found")
  /\ UNCHANGED <<pool, box, stop, results>>

Compare(r) ==
  /\ pc[r] = "compare"
  /\ \E e \in Exits :
       CASE CheckerVerdict[e] = "XX" -> Leave(r, "stage") /\ UNCHANGED hunt
         [] CheckerVerdict[e] \in Faults -> Leave(r, "found") /\ UNCHANGED hunt
         [] OTHER -> IF hunt[r].seed = Rounds
                       THEN Leave(r, "clean") /\ UNCHANGED hunt
                       ELSE /\ hunt' = [hunt EXCEPT ![r].seed = @ + 1, ![r].broke = FALSE]
                            /\ Goto(r, "generate") /\ UNCHANGED answer
  /\ UNCHANGED <<pool, box, stop, results>>

-----------------------------------------------------------------------------
Judge(r) == Compile(r) \/ BuildChecker(r) \/ RunTest(r)
Stress(r) == CompileAll(r) \/ Generate(r) \/ Refer(r) \/ Candidate(r) \/ Compare(r)
Session(r) == InitBox(r) \/ Judge(r) \/ Stress(r) \/ Cleanup(r)

Next == \E r \in Requests : Lease(r) \/ Session(r) \/ Raise(r)

Spec == Init /\ [][Next]_vars

FairSpec == Spec /\ \A r \in Requests : WF_vars(Lease(r)) /\ WF_vars(Session(r))

-----------------------------------------------------------------------------
\* A box has one holder, and no way out of a session loses one: every box is
\* free once or leased once.  (pool.py: "one holder at a time")
BoxesAreExclusive ==
  /\ \A q, r \in Requests : q # r /\ box[q] # NoBox => box[q] # box[r]
  /\ \A i, j \in DOMAIN free : i # j => free[i] # free[j]
  /\ InFree \cap Held = {} /\ InFree \cup Held = Boxes

\* verdict.py:15: "the judge itself broke; never blamed on the contestant": the
\* failure that decides a contestant's verdict is one of his own program.
NeverBlamed ==
  \A r \in Judged :
    answer[r] \in Faults \ {"CE"} => results[r][Min(Failures(results[r]))].by = "program"

\* Points are paid for whole groups only, in full when every ratio is; the
\* tests skipped after the first failure pay nothing.  (scoring.py)
Earning(rs) == {t \in Tests : \A u \in Tests :
                  u = t \/ (GroupOf[t] # None /\ GroupOf[u] = GroupOf[t]) => Passed(rs, u)}
ScoreIsEarned ==
  \A r \in Judged :
    LET rs == results[r]
        full == 2 * MapThenSumSet(LAMBDA t : Points[t], Earning(rs))
    IN  /\ ScoreTests(rs) <= full
        /\ (\A t \in Earning(rs) : rs[t].ratio = 2) => ScoreTests(rs) = full

\* A counterexample is made of the files of one round, unless isolate broke
\* under the candidate in that round.
ExampleIsOfOneRound ==
  \A r \in Hunts :
    answer[r] = "found" =>
      LET h == hunt[r] IN
      h.input = h.seed /\ h.expected = h.seed /\ (h.actual = h.seed \/ h.broke)

\* Neither a verdict nor points come from the judge's own trouble: a fault is a
\* program's, and points are those of whole groups.  (testing.py, scoring.py)
VerdictIsEarned == NeverBlamed /\ ScoreIsEarned /\ ExampleIsOfOneRound

\* Every request is answered, whatever fails in its session or another's.
EveryRequestIsAnswered == <>(\A r \in Requests : pc[r] = "done")

=============================================================================
